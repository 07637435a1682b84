------------------------------ MODULE Anomaly -------------------------------
(***************************************************************************)
(* Anomaly detection (ramupin-server/src/anomaly): every server sweeps the *)
(* status of the users at intervals, opens an event for everything that is *)
(* wrong with one, tells friends of it, and clears what is over.  One user *)
(* is enough here, for the user's events depend on nobody else's.          *)
(*                                                                         *)
(* Times are ages in units of half an hour, the first stage of a lost      *)
(* signal; ages beyond MaxAge make no difference to the stages given.      *)
(***************************************************************************)
EXTENDS Integers

CONSTANTS
  Sweepers,       \* sweeps under way at one time: of several servers, or of one whose
                  \* timer goes off before its last sweep is through
  SignalStages,   \* ages of the last position that count, ANOMALY_RULES.noSignal
  BatteryStages,  \* times at 0% that count, ANOMALY_RULES.battery
  FixedStages,    \* times at one place that count, for this user
  Levels,         \* battery levels
  LowLevel,       \* lowBatteryPercent of this user
  ClearLevel,     \* the level above which a low battery is over
  OldLevel,       \* noSignalMinBatteryPercent
  MaxAge,         \* bound: ages
  MaxEvents,      \* bound: events of one kind
  MaxChanges      \* bound: positions, half hours, and doings of the user

ASSUME AnomalyAssumption ==
  /\ 0 \in BatteryStages /\ BatteryStages \subseteq Nat
  /\ SignalStages # {} /\ SignalStages \subseteq Nat \ {0}
  /\ FixedStages # {} /\ FixedStages \subseteq Nat \ {0}
  /\ 0 \in Levels /\ Levels \subseteq Nat
  /\ LowLevel \in Nat /\ ClearLevel \in Nat /\ OldLevel \in Nat
  /\ LowLevel < ClearLevel
  /\ MaxAge \in Nat /\ MaxEvents \in Nat /\ MaxChanges \in Nat

VARIABLES
  status,  \* the row of the user in user_status
  watched, \* whether the user is active, and not off the server
  home,    \* whether the user is in a safe zone of their own
  events,  \* events[d]: how many events of that kind there were, is one open?
  sweep,   \* sweep[s]: the sweep s, or the next one in its place
  told,    \* told[s][d]: the last event of that kind s has told friends of (history)
  changes  \* the number of changes the user has been through

anomalyVars == <<status, watched, home, events, sweep, told, changes>>

Never == -1 \* the battery is not at 0%

NoLevel == -1 \* the phone did not report its battery

Track(track, stage) == [track |-> track, stage |-> stage]

\* The stage of a low battery, which has no time.
LowBattery == Track("battery", -1)

Detections ==
  {LowBattery} \cup {Track("battery", a) : a \in BatteryStages}
    \cup {Track(t, a) : t \in {"gps_fixed", "fixed_battery_zero", "fixed_charging"},
                         a \in FixedStages}
    \cup {Track("no_signal", a) : a \in SignalStages}

Snapshots == [age: 0 .. MaxAge, level: Levels \cup {NoLevel}, charging: BOOLEAN, fixed: 0 .. MaxAge,
              zero: -1 .. MaxAge]

\* After the first position.
Fresh(level) == [age |-> 0, level |-> level, charging |-> FALSE, fixed |-> 0,
                 zero |-> IF level = 0 THEN 0 ELSE Never]

\* sees (history): the user was watched when the status was fetched, and what the
\* sweep has read is of this half hour.
Sweeps == [pc: {"idle", "fetch", "tell", "clear"}, open: [Detections -> 0 .. MaxEvents],
           found: SUBSET Detections, keep: SUBSET Detections, sees: BOOLEAN]

Resting == [pc |-> "idle", open |-> [d \in Detections |-> 0], found |-> {}, keep |-> {},
            sees |-> TRUE]

AnomalyInit ==
  /\ \E level \in Levels \cup {NoLevel} : status = Fresh(level)
  /\ watched = TRUE
  /\ home = FALSE
  /\ events = [d \in Detections |-> [count |-> 0, open |-> FALSE]]
  /\ sweep = [s \in Sweepers |-> Resting]
  /\ told = [s \in Sweepers |-> [d \in Detections |-> 0]]
  /\ changes = 0

----------------------------------------------------------------------------
(* The rules.                                                              *)

\* stageFor: the last stage that is reached, as a set of at most one.
StageFor(stages, age) == {a \in stages : a <= age /\ \A b \in stages : b <= age => b <= a}

Tracks(track, stages) == {Track(track, a) : a \in stages}

\* Mutation: a phone that goes silent with an old battery is taken for one that
\* is switched off, and nothing is said.
SilentForgotten(st) ==
  IF st.level >= OldLevel THEN Tracks("no_signal", StageFor(SignalStages, st.age)) ELSE {}

\* The signal is lost: that is the battery's doing when it was low.
Silent(st) ==
  IF st.level >= OldLevel THEN Tracks("no_signal", StageFor(SignalStages, st.age))
  ELSE Tracks("battery", StageFor(BatteryStages, st.age))

\* The signal is there: at one place for long, at 0% for long, or both.
Alive(st) ==
  LET fixed == StageFor(FixedStages, st.fixed)
      zero == IF st.zero = Never THEN {} ELSE StageFor(BatteryStages, st.zero)
      stuck == IF zero # {} THEN Tracks("fixed_battery_zero", fixed)
               ELSE IF st.charging /\ st.level = 100 THEN Tracks("fixed_charging", fixed)
               ELSE Tracks("gps_fixed", fixed)
      empty == IF fixed = {} THEN Tracks("battery", zero) ELSE {}
      low == IF zero = {} /\ st.level \in 1 .. LowLevel THEN {LowBattery} ELSE {}
  IN stuck \cup empty \cup low

Lost(st) == StageFor(SignalStages, st.age) # {}

\* detect.
Detect(st) == IF Lost(st) THEN Silent(st) ELSE Alive(st)

\* Staying in a safe zone of one's own is nothing wrong.
Wrong(st, athome) ==
  {d \in Detect(st) : ~(athome /\ d.track \in {"gps_fixed", "fixed_charging"})}

\* listStatusesToCheck: only statuses that may be wrong are fetched, a little
\* early, and those of users with an open event.
Fetched(st, open) ==
  \/ \E d \in Detections : open[d] # 0
  \/ \E a \in SignalStages : st.age + 1 > a
  \/ \E a \in FixedStages : st.fixed + 1 > a
  \/ st.zero # Never
  \/ st.level \in 0 .. LowLevel

----------------------------------------------------------------------------
(* The user.                                                               *)

Changed == changes < MaxChanges /\ changes' = changes + 1

\* A position is saved: the phone is where it was, or has moved.
Reports(level, charging, moved) ==
  /\ status' = [age |-> 0, level |-> level, charging |-> charging,
                fixed |-> IF moved THEN 0 ELSE status.fixed,
                zero |-> IF level # 0 THEN Never
                         ELSE IF status.zero = Never THEN 0 ELSE status.zero]
  /\ Changed
  /\ UNCHANGED <<watched, home, events, sweep, told>>

Older(age) == IF age = Never \/ age = MaxAge THEN age ELSE age + 1

\* What the sweep w goes by is not so any more.
Misled(w) == IF w.pc = "idle" THEN w ELSE [w EXCEPT !.sees = FALSE]

\* Half an hour passes, and a sweep may be at any of its statements.
Tick ==
  /\ status' = [status EXCEPT !.age = Older(@), !.fixed = Older(@), !.zero = Older(@)]
  /\ sweep' = [s \in Sweepers |-> Misled(sweep[s])]
  /\ Changed
  /\ UNCHANGED <<watched, home, events, told>>

\* The user comes home or leaves, goes off the server, is suspended, returns.
Settles ==
  /\ \/ home' = ~home /\ UNCHANGED watched
     \/ watched' = ~watched /\ UNCHANGED home
  /\ Changed
  /\ UNCHANGED <<status, events, sweep, told>>

----------------------------------------------------------------------------
(* A sweep.                                                                *)

OpenNow == [d \in Detections |-> IF events[d].open THEN events[d].count ELSE 0]

\* The timer goes off, whatever else is under way (anomaly.module.ts), and the open
\* events are read first.
ReadOpen(s) ==
  /\ sweep[s].pc = "idle"
  /\ sweep' = [sweep EXCEPT ![s] = [Resting EXCEPT !.pc = "fetch", !.open = OpenNow]]
  /\ UNCHANGED <<status, watched, home, events, told, changes>>

\* Mutation: what is open already is not left out.
NewOfAll(found, open) == found

\* What is found and was not open yet.
NewOf(found, open) == {d \in found : open[d] = 0}

\* A low battery stays one until it is well charged.
Kept(st, open) == IF open[LowBattery] # 0 /\ st.level \in 0 .. ClearLevel THEN {LowBattery} ELSE {}

\* Then the status, and what is wrong with it.  Who is not watched is looked at
\* for the events to be cleared only.
Fetch(s) ==
  LET open == sweep[s].open
      found == IF watched THEN Wrong(status, home) ELSE {}
  IN /\ sweep[s].pc = "fetch"
     /\ sweep' = [sweep EXCEPT ![s] =
                    IF Fetched(status, open)
                    THEN [pc |-> "tell", open |-> open, sees |-> sweep[s].sees /\ watched,
                          found |-> NewOf(found, open),
                          keep |-> found \cup (IF watched THEN Kept(status, open) ELSE {})]
                    ELSE Resting]
     /\ UNCHANGED <<status, watched, home, events, told, changes>>

\* One event is opened, unless it is open by now (a unique index).
Opened(d) ==
  /\ events[d].open \/ events[d].count < MaxEvents
  /\ events' = [events EXCEPT ![d] =
                  [count |-> IF @.open THEN @.count ELSE @.count + 1, open |-> TRUE]]

\* Friends are told of it, whoever has opened it.
Tell(s, d) ==
  /\ sweep[s].pc = "tell"
  /\ d \in sweep[s].found
  /\ Opened(d)
  /\ told' = [told EXCEPT ![s][d] = events'[d].count]
  /\ sweep' = [sweep EXCEPT ![s].found = @ \ {d}]
  /\ UNCHANGED <<status, watched, home, changes>>

\* The server dies, or cannot read who the friends are, with the event opened: the
\* next sweep finds it open and tells nobody.
OpenFails(s, d) ==
  /\ sweep[s].pc = "tell"
  /\ d \in sweep[s].found
  /\ Opened(d)
  /\ sweep' = [sweep EXCEPT ![s] = Resting]
  /\ UNCHANGED <<status, watched, home, told, changes>>

AllTold(s) ==
  /\ sweep[s].pc = "tell"
  /\ sweep[s].found = {}
  /\ sweep' = [sweep EXCEPT ![s].pc = "clear"]
  /\ UNCHANGED <<status, watched, home, events, told, changes>>

\* The events read at first that do not apply any more are cleared.  What others
\* have read is gone when the sweep did not see how things are.
Clear(s) ==
  LET over(d) == sweep[s].open[d] = events[d].count /\ d \notin sweep[s].keep IN
  /\ sweep[s].pc = "clear"
  /\ events' = [d \in Detections |-> IF events[d].open /\ over(d)
                                     THEN [events[d] EXCEPT !.open = FALSE] ELSE events[d]]
  /\ sweep' = [t \in Sweepers |->
                 IF t = s THEN Resting
                 ELSE IF sweep[s].sees \/ events' = events THEN sweep[t] ELSE Misled(sweep[t])]
  /\ UNCHANGED <<status, watched, home, told, changes>>

\* A statement fails: the next interval brings another sweep.
SweepFails(s) ==
  /\ sweep[s].pc # "idle"
  /\ sweep' = [sweep EXCEPT ![s] = Resting]
  /\ UNCHANGED <<status, watched, home, events, told, changes>>

AnomalyNext ==
  \/ \E level \in Levels \cup {NoLevel}, charging, moved \in BOOLEAN : Reports(level, charging, moved)
  \/ Tick
  \/ Settles
  \/ \E s \in Sweepers :
       \/ ReadOpen(s) \/ Fetch(s) \/ AllTold(s) \/ Clear(s) \/ SweepFails(s)
       \/ \E d \in Detections : Tell(s, d) \/ OpenFails(s, d)

AnomalySpec == AnomalyInit /\ [][AnomalyNext]_anomalyVars

----------------------------------------------------------------------------
(* Properties.                                                             *)

AnomalyTypeOK ==
  /\ status \in Snapshots
  /\ watched \in BOOLEAN /\ home \in BOOLEAN
  /\ events \in [Detections -> [count: 0 .. MaxEvents, open: BOOLEAN]]
  /\ sweep \in [Sweepers -> Sweeps]
  /\ told \in [Sweepers -> [Detections -> 0 .. MaxEvents]]
  /\ changes \in 0 .. MaxChanges

\* Of one event friends hear no more than once from each of the sweeps that were
\* under way at one time, so once unless sweeps overlap (the module says so itself);
\* and while the signal of a watched user is lost, the user does not vanish from the
\* list of open events, however the stages change and sweeps overlap, unless a sweep
\* clears by what it read in an earlier half hour, or after one that did.
ToldOnceAndListed ==
  [][/\ \A s \in Sweepers, d \in Detections :
          d \in sweep[s].found /\ d \notin sweep'[s].found /\ sweep'[s].pc = "tell" =>
            told[s][d] # told'[s][d]
     /\ Lost(status) /\ (\E d \in Detections : events[d].open)
          /\ (\A s \in Sweepers :
                sweep[s].pc = "clear" /\ sweep'[s].pc # "clear" => sweep[s].sees) =>
            \E d \in Detections : events'[d].open]_anomalyVars
=============================================================================
