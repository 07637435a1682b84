------------------------------- MODULE Zones --------------------------------
(***************************************************************************)
(* Safe zones (ramupin-server/src/safe-zones): has somebody arrived at a   *)
(* place or left it?  One person with a place of their own, which is also  *)
(* somebody else's place watched for this person: two rows, judged one     *)
(* after the other for the newest position of every batch that has been    *)
(* saved.  The location workers of several servers judge at the same time, *)
(* and a batch that is delivered again is judged again.                    *)
(***************************************************************************)
EXTENDS Naturals

CONSTANTS
  ZoneWorkers, \* location workers, one on each server
  Dwell,       \* DWELL_MS in units of time
  MaxTime      \* bound: positions measured, one at each time

ASSUME ZoneAssumption ==
  /\ Dwell \in Nat
  /\ MaxTime \in Nat

VARIABLES
  seen,    \* seen[t]: where the position measured at t lies
  zone,    \* zone[r]: the row of the place, and that of its watcher
  judge,   \* judge[w]: what the worker w is doing
  orderly, \* whether positions have been judged one after the other so far (history)
  judged   \* judged[r]: the positions the row r was judged for while it was so (history)

zoneVars == <<seen, zone, judge, orderly, judged>>

Times == 1 .. MaxTime

ZoneRows == {"own", "watched"}

\* In the radius, beyond it but not beyond the exit margin, further out; or
\* measured too inexactly to say.
Places == {"in", "margin", "out", "blurred"}

Kinds == {"enter", "leave"}

\* since is kept when kind is "none": it is not read then.
Row(inside, kind, since) == [inside |-> inside, kind |-> kind, since |-> since]

RowStates == [inside: {"in", "out", "unknown"}, kind: Kinds \cup {"none"}, since: 0 .. MaxTime]

Away == Row("out", "none", 0)
Unknown == Row("unknown", "none", 0)

\* The person a watcher has just named: not known to be in or out.
Watching(r) == IF r = "own" THEN Away ELSE Unknown

Judges == [pc: {"idle", "read", "act", "record"}, t: 0 .. MaxTime, r: ZoneRows, row: RowStates]

NoJudge == [pc |-> "idle", t |-> 0, r |-> "own", row |-> Away]

ZoneInit ==
  /\ seen = [t \in Times |-> "unmeasured"]
  /\ zone = [r \in ZoneRows |-> Watching(r)]
  /\ judge = [w \in ZoneWorkers |-> NoJudge]
  /\ orderly = TRUE
  /\ judged = [r \in ZoneRows |-> {}]

----------------------------------------------------------------------------
(* The rules.                                                              *)

\* judgeCrossing: what the row and the position together look like.
Crossing(inside, place) ==
  CASE inside = "out" /\ place = "in" -> "enter"
    [] inside = "in" /\ place = "out" -> "leave"
    [] OTHER -> "none"

\* Mutation: a crossing that was taken back goes on waiting.
SettleStubborn(row, candidate, t) ==
  IF candidate = "none" THEN "none"
  ELSE IF row.kind # candidate THEN "pend"
  ELSE IF t < row.since + Dwell THEN "none" ELSE "confirm"

\* settleCrossing: a crossing is confirmed when it has lasted for Dwell.
Settle(row, candidate, t) ==
  IF candidate = "none" THEN IF row.kind = "none" THEN "none" ELSE "clear"
  ELSE IF row.kind # candidate THEN "pend"
  ELSE IF t < row.since + Dwell THEN "none" ELSE "confirm"

Outcome(w) == LET j == judge[w] IN Settle(j.row, Crossing(j.row.inside, seen[j.t]), j.t)

----------------------------------------------------------------------------
(* Workers.                                                                *)

\* The next position is measured.
Measured(place) ==
  /\ \E t \in Times :
       /\ seen[t] = "unmeasured"
       /\ \A s \in 1 .. t - 1 : seen[s] # "unmeasured"
       /\ seen' = [seen EXCEPT ![t] = place]
  /\ UNCHANGED <<zone, judge, orderly, judged>>

\* A batch whose newest position is that of t is saved, perhaps once more.
Judge(w, t) ==
  /\ judge[w].pc = "idle"
  /\ seen[t] # "unmeasured"
  /\ judge' = [judge EXCEPT ![w] = [NoJudge EXCEPT !.pc = "read", !.t = t]]
  /\ orderly' = (/\ orderly
                 /\ \A r \in ZoneRows : \A s \in judged[r] : s < t
                 /\ \A v \in ZoneWorkers : judge[v].pc = "idle")
  /\ judged' = IF orderly' THEN judged ELSE [r \in ZoneRows |-> {}]
  /\ UNCHANGED <<seen, zone>>

\* The place is looked at, then its watcher's row.
Proceed(w) ==
  judge' = [judge EXCEPT ![w] =
              IF judge[w].r = "own"
              THEN [NoJudge EXCEPT !.pc = "read", !.t = judge[w].t, !.r = "watched"]
              ELSE NoJudge]

ReadRow(w) ==
  LET j == judge[w] IN
  /\ j.pc = "read"
  /\ judge' = [judge EXCEPT ![w].pc = "act", ![w].row = zone[j.r]]
  /\ judged' = IF orderly THEN [judged EXCEPT ![j.r] = @ \cup {j.t}] ELSE judged
  /\ UNCHANGED <<seen, zone, orderly>>

\* Somebody who hides is not judged for the places of others.
Hidden(w) ==
  /\ judge[w].pc = "read" /\ judge[w].r = "watched"
  /\ judge' = [judge EXCEPT ![w] = NoJudge]
  /\ UNCHANGED <<seen, zone, orderly, judged>>

\* Mutation: the row is changed whatever has become of it.
SameById(r, row) == TRUE

\* The update asks for the row as it was read (pending_since is not compared).
Same(r, row) == zone[r].inside = row.inside /\ zone[r].kind = row.kind

\* Nothing is known of the person yet: where they are is noted in silence.
FirstSight(w) ==
  LET j == judge[w] IN
  /\ j.pc = "act" /\ j.row.inside = "unknown"
  /\ zone' = IF seen[j.t] = "blurred" \/ zone[j.r].inside # "unknown" THEN zone
             ELSE [zone EXCEPT ![j.r].inside = IF seen[j.t] = "in" THEN "in" ELSE "out"]
  /\ Proceed(w)
  /\ UNCHANGED <<seen, orderly, judged>>

\* A crossing begins to wait, or is taken back, or nothing happens.
Wait(w) ==
  LET j == judge[w]
      candidate == Crossing(j.row.inside, seen[j.t])
      next == [none |-> zone[j.r], pend |-> Row(j.row.inside, candidate, j.t),
               clear |-> Row(j.row.inside, "none", 0)]
  IN /\ j.pc = "act" /\ j.row.inside # "unknown"
     /\ Outcome(w) # "confirm"
     /\ zone' = IF Same(j.r, j.row) THEN [zone EXCEPT ![j.r] = next[Outcome(w)]] ELSE zone
     /\ Proceed(w)
     /\ UNCHANGED <<seen, orderly, judged>>

\* A crossing is confirmed: by the worker whose update finds the row.
Confirm(w) ==
  LET j == judge[w] IN
  /\ j.pc = "act" /\ j.row.inside # "unknown"
  /\ Outcome(w) = "confirm"
  /\ IF Same(j.r, j.row)
     THEN /\ zone' = [zone EXCEPT ![j.r] =
                        Row(IF seen[j.t] = "in" THEN "in" ELSE "out", "none", 0)]
          /\ judge' = [judge EXCEPT ![w].pc = "record"]
     ELSE /\ Proceed(w)
          /\ UNCHANGED zone
  /\ UNCHANGED <<seen, orderly, judged>>

\* Then it is recorded, and friends are told of it.
Record(w) ==
  /\ judge[w].pc = "record"
  /\ Proceed(w)
  /\ UNCHANGED <<seen, zone, orderly, judged>>

\* A statement fails, which check swallows, or the server dies.
JudgeFails(w) ==
  /\ judge[w].pc # "idle"
  /\ judge' = [judge EXCEPT ![w] = NoJudge]
  /\ orderly' = FALSE
  /\ judged' = [r \in ZoneRows |-> {}]
  /\ UNCHANGED <<seen, zone>>

\* The watcher takes the person off the place and names them again.
Rename(r) ==
  /\ r = "watched"
  /\ zone' = [zone EXCEPT ![r] = Watching(r)]
  /\ UNCHANGED <<seen, judge, orderly, judged>>

ZoneNext ==
  \/ \E place \in Places : Measured(place)
  \/ \E w \in ZoneWorkers :
       \/ \E t \in Times : Judge(w, t)
       \/ ReadRow(w) \/ Hidden(w) \/ FirstSight(w) \/ Wait(w) \/ Confirm(w)
       \/ Record(w) \/ JudgeFails(w)
  \/ \E r \in ZoneRows : Rename(r)

ZoneSpec == ZoneInit /\ [][ZoneNext]_zoneVars

----------------------------------------------------------------------------
(* Properties.                                                             *)

ZoneTypeOK ==
  /\ seen \in [Times -> Places \cup {"unmeasured"}]
  /\ zone \in [ZoneRows -> RowStates]
  /\ judge \in [ZoneWorkers -> Judges]
  /\ orderly \in BOOLEAN
  /\ judged \in [ZoneRows -> SUBSET Times]

\* One crossing is told once: the worker that goes on to record it and to tell
\* friends has itself taken the row across, however many workers judge the same
\* position, and whatever the watcher changes meanwhile.  And nobody is told of
\* somebody passing by: as long as positions are judged one after the other, a
\* crossing is confirmed only when all of them, as far as the place was looked
\* at, have been on the other side for the length of Dwell.
RealCrossingsToldOnce ==
  [][\A w \in ZoneWorkers : judge[w].pc # "record" /\ judge'[w].pc = "record" =>
       /\ zone'[judge[w].r].inside # zone[judge[w].r].inside
       /\ orderly =>
            \A t \in judged[judge[w].r] :
              t + Dwell >= judge[w].t => seen[t] = seen[judge[w].t]]_zoneVars
=============================================================================
