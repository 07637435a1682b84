--------------------------- MODULE ScheduledProofs ---------------------------
(***************************************************************************)
(* Proofs about Scheduled, for any number of messages, servers and any     *)
(* length of a day: a message to be sent once goes out at most once, what  *)
(* goes out is what the list shows, a server ends with the message it had  *)
(* committed when the friend was removed, and a daily one keeps its hour.  *)
(***************************************************************************)
EXTENDS Scheduled, TLAPS

\* A server in its transaction holds the row as it read it.
LockedAsRead ==
  \A s \in Servers : srv[s].pc = "locked" =>
    /\ row[srv[s].m].state = "waiting"
    /\ row[srv[s].m].daily = srv[s].daily
    /\ row[srv[s].m].text = srv[s].text

\* Nothing of a message that waits to be sent once has gone out yet.
UnsentWaits ==
  \A m \in Messages : (~row[m].daily /\ row[m].state # "sent") =>
    \A t \in Times : sends[m][t] = 0

\* Rows not in the table are blank.
BlankRows == \A m \in Messages : row[m].state \in {"unused", "deleted"} => ~row[m].daily

IInv == TypeOK /\ LockedAsRead /\ UnsentWaits /\ BlankRows /\ OneShotOnce /\ SentAsListed

----------------------------------------------------------------------------
(* The daily rule.                                                         *)

\* A day that is over is counted, one that is not is not.
LEMMA DaysOver ==
  ASSUME NEW x \in Nat, NEW d \in Nat \ {0}
  PROVE  /\ x \div d \in Nat
         /\ (x \div d) * d <= x
         /\ x < (x \div d + 1) * d
  BY SMTT(30)

\* nextOccurrence of a daily message lies after now, and no more than a day.
LEMMA NextIsSoon ==
  ASSUME NEW at \in Nat, NEW now \in Nat, at <= now
  PROVE  /\ nextOccurrence(at, TRUE, now) \in Nat
         /\ nextOccurrence(at, TRUE, now) > now
         /\ nextOccurrence(at, TRUE, now) <= now + Day
<1> DEFINE x == now - at
           k == x \div Day
           p == (k + 1) * Day
<1>1. x \in Nat /\ Day \in Nat \ {0}
  BY ScheduledAssumption
<1>2. k \in Nat /\ k * Day <= x /\ x < p
  BY <1>1, DaysOver
<1>3. nextOccurrence(at, TRUE, now) = at + p
  BY DEF nextOccurrence
<1>4. p \in Nat /\ p <= x + Day
  <2> HIDE DEF x, k
  <2>1. k * Day \in Nat /\ p = k * Day + Day
    BY <1>1, <1>2
  <2> QED
    BY <1>1, <1>2, <2>1
<1> HIDE DEF p, k
<1>5. at + p \in Nat /\ at + p > now /\ at + p <= now + Day
  BY <1>1, <1>2, <1>4
<1> QED
  BY <1>3, <1>5, Zenon

\* A whole number of days later it is the same hour.
LEMMA SameHour ==
  ASSUME NEW x \in Nat, NEW k \in Nat, NEW d \in Nat \ {0}
  PROVE  (x + k * d) % d = x % d
<1> DEFINE y == x + k * d
           q == x \div d
           r == x % d
           p == y \div d
           u == y % d
<1>1. k * d \in Nat /\ y \in Nat
  BY SMTT(30)
<1>2. q \in Nat /\ r \in 0 .. d - 1 /\ x = q * d + r
  BY SMTT(30)
<1>3. p \in Nat /\ u \in 0 .. d - 1 /\ y = p * d + u
  <2> HIDE DEF y
  <2> QED
    BY <1>1, SMTT(30) DEF p, u
<1>4. q * d + r + k * d = p * d + u
  BY <1>2, <1>3
<1> HIDE DEF q, r, p, u, y
<1>5. q * d + k * d = (q + k) * d /\ (q + k) * d \in Nat /\ p * d \in Nat /\ q * d \in Nat
  BY <1>2, <1>3, SMTT(30)
<1>6. ASSUME NEW a \in Nat, NEW b \in Nat, a < b PROVE a * d + d <= b * d
  <2>1. b - (a + 1) \in Nat /\ b = (a + 1) + (b - (a + 1))
    BY <1>6
  <2>2. (b - (a + 1)) * d \in Nat
    BY <2>1, SMTT(30)
  <2>3. b * d = (a + 1) * d + (b - (a + 1)) * d
    BY <2>1, SMTT(30)
  <2>4. (a + 1) * d = a * d + d /\ a * d \in Nat
    BY SMTT(30)
  <2> QED
    BY <2>2, <2>3, <2>4
<1>7. ~(p < q + k) /\ ~(q + k < p)
  <2>1. CASE p < q + k
    <3>1. p * d + d <= (q + k) * d
      BY <1>2, <1>3, <1>6, <2>1
    <3> QED
      BY <1>1, <1>2, <1>3, <1>4, <1>5, <3>1
  <2>2. CASE q + k < p
    <3>1. (q + k) * d + d <= p * d
      BY <1>2, <1>3, <1>6, <2>2
    <3> QED
      BY <1>1, <1>2, <1>3, <1>4, <1>5, <3>1
  <2> QED
    BY <2>1, <2>2
<1>8. p = q + k
  BY <1>2, <1>3, <1>7
<1>9. r = u
  BY <1>1, <1>2, <1>3, <1>4, <1>5, <1>8
<1> QED
  BY <1>9 DEF r, u, y

\* It is a time the model knows.
LEMMA NextType ==
  ASSUME NEW at \in Times, NEW daily \in BOOLEAN, NEW now \in 0 .. MaxTime
  PROVE  nextOccurrence(at, daily, now) \in Times
<1>1. at \in Nat /\ now \in Nat /\ Day \in Nat /\ MaxTime \in Nat
  BY ScheduledAssumption DEF Times
<1>2. CASE ~daily \/ at > now
  BY <1>2 DEF nextOccurrence
<1>3. CASE daily /\ at <= now
  <2>1. nextOccurrence(at, TRUE, now) \in Nat /\ nextOccurrence(at, TRUE, now) <= now + Day
    BY <1>1, <1>3, NextIsSoon
  <2>2. daily = TRUE
    BY <1>3
  <2>3. \A n \in Nat : n <= now + Day => n \in Times
    BY <1>1 DEF Times
  <2> QED
    BY <2>1, <2>2, <2>3, Zenon
<1> QED
  BY <1>1, <1>2, <1>3

----------------------------------------------------------------------------
(* Types.                                                                  *)

LEMMA BlankType == \A st \in {"unused", "deleted"} : Blank(st) \in Rows
  BY ScheduledAssumption DEF Blank, Rows, Times, Texts

LEMMA IdleType == Idle \in Runs /\ Idle.pc = "idle"
<1>1. (CHOOSE m \in Messages : TRUE) \in Messages
  BY ScheduledAssumption
<1> QED
  BY <1>1, ScheduledAssumption DEF Idle, Runs, Times, Texts

LEMMA ZeroType == [t \in Times |-> 0] \in [Times -> Nat]
  OBVIOUS

\* At the start the types hold.
LEMMA InitType == Init => TypeOK
  BY BlankType, IdleType, ZeroType, ScheduledAssumption DEF Init, TypeOK

\* The variables of the user's side.
RowsType ==
  /\ row \in [Messages -> Rows]
  /\ friends \in BOOLEAN
  /\ checked \subseteq Messages
  /\ sends \in [Messages -> [Times -> Nat]]

\* Those of the servers.
RunsType ==
  /\ lock \in [Messages -> Servers \cup {NoServer}]
  /\ srv \in [Servers -> Runs]
  /\ \A m \in Messages, s \in Servers :
       lock[m] = s <=> (srv[s].pc = "locked" /\ srv[s].m = m)

LEMMA TypeParts ==
  TypeOK <=> /\ RowsType /\ RunsType
             /\ clock \in 0 .. MaxTime /\ crashes \in 0 .. MaxCrashes
             /\ late \in [Servers -> Nat]
  BY DEF TypeOK, RowsType, RunsType

\* The user's steps keep the types.
LEMMA UserKeepsType == ASSUME TypeOK, UserNext PROVE RowsType'
<1>0. /\ RowsType
      /\ clock \in 0 .. MaxTime
      /\ 0 .. MaxTime \subseteq Times
      /\ [t \in Times |-> 0] \in [Times -> Nat]
      /\ Blank("deleted") \in Rows
      /\ 1 \in Texts
  BY TypeParts, ZeroType, BlankType, ScheduledAssumption DEF Times, Texts
<1>1. ASSUME NEW m \in Messages, AssertFriend(m) PROVE RowsType'
  BY <1>0, <1>1 DEF AssertFriend, RowsType
<1>2. ASSUME NEW m \in Messages, NEW at \in Whens, NEW daily \in BOOLEAN, Create(m, at, daily)
      PROVE  RowsType'
  <2>1. nextOccurrence(at, daily, clock) \in Times
    BY <1>0, NextType, ScheduledAssumption
  <2> DEFINE h == [state |-> "waiting", at |-> nextOccurrence(at, daily, clock),
                   daily |-> daily, text |-> 1]
  <2>2. h \in Rows
    BY <1>0, <2>1 DEF Rows
  <2>3. row' = [row EXCEPT ![m] = h] /\ UNCHANGED <<friends, sends>> /\ checked' \subseteq checked
    BY <1>2 DEF Create
  <2> HIDE DEF h
  <2> QED
    BY <1>0, <2>2, <2>3 DEF RowsType
<1>3. ASSUME NEW m \in Messages, NEW at \in Whens, NEW daily \in BOOLEAN, Update(m, at, daily)
      PROVE  RowsType'
  <2>1. nextOccurrence(at, daily, clock) \in Times
    BY <1>0, NextType, ScheduledAssumption
  <2>2. CASE ~Editable(m)
    BY <1>0, <1>3, <2>2 DEF Update, RowsType
  <2>3. CASE Editable(m)
    <3> DEFINE h == [state |-> row[m].state, at |-> nextOccurrence(at, daily, clock),
                     daily |-> daily, text |-> row[m].text + 1]
    <3>1. row[m] \in Rows /\ row[m].text + 1 \in Texts
      BY <1>0, <1>3, <2>3, ScheduledAssumption DEF Update, RowsType, Rows, Texts
    <3>2. h \in Rows
      BY <2>1, <3>1 DEF Rows
    <3>3. row' = [row EXCEPT ![m] = h]
      BY <1>0, <1>3, <2>3, <3>1 DEF Update, RowsType, Rows
    <3>4. /\ sends' = [sends EXCEPT ![m] = [t \in Times |-> 0]]
          /\ friends' = friends /\ checked' \subseteq checked
      BY <1>3, <2>3 DEF Update
    <3> HIDE DEF h
    <3> QED
      BY <1>0, <3>2, <3>3, <3>4 DEF RowsType
  <2> QED
    BY <2>2, <2>3
<1>4. ASSUME NEW m \in Messages, Remove(m) PROVE RowsType'
  BY <1>0, <1>4 DEF Remove, RowsType, user
<1>5. CASE RemoveFriend
  BY <1>0, <1>5 DEF RemoveFriend, RowsType
<1> QED
  BY <1>1, <1>2, <1>3, <1>4, <1>5 DEF UserNext

\* A settled row is a row.
LEMMA MarkType ==
  ASSUME TypeOK, NEW s \in Servers
  PROVE  Mark(s) \in Rows
<1> DEFINE m == srv[s].m
           at == nextOccurrence(row[m].at, TRUE, srv[s].now)
<1>1. m \in Messages /\ srv[s].now \in 0 .. MaxTime /\ row[m] \in Rows
  BY TypeParts DEF RowsType, RunsType, Runs
<1>2. at \in Times
  BY <1>1, NextType DEF Rows
<1> HIDE DEF at
<1>3. [row[m] EXCEPT !.at = at] \in Rows /\ [row[m] EXCEPT !.state = "sent"] \in Rows
  BY <1>1, <1>2 DEF Rows
<1> QED
  BY <1>3 DEF Mark, at

\* A server that changes its own run, and no lock, keeps the types.
LEMMA RunType ==
  ASSUME RunsType, NEW s \in Servers, NEW h \in Runs, srv[s].pc # "locked", h.pc # "locked",
         srv' = [srv EXCEPT ![s] = h], UNCHANGED lock
  PROVE  RunsType'
  BY DEF RunsType

\* The steps of a run keep the types.
LEMMA StepKeepsType == ASSUME TypeOK, NEW s \in Servers, Step(s) PROVE RowsType' /\ RunsType'
<1>0. /\ RowsType /\ RunsType
      /\ clock \in 0 .. MaxTime /\ 0 \in 0 .. MaxTime
      /\ Idle \in Runs /\ Idle.pc = "idle"
      /\ srv[s] \in Runs
  BY TypeParts, IdleType, ScheduledAssumption DEF RunsType
<1>1. ASSUME UNCHANGED <<row, friends, checked, sends>> PROVE RowsType'
  BY <1>0, <1>1 DEF RowsType
<1>2. ASSUME NEW now \in 0 .. MaxTime, NEW todo \in SUBSET Messages
      PROVE  /\ [Idle EXCEPT !.pc = "loop", !.now = now, !.todo = todo] \in Runs
             /\ [Idle EXCEPT !.pc = "loop", !.now = now, !.todo = todo].pc = "loop"
  BY <1>0 DEF Runs
<1>3. CASE StartRun(s)
  <2>1. PICK todo \in SUBSET Messages :
          srv' = [srv EXCEPT ![s] = [Idle EXCEPT !.pc = "loop", !.now = clock, !.todo = todo]]
    BY <1>3 DEF StartRun, Due
  <2> QED
    BY <1>0, <1>1, <1>2, <1>3, <2>1, RunType DEF StartRun, user
<1>4. CASE EndRun(s)
  BY <1>0, <1>1, <1>4, RunType DEF EndRun, user
<1>5. ASSUME NEW m \in Messages, Take(s, m), Takeable(m) PROVE RowsType' /\ RunsType'
  <2> DEFINE h == [pc |-> "locked", now |-> srv[s].now, todo |-> srv[s].todo \ {m}, m |-> m,
                   text |-> row[m].text, daily |-> row[m].daily]
  <2>1. h \in Runs
    BY <1>0 DEF RowsType, Rows, Runs
  <2>2. srv' = [srv EXCEPT ![s] = h]
    BY <1>0, <1>5 DEF Take, Runs, RunsType
  <2>3. srv[s].pc = "loop" /\ lock[m] = NoServer /\ lock' = [lock EXCEPT ![m] = s]
    BY <1>5 DEF Take, Takeable
  <2>4. h.pc = "locked" /\ h.m = m /\ NoServer \notin Servers
    BY ScheduledAssumption
  <2>5. RowsType'
    BY <1>1, <1>5 DEF Take, user
  <2> HIDE DEF h
  <2> QED
    BY <1>0, <2>1, <2>2, <2>3, <2>4, <2>5 DEF RunsType
<1>6. ASSUME NEW m \in Messages, Take(s, m), ~Takeable(m) PROVE RowsType' /\ RunsType'
  <2> DEFINE h == [srv[s] EXCEPT !.todo = srv[s].todo \ {m}]
  <2>1. h \in Runs /\ h.pc = srv[s].pc
    BY <1>0 DEF Runs
  <2>2. srv' = [srv EXCEPT ![s] = h] /\ UNCHANGED lock /\ srv[s].pc = "loop"
    BY <1>0, <1>6 DEF Take, Runs, RunsType
  <2>3. RowsType'
    BY <1>1, <1>6 DEF Take, user
  <2> HIDE DEF h
  <2> QED
    BY <1>0, <2>1, <2>2, <2>3, RunType
<1>7. CASE Settle(s)
  <2> DEFINE m == srv[s].m
             g == IF WorthSending(s) THEN [srv[s] EXCEPT !.pc = "push"]
                  ELSE [Idle EXCEPT !.pc = "loop", !.now = srv[s].now, !.todo = srv[s].todo]
  <2>1. m \in Messages /\ Mark(s) \in Rows /\ srv[s].pc = "locked"
    BY <1>0, <1>7, MarkType DEF Runs, Settle
  <2>2. g \in Runs /\ g.pc # "locked"
    BY <1>0, <1>2 DEF Runs
  <2>3. /\ srv' = [srv EXCEPT ![s] = g]
        /\ lock' = [lock EXCEPT ![m] = NoServer]
    BY <1>0, <1>7 DEF Settle, NextInList, RunsType
  <2>4. row' = [row EXCEPT ![m] = Mark(s)] /\ UNCHANGED <<friends, checked>>
    BY <1>7 DEF Settle, user
  <2>5. sends' \in [Messages -> [Times -> Nat]]
    <3>1. row[m].at \in Times
      BY <1>0, <2>1 DEF RowsType, Rows
    <3> DEFINE f == [sends[m] EXCEPT ![row[m].at] = sends[m][row[m].at] + 1]
    <3>2. sends[m] \in [Times -> Nat] /\ sends \in [Messages -> [Times -> Nat]]
      BY <1>0, <2>1 DEF RowsType
    <3>3. f \in [Times -> Nat]
      BY <3>1, <3>2
    <3>4. sends' = sends \/ sends' = [sends EXCEPT ![m] = f]
      BY <1>7, <2>1, <3>2 DEF Settle
    <3> HIDE DEF f
    <3> QED
      BY <2>1, <3>2, <3>3, <3>4
  <2>6. RowsType'
    BY <1>0, <2>1, <2>4, <2>5 DEF RowsType
  <2>7. lock[m] = s /\ NoServer \notin Servers
    BY <1>0, <2>1, ScheduledAssumption DEF RunsType
  <2> HIDE DEF g
  <2> QED
    BY <1>0, <2>1, <2>2, <2>3, <2>6, <2>7 DEF RunsType
<1>8. CASE Push(s)
  <2>1. srv[s].now \in 0 .. MaxTime /\ srv[s].todo \in SUBSET Messages
    BY <1>0 DEF Runs
  <2> QED
    BY <1>0, <1>1, <1>2, <1>8, <2>1, RunType DEF Push, NextInList, user
<1> QED
  BY <1>3, <1>4, <1>5, <1>6, <1>7, <1>8 DEF Step

\* So does the death of a server.
LEMMA CrashKeepsType ==
  ASSUME TypeOK, NEW s \in Servers, Crash(s)
  PROVE  RunsType'
<1>0. RunsType /\ Idle \in Runs /\ Idle.pc = "idle" /\ NoServer \notin Servers
  BY TypeParts, IdleType, ScheduledAssumption
<1>1. /\ srv' = [srv EXCEPT ![s] = Idle]
      /\ lock' = [m \in Messages |-> IF lock[m] = s THEN NoServer ELSE lock[m]]
  BY DEF Crash
<1> QED
  BY <1>0, <1>1 DEF RunsType

\* Every step keeps the types.
LEMMA StepType == TypeOK /\ [Next]_vars => TypeOK'
<1> SUFFICES ASSUME TypeOK, [Next]_vars PROVE TypeOK'
  OBVIOUS
<1>0. /\ RowsType /\ RunsType
      /\ clock \in 0 .. MaxTime /\ crashes \in 0 .. MaxCrashes /\ late \in [Servers -> Nat]
  BY TypeParts
<1>1. CASE UNCHANGED vars
  BY <1>0, <1>1 DEF vars, user, TypeOK, RowsType, RunsType
<1>2. CASE UserNext
  <2>1. RowsType'
    BY <1>2, UserKeepsType
  <2>2. UNCHANGED <<lock, srv, clock, crashes, late>>
    BY <1>2 DEF UserNext, AssertFriend, Create, Update, Remove, RemoveFriend
  <2> QED
    BY <1>0, <2>1, <2>2 DEF TypeOK, RowsType, RunsType
<1>3. ASSUME NEW s \in Servers, Step(s) PROVE TypeOK'
  <2>1. RowsType' /\ RunsType'
    BY <1>3, StepKeepsType
  <2>2. UNCHANGED <<clock, crashes>> 
    BY <1>3 DEF Step, StartRun, EndRun, Take, Settle, Push
  <2>3. late' \in [Servers -> Nat]
    <3>1. CASE Push(s)
      <4>1. late' = late \/ late' = [late EXCEPT ![s] = late[s] + 1]
        BY <3>1 DEF Push
      <4> QED
        BY <1>0, <4>1
    <3>2. CASE ~Push(s)
      BY <1>0, <1>3, <3>2 DEF Step, StartRun, EndRun, Take, Settle
    <3> QED
      BY <3>1, <3>2
  <2> QED
    BY <1>0, <2>1, <2>2, <2>3 DEF TypeOK, RowsType, RunsType
<1>4. ASSUME NEW s \in Servers, Crash(s) PROVE TypeOK'
  <2>1. crashes' \in 0 .. MaxCrashes
    BY <1>0, <1>4, ScheduledAssumption DEF Crash
  <2>2. UNCHANGED <<row, friends, checked, sends, clock, late>>
    BY <1>4 DEF Crash, user
  <2> QED
    BY <1>0, <1>4, <2>1, <2>2, CrashKeepsType DEF TypeOK, RowsType, RunsType
<1>5. CASE Tick
  <2>1. clock' \in 0 .. MaxTime
    BY <1>0, <1>5, ScheduledAssumption DEF Tick
  <2> QED
    BY <1>0, <1>5, <2>1 DEF Tick, user, TypeOK, RowsType, RunsType
<1> QED
  BY <1>1, <1>2, <1>3, <1>4, <1>5 DEF Next

----------------------------------------------------------------------------
(* What goes out.                                                          *)

Facts == LockedAsRead /\ UnsentWaits /\ BlankRows /\ OneShotOnce /\ SentAsListed

LEMMA InitFacts == Init => Facts
  BY DEF Init, Facts, LockedAsRead, UnsentWaits, BlankRows, OneShotOnce, SentAsListed, Blank, Idle

\* A step that leaves the messages alone, and takes none.
LEMMA QuietStep ==
  ASSUME Facts, UNCHANGED <<row, sends>>,
         \A s \in Servers : srv'[s].pc \in {"locked", "push"} =>
           /\ srv'[s].pc = srv[s].pc /\ srv'[s].m = srv[s].m
           /\ srv'[s].text = srv[s].text /\ srv'[s].daily = srv[s].daily
  PROVE  Facts'
  BY DEF Facts, LockedAsRead, UnsentWaits, BlankRows, OneShotOnce, SentAsListed

\* A step of the user that changes messages no server has in a transaction and
\* that have not been sent, unless it deletes them.
LEMMA EditStep ==
  ASSUME TypeOK, Facts, UNCHANGED srv, NEW M \in SUBSET Messages,
         \A m \in Messages \ M : row'[m] = row[m] /\ sends'[m] = sends[m],
         \A m \in M :
           /\ lock[m] = NoServer
           /\ row[m].state \in {"unused", "waiting"} \/ row'[m].state = "deleted"
           /\ row'[m].state \in {"waiting", "deleted"}
           /\ row'[m].state = "deleted" => ~row'[m].daily
           /\ \A t \in Times : sends'[m][t] = 0
  PROVE  Facts'
<1>1. LockedAsRead'
  <2>1. ASSUME NEW s \in Servers, srv[s].pc = "locked" PROVE srv[s].m \in Messages \ M
    <3>1. srv[s].m \in Messages /\ lock[srv[s].m] = s
      BY <2>1, TypeParts DEF RunsType, Runs
    <3> QED
      BY <3>1, ScheduledAssumption
  <2> QED
    BY <2>1 DEF Facts, LockedAsRead
<1>2. UnsentWaits' /\ BlankRows' /\ OneShotOnce'
  BY DEF Facts, UnsentWaits, BlankRows, OneShotOnce
<1>3. SentAsListed'
  <2> SUFFICES ASSUME NEW s \in Servers, srv[s].pc = "push", ~srv[s].daily,
                      row'[srv[s].m].state # "deleted"
               PROVE  row'[srv[s].m].state = "sent" /\ row'[srv[s].m].text = srv[s].text
    BY DEF SentAsListed
  <2>1. srv[s].m \in Messages
    BY TypeParts DEF RunsType, Runs
  <2>2. CASE srv[s].m \in M
    BY <2>1, <2>2 DEF Facts, SentAsListed
  <2>3. CASE srv[s].m \notin M
    BY <2>1, <2>3 DEF Facts, SentAsListed
  <2> QED
    BY <2>2, <2>3
<1> QED
  BY <1>1, <1>2, <1>3 DEF Facts

\* The user's steps.
LEMMA UserKeepsFacts == ASSUME TypeOK, Facts, UserNext PROVE Facts'
<1>0. RowsType /\ RunsType
  BY TypeParts
<1>1. ASSUME NEW m \in Messages, AssertFriend(m) PROVE Facts'
  BY <1>1, QuietStep DEF AssertFriend
<1>2. ASSUME NEW m \in Messages, NEW at \in Whens, NEW daily \in BOOLEAN, Create(m, at, daily)
      PROVE  Facts'
  <2>1. lock[m] = NoServer
    <3>1. ASSUME NEW s \in Servers PROVE lock[m] # s
      BY <1>0, <1>2, <3>1 DEF Create, RunsType, Facts, LockedAsRead
    <3> QED
      BY <1>0, <3>1 DEF RunsType
  <2>2. \A t \in Times : sends[m][t] = 0
    BY <1>2 DEF Create, Facts, UnsentWaits, BlankRows
  <2>3. /\ row'[m].state = "waiting" /\ row[m].state = "unused" /\ UNCHANGED <<srv, sends>>
        /\ \A n \in Messages \ {m} : row'[n] = row[n]
    BY <1>0, <1>2 DEF Create, RowsType
  <2> QED
    BY <2>1, <2>2, <2>3, EditStep
<1>3. ASSUME NEW m \in Messages, NEW at \in Whens, NEW daily \in BOOLEAN, Update(m, at, daily)
      PROVE  Facts'
  <2>1. CASE ~Editable(m)
    BY <1>3, <2>1, QuietStep DEF Update
  <2>2. CASE Editable(m)
    <3>1. /\ row'[m].state = "waiting" /\ row[m].state = "waiting"
          /\ \A n \in Messages \ {m} : row'[n] = row[n]
      BY <1>0, <1>3, <2>2 DEF Update, Editable, RowsType, Rows
    <3>2. /\ lock[m] = NoServer /\ UNCHANGED srv
          /\ sends' = [sends EXCEPT ![m] = [t \in Times |-> 0]]
      BY <1>3, <2>2 DEF Update
    <3>3. /\ \A t \in Times : sends'[m][t] = 0
          /\ \A n \in Messages \ {m} : sends'[n] = sends[n]
      BY <1>0, <3>2 DEF RowsType
    <3> DEFINE M == {m}
    <3>4. M \in SUBSET Messages /\ \A n \in M : n = m
      OBVIOUS
    <3>5. \A n \in Messages \ M : n \in Messages \ {m}
      OBVIOUS
    <3> HIDE DEF M
    <3> QED
      BY <3>1, <3>2, <3>3, <3>4, <3>5, EditStep
  <2> QED
    BY <2>1, <2>2
<1>4. ASSUME NEW m \in Messages, Remove(m) PROVE Facts'
  <2>1. /\ row'[m] = Blank("deleted") /\ lock[m] = NoServer /\ UNCHANGED srv
        /\ \A n \in Messages \ {m} : row'[n] = row[n] /\ sends'[n] = sends[n]
        /\ \A t \in Times : sends'[m][t] = 0
    BY <1>0, <1>4 DEF Remove, RowsType
  <2> DEFINE M == {m}
  <2>2. M \in SUBSET Messages /\ \A n \in M : n = m
    OBVIOUS
  <2>3. \A n \in Messages \ M : n \in Messages \ {m}
    OBVIOUS
  <2> HIDE DEF M
  <2> QED
    BY <2>1, <2>2, <2>3, EditStep DEF Blank
<1>5. CASE RemoveFriend
  <2> DEFINE M == {m \in Messages : row[m].state = "waiting"}
  <2>1. /\ UNCHANGED srv
        /\ \A m \in M : /\ lock[m] = NoServer
                        /\ row'[m] = Blank("deleted")
                        /\ row[m].state = "waiting"
                        /\ \A t \in Times : sends'[m][t] = 0
        /\ \A n \in Messages \ M : row'[n] = row[n] /\ sends'[n] = sends[n]
        /\ M \in SUBSET Messages
    BY <1>5 DEF RemoveFriend
  <2> HIDE DEF M
  <2> QED
    BY <2>1, EditStep DEF Blank
<1> QED
  BY <1>1, <1>2, <1>3, <1>4, <1>5 DEF UserNext

\* The transaction of the sender.
LEMMA SettleKeepsFacts == ASSUME TypeOK, Facts, NEW s \in Servers, Settle(s) PROVE Facts'
<1> DEFINE m == srv[s].m
<1>0. /\ RowsType /\ RunsType
      /\ m \in Messages /\ srv[s] \in Runs /\ row[m] \in Rows
      /\ srv[s].pc = "locked" /\ row[m].state = "waiting"
      /\ row[m].daily = srv[s].daily /\ row[m].text = srv[s].text
  BY TypeParts DEF RowsType, RunsType, Runs, Settle, Facts, LockedAsRead
<1>1. /\ row'[m] = Mark(s) /\ \A n \in Messages \ {m} : row'[n] = row[n]
      /\ \A n \in Messages \ {m} : sends'[n] = sends[n]
  BY <1>0 DEF Settle, RowsType
<1>2. /\ Mark(s).daily = row[m].daily /\ Mark(s).text = row[m].text
      /\ Mark(s).state = "sent" \/ (Mark(s).state = "waiting" /\ row[m].daily)
  BY <1>0 DEF Mark, Rows
<1>3. /\ \A t \in Servers \ {s} : srv'[t] = srv[t]
      /\ srv'[s].pc # "locked"
      /\ srv'[s].pc = "push" =>
           srv'[s].m = m /\ srv'[s].text = srv[s].text /\ srv'[s].daily = srv[s].daily
  <2>1. CASE srv' = [srv EXCEPT ![s].pc = "push"]
    BY <1>0, <2>1 DEF RunsType, Runs
  <2>2. CASE NextInList(s)
    BY <1>0, <2>2 DEF NextInList, RunsType, Idle
  <2> QED
    BY <2>1, <2>2 DEF Settle
<1>4. \A t \in Servers \ {s} : srv[t].pc = "locked" => srv[t].m # m /\ srv[t].m \in Messages
  <2>1. lock[m] = s
    BY <1>0 DEF RunsType
  <2> QED
    BY <1>0, <2>1 DEF RunsType, Runs
<1>5. LockedAsRead'
  BY <1>1, <1>3, <1>4 DEF Facts, LockedAsRead
<1>6. UnsentWaits' /\ BlankRows'
  BY <1>0, <1>1, <1>2 DEF Facts, UnsentWaits, BlankRows
<1>7. OneShotOnce'
  <2>1. ASSUME ~row[m].daily, NEW t \in Times PROVE sends'[m][t] <= 1
    <3>1. sends[m] \in [Times -> Nat] /\ sends \in [Messages -> [Times -> Nat]] /\ sends[m][t] = 0
      BY <1>0, <2>1 DEF RowsType, Facts, UnsentWaits
    <3>2. sends' = sends \/ sends' = [sends EXCEPT ![m][row[m].at] = @ + 1]
      BY DEF Settle
    <3>3. sends'[m][t] = sends[m][t] \/ sends'[m][t] = sends[m][t] + 1
      BY <1>0, <3>1, <3>2
    <3> QED
      BY <3>1, <3>3
  <2> QED
    BY <1>1, <1>2, <2>1 DEF Facts, OneShotOnce
<1>8. SentAsListed'
  <2>1. ASSUME NEW t \in Servers \ {s} PROVE
          (srv'[t].pc = "push" /\ ~srv'[t].daily /\ row'[srv'[t].m].state # "deleted") =>
            row'[srv'[t].m].state = "sent" /\ row'[srv'[t].m].text = srv'[t].text
    <3>1. srv[t].m \in Messages
      BY <1>0 DEF RunsType, Runs
    <3> QED
      BY <1>0, <1>1, <1>2, <1>3, <3>1 DEF Facts, SentAsListed
  <2> QED
    BY <1>0, <1>1, <1>2, <1>3, <2>1 DEF SentAsListed
<1> QED
  BY <1>5, <1>6, <1>7, <1>8 DEF Facts

\* The other steps of a server.
LEMMA ServerKeepsFacts ==
  ASSUME TypeOK, Facts, NEW s \in Servers, Step(s) \/ Crash(s)
  PROVE  Facts'
<1>0. RowsType /\ RunsType /\ srv[s] \in Runs
  BY TypeParts DEF RunsType
<1>1. ASSUME UNCHANGED <<row, sends>>, NEW h, srv' = [srv EXCEPT ![s] = h],
             h.pc \notin {"locked", "push"}
      PROVE  Facts'
  BY <1>0, <1>1, QuietStep DEF RunsType
<1>2. CASE StartRun(s)
  <2>1. PICK todo \in SUBSET Due :
          srv' = [srv EXCEPT ![s] = [Idle EXCEPT !.pc = "loop", !.now = clock, !.todo = todo]]
    BY <1>2 DEF StartRun
  <2> QED
    BY <1>1, <1>2, <2>1 DEF StartRun, Idle
<1>3. CASE EndRun(s) \/ Push(s) \/ Crash(s)
  BY <1>1, <1>3 DEF EndRun, Push, NextInList, Crash, Idle
<1>4. ASSUME NEW m \in Messages, Take(s, m), ~Takeable(m) PROVE Facts'
  <2> DEFINE h == [srv[s] EXCEPT !.todo = srv[s].todo \ {m}]
  <2>1. h.pc = "loop" /\ srv' = [srv EXCEPT ![s] = h] /\ UNCHANGED <<row, sends>>
    BY <1>0, <1>4 DEF Take, Runs, RunsType
  <2> HIDE DEF h
  <2> QED
    BY <1>1, <2>1
<1>5. ASSUME NEW m \in Messages, Take(s, m), Takeable(m) PROVE Facts'
  <2>1. /\ UNCHANGED <<row, sends>> /\ row[m].state = "waiting"
        /\ \A t \in Servers \ {s} : srv'[t] = srv[t]
        /\ srv'[s].pc = "locked" /\ srv'[s].m = m
        /\ srv'[s].text = row[m].text /\ srv'[s].daily = row[m].daily
    BY <1>0, <1>5 DEF Take, Takeable, RunsType, Runs
  <2> QED
    BY <2>1 DEF Facts, LockedAsRead, UnsentWaits, BlankRows, OneShotOnce, SentAsListed
<1> QED
  BY <1>2, <1>3, <1>4, <1>5, SettleKeepsFacts DEF Step

\* The invariant is inductive.
LEMMA StepInv == IInv /\ [Next]_vars => IInv'
<1> SUFFICES ASSUME TypeOK, Facts, [Next]_vars PROVE TypeOK' /\ Facts'
  BY DEF IInv, Facts
<1>1. TypeOK'
  BY StepType
<1>2. CASE UNCHANGED vars \/ Tick
  <2>1. UNCHANGED <<row, sends, srv>>
    BY <1>2 DEF vars, Tick
  <2> QED
    BY <1>1, <2>1, QuietStep
<1>3. CASE UserNext
  BY <1>1, <1>3, UserKeepsFacts
<1>4. ASSUME NEW s \in Servers, Step(s) \/ Crash(s) PROVE Facts'
  BY <1>4, ServerKeepsFacts
<1> QED
  BY <1>1, <1>2, <1>3, <1>4 DEF Next

----------------------------------------------------------------------------

\* The messages and the runs satisfy the invariant in every reachable state.
THEOREM Invariance == Spec => []IInv
<1>1. Init => IInv
  BY InitType, InitFacts DEF IInv, Facts
<1> QED
  BY <1>1, StepInv, PTL DEF Spec

\* Types hold, and a row is locked exactly while some server is in its
\* transaction.
THEOREM TypeCorrect == Spec => []TypeOK
<1>1. IInv => TypeOK
  BY DEF IInv
<1> QED
  BY <1>1, Invariance, PTL

\* A message to be sent once goes out at most once, on any number of servers
\* that die and start again at any time.
THEOREM OneShotsGoOnce == Spec => []OneShotOnce
<1>1. IInv => OneShotOnce
  BY DEF IInv
<1> QED
  BY <1>1, Invariance, PTL

\* What goes out of it is what the list of the sender shows as sent.
THEOREM ListIsTrue == Spec => []SentAsListed
<1>1. IInv => SentAsListed
  BY DEF IInv
<1> QED
  BY <1>1, Invariance, PTL

\* Who is about to push, and every server while they are friends, has pushed
\* nothing late yet.
LateInv ==
  \A s \in Servers : late[s] <= 1 /\ (friends \/ srv[s].pc = "push" => late[s] = 0)

\* A server sets out to push only in a transaction that finds the two friends.
LEMMA PushWhileFriends ==
  ASSUME TypeOK, Next, NEW s \in Servers, srv'[s].pc = "push"
  PROVE  friends \/ srv[s].pc = "push"
<1>0. srv \in [Servers -> Runs] /\ srv[s] \in Runs
  BY DEF TypeOK
<1>1. CASE UserNext \/ Tick
  BY <1>1 DEF UserNext, AssertFriend, Create, Update, Remove, RemoveFriend, Tick
<1>2. ASSUME NEW r \in Servers, Step(r) \/ Crash(r), r # s
      PROVE  srv[s].pc = "push"
  BY <1>0, <1>2 DEF Step, StartRun, EndRun, Take, Settle, Push, NextInList, Crash
<1>3. CASE Settle(s)
  <2>1. CASE WorthSending(s)
    BY <2>1 DEF WorthSending
  <2>2. CASE ~WorthSending(s)
    BY <1>0, <1>3, <2>2 DEF Settle, NextInList, Idle
  <2> QED
    BY <2>1, <2>2
<1>4. ASSUME NEW m \in Messages, Take(s, m) PROVE FALSE
  <2>1. srv[s].pc = "loop"
    BY <1>4 DEF Take
  <2> QED
    BY <1>0, <1>4, <2>1 DEF Take, Runs
<1>5. CASE StartRun(s) \/ EndRun(s) \/ Push(s) \/ Crash(s)
  <2>1. ASSUME NEW h, srv' = [srv EXCEPT ![s] = h], h.pc \in {"idle", "loop"} PROVE FALSE
    BY <1>0, <2>1
  <2>2. CASE StartRun(s)
    BY <2>1, <2>2 DEF StartRun, Idle
  <2>3. CASE EndRun(s) \/ Crash(s)
    BY <2>1, <2>3 DEF EndRun, Crash, Idle
  <2>4. CASE Push(s)
    BY <2>1, <2>4 DEF Push, NextInList, Idle
  <2> QED
    BY <1>5, <2>2, <2>3, <2>4
<1> QED
  BY <1>1, <1>2, <1>3, <1>4, <1>5 DEF Next, Step

\* The invariant is kept.
LEMMA LateStep == TypeOK /\ LateInv /\ [Next]_vars => LateInv'
<1> SUFFICES ASSUME TypeOK, LateInv, [Next]_vars PROVE LateInv'
  OBVIOUS
<1>0. late \in [Servers -> Nat] /\ srv \in [Servers -> Runs]
  BY DEF TypeOK
<1>1. CASE UNCHANGED vars
  BY <1>1 DEF vars, user, LateInv
<1>2. CASE Next
  <2>1. ASSUME UNCHANGED late, friends' => friends PROVE LateInv'
    BY <1>2, <2>1, PushWhileFriends DEF LateInv
  <2>2. ASSUME NEW s \in Servers, Push(s) PROVE LateInv'
    <3>1. /\ srv[s].pc = "push" /\ friends' = friends
          /\ srv'[s].pc = "loop" /\ \A r \in Servers \ {s} : srv'[r] = srv[r]
      BY <1>0, <2>2 DEF Push, NextInList, Idle, user
    <3>2. CASE friends
      BY <2>1, <2>2, <3>1, <3>2 DEF Push
    <3>3. CASE ~friends
      <4>1. late[s] = 0 /\ late' = [late EXCEPT ![s] = late[s] + 1]
        BY <2>2, <3>1, <3>3 DEF Push, LateInv
      <4>2. late'[s] = 1 /\ \A r \in Servers \ {s} : late'[r] = late[r]
        BY <1>0, <4>1
      <4> QED
        BY <3>1, <3>3, <4>2 DEF LateInv
    <3> QED
      BY <3>2, <3>3
  <2>3. CASE UserNext
    BY <2>1, <2>3 DEF UserNext, AssertFriend, Create, Update, Remove, RemoveFriend, user
  <2>4. ASSUME NEW s \in Servers, Step(s) \/ Crash(s), ~Push(s) PROVE LateInv'
    <3>1. UNCHANGED <<late, friends>>
      BY <2>4 DEF Step, StartRun, EndRun, Take, Settle, Crash, user
    <3> QED
      BY <2>1, <3>1
  <2>5. CASE Tick
    BY <2>1, <2>5 DEF Tick, user
  <2> QED
    BY <1>2, <2>2, <2>3, <2>4, <2>5 DEF Next
<1> QED
  BY <1>1, <1>2

\* Once the friend is removed every server pushes the message it had committed
\* and no other: what a request inserts afterwards is marked and not pushed.
THEOREM EndsWithTheFriendship == Spec => []LateByOne
<1>1. Init => LateInv
  BY DEF Init, LateInv
<1>2. LateInv => LateByOne
  BY DEF LateInv, LateByOne
<1> QED
  BY <1>1, <1>2, LateStep, TypeCorrect, PTL DEF Spec

\* nextOccurrence keeps the hour of a daily message.
LEMMA NextKeepsHour ==
  ASSUME NEW at \in Nat, NEW now \in Nat, at <= now
  PROVE  nextOccurrence(at, TRUE, now) % Day = at % Day
<1> DEFINE k == (now - at) \div Day + 1
<1>1. now - at \in Nat /\ Day \in Nat \ {0}
  BY ScheduledAssumption
<1>2. k \in Nat
  BY <1>1, DaysOver
<1>3. nextOccurrence(at, TRUE, now) = at + k * Day
  BY DEF nextOccurrence
<1> HIDE DEF k
<1>4. (at + k * Day) % Day = at % Day
  BY <1>1, <1>2, SameHour, Zenon
<1> QED
  BY <1>3, <1>4, Zenon

\* A settled daily message waits for the same hour of a later day, and for no
\* later day than the next one, whatever the length of a day and however long
\* no server looked.
THEOREM DailyGoesOn == Spec => DailyMovesOn
<1> DEFINE Moves(s) ==
      LET m == srv[s].m  now == srv[s].now IN
      (Settle(s) /\ row'[m].state = "waiting" /\ row[m].at <= now) =>
        /\ row'[m].at % Day = row[m].at % Day
        /\ row'[m].at > now
        /\ row'[m].at <= now + Day
<1>1. ASSUME TypeOK, NEW s \in Servers PROVE Moves(s)
  <2> DEFINE m == srv[s].m
             now == srv[s].now
  <2> SUFFICES ASSUME Settle(s), row'[m].state = "waiting", row[m].at <= now
               PROVE  /\ row'[m].at % Day = row[m].at % Day
                      /\ row'[m].at > now
                      /\ row'[m].at <= now + Day
    OBVIOUS
  <2>1. m \in Messages /\ row[m] \in Rows /\ row \in [Messages -> Rows] /\ now \in 0 .. MaxTime
    BY <1>1 DEF TypeOK, Runs
  <2>2. row[m].at \in Nat /\ now \in Nat
    BY <2>1, ScheduledAssumption DEF Rows, Times
  <2>3. row'[m] = Mark(s)
    BY <2>1 DEF Settle
  <2>4. row'[m] = [row[m] EXCEPT !.at = nextOccurrence(row[m].at, TRUE, now)]
    BY <2>1, <2>3 DEF Mark, Rows
  <2>5. row'[m].at = nextOccurrence(row[m].at, TRUE, now)
    BY <2>1, <2>4 DEF Rows
  <2> QED
    BY <2>2, <2>5, NextKeepsHour, NextIsSoon
<1>2. TypeOK /\ [Next]_vars => [\A s \in Servers : Moves(s)]_vars
  BY <1>1
<1> QED
  BY <1>2, TypeCorrect, PTL DEF Spec, DailyMovesOn
=============================================================================
