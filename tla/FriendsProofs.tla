--------------------------- MODULE FriendsProofs ---------------------------
(***************************************************************************)
(* Proofs about Friends, for any number of calls and requests.  A locked   *)
(* row is a change to come, so the invariant says which locks a call holds *)
(* at each of its steps.  At the end the commits of the calls are the      *)
(* steps of Friendship.                                                    *)
(***************************************************************************)
EXTENDS Friends, TLAPS

\* A locked request is still pending: the one who locked it is the only one to
\* answer it.
LockedPending == \A r \in Requests : reqLock[r] # NoCall => Pending(r)

Early == {"idle", "friends", "reverse", "insert", "lock", "crossing", "mine", "remove", "close",
          "closing"}

\* The friendship rows a call holds, and the share settings it holds.
HoldsFriend(c, u) == friendLock[u] = c
HoldsShare(c, u) == shareLock[u] = c

\* Before its first change a call holds nothing.
EarlyFree(c) == call[c].pc \in Early => \A u \in Users : ~HoldsFriend(c, u)

\* Share settings come last.
SharesLast(c) == call[c].pc # "commit" => \A u \in Users : ~HoldsShare(c, u)

\* An accept holds rows that are not there yet.
InsertsNew(c) ==
  call[c].pc \in {"theirs", "shares"} => \A u \in Users : HoldsFriend(c, u) => ~friend[u]

\* The rows a removal found and the rows it has locked already.
Removes(c, u) == u \in call[c].rows \/ HoldsFriend(c, u)

\* A removal deals with both rows or with none, and they are there.
DeletesBoth(c) ==
  call[c].pc = "delete" =>
    \/ \A u \in Users : Removes(c, u) /\ friend[u]
    \/ \A u \in Users : ~Removes(c, u)

\* What is committed is whole: both rows with their share settings, or none.
CommitsBoth(c) ==
  call[c].pc = "commit" =>
    \/ \A u \in Users : HoldsFriend(c, u) /\ HoldsShare(c, u)
    \/ \A u \in Users : ~HoldsFriend(c, u) /\ ~HoldsShare(c, u)

Holding(c) ==
  EarlyFree(c) /\ SharesLast(c) /\ InsertsNew(c) /\ DeletesBoth(c) /\ CommitsBoth(c)

RowsInv == BothWays /\ \A c \in Calls : Holding(c)

----------------------------------------------------------------------------
(* Types.                                                                  *)

LEMMA OtherType == \A u \in Users : Other(u) \in Users /\ Other(u) # u /\ Other(Other(u)) = u
  BY FriendsAssumption DEF Users, Other

LEMMA BeginType ==
  ASSUME NEW op \in Ops, NEW pc \in Pcs, NEW u \in Users
  PROVE  Begin(op, pc, u) \in CallRecords
  BY FriendsAssumption DEF Begin, CallRecords

LEMMA IdleType == Idle \in CallRecords /\ Idle.pc = "idle"
<1>1. "none" \in Ops /\ "idle" \in Pcs /\ UserA \in Users
  BY DEF Ops, Pcs, Users
<1> QED
  BY <1>1, BeginType DEF Idle, Begin

\* The tables, and the locks.
TablesOK ==
  /\ req \in [Requests -> [from: Users, status: Statuses]]
  /\ friend \in [Users -> BOOLEAN]
  /\ share \in [Users -> BOOLEAN]
  /\ blocks \subseteq Users

LocksOK ==
  /\ reqLock \in [Requests -> Calls \cup {NoCall}]
  /\ friendLock \in [Users -> Calls \cup {NoCall}]
  /\ shareLock \in [Users -> Calls \cup {NoCall}]

\* The calls.
CallsOK ==
  /\ call \in [Calls -> CallRecords]
  /\ \A c \in Calls : call[c].pc = "lock" => call[c].r \in Requests

LEMMA TypeParts == TypeOK <=> TablesOK /\ LocksOK /\ CallsOK
  BY DEF TypeOK, TablesOK, LocksOK, CallsOK

LEMMA InitType == Init => TypeOK
  BY IdleType DEF Init, TypeOK, Users, Statuses

\* A call whose record is replaced by a well-formed one.
LEMMA PutType ==
  ASSUME CallsOK, NEW c \in Calls, NEW h \in CallRecords, h.pc = "lock" => h.r \in Requests,
         call' = [call EXCEPT ![c] = h]
  PROVE  CallsOK'
  BY DEF CallsOK

LEMMA GotoType ==
  ASSUME CallsOK, NEW c \in Calls, NEW pc \in Pcs \ {"lock"}, Goto(c, pc)
  PROVE  CallsOK'
<1> DEFINE h == [call[c] EXCEPT !.pc = pc]
<1>1. h \in CallRecords /\ h.pc # "lock" /\ call' = [call EXCEPT ![c] = h]
  BY DEF CallsOK, CallRecords, Goto
<1> HIDE DEF h
<1> QED
  BY <1>1, PutType

LEMMA DoneType == ASSUME CallsOK, NEW c \in Calls, Done(c) PROVE CallsOK'
  BY IdleType, PutType DEF Done

LEMMA NextStatementType ==
  ASSUME CallsOK, NEW c \in Calls
  PROVE  NextStatement(c) \in CallRecords /\ NextStatement(c).pc \in {"idle", "close"}
<1>1. call[c].me \in Users
  BY DEF CallsOK, CallRecords
<1>2. Begin("close", "close", call[c].me) \in CallRecords
  BY <1>1, BeginType DEF Ops, Pcs
<1> QED
  BY <1>2, IdleType DEF NextStatement, Begin

LEMMA ReleaseType == ASSUME LocksOK, NEW c \in Calls, Release(c) PROVE LocksOK'
  BY DEF LocksOK, Release

LEMMA RollbackType ==
  ASSUME TablesOK, LocksOK, CallsOK, NEW c \in Calls, Rollback(c)
  PROVE  TablesOK' /\ LocksOK' /\ CallsOK'
<1>1. TablesOK'
  BY DEF Rollback, tables, TablesOK
<1>2. LocksOK'
  BY ReleaseType DEF Rollback
<1>3. CallsOK'
  BY NextStatementType, PutType DEF Rollback
<1> QED
  BY <1>1, <1>2, <1>3

\* The actions whose calls go from one step to the next, or end.
LEMMA SendType ==
  ASSUME TypeOK, NEW c \in Calls, SendFriends(c) \/ SendReverse(c) \/ SendInsert(c)
  PROVE  TypeOK'
<1>1. TablesOK /\ LocksOK /\ CallsOK
  BY TypeParts
<1>2. CASE SendFriends(c)
  <2>1. TablesOK' /\ LocksOK'
    BY <1>1, <1>2 DEF SendFriends, TablesOK, LocksOK, tables, locks
  <2>2. CallsOK'
    BY <1>1, <1>2, GotoType, DoneType DEF SendFriends, Pcs
  <2> QED
    BY <2>1, <2>2 DEF TypeOK, TablesOK, LocksOK, CallsOK
<1>3. CASE SendReverse(c)
  <2>1. TablesOK' /\ LocksOK'
    BY <1>1, <1>3 DEF SendReverse, TablesOK, LocksOK, tables, locks
  <2>2. ASSUME NEW r \in Requests, call' = [call EXCEPT ![c].pc = "lock", ![c].r = r]
        PROVE  CallsOK'
    <3> DEFINE h == [[call[c] EXCEPT !.pc = "lock"] EXCEPT !.r = r]
    <3>1. r \in 0 .. MaxRequests
      BY FriendsAssumption DEF Requests
    <3>2. h \in CallRecords /\ h.r \in Requests /\ call' = [call EXCEPT ![c] = h]
      BY <1>1, <2>2, <3>1 DEF CallsOK, CallRecords, Pcs
    <3> HIDE DEF h
    <3> QED
      BY <1>1, <3>2, PutType
  <2>3. CallsOK'
    BY <1>1, <1>3, <2>2, GotoType DEF SendReverse, PendingFrom, Pcs
  <2> QED
    BY <2>1, <2>3 DEF TypeOK, TablesOK, LocksOK, CallsOK
<1>4. CASE SendInsert(c)
  <2>1. call[c].me \in Users
    BY <1>1 DEF CallsOK, CallRecords
  <2>2. TablesOK' /\ LocksOK'
    BY <1>1, <1>4, <2>1 DEF SendInsert, TablesOK, LocksOK, locks, Statuses
  <2>3. CallsOK'
    BY <1>1, <1>4, DoneType DEF SendInsert
  <2> QED
    BY <2>2, <2>3 DEF TypeOK, TablesOK, LocksOK, CallsOK
<1> QED
  BY <1>2, <1>3, <1>4

LEMMA AnswerType ==
  ASSUME TypeOK, NEW c \in Calls,
         \/ LockPending(c) \/ Crossing(c) \/ Shares(c)
         \/ InsertRow(c, "mine", call[c].me, "theirs")
         \/ InsertRow(c, "theirs", Other(call[c].me), "shares")
  PROVE  TypeOK'
<1>1. TablesOK /\ LocksOK /\ CallsOK
  BY TypeParts
<1>2. call[c].me \in Users /\ Other(call[c].me) \in Users
  BY <1>1, OtherType DEF CallsOK, CallRecords
<1>3. CASE LockPending(c)
  <2>1. TablesOK' /\ LocksOK'
    BY <1>1, <1>3 DEF LockPending, TablesOK, LocksOK, tables
  <2>2. CallsOK'
    BY <1>1, <1>3, GotoType, DoneType DEF LockPending, Pcs
  <2> QED
    BY <2>1, <2>2 DEF TypeOK, TablesOK, LocksOK, CallsOK
<1>4. CASE Crossing(c)
  <2>1. TablesOK' /\ LocksOK'
    BY <1>1, <1>4 DEF Crossing, TablesOK, LocksOK, tables
  <2>2. CallsOK'
    BY <1>1, <1>4, GotoType DEF Crossing, Pcs
  <2> QED
    BY <2>1, <2>2 DEF TypeOK, TablesOK, LocksOK, CallsOK
<1>5. CASE Shares(c)
  <2>1. CASE Rollback(c)
    BY <1>1, <2>1, RollbackType DEF TypeOK, TablesOK, LocksOK, CallsOK
  <2>2. CASE ~Rollback(c)
    <3>1. TablesOK' /\ LocksOK'
      BY <1>1, <1>5, <2>2 DEF Shares, TablesOK, LocksOK, tables
    <3>2. CallsOK'
      BY <1>1, <1>5, <2>2, GotoType DEF Shares, Pcs
    <3> QED
      BY <3>1, <3>2 DEF TypeOK, TablesOK, LocksOK, CallsOK
  <2> QED
    BY <2>1, <2>2
<1>6. ASSUME NEW pc, NEW u \in Users, NEW next \in Pcs \ {"lock"}, InsertRow(c, pc, u, next)
      PROVE  TypeOK'
  <2>1. TablesOK' /\ LocksOK'
    BY <1>1, <1>6 DEF InsertRow, TablesOK, LocksOK, tables
  <2>2. CallsOK'
    BY <1>1, <1>6, GotoType DEF InsertRow
  <2> QED
    BY <2>1, <2>2 DEF TypeOK, TablesOK, LocksOK, CallsOK
<1>7. "theirs" \in Pcs \ {"lock"} /\ "shares" \in Pcs \ {"lock"}
  BY DEF Pcs
<1> QED
  BY <1>2, <1>3, <1>4, <1>5, <1>6, <1>7

LEMMA RemoveType ==
  ASSUME TypeOK, NEW c \in Calls,
         \/ StartDelete(c) \/ (\E u \in Users : DeleteRow(c, u)) \/ EndDelete(c)
         \/ StartClose(c) \/ (\E r \in Requests : CloseRow(c, r))
  PROVE  TypeOK'
<1>1. TablesOK /\ LocksOK /\ CallsOK
  BY TypeParts
<1>2. ASSUME NEW pc \in Pcs \ {"lock"}, NEW rows \in SUBSET Users, NEW reqs \in SUBSET Requests,
             call' = [call EXCEPT ![c] =
                        [[[call[c] EXCEPT !.pc = pc] EXCEPT !.rows = rows] EXCEPT !.reqs = reqs]]
      PROVE  CallsOK'
  <2> DEFINE h == [[[call[c] EXCEPT !.pc = pc] EXCEPT !.rows = rows] EXCEPT !.reqs = reqs]
  <2>1. h \in CallRecords /\ h.pc # "lock" /\ call' = [call EXCEPT ![c] = h]
    BY <1>1, <1>2 DEF CallsOK, CallRecords
  <2> HIDE DEF h
  <2> QED
    BY <1>1, <2>1, PutType
<1>3. call[c] \in CallRecords
  BY <1>1 DEF CallsOK
<1>4. CASE StartDelete(c)
  <2>1. CallsOK'
    <3> DEFINE rows == {u \in Users : friend[u]}
    <3>1. "delete" \in Pcs \ {"lock"} /\ rows \in SUBSET Users /\ call[c].reqs \in SUBSET Requests
      BY <1>3 DEF Pcs, CallRecords
    <3>2. call' = [call EXCEPT ![c] = [[[call[c] EXCEPT !.pc = "delete"] EXCEPT !.rows = rows]
                                         EXCEPT !.reqs = call[c].reqs]]
      BY <1>1, <1>3, <1>4 DEF StartDelete, CallsOK, CallRecords
    <3> HIDE DEF rows
    <3> QED
      BY <1>2, <3>1, <3>2
  <2> QED
    BY <1>1, <1>4, <2>1
    DEF StartDelete, TypeOK, TablesOK, LocksOK, CallsOK, tables, locks
<1>5. ASSUME NEW u \in Users, DeleteRow(c, u)
      PROVE  TypeOK'
  <2>1. CallsOK'
    <3> DEFINE rows == call[c].rows \ {u}
    <3>1. "delete" \in Pcs \ {"lock"} /\ rows \in SUBSET Users /\ call[c].reqs \in SUBSET Requests
      BY <1>3 DEF Pcs, CallRecords
    <3>2. call' = [call EXCEPT ![c] = [[[call[c] EXCEPT !.pc = "delete"] EXCEPT !.rows = rows]
                                         EXCEPT !.reqs = call[c].reqs]]
      BY <1>1, <1>3, <1>5 DEF DeleteRow, CallsOK, CallRecords
    <3> HIDE DEF rows
    <3> QED
      BY <1>2, <3>1, <3>2
  <2> QED
    BY <1>1, <1>5, <2>1
    DEF DeleteRow, TypeOK, TablesOK, LocksOK, CallsOK, tables
<1>6. CASE EndDelete(c)
  <2>1. CASE Rollback(c)
    BY <1>1, <2>1, RollbackType DEF TypeOK, TablesOK, LocksOK, CallsOK
  <2>2. CASE ~Rollback(c)
    <3>1. TablesOK' /\ LocksOK'
      BY <1>1, <1>6, <2>2 DEF EndDelete, TablesOK, LocksOK, tables
    <3>2. CallsOK'
      BY <1>1, <1>6, <2>2, GotoType DEF EndDelete, Pcs
    <3> QED
      BY <3>1, <3>2 DEF TypeOK, TablesOK, LocksOK, CallsOK
  <2> QED
    BY <2>1, <2>2
<1>7. CASE StartClose(c)
  <2>1. CallsOK'
    <3> DEFINE reqs == {r \in Requests : Pending(r)}
    <3>1. "closing" \in Pcs \ {"lock"} /\ call[c].rows \in SUBSET Users /\ reqs \in SUBSET Requests
      BY <1>3 DEF Pcs, CallRecords
    <3>2. call' = [call EXCEPT ![c] = [[[call[c] EXCEPT !.pc = "closing"]
                                         EXCEPT !.rows = call[c].rows] EXCEPT !.reqs = reqs]]
      BY <1>1, <1>3, <1>7 DEF StartClose, CallsOK, CallRecords
    <3> HIDE DEF reqs
    <3> QED
      BY <1>2, <3>1, <3>2
  <2> QED
    BY <1>1, <1>7, <2>1
    DEF StartClose, TypeOK, TablesOK, LocksOK, CallsOK, tables, locks
<1>8. ASSUME NEW r \in Requests, CloseRow(c, r)
      PROVE  TypeOK'
  <2>1. CallsOK'
    <3> DEFINE reqs == call[c].reqs \ {r}
    <3>1. "closing" \in Pcs \ {"lock"} /\ call[c].rows \in SUBSET Users /\ reqs \in SUBSET Requests
      BY <1>3 DEF Pcs, CallRecords
    <3>2. call' = [call EXCEPT ![c] = [[[call[c] EXCEPT !.pc = "closing"]
                                         EXCEPT !.rows = call[c].rows] EXCEPT !.reqs = reqs]]
      BY <1>1, <1>3, <1>8 DEF CloseRow, CallsOK, CallRecords
    <3> HIDE DEF reqs
    <3> QED
      BY <1>2, <3>1, <3>2
  <2> QED
    BY <1>1, <1>8, <2>1
    DEF CloseRow, TypeOK, TablesOK, LocksOK, CallsOK, tables
<1> QED
  BY <1>4, <1>5, <1>6, <1>7, <1>8

LEMMA CommitType == ASSUME TypeOK, NEW c \in Calls, Commit(c) PROVE TypeOK'
<1>1. TablesOK /\ LocksOK /\ CallsOK
  BY TypeParts
<1>2. Verdict(call[c].op) \in Statuses
  BY DEF Verdict, Statuses
<1>3. req' \in [Requests -> [from: Users, status: Statuses]]
  BY <1>1, <1>2 DEF Commit, TablesOK
<1>4. friend' \in [Users -> BOOLEAN] /\ share' \in [Users -> BOOLEAN] /\ blocks' \subseteq Users
  BY <1>1 DEF Commit, TablesOK
<1>5. LocksOK'
  BY <1>1, ReleaseType DEF Commit
<1>6. CallsOK'
  <2> DEFINE gone == {u \in Users : friendLock[u] = c /\ friend[u]}
             n == NextStatement(c)
  <2>1. call' = [d \in Calls |-> IF d = c THEN n ELSE [call[d] EXCEPT !.rows = @ \ gone]]
    BY DEF Commit
  <2>2. n \in CallRecords /\ n.pc # "lock"
    BY <1>1, NextStatementType
  <2> HIDE DEF gone, n
  <2>3. \A d \in Calls : LET h == [call[d] EXCEPT !.rows = @ \ gone] IN
          h \in CallRecords /\ h.pc = call[d].pc /\ h.r = call[d].r
    BY <1>1 DEF CallsOK, CallRecords
  <2> QED
    BY <1>1, <2>1, <2>2, <2>3 DEF CallsOK
<1> QED
  BY <1>3, <1>4, <1>5, <1>6 DEF TypeOK, LocksOK, CallsOK

LEMMA FailType == ASSUME TypeOK, NEW c \in Calls, Fail(c) \/ Deadlock(c) PROVE TypeOK'
<1>1. TablesOK /\ LocksOK /\ CallsOK
  BY TypeParts
<1>2. CASE Deadlock(c)
  BY <1>1, <1>2, RollbackType DEF Deadlock, TypeOK, TablesOK, LocksOK, CallsOK
<1>3. CASE Fail(c)
  <2>1. TablesOK'
    BY <1>1, <1>3 DEF Fail, tables, TablesOK
  <2>2. LocksOK'
    BY <1>1, <1>3, ReleaseType DEF Fail
  <2>3. CallsOK'
    BY <1>1, <1>3, NextStatementType, IdleType, PutType DEF Fail
  <2> QED
    BY <2>1, <2>2, <2>3 DEF TypeOK, TablesOK, LocksOK, CallsOK
<1> QED
  BY <1>2, <1>3

LEMMA StartType == ASSUME TypeOK, NEW c \in Calls, NEW u \in Users, Start(c, u) PROVE TypeOK'
<1>1. TablesOK /\ LocksOK /\ CallsOK
  BY TypeParts
<1>2. TablesOK' /\ LocksOK'
  BY <1>1 DEF Start, Send, Remove, Block, Answer, TablesOK, LocksOK, tables, locks
<1>3. ASSUME NEW op \in Ops, NEW pc \in Pcs \ {"lock"},
             call' = [call EXCEPT ![c] = Begin(op, pc, u)]
      PROVE  CallsOK'
  <2>1. Begin(op, pc, u) \in CallRecords /\ Begin(op, pc, u).pc = pc
    BY BeginType DEF Begin
  <2> QED
    BY <1>1, <1>3, <2>1, PutType
<1>4. {"send", "remove", "block"} \subseteq Ops /\ {"friends", "remove"} \subseteq Pcs \ {"lock"}
  BY DEF Ops, Pcs
<1>5. ASSUME NEW op \in {"accept", "reject", "cancel"}, NEW r \in Requests, Answer(c, op, u, r)
      PROVE  CallsOK'
  <2> DEFINE h == [Begin(op, "lock", u) EXCEPT !.r = r]
  <2>1. r \in 0 .. MaxRequests
    BY FriendsAssumption DEF Requests
  <2>2. Begin(op, "lock", u) \in CallRecords
    BY BeginType DEF Ops, Pcs
  <2>3. h \in CallRecords /\ h.r \in Requests
    BY <2>1, <2>2 DEF CallRecords, Begin
  <2>4. call' = [call EXCEPT ![c] = h]
    BY <1>5 DEF Answer
  <2> HIDE DEF h
  <2> QED
    BY <1>1, <2>3, <2>4, PutType
<1>6. CallsOK'
  BY <1>3, <1>4, <1>5 DEF Start, Send, Remove, Block
<1> QED
  BY <1>2, <1>6 DEF TypeOK, TablesOK, LocksOK, CallsOK

LEMMA StepType == ASSUME TypeOK, [Next]_vars PROVE TypeOK'
<1>1. CASE UNCHANGED vars
  BY <1>1 DEF vars, tables, locks, TypeOK
<1>2. ASSUME NEW c \in Calls, Step(c)
      PROVE  TypeOK'
  BY <1>2, SendType, AnswerType, RemoveType, CommitType, FailType DEF Step
<1>3. ASSUME NEW u \in Users, Unblock(u)
      PROVE  TypeOK'
  BY <1>3 DEF Unblock, tables, locks, TypeOK
<1> QED
  BY <1>1, <1>2, <1>3, FailType, StartType DEF Next

\* TypeCorrect: the variables of Friends stay within their types, and a call that
\* is about to lock a request has one to lock.
THEOREM TypeCorrect == Spec => []TypeOK
<1> QED
  BY InitType, StepType, PTL DEF Spec

----------------------------------------------------------------------------
(* The rows of a friendship.                                               *)

\* A step of another call that leaves the rows alone, and the locks of this one.
LEMMA OthersHold ==
  ASSUME TypeOK, NEW d \in Calls, Holding(d),
         UNCHANGED friend, call'[d] = call[d],
         \A u \in Users : HoldsFriend(d, u)' = HoldsFriend(d, u),
         \A u \in Users : HoldsShare(d, u)' = HoldsShare(d, u)
  PROVE  Holding(d)'
  BY DEF Holding, EarlyFree, SharesLast, InsertsNew, DeletesBoth, CommitsBoth, Removes

\* A call that holds nothing and is not in the middle of a removal.
LEMMA HoldsNothing ==
  ASSUME NEW c \in Calls, call'[c].pc # "delete",
         \A u \in Users : ~HoldsFriend(c, u)' /\ ~HoldsShare(c, u)'
  PROVE  Holding(c)'
  BY DEF Holding, EarlyFree, SharesLast, InsertsNew, DeletesBoth, CommitsBoth

\* A step of one call that leaves the rows as they are.
LEMMA QuietStep ==
  ASSUME TypeOK, RowsInv, NEW c \in Calls, UNCHANGED <<friend, share>>, Holding(c)',
         \A d \in Calls \ {c} :
           /\ call'[d] = call[d]
           /\ \A u \in Users : HoldsFriend(d, u)' = HoldsFriend(d, u)
           /\ \A u \in Users : HoldsShare(d, u)' = HoldsShare(d, u)
  PROVE  RowsInv'
<1>1. BothWays'
  BY DEF RowsInv, BothWays
<1>2. ASSUME NEW d \in Calls
      PROVE  Holding(d)'
  BY <1>2, OthersHold DEF RowsInv
<1> QED
  BY <1>1, <1>2 DEF RowsInv

\* A step that touches neither the rows nor their locks.
LEMMA LocklessStep ==
  ASSUME TypeOK, RowsInv, NEW c \in Calls, UNCHANGED <<friend, share, friendLock, shareLock>>,
         \A d \in Calls \ {c} : call'[d] = call[d], Holding(c)'
  PROVE  RowsInv'
<1>1. \A d \in Calls \ {c} :
        /\ call'[d] = call[d]
        /\ \A u \in Users : HoldsFriend(d, u)' = HoldsFriend(d, u)
        /\ \A u \in Users : HoldsShare(d, u)' = HoldsShare(d, u)
  BY DEF HoldsFriend, HoldsShare
<1> QED
  BY <1>1, QuietStep

\* A call goes from one step at which it holds nothing to another.
LEMMA EarlyStep ==
  ASSUME TypeOK, RowsInv, NEW c \in Calls, call[c].pc \in Early, call'[c].pc # "delete",
         UNCHANGED <<friend, share, friendLock, shareLock>>,
         \A d \in Calls \ {c} : call'[d] = call[d]
  PROVE  RowsInv'
<1>1. EarlyFree(c) /\ SharesLast(c) /\ call[c].pc # "commit"
  BY DEF RowsInv, Holding, Early
<1>2. \A u \in Users : ~HoldsFriend(c, u)' /\ ~HoldsShare(c, u)'
  BY <1>1 DEF EarlyFree, SharesLast, HoldsFriend, HoldsShare
<1> QED
  BY <1>2, HoldsNothing, LocklessStep

\* The transaction of c is over and nothing of it is left.
LEMMA ReleaseStep ==
  ASSUME TypeOK, RowsInv, NEW c \in Calls, UNCHANGED <<friend, share>>, Release(c),
         \A d \in Calls \ {c} : call'[d] = call[d], call'[c].pc # "delete"
  PROVE  RowsInv'
<1>1. \A u \in Users : ~HoldsFriend(c, u)' /\ ~HoldsShare(c, u)'
  BY FriendsAssumption DEF Release, HoldsFriend, HoldsShare
<1>2. Holding(c)'
  BY <1>1, HoldsNothing
<1>3. \A d \in Calls \ {c} :
        /\ call'[d] = call[d]
        /\ \A u \in Users : HoldsFriend(d, u)' = HoldsFriend(d, u)
        /\ \A u \in Users : HoldsShare(d, u)' = HoldsShare(d, u)
  BY FriendsAssumption DEF Release, HoldsFriend, HoldsShare
<1> QED
  BY <1>2, <1>3, QuietStep

LEMMA NextStatementPc ==
  ASSUME NEW c \in Calls PROVE NextStatement(c).pc \in {"idle", "close"}
  BY DEF NextStatement, Begin, Idle

LEMMA RollbackStep ==
  ASSUME TypeOK, RowsInv, NEW c \in Calls, Rollback(c) PROVE RowsInv'
<1>1. call \in [Calls -> CallRecords]
  BY DEF TypeOK
<1>2. \A d \in Calls \ {c} : call'[d] = call[d]
  BY <1>1 DEF Rollback
<1>3. call'[c].pc # "delete"
  BY <1>1, NextStatementPc DEF Rollback
<1> QED
  BY <1>2, <1>3, ReleaseStep DEF Rollback, tables

LEMMA FailStep ==
  ASSUME TypeOK, RowsInv, NEW c \in Calls, Fail(c) \/ Deadlock(c) PROVE RowsInv'
<1>1. CASE Deadlock(c)
  BY <1>1, RollbackStep DEF Deadlock
<1>2. CASE Fail(c)
  <2>1. call \in [Calls -> CallRecords]
    BY DEF TypeOK
  <2>2. \A d \in Calls \ {c} : call'[d] = call[d]
    BY <1>2, <2>1 DEF Fail
  <2>3. call'[c].pc # "delete"
    BY <1>2, <2>1, NextStatementPc, IdleType DEF Fail
  <2>4. Release(c) /\ UNCHANGED <<friend, share>>
    BY <1>2 DEF Fail, tables
  <2> QED
    BY <2>2, <2>3, <2>4, ReleaseStep
<1> QED
  BY <1>1, <1>2

\* The actions of a call that has no row yet and takes none.
LEMMA QuietActions ==
  ASSUME TypeOK, RowsInv, NEW c \in Calls, NEW u \in Users,
         \/ SendFriends(c) \/ SendReverse(c) \/ SendInsert(c) \/ LockPending(c) \/ Crossing(c)
         \/ StartClose(c) \/ (\E r \in Requests : CloseRow(c, r)) \/ Start(c, u)
  PROVE  RowsInv'
<1>1. call \in [Calls -> CallRecords]
  BY DEF TypeOK
<1>2. CASE SendFriends(c)
  <2>1. call[c].pc \in Early /\ call'[c].pc \in {"idle", "reverse"}
    BY <1>1, <1>2, IdleType DEF SendFriends, Goto, Done, Early, CallRecords
  <2>2. \A d \in Calls \ {c} : call'[d] = call[d]
    BY <1>1, <1>2 DEF SendFriends, Goto, Done
  <2> QED
    BY <1>2, <2>1, <2>2, EarlyStep DEF SendFriends, tables, locks
<1>3. CASE SendReverse(c)
  <2>1. call[c].pc \in Early /\ call'[c].pc \in {"lock", "insert"}
    BY <1>1, <1>3 DEF SendReverse, Goto, Early, CallRecords
  <2>2. \A d \in Calls \ {c} : call'[d] = call[d]
    BY <1>1, <1>3 DEF SendReverse, Goto
  <2> QED
    BY <1>3, <2>1, <2>2, EarlyStep DEF SendReverse, tables, locks
<1>4. CASE SendInsert(c)
  <2>1. call[c].pc \in Early /\ call'[c].pc = "idle"
    BY <1>1, <1>4, IdleType DEF SendInsert, Done, Early
  <2>2. \A d \in Calls \ {c} : call'[d] = call[d]
    BY <1>1, <1>4 DEF SendInsert, Done
  <2> QED
    BY <1>4, <2>1, <2>2, EarlyStep DEF SendInsert, locks
<1>5. CASE LockPending(c)
  <2>1. call[c].pc \in Early /\ call'[c].pc # "delete"
    BY <1>1, <1>5, IdleType DEF LockPending, Goto, Done, Early, CallRecords
  <2>2. \A d \in Calls \ {c} : call'[d] = call[d]
    BY <1>1, <1>5 DEF LockPending, Goto, Done
  <2> QED
    BY <1>5, <2>1, <2>2, EarlyStep DEF LockPending, tables
<1>6. CASE Crossing(c)
  <2>1. call[c].pc \in Early /\ call'[c].pc = "mine"
    BY <1>1, <1>6 DEF Crossing, Goto, Early, CallRecords
  <2>2. \A d \in Calls \ {c} : call'[d] = call[d]
    BY <1>1, <1>6 DEF Crossing, Goto
  <2> QED
    BY <1>6, <2>1, <2>2, EarlyStep DEF Crossing, tables
<1>7. CASE StartClose(c)
  <2>1. call[c].pc \in Early /\ call'[c].pc = "closing"
    BY <1>1, <1>7 DEF StartClose, Early, CallRecords
  <2>2. \A d \in Calls \ {c} : call'[d] = call[d]
    BY <1>1, <1>7 DEF StartClose
  <2> QED
    BY <1>7, <2>1, <2>2, EarlyStep DEF StartClose, tables, locks
<1>8. ASSUME NEW r \in Requests, CloseRow(c, r)
      PROVE  RowsInv'
  <2>1. call[c].pc \in Early /\ call'[c].pc = "closing"
    BY <1>1, <1>8 DEF CloseRow, Early, CallRecords
  <2>2. \A d \in Calls \ {c} : call'[d] = call[d]
    BY <1>1, <1>8 DEF CloseRow
  <2> QED
    BY <1>8, <2>1, <2>2, EarlyStep DEF CloseRow, tables
<1>9. CASE Start(c, u)
  <2>1. call[c].pc \in Early /\ UNCHANGED <<friend, share, friendLock, shareLock>>
    BY <1>9 DEF Start, Send, Remove, Block, Answer, Early, tables, locks
  <2>2. call'[c].pc \in {"friends", "remove", "lock"}
    BY <1>1, <1>9 DEF Start, Send, Remove, Block, Answer, Begin
  <2>3. \A d \in Calls \ {c} : call'[d] = call[d]
    BY <1>1, <1>9 DEF Start, Send, Remove, Block, Answer
  <2> QED
    BY <2>1, <2>2, <2>3, EarlyStep
<1> QED
  BY <1>2, <1>3, <1>4, <1>5, <1>6, <1>7, <1>8, <1>9

\* A row that nobody holds is taken by c: the locks of the others are as before.
LEMMA TakeFriend ==
  ASSUME TypeOK, NEW c \in Calls, NEW u \in Users, friendLock[u] = NoCall,
         friendLock' = [friendLock EXCEPT ![u] = c], UNCHANGED shareLock
  PROVE  /\ \A v \in Users : HoldsFriend(c, v)' = (v = u \/ HoldsFriend(c, v))
         /\ \A d \in Calls \ {c} : \A v \in Users : HoldsFriend(d, v)' = HoldsFriend(d, v)
         /\ \A d \in Calls : \A v \in Users : HoldsShare(d, v)' = HoldsShare(d, v)
  BY FriendsAssumption DEF TypeOK, HoldsFriend, HoldsShare

LEMMA InsertStep ==
  ASSUME TypeOK, RowsInv, NEW c \in Calls, NEW u \in Users, NEW pc, NEW next,
         <<pc, next>> \in {<<"mine", "theirs">>, <<"theirs", "shares">>}, InsertRow(c, pc, u, next)
  PROVE  RowsInv'
<1>1. call \in [Calls -> CallRecords]
  BY DEF TypeOK
<1>2. call[c].pc = pc /\ call'[c].pc = next /\ \A d \in Calls \ {c} : call'[d] = call[d]
  BY <1>1 DEF InsertRow, Goto, CallRecords
<1>3. UNCHANGED <<friend, share, shareLock>>
  BY DEF InsertRow, tables
<1>4. Holding(c)
  BY DEF RowsInv
<1>5. CASE friend[u]
  <2>1. UNCHANGED friendLock
    BY <1>5 DEF InsertRow
  <2>2. \A v \in Users : HoldsFriend(c, v) => ~friend[v]
    BY <1>2, <1>4 DEF Holding, EarlyFree, InsertsNew, Early
  <2>3. Holding(c)'
    BY <1>2, <1>3, <1>4, <2>1, <2>2
    DEF Holding, EarlyFree, SharesLast, InsertsNew, DeletesBoth, CommitsBoth, Early, HoldsFriend,
        HoldsShare
  <2> QED
    BY <1>2, <1>3, <2>1, <2>3, LocklessStep
<1>6. CASE ~friend[u]
  <2>1. friendLock[u] = NoCall /\ friendLock' = [friendLock EXCEPT ![u] = c]
    BY <1>6 DEF InsertRow
  <2>2. /\ \A v \in Users : HoldsFriend(c, v)' = (v = u \/ HoldsFriend(c, v))
        /\ \A d \in Calls \ {c} : \A v \in Users : HoldsFriend(d, v)' = HoldsFriend(d, v)
        /\ \A d \in Calls : \A v \in Users : HoldsShare(d, v)' = HoldsShare(d, v)
    BY <1>3, <2>1, TakeFriend
  <2>3. \A v \in Users : HoldsFriend(c, v) => ~friend[v]
    BY <1>2, <1>4 DEF Holding, EarlyFree, InsertsNew, Early
  <2>4. \A v \in Users : HoldsFriend(c, v)' => ~friend'[v]
    BY <1>3, <1>6, <2>2, <2>3
  <2>5. \A v \in Users : ~HoldsShare(c, v)'
    BY <1>2, <1>4, <2>2 DEF Holding, SharesLast
  <2>6. Holding(c)'
    BY <1>2, <2>4, <2>5
    DEF Holding, EarlyFree, SharesLast, InsertsNew, DeletesBoth, CommitsBoth, Early
  <2> QED
    BY <1>2, <1>3, <2>2, <2>6, QuietStep
<1> QED
  BY <1>5, <1>6

LEMMA SharesStep == ASSUME TypeOK, RowsInv, NEW c \in Calls, Shares(c) PROVE RowsInv'
<1> DEFINE new == {u \in Users : ~share[u]}
<1>1. CASE Rollback(c)
  BY <1>1, RollbackStep
<1>2. CASE /\ \A u \in new : RefersToFriendship(c, u)
           /\ shareLock' = [u \in Users |-> IF u \in new THEN c ELSE shareLock[u]]
           /\ Goto(c, "commit")
           /\ UNCHANGED <<tables, blocks, reqLock, friendLock>>
  <2>1. call \in [Calls -> CallRecords]
    BY DEF TypeOK
  <2>2. call[c].pc = "shares" /\ call'[c].pc = "commit" /\ \A d \in Calls \ {c} : call'[d] = call[d]
    BY <1>2, <2>1 DEF Shares, Goto, CallRecords
  <2>3. Holding(c) /\ BothWays
    BY DEF RowsInv
  <2>4. \A u \in Users : shareLock[u] = NoCall
    BY DEF Shares
  <2>5. \A d \in Calls \ {c} : \A u \in Users : HoldsShare(d, u)' = HoldsShare(d, u)
    BY <1>2, <2>4, FriendsAssumption DEF HoldsShare
  <2>6. \A d \in Calls : \A u \in Users : HoldsFriend(d, u)' = HoldsFriend(d, u)
    BY <1>2 DEF HoldsFriend
  <2>7. \A u \in Users : friend[u] = friend[Other(u)] /\ share[u] = friend[u]
    BY <2>3 DEF BothWays
  <2>8. \A u \in Users : \A v \in Users : friend[u] = friend[v]
    BY <2>7, OtherType DEF Users, Other
  <2>9. \A u \in Users : HoldsShare(c, u)' = ~share[u]
    BY <1>2, <2>4, FriendsAssumption DEF HoldsShare
  <2>10. \A u \in Users : HoldsFriend(c, u) => ~friend[u]
    BY <2>2, <2>3 DEF Holding, InsertsNew
  <2>11. \A u \in Users : ~share[u] => friend[u] \/ HoldsFriend(c, u)
    BY <1>2 DEF RefersToFriendship, HoldsFriend
  <2>12. \/ \A u \in Users : HoldsFriend(c, u)' /\ HoldsShare(c, u)'
         \/ \A u \in Users : ~HoldsFriend(c, u)' /\ ~HoldsShare(c, u)'
    <3>1. friend \in [Users -> BOOLEAN] /\ share \in [Users -> BOOLEAN]
      BY DEF TypeOK
    <3>2. CASE \A u \in Users : friend[u]
      BY <2>6, <2>7, <2>9, <2>10, <3>1, <3>2
    <3>3. CASE \A u \in Users : ~friend[u]
      BY <2>6, <2>7, <2>9, <2>11, <3>1, <3>3
    <3> QED
      BY <2>8, <3>2, <3>3
  <2>13. Holding(c)'
    BY <2>2, <2>12
    DEF Holding, EarlyFree, SharesLast, InsertsNew, DeletesBoth, CommitsBoth, Early
  <2>14. UNCHANGED <<friend, share>>
    BY <1>2 DEF tables
  <2> QED
    BY <2>2, <2>5, <2>6, <2>13, <2>14, QuietStep
<1> QED
  BY <1>1, <1>2 DEF Shares

LEMMA StartDeleteStep == ASSUME TypeOK, RowsInv, NEW c \in Calls, StartDelete(c) PROVE RowsInv'
<1>1. call \in [Calls -> CallRecords] /\ friend \in [Users -> BOOLEAN]
  BY DEF TypeOK
<1>2. /\ call[c].pc = "remove"
      /\ call'[c].pc = "delete"
      /\ call'[c].rows = {u \in Users : friend[u]}
      /\ \A d \in Calls \ {c} : call'[d] = call[d]
  BY <1>1 DEF StartDelete, CallRecords
<1>3. UNCHANGED <<friend, share, friendLock, shareLock>>
  BY DEF StartDelete, tables, locks
<1>4. \A u \in Users : ~HoldsFriend(c, u)' /\ ~HoldsShare(c, u)'
  BY <1>2, <1>3 DEF RowsInv, Holding, EarlyFree, SharesLast, Early, HoldsFriend, HoldsShare
<1>5. \A u \in Users : Removes(c, u)' = friend'[u]
  BY <1>1, <1>2, <1>3, <1>4 DEF Removes
<1>6. \A u \in Users : \A v \in Users : friend[u] = friend[v]
  BY OtherType DEF RowsInv, BothWays, Users, Other
<1>7. DeletesBoth(c)'
  BY <1>3, <1>5, <1>6 DEF DeletesBoth
<1>8. Holding(c)'
  BY <1>2, <1>4, <1>7 DEF Holding, EarlyFree, SharesLast, InsertsNew, CommitsBoth, Early
<1> QED
  BY <1>2, <1>3, <1>8, LocklessStep

LEMMA DeleteRowStep ==
  ASSUME TypeOK, RowsInv, NEW c \in Calls, NEW u \in Users, DeleteRow(c, u)
  PROVE  RowsInv'
<1>1. call \in [Calls -> CallRecords]
  BY DEF TypeOK
<1>2. /\ call[c].pc = "delete" /\ call'[c].pc = "delete"
      /\ u \in call[c].rows /\ call'[c].rows = call[c].rows \ {u}
      /\ \A d \in Calls \ {c} : call'[d] = call[d]
  BY <1>1 DEF DeleteRow, CallRecords
<1>3. UNCHANGED <<friend, share, shareLock>>
  BY DEF DeleteRow, tables
<1>4. /\ \A v \in Users : HoldsFriend(c, v)' = (v = u \/ HoldsFriend(c, v))
      /\ \A d \in Calls \ {c} : \A v \in Users : HoldsFriend(d, v)' = HoldsFriend(d, v)
      /\ \A d \in Calls : \A v \in Users : HoldsShare(d, v)' = HoldsShare(d, v)
  BY <1>3, TakeFriend DEF DeleteRow
<1>5. \A v \in Users : Removes(c, v)' = Removes(c, v)
  BY <1>2, <1>4 DEF Removes
<1>6. Holding(c)
  BY DEF RowsInv
<1>7. DeletesBoth(c)'
  BY <1>2, <1>3, <1>5, <1>6 DEF Holding, DeletesBoth
<1>8. \A v \in Users : ~HoldsShare(c, v)'
  BY <1>2, <1>4, <1>6 DEF Holding, SharesLast
<1>9. Holding(c)'
  BY <1>2, <1>7, <1>8 DEF Holding, EarlyFree, SharesLast, InsertsNew, CommitsBoth, Early
<1> QED
  BY <1>2, <1>3, <1>4, <1>9, QuietStep

LEMMA EndDeleteStep == ASSUME TypeOK, RowsInv, NEW c \in Calls, EndDelete(c) PROVE RowsInv'
<1> DEFINE gone == {u \in Users : friendLock[u] = c}
<1>1. CASE Rollback(c)
  BY <1>1, RollbackStep
<1>2. CASE /\ gone # {}
           /\ \A u \in gone : shareLock[u] = NoCall
           /\ shareLock' = [u \in Users |-> IF u \in gone /\ share[u] THEN c ELSE shareLock[u]]
           /\ Goto(c, "commit")
           /\ UNCHANGED <<tables, blocks, reqLock, friendLock>>
  <2>1. call \in [Calls -> CallRecords]
    BY DEF TypeOK
  <2>2. /\ call[c].pc = "delete" /\ call[c].rows = {} /\ call'[c].pc = "commit"
        /\ \A d \in Calls \ {c} : call'[d] = call[d]
    BY <1>2, <2>1 DEF EndDelete, Goto, CallRecords
  <2>3. Holding(c) /\ \A u \in Users : share[u] = friend[u]
    BY DEF RowsInv, BothWays
  <2>4. \A u \in Users : HoldsFriend(c, u) /\ friend[u]
    BY <1>2, <2>2, <2>3 DEF Holding, DeletesBoth, Removes, HoldsFriend
  <2>5. \A u \in Users : u \in gone /\ shareLock[u] = NoCall /\ share[u]
    BY <1>2, <2>3, <2>4 DEF HoldsFriend
  <2>6. \A u \in Users : shareLock'[u] = c
    BY <1>2, <2>5
  <2>7. \A d \in Calls \ {c} : \A u \in Users : HoldsShare(d, u)' = HoldsShare(d, u)
    BY <2>5, <2>6, FriendsAssumption DEF HoldsShare
  <2>8. \A d \in Calls : \A u \in Users : HoldsFriend(d, u)' = HoldsFriend(d, u)
    BY <1>2 DEF HoldsFriend
  <2>9. Holding(c)'
    BY <2>2, <2>4, <2>6, <2>8
    DEF Holding, EarlyFree, SharesLast, InsertsNew, DeletesBoth, CommitsBoth, Early, HoldsShare
  <2>10. UNCHANGED <<friend, share>>
    BY <1>2 DEF tables
  <2> QED
    BY <2>2, <2>7, <2>8, <2>9, <2>10, QuietStep
<1> QED
  BY <1>1, <1>2 DEF EndDelete

\* Whoever commits holds the two rows with their share settings, or none.
LEMMA WholeAtCommit ==
  ASSUME NEW c \in Calls, Holding(c), Commit(c)
  PROVE  \/ \A u \in Users : HoldsFriend(c, u) /\ HoldsShare(c, u)
         \/ \A u \in Users : ~HoldsFriend(c, u) /\ ~HoldsShare(c, u)
  BY DEF Commit, Holding, EarlyFree, SharesLast, CommitsBoth, Early

LEMMA CommitStep == ASSUME TypeOK, RowsInv, NEW c \in Calls, Commit(c) PROVE RowsInv'
<1> DEFINE gone == {u \in Users : friendLock[u] = c /\ friend[u]}
           drop(d) == [call[d] EXCEPT !.rows = @ \ gone]
<1>1. /\ call \in [Calls -> CallRecords]
      /\ friend \in [Users -> BOOLEAN] /\ share \in [Users -> BOOLEAN]
  BY DEF TypeOK
<1>2. /\ friend' = [u \in Users |-> (friendLock[u] = c) # friend[u]]
      /\ share' = [u \in Users |-> (shareLock[u] = c) # share[u]]
      /\ Release(c)
      /\ call' = [d \in Calls |-> IF d = c THEN NextStatement(c) ELSE drop(d)]
  BY DEF Commit
<1>3. call'[c].pc # "delete"
  BY <1>2, NextStatementPc
<1>4. /\ \A u \in Users : ~HoldsFriend(c, u)' /\ ~HoldsShare(c, u)'
      /\ \A d \in Calls \ {c} : \A u \in Users : HoldsFriend(d, u)' = HoldsFriend(d, u)
      /\ \A d \in Calls \ {c} : \A u \in Users : HoldsShare(d, u)' = HoldsShare(d, u)
  BY <1>2, FriendsAssumption DEF Release, HoldsFriend, HoldsShare
<1>5. CASE \A u \in Users : ~HoldsFriend(c, u) /\ ~HoldsShare(c, u)
  <2>1. gone = {}
    BY <1>5 DEF HoldsFriend
  <2>2. UNCHANGED <<friend, share>>
    BY <1>1, <1>2, <1>5 DEF HoldsFriend, HoldsShare
  <2> HIDE DEF gone
  <2>3. \A d \in Calls \ {c} : call'[d] = call[d]
    BY <1>1, <1>2, <2>1 DEF CallRecords
  <2> QED
    BY <1>2, <1>3, <2>2, <2>3, ReleaseStep
<1>6. CASE \A u \in Users : HoldsFriend(c, u) /\ HoldsShare(c, u)
  <2>1. \A u \in Users : friend'[u] = ~friend[u] /\ share'[u] = ~share[u]
    BY <1>1, <1>2, <1>6 DEF HoldsFriend, HoldsShare
  <2>2. \A u \in Users : friend[u] = friend[Other(u)] /\ share[u] = friend[u]
    BY DEF RowsInv, BothWays
  <2>3. BothWays'
    BY <2>1, <2>2, OtherType DEF BothWays
  <2>4. \A u \in Users : \A v \in Users : friend[u] = friend[v]
    BY <2>2, OtherType DEF Users, Other
  <2>5. ASSUME NEW d \in Calls \ {c}
        PROVE  Holding(d)'
    <3>1. \A u \in Users : ~HoldsFriend(d, u)' /\ ~HoldsShare(d, u)'
      BY <1>4, <1>6 DEF HoldsFriend, HoldsShare
    <3>2. call'[d] = drop(d)
      BY <1>2, <2>5
    <3>3. call'[d].pc = call[d].pc /\ call'[d].rows = call[d].rows \ gone
      BY <1>1, <3>2 DEF CallRecords
    <3>4. \A u \in Users : u \in gone <=> friend[u]
      BY <1>6 DEF HoldsFriend
    <3> HIDE DEF gone
    <3>5. DeletesBoth(d)
      BY DEF RowsInv, Holding
    <3>6. call[d].pc = "delete" => \A u \in Users : ~Removes(d, u)'
      BY <2>4, <3>1, <3>3, <3>4, <3>5 DEF DeletesBoth, Removes
    <3> QED
      BY <3>1, <3>3, <3>6
      DEF Holding, EarlyFree, SharesLast, InsertsNew, DeletesBoth, CommitsBoth
  <2>6. Holding(c)'
    BY <1>3, <1>4, HoldsNothing
  <2> QED
    BY <2>3, <2>5, <2>6 DEF RowsInv
<1>7. Holding(c)
  BY DEF RowsInv
<1> QED
  BY <1>5, <1>6, <1>7, WholeAtCommit

LEMMA RowsInit == Init => RowsInv
<1> SUFFICES ASSUME Init
             PROVE  RowsInv
  OBVIOUS
<1>1. BothWays
  BY OtherType DEF Init, BothWays
<1>2. ASSUME NEW c \in Calls
      PROVE  Holding(c)
  <2>1. call[c].pc = "idle" /\ \A u \in Users : ~HoldsFriend(c, u) /\ ~HoldsShare(c, u)
    BY FriendsAssumption, IdleType DEF Init, HoldsFriend, HoldsShare
  <2> QED
    BY <2>1 DEF Holding, EarlyFree, SharesLast, InsertsNew, DeletesBoth, CommitsBoth
<1> QED
  BY <1>1, <1>2 DEF RowsInv

LEMMA RowsStep == ASSUME TypeOK, RowsInv, [Next]_vars PROVE RowsInv'
<1>1. CASE UNCHANGED <<friend, share, friendLock, shareLock, call>>
  BY <1>1
  DEF RowsInv, BothWays, Holding, EarlyFree, SharesLast, InsertsNew, DeletesBoth, CommitsBoth,
      Removes, HoldsFriend, HoldsShare
<1>2. ASSUME NEW c \in Calls, Step(c)
      PROVE  RowsInv'
  <2>1. call[c].me \in Users /\ Other(call[c].me) \in Users
    BY OtherType DEF TypeOK, CallRecords
  <2>2. CASE \/ SendFriends(c) \/ SendReverse(c) \/ SendInsert(c) \/ LockPending(c) \/ Crossing(c)
             \/ StartClose(c) \/ \E r \in Requests : CloseRow(c, r)
    BY <2>1, <2>2, QuietActions
  <2>3. CASE InsertRow(c, "mine", call[c].me, "theirs")
    BY <2>1, <2>3, InsertStep
  <2>4. CASE InsertRow(c, "theirs", Other(call[c].me), "shares")
    BY <2>1, <2>4, InsertStep
  <2>5. CASE Shares(c)
    BY <2>5, SharesStep
  <2>6. CASE StartDelete(c) \/ (\E u \in Users : DeleteRow(c, u)) \/ EndDelete(c)
    BY <2>6, StartDeleteStep, DeleteRowStep, EndDeleteStep
  <2>7. CASE Commit(c) \/ Deadlock(c)
    BY <2>7, CommitStep, FailStep
  <2> QED
    BY <1>2, <2>2, <2>3, <2>4, <2>5, <2>6, <2>7 DEF Step
<1>3. ASSUME NEW c \in Calls, Fail(c)
      PROVE  RowsInv'
  BY <1>3, FailStep
<1>4. ASSUME NEW c \in Calls, NEW u \in Users, Start(c, u)
      PROVE  RowsInv'
  BY <1>4, QuietActions
<1>5. ASSUME NEW u \in Users, Unblock(u)
      PROVE  UNCHANGED <<friend, share, friendLock, shareLock, call>>
  BY <1>5 DEF Unblock, tables, locks
<1> QED
  BY <1>1, <1>2, <1>3, <1>4, <1>5 DEF Next, vars, tables, locks

\* FriendshipIsMutual: two users are friends both ways, each with a row of share
\* settings, or not at all, whatever requests, acceptances, removals and blocks
\* run at the same time and wherever they fail.
THEOREM FriendshipIsMutual == Spec => []BothWays
<1>1. RowsInv => BothWays
  BY DEF RowsInv
<1> QED
  BY <1>1, TypeCorrect, RowsInit, RowsStep, PTL DEF Spec

----------------------------------------------------------------------------
(* The requests.                                                           *)

LEMMA LockedInit == Init => LockedPending
  BY DEF Init, LockedPending

\* The requests and their locks are as they were, but for locks given back.
LEMMA LocksReturned ==
  ASSUME LockedPending, UNCHANGED req,
         \A r \in Requests : reqLock'[r] \in {NoCall, reqLock[r]}
  PROVE  LockedPending'
  BY DEF LockedPending, Pending

\* Requests are changed where they were not used yet, or by a commit.
LEMMA LockedStep ==
  ASSUME TypeOK, LockedPending, [Next]_vars
  PROVE  /\ LockedPending'
         /\ \A r \in Requests :
              req[r].status \notin {"unused", "pending"} => req'[r].status = req[r].status
<1> USE DEF LockedPending, Pending
<1>1. CASE UNCHANGED <<req, reqLock>>
  BY <1>1
<1>2. CASE UNCHANGED req /\ \E c \in Calls : Release(c)
  BY <1>2, LocksReturned DEF Release
<1>3. ASSUME NEW c \in Calls, Rollback(c) \/ Fail(c)
      PROVE  UNCHANGED req /\ Release(c)
  BY <1>3 DEF Rollback, Fail, tables
<1>4. ASSUME NEW c \in Calls, SendInsert(c)
      PROVE  /\ LockedPending'
             /\ \A r \in Requests :
                  req[r].status \notin {"unused", "pending"} => req'[r].status = req[r].status
  BY <1>4 DEF SendInsert, locks, TypeOK
<1>5. ASSUME NEW c \in Calls, LockPending(c) \/ Crossing(c) \/ (\E r \in Requests : CloseRow(c, r))
      PROVE  LockedPending' /\ UNCHANGED req
  BY <1>5 DEF LockPending, Crossing, CloseRow, PendingFrom, tables, TypeOK
<1>6. ASSUME NEW c \in Calls, Commit(c)
      PROVE  /\ LockedPending'
             /\ \A r \in Requests :
                  req[r].status \notin {"unused", "pending"} => req'[r].status = req[r].status
  <2>1. \A r \in Requests : reqLock[r] # c => req'[r] = req[r]
    BY <1>6 DEF Commit
  <2>2. \A r \in Requests : reqLock'[r] # NoCall => reqLock'[r] = reqLock[r] /\ reqLock[r] # c
    BY <1>6, FriendsAssumption DEF Commit, Release
  <2> QED
    BY <2>1, <2>2, FriendsAssumption
<1>7. ASSUME NEW c \in Calls, Step(c), ~SendInsert(c), ~Commit(c)
      PROVE  /\ LockedPending'
             /\ \A r \in Requests :
                  req[r].status \notin {"unused", "pending"} => req'[r].status = req[r].status
  <2>1. CASE SendFriends(c) \/ SendReverse(c) \/ StartDelete(c) \/ StartClose(c)
    BY <1>1, <2>1 DEF SendFriends, SendReverse, StartDelete, StartClose, tables, locks
  <2>2. CASE LockPending(c) \/ Crossing(c) \/ \E r \in Requests : CloseRow(c, r)
    BY <1>5, <2>2
  <2>3. CASE \/ InsertRow(c, "mine", call[c].me, "theirs")
             \/ InsertRow(c, "theirs", Other(call[c].me), "shares")
    BY <1>1, <2>3 DEF InsertRow, tables
  <2>4. CASE Shares(c) \/ EndDelete(c) \/ Deadlock(c)
    BY <1>1, <1>2, <1>3, <2>4 DEF Shares, EndDelete, Deadlock, tables
  <2>5. CASE \E u \in Users : DeleteRow(c, u)
    BY <1>1, <2>5 DEF DeleteRow, tables
  <2> QED
    BY <1>7, <2>1, <2>2, <2>3, <2>4, <2>5 DEF Step
<1>8. ASSUME NEW c \in Calls, NEW u \in Users, Start(c, u)
      PROVE  UNCHANGED <<req, reqLock>>
  BY <1>8 DEF Start, Send, Remove, Block, Answer, tables, locks
<1>9. ASSUME NEW u \in Users, Unblock(u)
      PROVE  UNCHANGED <<req, reqLock>>
  BY <1>9 DEF Unblock, tables, locks
<1> QED
  BY <1>1, <1>2, <1>3, <1>4, <1>6, <1>7, <1>8, <1>9 DEF Next, vars, tables, locks

\* AnsweredForGood: what was answered stays answered, whatever calls race for a
\* request.
THEOREM AnsweredForGood == Spec => AnsweredOnce
<1> QED
  BY TypeCorrect, LockedInit, LockedStep, PTL DEF Spec, AnsweredOnce

----------------------------------------------------------------------------
(* Whose request makes friends.                                            *)

Accepting == {"send", "accept"}

\* The steps of an acceptance from the lock of its request on.
Locked == {"crossing", "mine", "theirs", "shares"}

\* What a call does fits what it was asked to do.
OpFits(c) ==
  /\ call[c].pc \in {"friends", "reverse", "insert"} => call[c].op = "send"
  /\ call[c].pc = "lock" => call[c].op \in Accepting \cup {"reject", "cancel"}
  /\ call[c].pc \in Locked => call[c].op \in Accepting
  /\ call[c].pc \in {"remove", "delete"} => call[c].op \notin Accepting

\* A call that accepts has a request that the other one made, and holds it.
Asked(c) ==
  LET r == call[c].r IN
  call[c].op \in Accepting /\ call[c].pc \in Locked \cup {"lock", "commit"} =>
    /\ r \in Requests
    /\ req[r].status # "unused" /\ req[r].from = Other(call[c].me)
    /\ call[c].pc # "lock" => reqLock[r] = c

\* A call that does not accept holds rows that are there, if any.
RemovesOld(c) ==
  call[c].pc = "commit" /\ call[c].op \notin Accepting =>
    \A u \in Users : HoldsFriend(c, u) => friend[u]

Consent(c) == OpFits(c) /\ Asked(c) /\ RemovesOld(c)

\* A call is in the same place.
SamePlace(d) ==
  /\ call'[d].pc = call[d].pc /\ call'[d].op = call[d].op
  /\ call'[d].me = call[d].me /\ call'[d].r = call[d].r

\* What a call has locked remains so.
KeepsLocks(d) ==
  /\ \A r \in Requests : reqLock[r] = d => reqLock'[r] = d
  /\ \A u \in Users : HoldsFriend(d, u)' => HoldsFriend(d, u) /\ friend'[u] = friend[u]

\* Requests do not vanish and keep their sender.
LEMMA RequestsKept ==
  ASSUME TypeOK, [Next]_vars
  PROVE  \A r \in Requests :
           req[r].status # "unused" =>
             req'[r].status # "unused" /\ req'[r].from = req[r].from
<1>1. CASE UNCHANGED req
  BY <1>1
<1>2. ASSUME NEW c \in Calls, SendInsert(c) \/ Commit(c)
      PROVE  \A r \in Requests :
               req[r].status # "unused" =>
                 req'[r].status # "unused" /\ req'[r].from = req[r].from
  BY <1>2 DEF SendInsert, Commit, Verdict, TypeOK
<1>3. ASSUME NEW c \in Calls, Step(c), ~SendInsert(c), ~Commit(c)
      PROVE  UNCHANGED req
  BY <1>3
  DEF Step, SendFriends, SendReverse, LockPending, Crossing, InsertRow, Shares, StartDelete,
      DeleteRow, EndDelete, StartClose, CloseRow, Deadlock, Rollback, tables
<1>4. ASSUME NEW c \in Calls, Fail(c) \/ \E u \in Users : Start(c, u)
      PROVE  UNCHANGED req
  BY <1>4 DEF Fail, Start, Send, Remove, Block, Answer, tables
<1> QED
  BY <1>1, <1>2, <1>3, <1>4 DEF Next, Unblock, vars, tables

\* A call that goes on with what it has.
LEMMA ConsentKept ==
  ASSUME NEW d \in Calls, Consent(d), SamePlace(d), KeepsLocks(d),
         \A r \in Requests :
           req[r].status # "unused" =>
             req'[r].status # "unused" /\ req'[r].from = req[r].from
  PROVE  Consent(d)'
  BY DEF Consent, OpFits, Asked, RemovesOld, SamePlace, KeepsLocks

\* What a step of one call leaves to the others.
LEMMA OthersKept ==
  ASSUME TypeOK, RowsInv, NEW c \in Calls, NEW u \in Users, Step(c) \/ Fail(c) \/ Start(c, u)
  PROVE  \A d \in Calls \ {c} : SamePlace(d) /\ KeepsLocks(d)
<1> SUFFICES ASSUME NEW d \in Calls \ {c}
             PROVE  SamePlace(d) /\ KeepsLocks(d)
  OBVIOUS
<1> USE FriendsAssumption DEF HoldsFriend
<1>1. call \in [Calls -> CallRecords]
  BY DEF TypeOK
<1>2. CASE SendFriends(c) \/ SendReverse(c) \/ SendInsert(c) \/ StartDelete(c) \/ StartClose(c)
  BY <1>1, <1>2
  DEF SendFriends, SendReverse, SendInsert, StartDelete, StartClose, Goto, Done, tables, locks,
      SamePlace, KeepsLocks
<1>3. CASE LockPending(c) \/ Crossing(c) \/ \E r \in Requests : CloseRow(c, r)
  <2>1. SamePlace(d)
    BY <1>1, <1>3 DEF LockPending, Crossing, CloseRow, Goto, Done, SamePlace
  <2>2. KeepsLocks(d)
    BY <1>3 DEF LockPending, Crossing, CloseRow, tables, KeepsLocks, TypeOK
  <2> QED
    BY <2>1, <2>2
<1>4. CASE \/ InsertRow(c, "mine", call[c].me, "theirs")
           \/ InsertRow(c, "theirs", Other(call[c].me), "shares")
           \/ \E v \in Users : DeleteRow(c, v)
  <2>1. SamePlace(d)
    BY <1>1, <1>4 DEF InsertRow, DeleteRow, Goto, SamePlace
  <2>2. KeepsLocks(d)
    BY <1>4 DEF InsertRow, DeleteRow, tables, KeepsLocks, TypeOK
  <2> QED
    BY <2>1, <2>2
<1>5. CASE Rollback(c) \/ Fail(c)
  BY <1>1, <1>5 DEF Rollback, Fail, Release, tables, SamePlace, KeepsLocks
<1>6. CASE Shares(c) \/ EndDelete(c) \/ Deadlock(c)
  BY <1>1, <1>5, <1>6
  DEF Shares, EndDelete, Deadlock, Goto, tables, SamePlace, KeepsLocks
<1>7. CASE Commit(c)
  <2> DEFINE gone == {v \in Users : friendLock[v] = c /\ friend[v]}
  <2>1. call'[d] = [call[d] EXCEPT !.rows = @ \ gone]
    BY <1>7 DEF Commit
  <2> HIDE DEF gone
  <2>2. SamePlace(d)
    BY <1>1, <2>1 DEF CallRecords, SamePlace
  <2>3. \A v \in Users : friendLock'[v] = d => friendLock[v] = d /\ friendLock[v] # c
    BY <1>7 DEF Commit, Release
  <2>4. \A v \in Users : friendLock[v] # c => friend'[v] = friend[v]
    <3>1. \A v \in Users : friend'[v] = ((friendLock[v] = c) # friend[v]) /\ friend[v] \in BOOLEAN
      BY <1>7 DEF Commit, TypeOK
    <3> QED
      BY <3>1
  <2>5. \A r \in Requests : reqLock[r] = d => reqLock'[r] = d
    BY <1>7 DEF Commit, Release
  <2> QED
    BY <2>2, <2>3, <2>4, <2>5 DEF KeepsLocks
<1>8. CASE Start(c, u)
  BY <1>1, <1>8
  DEF Start, Send, Remove, Block, Answer, tables, locks, SamePlace, KeepsLocks
<1> QED
  BY <1>2, <1>3, <1>4, <1>5, <1>6, <1>7, <1>8 DEF Step

\* A call that starts, or turns to its next statement, has locked nothing.
LEMMA OwnStart ==
  ASSUME NEW c \in Calls,
         \/ call'[c].op \in {"none", "close"} /\ call'[c].pc \in {"idle", "close"}
         \/ call'[c].op = "send" /\ call'[c].pc = "friends"
         \/ call'[c].op \in {"remove", "block"} /\ call'[c].pc = "remove"
  PROVE  Consent(c)'
  BY DEF Consent, OpFits, Asked, RemovesOld, Accepting, Locked

LEMMA NextStatementOp ==
  ASSUME NEW c \in Calls PROVE NextStatement(c).op \in {"none", "close"}
  BY DEF NextStatement, Begin, Idle

\* A call goes on without a row and leaves its locks alone.
LEMMA OwnGoto ==
  ASSUME TypeOK, NEW c \in Calls, NEW pc \in Pcs, Consent(c), Goto(c, pc),
         call[c].pc \in Locked, pc \in Locked \cup {"commit"},
         UNCHANGED req, \A r \in Requests : reqLock[r] = c => reqLock'[r] = c
  PROVE  Consent(c)'
<1>1. call \in [Calls -> CallRecords]
  BY DEF TypeOK
<1>2. /\ call'[c].pc = pc /\ call'[c].op = call[c].op
      /\ call'[c].me = call[c].me /\ call'[c].r = call[c].r
  BY <1>1 DEF Goto, CallRecords
<1> QED
  BY <1>2 DEF Consent, OpFits, Asked, RemovesOld, Accepting, Locked

\* What a step of a call leaves to itself.
LEMMA OwnConsent ==
  ASSUME TypeOK, RowsInv, LockedPending, NEW c \in Calls, NEW u \in Users, Consent(c),
         Step(c) \/ Fail(c) \/ Start(c, u)
  PROVE  Consent(c)'
<1>1. call \in [Calls -> CallRecords]
  BY DEF TypeOK
<1>2. Idle.op = "none" /\ Idle.pc = "idle"
  BY DEF Idle, Begin
<1>3. CASE Done(c) \/ Rollback(c) \/ Fail(c) \/ Commit(c)
  <2>1. call'[c] \in {Idle, NextStatement(c)}
    BY <1>1, <1>3 DEF Done, Rollback, Fail, Commit
  <2> QED
    BY <1>2, <2>1, NextStatementOp, NextStatementPc, OwnStart
<1>4. CASE Goto(c, "reverse") /\ SendFriends(c)
  BY <1>1, <1>4
  DEF SendFriends, Goto, CallRecords, Consent, OpFits, Asked, RemovesOld, Accepting, Locked
<1>5. CASE SendReverse(c)
  <2>1. call[c].pc = "reverse" /\ call[c].op = "send" /\ UNCHANGED <<req, reqLock>>
    BY <1>5 DEF SendReverse, Consent, OpFits, tables, locks
  <2>2. CASE Goto(c, "insert")
    BY <1>1, <2>1, <2>2
    DEF Goto, CallRecords, Consent, OpFits, Asked, RemovesOld, Accepting, Locked
  <2>3. ASSUME NEW r \in PendingFrom(Other(call[c].me)),
               call' = [call EXCEPT ![c].pc = "lock", ![c].r = r]
        PROVE  Consent(c)'
    <3>1. r \in Requests /\ req[r].status # "unused" /\ req[r].from = Other(call[c].me)
      BY <2>3 DEF PendingFrom, Pending
    <3>2. /\ call'[c].pc = "lock" /\ call'[c].op = "send" /\ call'[c].r = r
          /\ call'[c].me = call[c].me
      BY <1>1, <2>1, <2>3 DEF CallRecords
    <3> QED
      BY <2>1, <3>1, <3>2 DEF Consent, OpFits, Asked, RemovesOld, Accepting, Locked
  <2> QED
    BY <1>5, <2>2, <2>3 DEF SendReverse
<1>6. CASE LockPending(c) /\ ~Done(c)
  <2> DEFINE r == call[c].r
             pc == IF call[c].op \in {"reject", "cancel"} THEN "commit" ELSE "crossing"
  <2>1. /\ call[c].pc = "lock" /\ UNCHANGED <<req, friend, friendLock>>
        /\ Pending(r) /\ reqLock' = [reqLock EXCEPT ![r] = c] /\ Goto(c, pc)
    BY <1>6 DEF LockPending, tables
  <2>2. r \in Requests /\ reqLock'[r] = c
    BY <2>1 DEF TypeOK
  <2>3. \A v \in Users : ~HoldsFriend(c, v)'
    BY <2>1 DEF RowsInv, Holding, EarlyFree, Early, HoldsFriend
  <2>4. /\ call'[c].pc = pc /\ call'[c].op = call[c].op
        /\ call'[c].me = call[c].me /\ call'[c].r = r
    BY <1>1, <2>1 DEF Goto, CallRecords
  <2> QED
    BY <2>1, <2>2, <2>3, <2>4 DEF Consent, OpFits, Asked, RemovesOld, Accepting, Locked
<1>7. CASE Crossing(c)
  <2>1. /\ call[c].pc \in Locked /\ "mine" \in Locked \cap Pcs /\ Goto(c, "mine")
        /\ UNCHANGED req /\ \A r \in Requests : reqLock[r] = c => reqLock'[r] = c
    BY <1>7 DEF Crossing, Locked, Pcs, tables
  <2> QED
    BY <2>1, OwnGoto
<1>8. CASE \/ InsertRow(c, "mine", call[c].me, "theirs")
           \/ InsertRow(c, "theirs", Other(call[c].me), "shares")
  <2>1. PICK pc \in Locked \cap Pcs : Goto(c, pc)
    BY <1>8 DEF InsertRow, Locked, Pcs
  <2>2. call[c].pc \in Locked /\ UNCHANGED <<req, reqLock>>
    BY <1>8 DEF InsertRow, Locked, tables
  <2> QED
    BY <2>1, <2>2, OwnGoto
<1>9. CASE Shares(c) /\ ~Rollback(c)
  <2>1. /\ call[c].pc \in Locked /\ "commit" \in Pcs /\ Goto(c, "commit")
        /\ UNCHANGED <<req, reqLock>>
    BY <1>9 DEF Shares, Locked, Pcs, tables
  <2> QED
    BY <2>1, OwnGoto
<1>10. CASE StartDelete(c) \/ \E v \in Users : DeleteRow(c, v)
  <2>1. /\ call[c].pc \in {"remove", "delete"}
        /\ call'[c].pc = "delete" /\ call'[c].op = call[c].op
    BY <1>1, <1>10 DEF StartDelete, DeleteRow, CallRecords
  <2> QED
    BY <2>1 DEF Consent, OpFits, Asked, RemovesOld, Accepting, Locked
<1>11. CASE EndDelete(c) /\ ~Rollback(c)
  <2>1. /\ call[c].pc = "delete" /\ call'[c].pc = "commit" /\ call'[c].op = call[c].op
        /\ UNCHANGED <<friend, friendLock>>
    BY <1>1, <1>11 DEF EndDelete, Goto, CallRecords, tables
  <2>2. \A v \in Users : HoldsFriend(c, v) => friend[v]
    BY <2>1 DEF RowsInv, Holding, DeletesBoth, Removes
  <2>3. \A v \in Users : HoldsFriend(c, v)' => friend'[v]
    BY <2>1, <2>2 DEF HoldsFriend
  <2> QED
    BY <2>1, <2>3 DEF Consent, OpFits, Asked, RemovesOld, Accepting, Locked
<1>12. CASE StartClose(c) \/ \E r \in Requests : CloseRow(c, r)
  <2>1. call'[c].pc = "closing"
    BY <1>1, <1>12 DEF StartClose, CloseRow, CallRecords
  <2> QED
    BY <2>1 DEF Consent, OpFits, Asked, RemovesOld, Locked
<1>13. CASE Send(c, u) \/ Remove(c, u) \/ Block(c, u)
  BY <1>1, <1>13, OwnStart DEF Send, Remove, Block, Begin
<1>14. ASSUME NEW op \in {"accept", "reject", "cancel"}, NEW r \in Requests, Answer(c, op, u, r)
       PROVE  Consent(c)'
  <2>1. /\ call'[c].pc = "lock" /\ call'[c].op = op /\ call'[c].me = u /\ call'[c].r = r
        /\ UNCHANGED req
    BY <1>1, <1>14 DEF Answer, Begin, tables
  <2>2. req[r].status # "unused" /\ (op = "accept" => req[r].from = Other(u))
    BY <1>14 DEF Answer, MayAnswer
  <2> QED
    BY <2>1, <2>2 DEF Consent, OpFits, Asked, RemovesOld, Accepting, Locked
<1>15. (SendFriends(c) => Done(c) \/ Goto(c, "reverse")) /\ (SendInsert(c) => Done(c))
       /\ (Deadlock(c) => Rollback(c))
  BY DEF SendFriends, SendInsert, Deadlock
<1> QED
  BY <1>3, <1>4, <1>5, <1>6, <1>7, <1>8, <1>9, <1>10, <1>11, <1>12, <1>13, <1>14, <1>15
  DEF Step, Start

LEMMA ConsentInit == ASSUME Init, NEW c \in Calls PROVE Consent(c)
<1>1. call[c].pc = "idle" /\ call[c].op = "none"
  BY DEF Init, Idle, Begin
<1> QED
  BY <1>1 DEF Consent, OpFits, Asked, RemovesOld, Accepting, Locked

LEMMA ConsentStep ==
  ASSUME TypeOK, RowsInv, LockedPending, \A c \in Calls : Consent(c), [Next]_vars
  PROVE  (\A c \in Calls : Consent(c))'
<1>1. CASE UNCHANGED <<tables, locks, call>>
  BY <1>1 DEF Consent, OpFits, Asked, RemovesOld, HoldsFriend, tables, locks
<1>2. ASSUME NEW c \in Calls, NEW u \in Users, Step(c) \/ Fail(c) \/ Start(c, u)
      PROVE  \A d \in Calls : Consent(d)'
  <2>1. Consent(c)'
    BY <1>2, OwnConsent
  <2>2. \A d \in Calls \ {c} : SamePlace(d) /\ KeepsLocks(d)
    BY <1>2, OthersKept
  <2>3. \A d \in Calls \ {c} : Consent(d)'
    BY <2>2, ConsentKept, RequestsKept
  <2> QED
    BY <2>1, <2>3
<1>3. UserA \in Users
  BY DEF Users
<1> QED
  BY <1>1, <1>2, <1>3 DEF Next, Unblock, vars

\* Where a friendship comes from.
LEMMA ConsentNeeded ==
  ASSUME TypeOK, RowsInv, LockedPending, \A c \in Calls : Consent(c), [Next]_vars,
         NEW u \in Users, friend'[u], ~friend[u]
  PROVE  \E c \in Calls, r \in Requests :
           /\ req[r].status = "pending" /\ req'[r].status = "accepted"
           /\ reqLock[r] = c /\ req[r].from = Other(call[c].me)
<1>1. ASSUME NEW c \in Calls, Step(c), ~Commit(c)
      PROVE  UNCHANGED friend
  BY <1>1
  DEF Step, SendFriends, SendReverse, SendInsert, LockPending, Crossing, InsertRow, Shares,
      StartDelete, DeleteRow, EndDelete, StartClose, CloseRow, Deadlock, Rollback, tables
<1>2. ASSUME NEW c \in Calls, Fail(c) \/ \E v \in Users : Start(c, v)
      PROVE  UNCHANGED friend
  BY <1>2 DEF Fail, Start, Send, Remove, Block, Answer, tables
<1>3. PICK c \in Calls : Commit(c)
  BY <1>1, <1>2 DEF Next, Unblock, vars, tables
<1>4. HoldsFriend(c, u)
  <2>1. friendLock[u] # c => friend'[u] = friend[u]
    <3>1. friend'[u] = ((friendLock[u] = c) # friend[u]) /\ friend[u] \in BOOLEAN
      BY <1>3 DEF Commit, TypeOK
    <3> QED
      BY <3>1
  <2> QED
    BY <2>1 DEF HoldsFriend
<1>5. call[c].pc = "commit"
  BY <1>3, <1>4 DEF Commit, RowsInv, Holding, EarlyFree, Early
<1>6. call[c].op \in Accepting
  BY <1>4, <1>5 DEF Consent, RemovesOld
<1> DEFINE r == call[c].r
<1>7. r \in Requests /\ req[r].from = Other(call[c].me) /\ reqLock[r] = c
  BY <1>5, <1>6 DEF Consent, Asked
<1>8. req[r].status = "pending"
  BY <1>7, FriendsAssumption DEF LockedPending, Pending
<1>9. req'[r].status = "accepted"
  BY <1>3, <1>6, <1>7 DEF Commit, Verdict, Accepting
<1> QED
  BY <1>7, <1>8, <1>9

\* OnlyByConsent: two users become friends in no other way than by a request that
\* one of them sent, that is still pending, and that the other one accepts.
THEOREM OnlyByConsent == Spec => FriendsByConsent
<1>1. Init => \A c \in Calls : Consent(c)
  BY ConsentInit
<1>2. TypeOK /\ RowsInv /\ LockedPending /\ (\A c \in Calls : Consent(c)) /\ [Next]_vars =>
        (\A c \in Calls : Consent(c))'
  BY ConsentStep
<1>3. TypeOK /\ RowsInv /\ LockedPending /\ (\A c \in Calls : Consent(c)) /\ [Next]_vars =>
        ((\E u \in Users : friend'[u] /\ ~friend[u]) =>
           \E c \in Calls, r \in Requests :
             /\ req[r].status = "pending" /\ req'[r].status = "accepted"
             /\ reqLock[r] = c /\ req[r].from = Other(call[c].me))
  BY ConsentNeeded
<1> QED
  BY <1>1, <1>2, <1>3, TypeCorrect, RowsInit, RowsStep, LockedInit, LockedStep, PTL
  DEF Spec, FriendsByConsent
----------------------------------------------------------------------------
(* The calls implement the agreement.                                      *)

\* The requests a call has locked are those it is about to answer.
AnswersOwn(c) ==
  \A s \in Requests : reqLock[s] = c =>
    \/ call[c].pc = "closing"
    \/ /\ call[c].pc \in Locked \cup {"commit"} /\ call[c].op \in Accepting
       /\ s = call[c].r \/ req[s].from = call[c].me
    \/ call[c].pc = "commit" /\ call[c].op \in {"reject", "cancel"} /\ s = call[c].r

\* At its commit, only an acceptance brings rows and only a removal takes some.
BringsOrTakes(c) ==
  call[c].pc = "commit" =>
    /\ call[c].op \in Accepting \cup {"reject", "cancel", "remove", "block"}
    /\ \A u \in Users : HoldsFriend(c, u) =>
         \/ call[c].op \in Accepting /\ ~friend[u]
         \/ call[c].op \in {"remove", "block"}

Deed(c) ==
  /\ call[c].pc \in {"close", "closing"} => call[c].op = "close"
  /\ call[c].pc \in {"remove", "delete"} => call[c].op \in {"remove", "block"}
  /\ AnswersOwn(c)
  /\ BringsOrTakes(c)

DeedInv == \A c \in Calls : Deed(c)

\* What is locked by another call was so before.
LEMMA OthersLocks ==
  ASSUME TypeOK, NEW c \in Calls, NEW u \in Users, Step(c) \/ Fail(c) \/ Start(c, u),
         NEW d \in Calls \ {c}, NEW s \in Requests, reqLock'[s] = d
  PROVE  reqLock[s] = d
<1> USE FriendsAssumption
<1>1. reqLock \in [Requests -> Calls \cup {NoCall}]
  BY DEF TypeOK
<1>2. CASE Release(c)
  BY <1>2 DEF Release
<1>3. CASE LockPending(c) \/ Crossing(c) \/ \E r \in Requests : CloseRow(c, r)
  BY <1>1, <1>3 DEF LockPending, Crossing, CloseRow
<1>4. CASE UNCHANGED reqLock
  BY <1>4
<1>5. Rollback(c) \/ Fail(c) \/ Commit(c) => Release(c)
  BY DEF Rollback, Fail, Commit
<1>6. CASE SendFriends(c) \/ SendReverse(c) \/ SendInsert(c) \/ StartDelete(c) \/ StartClose(c)
  BY <1>4, <1>6 DEF SendFriends, SendReverse, SendInsert, StartDelete, StartClose, locks
<1>7. CASE \/ InsertRow(c, "mine", call[c].me, "theirs")
           \/ InsertRow(c, "theirs", Other(call[c].me), "shares")
           \/ \E v \in Users : DeleteRow(c, v)
  BY <1>4, <1>7 DEF InsertRow, DeleteRow
<1>8. CASE Shares(c) \/ EndDelete(c) \/ Deadlock(c)
  BY <1>2, <1>4, <1>5, <1>8 DEF Shares, EndDelete, Deadlock
<1>9. CASE Start(c, u)
  BY <1>4, <1>9 DEF Start, Send, Remove, Block, Answer, locks
<1> QED
  BY <1>2, <1>3, <1>5, <1>6, <1>7, <1>8, <1>9 DEF Step

\* A call that goes on with what it has.
LEMMA DeedKept ==
  ASSUME TypeOK, LockedPending, [Next]_vars, NEW d \in Calls, Deed(d), SamePlace(d), KeepsLocks(d),
         \A s \in Requests : reqLock'[s] = d => reqLock[s] = d
  PROVE  Deed(d)'
<1>1. \A s \in Requests : reqLock[s] = d => req'[s].from = req[s].from
  BY RequestsKept, FriendsAssumption DEF LockedPending, Pending
<1>2. AnswersOwn(d)'
  BY <1>1 DEF Deed, AnswersOwn, SamePlace
<1>3. BringsOrTakes(d)'
  BY DEF Deed, BringsOrTakes, SamePlace, KeepsLocks
<1> QED
  BY <1>2, <1>3 DEF Deed, SamePlace

\* A call that has locked nothing and is not far.
LEMMA DeedStart ==
  ASSUME NEW c \in Calls, \A s \in Requests : reqLock'[s] # c,
         \/ call'[c].pc \in {"idle", "friends", "reverse", "insert", "lock", "mine"}
         \/ call'[c].op = "close" /\ call'[c].pc \in {"close", "closing"}
         \/ call'[c].op \in {"remove", "block"} /\ call'[c].pc \in {"remove", "delete"}
  PROVE  Deed(c)'
  BY DEF Deed, AnswersOwn, BringsOrTakes

LEMMA NextStatementClose ==
  ASSUME NEW c \in Calls
  PROVE  \/ NextStatement(c).pc = "idle"
         \/ NextStatement(c).pc = "close" /\ NextStatement(c).op = "close"
  BY DEF NextStatement, Begin, Idle

\* What a step of a call leaves to itself.
LEMMA OwnDeed ==
  ASSUME TypeOK, RowsInv, LockedPending, NEW c \in Calls, NEW u \in Users, Consent(c), Deed(c),
         Step(c) \/ Fail(c) \/ Start(c, u)
  PROVE  Deed(c)'
<1>1. /\ call \in [Calls -> CallRecords]
      /\ reqLock \in [Requests -> Calls \cup {NoCall}]
  BY DEF TypeOK
<1>2. Idle.op = "none" /\ Idle.pc = "idle"
  BY DEF Idle, Begin
<1>3. call[c].pc \notin Locked \cup {"commit", "closing"} => \A s \in Requests : reqLock[s] # c
  BY DEF Deed, AnswersOwn
<1>4. CASE Rollback(c) \/ Fail(c) \/ Commit(c)
  <2>1. call'[c] \in {Idle, NextStatement(c)}
    BY <1>1, <1>4 DEF Rollback, Fail, Commit
  <2>2. \A s \in Requests : reqLock'[s] # c
    BY <1>4, FriendsAssumption DEF Rollback, Fail, Commit, Release
  <2> QED
    BY <1>2, <2>1, <2>2, NextStatementClose, DeedStart
<1>5. CASE SendFriends(c) \/ SendReverse(c) \/ SendInsert(c)
  <2>1. /\ call[c].pc \in {"friends", "reverse", "insert"}
        /\ UNCHANGED reqLock
        /\ call'[c].pc \in {"idle", "reverse", "insert", "lock"}
    BY <1>1, <1>2, <1>5 DEF SendFriends, SendReverse, SendInsert, Done, Goto, CallRecords, locks
  <2>2. \A s \in Requests : reqLock'[s] # c
    BY <1>3, <2>1 DEF Locked
  <2> QED
    BY <2>1, <2>2, DeedStart
<1>6. CASE LockPending(c) /\ Done(c)
  <2>1. call'[c].pc = "idle"
    BY <1>1, <1>2, <1>6 DEF Done
  <2>2. \A s \in Requests : reqLock'[s] # c
    <3>1. call[c].pc = "lock" /\ \A s \in Requests : reqLock[s] # c
      BY <1>3, <1>6 DEF LockPending, Locked
    <3>2. CASE UNCHANGED reqLock
      BY <3>1, <3>2
    <3>3. CASE call'[c].pc \in {"commit", "crossing"}
      BY <2>1, <3>3
    <3>4. Goto(c, IF call[c].op \in {"reject", "cancel"} THEN "commit" ELSE "crossing")
            => call'[c].pc \in {"commit", "crossing"}
      BY <1>1 DEF Goto, CallRecords
    <3> QED
      BY <1>6, <3>2, <3>3, <3>4 DEF LockPending
  <2> QED
    BY <2>1, <2>2, DeedStart
<1>7. CASE LockPending(c) /\ ~Done(c)
  <2> DEFINE r == call[c].r
             pc == IF call[c].op \in {"reject", "cancel"} THEN "commit" ELSE "crossing"
  <2>1. /\ call[c].pc = "lock" /\ UNCHANGED <<req, friend, friendLock>>
        /\ Pending(r) /\ reqLock' = [reqLock EXCEPT ![r] = c] /\ Goto(c, pc)
    BY <1>7 DEF LockPending, tables
  <2>2. \A s \in Requests : reqLock'[s] = c => s = r
    BY <1>1, <1>3, <2>1 DEF Locked
  <2>3. \A v \in Users : ~HoldsFriend(c, v)'
    BY <2>1 DEF RowsInv, Holding, EarlyFree, Early, HoldsFriend
  <2>4. /\ call'[c].pc = pc /\ call'[c].op = call[c].op /\ call'[c].r = r
    BY <1>1, <2>1 DEF Goto, CallRecords
  <2>5. call[c].op \in Accepting \cup {"reject", "cancel"}
    BY <2>1 DEF Consent, OpFits
  <2> QED
    BY <2>2, <2>3, <2>4, <2>5 DEF Deed, AnswersOwn, BringsOrTakes, Locked, Accepting
<1>8. CASE Crossing(c)
  <2>1. /\ call[c].pc = "crossing" /\ UNCHANGED req /\ Goto(c, "mine")
        /\ reqLock' = [r \in Requests |-> IF r \in PendingFrom(call[c].me) THEN c ELSE reqLock[r]]
    BY <1>8 DEF Crossing, tables
  <2>2. /\ call'[c].pc = "mine" /\ call'[c].op = call[c].op /\ call'[c].r = call[c].r
        /\ call'[c].me = call[c].me
    BY <1>1, <2>1 DEF Goto, CallRecords
  <2>3. call[c].op \in Accepting
    BY <2>1 DEF Consent, OpFits, Locked
  <2>4. \A s \in Requests : reqLock'[s] = c => s = call[c].r \/ req[s].from = call[c].me
    BY <2>1, <2>3 DEF PendingFrom, Deed, AnswersOwn
  <2> QED
    BY <2>1, <2>2, <2>3, <2>4 DEF Deed, AnswersOwn, BringsOrTakes, Locked
<1>9. CASE \/ InsertRow(c, "mine", call[c].me, "theirs")
           \/ InsertRow(c, "theirs", Other(call[c].me), "shares")
           \/ Shares(c) /\ ~Rollback(c)
  <2>1. PICK pc \in {"theirs", "shares", "commit"} : Goto(c, pc)
    BY <1>9 DEF InsertRow, Shares
  <2>2. /\ call[c].pc \in {"mine", "theirs", "shares"} /\ UNCHANGED <<req, reqLock, friend>>
        /\ pc = "commit" => call[c].pc = "shares" /\ UNCHANGED friendLock
    BY <1>1, <1>9, <2>1 DEF InsertRow, Shares, Goto, CallRecords, tables
  <2>3. /\ call'[c].pc = pc /\ call'[c].op = call[c].op /\ call'[c].r = call[c].r
        /\ call'[c].me = call[c].me
    BY <1>1, <2>1 DEF Goto, CallRecords
  <2>4. call[c].op \in Accepting
    BY <2>2 DEF Consent, OpFits, Locked
  <2>5. AnswersOwn(c)'
    BY <2>2, <2>3, <2>4 DEF Deed, AnswersOwn, Locked
  <2>6. pc = "commit" => \A v \in Users : HoldsFriend(c, v)' => ~friend'[v]
    BY <2>2 DEF RowsInv, Holding, InsertsNew, HoldsFriend
  <2> QED
    BY <2>3, <2>4, <2>5, <2>6 DEF Deed, BringsOrTakes
<1>10. CASE StartDelete(c) \/ (\E v \in Users : DeleteRow(c, v)) \/ (EndDelete(c) /\ ~Rollback(c))
  <2>1. /\ call[c].pc \in {"remove", "delete"} /\ UNCHANGED reqLock
        /\ call'[c].pc \in {"delete", "commit"} /\ call'[c].op = call[c].op
    BY <1>1, <1>10 DEF StartDelete, DeleteRow, EndDelete, Goto, CallRecords, locks
  <2>2. call[c].op \in {"remove", "block"} /\ \A s \in Requests : reqLock'[s] # c
    BY <1>3, <2>1 DEF Deed, Locked
  <2> QED
    BY <2>1, <2>2 DEF Deed, AnswersOwn, BringsOrTakes
<1>11. CASE StartClose(c) \/ \E r \in Requests : CloseRow(c, r)
  <2>1. call[c].op = "close" /\ call'[c].pc = "closing" /\ call'[c].op = call[c].op
    BY <1>1, <1>11 DEF StartClose, CloseRow, CallRecords, Deed
  <2> QED
    BY <2>1 DEF Deed, AnswersOwn, BringsOrTakes
<1>12. CASE Start(c, u)
  <2>1. call[c].pc = "idle" /\ UNCHANGED reqLock
    BY <1>12 DEF Start, Send, Remove, Block, Answer, locks
  <2>2. \A s \in Requests : reqLock'[s] # c
    BY <1>3, <2>1 DEF Locked
  <2>3. \/ call'[c].pc \in {"friends", "lock"}
        \/ call'[c].op \in {"remove", "block"} /\ call'[c].pc = "remove"
    BY <1>1, <1>12 DEF Start, Send, Remove, Block, Answer, Begin
  <2> QED
    BY <2>2, <2>3, DeedStart
<1>13. Deadlock(c) => Rollback(c)
  BY DEF Deadlock
<1> QED
  BY <1>4, <1>5, <1>6, <1>7, <1>8, <1>9, <1>10, <1>11, <1>12, <1>13 DEF Step

LEMMA DeedInit == Init => DeedInv
<1> SUFFICES ASSUME Init, NEW c \in Calls
             PROVE  Deed(c)
  BY DEF DeedInv
<1>1. call[c].pc = "idle" /\ \A s \in Requests : reqLock[s] # c
  BY FriendsAssumption DEF Init, Idle, Begin
<1> QED
  BY <1>1 DEF Deed, AnswersOwn, BringsOrTakes

AgreeInv == TypeOK /\ RowsInv /\ LockedPending /\ (\A c \in Calls : Consent(c)) /\ DeedInv

LEMMA AgreeInit == Init => AgreeInv
  BY InitType, RowsInit, LockedInit, ConsentInit, DeedInit DEF AgreeInv

LEMMA AgreeStep == ASSUME AgreeInv, [Next]_vars PROVE AgreeInv'
<1> USE DEF AgreeInv
<1>1. TypeOK' /\ RowsInv' /\ LockedPending' /\ (\A c \in Calls : Consent(c))'
  BY StepType, RowsStep, LockedStep, ConsentStep
<1>2. CASE UNCHANGED <<tables, locks, call>>
  BY <1>1, <1>2 DEF DeedInv, Deed, AnswersOwn, BringsOrTakes, HoldsFriend, tables, locks
<1>3. ASSUME NEW c \in Calls, NEW u \in Users, Step(c) \/ Fail(c) \/ Start(c, u)
      PROVE  DeedInv'
  <2>1. Deed(c)'
    BY <1>3, OwnDeed DEF DeedInv
  <2>2. ASSUME NEW d \in Calls \ {c}
        PROVE  Deed(d)'
    <3>1. SamePlace(d) /\ KeepsLocks(d)
      BY <1>3, OthersKept
    <3>2. \A s \in Requests : reqLock'[s] = d => reqLock[s] = d
      BY <1>3, OthersLocks
    <3> QED
      BY <3>1, <3>2, DeedKept DEF DeedInv
  <2> QED
    BY <2>1, <2>2 DEF DeedInv
<1>4. UserA \in Users
  BY DEF Users
<1> QED
  BY <1>1, <1>2, <1>3, <1>4 DEF Next, Unblock, vars

\* What a commit answers, and what it makes of the friendship.
LEMMA CommitAgrees ==
  ASSUME AgreeInv, NEW c \in Calls, Commit(c)
  PROVE  [Agreement!Next]_<<{u \in Users : friend[u]}, req>>
<1> DEFINE A == {r \in Requests : reqLock[r] = c}
           F == {u \in Users : friend[u]}
           me == call[c].me
           op == call[c].op
<1> USE DEF AgreeInv
<1>1. /\ req \in [Requests -> [from: Users, status: Statuses]]
      /\ friend \in [Users -> BOOLEAN] /\ me \in Users
  BY DEF TypeOK, CallRecords
<1>2. Holding(c) /\ Consent(c) /\ Deed(c) /\ \A u, v \in Users : friend[u] = friend[v]
  BY OtherType DEF RowsInv, BothWays, DeedInv, Users, Other
<1>3. A \in SUBSET Requests /\ A \subseteq Agreement!Pending
  BY FriendsAssumption DEF LockedPending, Pending, Agreement!Pending
<1>4. Agreement!Answered(A, Verdict(op))
  <2>1. req' = [r \in Requests |->
                  IF r \in A THEN [from |-> req[r].from, status |-> Verdict(op)] ELSE req[r]]
    BY DEF Commit
  <2> QED
    BY <1>3, <2>1 DEF Agreement!Answered
<1>5. A = {} => UNCHANGED req
  BY <1>1 DEF Commit
<1>6. call[c].pc = "commit" \/ (call[c].pc = "closing" /\ op = "close")
  BY <1>2 DEF Commit, Deed
<1>7. \/ F' = F /\ \A u \in Users : ~HoldsFriend(c, u)
      \/ /\ call[c].pc = "commit"
         /\ \A u \in Users : HoldsFriend(c, u)
         /\ F' = {u \in Users : ~friend[u]}
  <2>1. \A u \in Users : friend'[u] = ((friendLock[u] = c) # friend[u]) /\ friend[u] \in BOOLEAN
    BY <1>1 DEF Commit
  <2>2. CASE \A u \in Users : ~HoldsFriend(c, u)
    <3>1. \A u \in Users : friend'[u] = friend[u]
      BY <2>1, <2>2 DEF HoldsFriend
    <3> QED
      BY <2>2, <3>1
  <2>3. CASE \A u \in Users : HoldsFriend(c, u)
    <3>1. \A u \in Users : friend'[u] = ~friend[u]
      BY <2>1, <2>3 DEF HoldsFriend
    <3>2. call[c].pc = "commit"
      BY <1>2, <1>6, <2>3 DEF Holding, EarlyFree, Early, Users
    <3> QED
      BY <2>3, <3>1, <3>2
  <2> QED
    BY <1>2, <2>2, <2>3, WholeAtCommit
<1>8. CASE call[c].pc = "commit" /\ op \in Accepting
  <2>1. PICK u \in Users, r \in A : u = me /\ r = call[c].r /\ req[r].from = Other(u)
    BY <1>1, <1>2, <1>8 DEF Consent, Asked
  <2>2. \A s \in A \ {r} : req[s].from = u
    BY <1>2, <1>8, <2>1 DEF Deed, AnswersOwn, Accepting
  <2>3. Verdict(op) = "accepted"
    BY <1>8 DEF Verdict, Accepting
  <2>4. F' \in {Users, F}
    BY <1>2, <1>7, <1>8 DEF Deed, BringsOrTakes, Accepting
  <2>5. Agreement!Accept(u, r)
    <3>1. req[r].from # u
      BY <2>1, OtherType
    <3> HIDE DEF A, F
    <3> QED
      BY <1>3, <1>4, <2>2, <2>3, <2>4, <3>1 DEF Agreement!Accept, F
  <2>6. r \in Requests
    OBVIOUS
  <2> QED
    BY <2>5, <2>6 DEF Agreement!Next
<1>9. CASE call[c].pc = "commit" /\ op \in {"remove", "block"}
  <2>1. A = {} /\ UNCHANGED req
    BY <1>2, <1>5, <1>9 DEF Deed, AnswersOwn, Accepting
  <2>2. CASE \A u \in Users : HoldsFriend(c, u)
    <3>1. \A u \in Users : friend[u]
      BY <1>2, <1>9, <2>2 DEF Consent, RemovesOld, Accepting
    <3>2. F # {} /\ F' = {}
      BY <1>7, <2>2, <3>1 DEF Users
    <3>3. Agreement!Remove
      BY <2>1, <3>2 DEF Agreement!Remove
    <3> QED
      BY <3>3 DEF Agreement!Next
  <2> QED
    BY <1>7, <2>1, <2>2
<1>10. CASE op \in {"reject", "cancel", "close"}
  <2>1. F' = F
    BY <1>2, <1>6, <1>7, <1>10 DEF Deed, BringsOrTakes, Accepting, Users
  <2>2. CASE op # "cancel"
    <3>1. Verdict(op) = "rejected"
      BY <1>10, <2>2 DEF Verdict
    <3>2. Agreement!Refuse
      BY <1>3, <1>4, <2>1, <3>1 DEF Agreement!Refuse
    <3> QED
      BY <3>2 DEF Agreement!Next
  <2>3. CASE op = "cancel"
    <3>1. A = {} \/ A = {call[c].r}
      BY <1>2, <1>6, <2>3 DEF Deed, AnswersOwn, Accepting
    <3>2. CASE A = {call[c].r}
      <4>1. call[c].r \in Requests /\ Verdict(op) = "canceled"
        BY <2>3, <3>2 DEF Verdict
      <4>2. Agreement!Cancel(call[c].r)
        BY <1>4, <2>1, <3>2, <4>1 DEF Agreement!Cancel
      <4> QED
        BY <4>1, <4>2 DEF Agreement!Next
    <3> QED
      BY <1>5, <2>1, <3>1, <3>2
  <2> QED
    BY <2>2, <2>3
<1> QED
  BY <1>2, <1>6, <1>8, <1>9, <1>10 DEF Deed, BringsOrTakes

LEMMA AgreementStep ==
  ASSUME AgreeInv, [Next]_vars
  PROVE  [Agreement!Next]_<<{u \in Users : friend[u]}, req>>
<1>1. CASE UNCHANGED <<friend, req>>
  BY <1>1
<1>2. ASSUME NEW c \in Calls, SendInsert(c)
      PROVE  [Agreement!Next]_<<{u \in Users : friend[u]}, req>>
  <2>1. CASE UNCHANGED req
    BY <1>1, <1>2, <2>1 DEF SendInsert
  <2>2. CASE ~UNCHANGED req
    <3>1. PICK r \in Requests :
            /\ req[r].status = "unused"
            /\ req' = [req EXCEPT ![r] = [from |-> call[c].me, status |-> "pending"]]
      BY <1>2, <2>2 DEF SendInsert
    <3>2. call[c].me \in Users /\ UNCHANGED friend
      BY <1>2 DEF SendInsert, AgreeInv, TypeOK, CallRecords
    <3>3. \A s \in Agreement!Pending : req[s].from # call[c].me
      BY <1>2, <2>2 DEF SendInsert, PendingFrom, Pending, Agreement!Pending
    <3>4. Agreement!Ask(call[c].me, r)
      BY <3>1, <3>2, <3>3 DEF Agreement!Ask
    <3> QED
      BY <3>1, <3>2, <3>4 DEF Agreement!Next
  <2> QED
    BY <2>1, <2>2
<1>3. ASSUME NEW c \in Calls, Step(c), ~SendInsert(c), ~Commit(c)
      PROVE  UNCHANGED <<friend, req>>
  BY <1>3
  DEF Step, SendFriends, SendReverse, LockPending, Crossing, InsertRow, Shares, StartDelete,
      DeleteRow, EndDelete, StartClose, CloseRow, Deadlock, Rollback, tables
<1>4. ASSUME NEW c \in Calls, Fail(c) \/ \E u \in Users : Start(c, u)
      PROVE  UNCHANGED <<friend, req>>
  BY <1>4 DEF Fail, Start, Send, Remove, Block, Answer, tables
<1> QED
  BY <1>1, <1>2, <1>3, <1>4, CommitAgrees DEF Next, Unblock, vars, tables

LEMMA AgreementInit == Init => Agreement!Init
<1> SUFFICES ASSUME Init
             PROVE  Agreement!Init
  OBVIOUS
<1>1. {u \in Users : friend[u]} = {}
  BY DEF Init
<1>2. UserA \in Users
  BY DEF Users
<1> QED
  BY <1>1, <1>2 DEF Init, Agreement!Init

\* For any number of calls and requests, with their statements interleaved, failing
\* and deadlocking, what becomes of the two users is what Friendship says: whole
\* requests, acceptances, refusals and removals, one after the other.
THEOREM ImplementsFriendship == Spec => IsFriendship
<1>1. AgreeInv /\ [Next]_vars => AgreeInv'
  BY AgreeStep
<1>2. AgreeInv /\ [Next]_vars => [Agreement!Next]_<<{u \in Users : friend[u]}, req>>
  BY AgreementStep
<1> QED
  BY <1>1, <1>2, AgreeInit, AgreementInit, PTL DEF Spec, IsFriendship, Agreement!Spec
============================================================================
