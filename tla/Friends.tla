------------------------------ MODULE Friends ------------------------------
(***************************************************************************)
(* Friend requests, friendships and blocks between two users               *)
(* (ramupin-server/src/friends).  A friendship is two rows, one for each   *)
(* of them, and each has a row of share settings that refers to it.  The   *)
(* calls run side by side; their statements see what is committed, wait    *)
(* for rows another transaction has changed, and look again after that     *)
(* (READ COMMITTED).                                                       *)
(*                                                                         *)
(* A transaction holds the lock of every row it changed, and its changes   *)
(* are applied when it commits: the locked rows of friendships and share   *)
(* settings come into being or go away, the locked requests are answered.  *)
(***************************************************************************)
EXTENDS Naturals, FiniteSets

CONSTANTS
  UserA, UserB,
  Calls,       \* calls under way at the same time
  NoCall,      \* nobody holds the row's lock
  MaxRequests, \* bound: friend requests ever made
  Faults       \* whether transactions may fail and servers die

ASSUME FriendsAssumption ==
  /\ UserA # UserB
  /\ NoCall \notin Calls
  /\ MaxRequests \in Nat
  /\ Faults \in BOOLEAN

Users == {UserA, UserB}
Other(u) == IF u = UserA THEN UserB ELSE UserA
Requests == 1 .. MaxRequests

VARIABLES
  req,        \* req[r]: who sent the request, and its status
  friend,     \* friend[u]: whether u has a row in friendships
  share,      \* share[u]: whether u has a row in friend_share_settings
  blocks,     \* the users who have blocked the other one
  reqLock, friendLock, shareLock, \* the call whose transaction changed the row
  call        \* call[c]: the call c is running

tables == <<req, friend, share>>
locks == <<reqLock, friendLock, shareLock>>
vars == <<tables, blocks, locks, call>>

Statuses == {"unused", "pending", "accepted", "rejected", "canceled"}

Ops == {"none", "send", "accept", "reject", "cancel", "remove", "block", "close"}

Pcs == {"idle", "friends", "reverse", "insert", "lock", "crossing", "mine", "theirs",
        "shares", "remove", "delete", "close", "closing", "commit"}

\* r: the request to be answered; rows, reqs: what the running statement found
\* when it started and has not come to yet.
CallRecords ==
  [op: Ops, pc: Pcs, me: Users, r: 0 .. MaxRequests, rows: SUBSET Users, reqs: SUBSET Requests]

Begin(op, pc, u) == [op |-> op, pc |-> pc, me |-> u, r |-> 0, rows |-> {}, reqs |-> {}]

Idle == Begin("none", "idle", UserA)

Init ==
  /\ req = [r \in Requests |-> [from |-> UserA, status |-> "unused"]]
  /\ friend = [u \in Users |-> FALSE]
  /\ share = [u \in Users |-> FALSE]
  /\ blocks = {}
  /\ reqLock = [r \in Requests |-> NoCall]
  /\ friendLock = [u \in Users |-> NoCall]
  /\ shareLock = [u \in Users |-> NoCall]
  /\ call = [c \in Calls |-> Idle]

----------------------------------------------------------------------------
(* Calls and transactions.                                                 *)

\* Mutation: an answered request may be answered again.
PendingOnceUsed(r) == req[r].status # "unused"

Pending(r) == req[r].status = "pending"

\* Mutation: the update of the crossing request does not ask for its status.
SentBy(u) == {r \in Requests : req[r].status # "unused" /\ req[r].from = u}

\* The requests of u that are not answered yet.
PendingFrom(u) == {r \in Requests : Pending(r) /\ req[r].from = u}

Goto(c, pc) == call' = [call EXCEPT ![c].pc = pc]

Done(c) == call' = [call EXCEPT ![c] = Idle]

\* Mutation: a block tries the removal again until it works.
NextStatementRetrying(c) ==
  IF call[c].op = "block" THEN Begin("block", "remove", call[c].me) ELSE Idle

\* A block goes on whether the removal worked or not; any other call is over.
NextStatement(c) ==
  IF call[c].op = "block" THEN Begin("close", "close", call[c].me) ELSE Idle

\* The transaction of c is over.
Release(c) ==
  /\ reqLock' = [r \in Requests |-> IF reqLock[r] = c THEN NoCall ELSE reqLock[r]]
  /\ friendLock' = [u \in Users |-> IF friendLock[u] = c THEN NoCall ELSE friendLock[u]]
  /\ shareLock' = [u \in Users |-> IF shareLock[u] = c THEN NoCall ELSE shareLock[u]]

Rollback(c) ==
  /\ UNCHANGED <<tables, blocks>>
  /\ Release(c)
  /\ call' = [call EXCEPT ![c] = NextStatement(c)]

\* Mutation: a status the table does not know.
VerdictBlocked(op) ==
  CASE op \in {"send", "accept"} -> "accepted"
    [] op = "cancel" -> "canceled"
    [] op = "close" -> "blocked"
    [] OTHER -> "rejected"

\* What becomes of the requests a call has locked.
Verdict(op) ==
  CASE op \in {"send", "accept"} -> "accepted"
    [] op = "cancel" -> "canceled"
    [] OTHER -> "rejected"

\* Rows that were deleted are gone for the statements that had found them; new
\* ones with the same key are others.
Commit(c) ==
  LET gone == {u \in Users : friendLock[u] = c /\ friend[u]} IN
  /\ call[c].pc = "commit" \/ (call[c].pc = "closing" /\ call[c].reqs = {})
  /\ req' = [r \in Requests |->
               IF reqLock[r] = c
               THEN [from |-> req[r].from, status |-> Verdict(call[c].op)] ELSE req[r]]
  /\ friend' = [u \in Users |-> (friendLock[u] = c) # friend[u]]
  /\ share' = [u \in Users |-> (shareLock[u] = c) # share[u]]
  /\ Release(c)
  /\ call' = [d \in Calls |-> IF d = c THEN NextStatement(c)
                                ELSE [call[d] EXCEPT !.rows = @ \ gone]]
  /\ UNCHANGED blocks

----------------------------------------------------------------------------
(* Sending a request.                                                      *)

\* isBlockedBetween.  Bound: there is a request left for every send under way.
Send(c, u) ==
  /\ call[c].pc = "idle"
  /\ blocks = {}
  /\ Cardinality({d \in Calls : call[d].op = "send"})
       < Cardinality({r \in Requests : req[r].status = "unused"})
  /\ call' = [call EXCEPT ![c] = Begin("send", "friends", u)]
  /\ UNCHANGED <<tables, blocks, locks>>

\* Are they friends already?
SendFriends(c) ==
  /\ call[c].pc = "friends"
  /\ IF friend[call[c].me] THEN Done(c) ELSE Goto(c, "reverse")
  /\ UNCHANGED <<tables, blocks, locks>>

\* A pending request of the other one is accepted instead.  (The number of
\* requests a day, 50, is not reached here.)
SendReverse(c) ==
  LET theirs == PendingFrom(Other(call[c].me)) IN
  /\ call[c].pc = "reverse"
  /\ \/ \E r \in theirs : call' = [call EXCEPT ![c].pc = "lock", ![c].r = r]
     \/ theirs = {} /\ Goto(c, "insert")
  /\ UNCHANGED <<tables, blocks, locks>>

\* The unique index of pending requests makes a second one the first.
SendInsert(c) ==
  LET u == call[c].me IN
  /\ call[c].pc = "insert"
  /\ \A r \in PendingFrom(u) : reqLock[r] = NoCall
  /\ \/ PendingFrom(u) # {} /\ UNCHANGED req
     \/ /\ PendingFrom(u) = {}
        /\ \E r \in Requests :
             /\ req[r].status = "unused"
             /\ \A s \in Requests : s < r => req[s].status # "unused"
             /\ req' = [req EXCEPT ![r] = [from |-> u, status |-> "pending"]]
  /\ Done(c)
  /\ UNCHANGED <<friend, share, blocks, locks>>

----------------------------------------------------------------------------
(* Answering a request.                                                    *)

\* The request is mine to accept, to reject or to cancel.
MayAnswer(op, u, r) == IF op = "cancel" THEN req[r].from = u ELSE req[r].from = Other(u)

\* accept, reject or cancel of a request somebody saw on the screen.
Answer(c, op, u, r) ==
  /\ call[c].pc = "idle"
  /\ req[r].status # "unused"
  /\ MayAnswer(op, u, r)
  /\ call' = [call EXCEPT ![c] = [Begin(op, "lock", u) EXCEPT !.r = r]]
  /\ UNCHANGED <<tables, blocks, locks>>

\* lockPending, and the update of that request.
LockPending(c) ==
  LET r == call[c].r IN
  /\ call[c].pc = "lock"
  /\ reqLock[r] = NoCall
  /\ IF Pending(r)
     THEN /\ reqLock' = [reqLock EXCEPT ![r] = c]
          /\ Goto(c, IF call[c].op \in {"reject", "cancel"} THEN "commit" ELSE "crossing")
     ELSE /\ Done(c)
          /\ UNCHANGED reqLock
  /\ UNCHANGED <<tables, blocks, friendLock, shareLock>>

\* accept also answers the request that crossed this one.
Crossing(c) ==
  LET mine == PendingFrom(call[c].me) IN
  /\ call[c].pc = "crossing"
  /\ \A r \in mine : reqLock[r] \in {NoCall, c}
  /\ reqLock' = [r \in Requests |-> IF r \in mine THEN c ELSE reqLock[r]]
  /\ Goto(c, "mine")
  /\ UNCHANGED <<tables, blocks, friendLock, shareLock>>

\* One row of the insert into friendships: nothing when it is there already.
InsertRow(c, pc, u, next) ==
  /\ call[c].pc = pc
  /\ friendLock[u] = NoCall
  /\ friendLock' = IF friend[u] THEN friendLock ELSE [friendLock EXCEPT ![u] = c]
  /\ Goto(c, next)
  /\ UNCHANGED <<tables, blocks, reqLock, shareLock>>

\* Mutation: the share settings do not refer to the friendships.
RefersToAnything(c, u) == TRUE

\* The foreign key of the share settings: the friendship is there, or made by
\* the same transaction.
RefersToFriendship(c, u) == friend[u] \/ friendLock[u] = c

\* The insert into friend_share_settings, both rows, and its foreign key; the
\* key waits for whoever is deleting the friendship.
Shares(c) ==
  LET new == {u \in Users : ~share[u]} IN
  /\ call[c].pc = "shares"
  /\ \A u \in Users : shareLock[u] = NoCall
  /\ \A u \in new : friend[u] => friendLock[u] \in {NoCall, c}
  /\ \/ /\ \A u \in new : RefersToFriendship(c, u)
        /\ shareLock' = [u \in Users |-> IF u \in new THEN c ELSE shareLock[u]]
        /\ Goto(c, "commit")
        /\ UNCHANGED <<tables, blocks, reqLock, friendLock>>
     \/ /\ \E u \in new : ~RefersToFriendship(c, u)
        /\ Rollback(c)

----------------------------------------------------------------------------
(* Removing a friend, blocking.                                            *)

Remove(c, u) ==
  /\ call[c].pc = "idle"
  /\ call' = [call EXCEPT ![c] = Begin("remove", "remove", u)]
  /\ UNCHANGED <<tables, blocks, locks>>

\* The transaction of remove starts with the delete from friendships.
StartDelete(c) ==
  /\ call[c].pc = "remove"
  /\ call' = [call EXCEPT ![c].pc = "delete", ![c].rows = {u \in Users : friend[u]}]
  /\ UNCHANGED <<tables, blocks, locks>>

\* One row of that delete, in the order of the plan.
DeleteRow(c, u) ==
  /\ call[c].pc = "delete"
  /\ u \in call[c].rows
  /\ friendLock[u] = NoCall
  /\ friendLock' = [friendLock EXCEPT ![u] = c]
  /\ call' = [call EXCEPT ![c].rows = @ \ {u}]
  /\ UNCHANGED <<tables, blocks, reqLock, shareLock>>

\* The delete ends with the share settings that refer to the rows; with no row
\* deleted the answer is 404.  The deletes that follow touch other tables.
EndDelete(c) ==
  LET gone == {u \in Users : friendLock[u] = c} IN
  /\ call[c].pc = "delete"
  /\ call[c].rows = {}
  /\ \/ /\ gone # {}
        /\ \A u \in gone : shareLock[u] = NoCall
        /\ shareLock' = [u \in Users |-> IF u \in gone /\ share[u] THEN c ELSE shareLock[u]]
        /\ Goto(c, "commit")
        /\ UNCHANGED <<tables, blocks, reqLock, friendLock>>
     \/ gone = {} /\ Rollback(c)

\* block notes the block first and then calls remove.
Block(c, u) ==
  /\ call[c].pc = "idle"
  /\ blocks' = blocks \cup {u}
  /\ call' = [call EXCEPT ![c] = Begin("block", "remove", u)]
  /\ UNCHANGED <<tables, locks>>

\* block ends with the update that closes the requests between the two.
StartClose(c) ==
  /\ call[c].pc = "close"
  /\ call' = [call EXCEPT ![c].pc = "closing", ![c].reqs = {r \in Requests : Pending(r)}]
  /\ UNCHANGED <<tables, blocks, locks>>

\* One request of that update, unless it has been
\* answered by the time its lock is free.
CloseRow(c, r) ==
  /\ call[c].pc = "closing"
  /\ r \in call[c].reqs
  /\ reqLock[r] = NoCall
  /\ reqLock' = IF Pending(r) THEN [reqLock EXCEPT ![r] = c] ELSE reqLock
  /\ call' = [call EXCEPT ![c].reqs = @ \ {r}]
  /\ UNCHANGED <<tables, blocks, friendLock, shareLock>>

Unblock(u) ==
  /\ u \in blocks
  /\ blocks' = blocks \ {u}
  /\ UNCHANGED <<tables, locks, call>>

----------------------------------------------------------------------------
(* Deadlocks and failures.                                                 *)

\* The calls without whose end the statement of c cannot go on.
WaitsFor(c) ==
  LET h == call[c]
      held(lock, keys) == {lock[k] : k \in keys} \ {NoCall}
      all(lock, keys) == IF \E k \in keys : lock[k] = NoCall THEN {} ELSE held(lock, keys)
  IN CASE h.pc = "lock" -> held(reqLock, {h.r})
       [] h.pc \in {"insert", "crossing"} -> held(reqLock, PendingFrom(h.me))
       [] h.pc = "mine" -> held(friendLock, {h.me})
       [] h.pc = "theirs" -> held(friendLock, {Other(h.me)})
       [] h.pc = "delete" -> all(friendLock, h.rows)
       [] h.pc = "closing" -> all(reqLock, h.reqs)
       [] OTHER -> {}

\* The database rolls back one of two transactions that wait for each other.
\* Longer rings do not occur: requests are locked before friendships and those
\* before share settings, and there are two rows of each to wait for.
Deadlock(c) ==
  /\ \E d \in WaitsFor(c) \ {c} : c \in WaitsFor(d)
  /\ Rollback(c)

\* A statement fails, and its transaction with it.  When the server dies the
\* rest of a block is not done either.
Fail(c) ==
  /\ Faults
  /\ call[c].pc # "idle"
  /\ UNCHANGED <<tables, blocks>>
  /\ Release(c)
  /\ call' \in {[call EXCEPT ![c] = NextStatement(c)], [call EXCEPT ![c] = Idle]}

----------------------------------------------------------------------------

\* A call goes on.
Step(c) ==
  \/ SendFriends(c) \/ SendReverse(c) \/ SendInsert(c)
  \/ LockPending(c) \/ Crossing(c)
  \/ InsertRow(c, "mine", call[c].me, "theirs")
  \/ InsertRow(c, "theirs", Other(call[c].me), "shares")
  \/ Shares(c)
  \/ StartDelete(c) \/ (\E u \in Users : DeleteRow(c, u)) \/ EndDelete(c)
  \/ StartClose(c) \/ (\E r \in Requests : CloseRow(c, r))
  \/ Commit(c) \/ Deadlock(c)

\* A user makes a call.
Start(c, u) ==
  \/ Send(c, u) \/ Remove(c, u) \/ Block(c, u)
  \/ \E op \in {"accept", "reject", "cancel"}, r \in Requests : Answer(c, op, u, r)

Next ==
  \/ \E c \in Calls : Step(c) \/ Fail(c) \/ (\E u \in Users : Start(c, u))
  \/ \E u \in Users : Unblock(u)

Spec == Init /\ [][Next]_vars

\* A server gets on with its calls, and the database answers every statement:
\* those that wait for a row stand in a queue, so that none waits for ever while
\* others get the row again and again.
FairSpec == Spec /\ \A c \in Calls : SF_vars(Step(c))

----------------------------------------------------------------------------
(* Properties.                                                             *)

\* Types of the variables; locks are held by transactions only.
TypeOK ==
  /\ req \in [Requests -> [from: Users, status: Statuses]]
  /\ friend \in [Users -> BOOLEAN]
  /\ share \in [Users -> BOOLEAN]
  /\ blocks \subseteq Users
  /\ reqLock \in [Requests -> Calls \cup {NoCall}]
  /\ friendLock \in [Users -> Calls \cup {NoCall}]
  /\ shareLock \in [Users -> Calls \cup {NoCall}]
  /\ call \in [Calls -> CallRecords]
  /\ \A c \in Calls : call[c].pc = "lock" => call[c].r \in Requests

\* There is no state in which only one of two users is a friend, and each
\* friendship has its share settings: however accepts and removals interleave,
\* fail or deadlock.
BothWays == \A u \in Users : friend[u] = friend[Other(u)] /\ share[u] = friend[u]

\* A request is answered once: what was accepted, rejected or cancelled stays so.
\* It follows from IsFriendship.
AnsweredOnce ==
  [][\A r \in Requests :
       req[r].status \notin {"unused", "pending"} => req'[r].status = req[r].status]_vars

\* The tables without the locks and the calls.
Agreement == INSTANCE Friendship WITH friends <- {u \in Users : friend[u]}, asked <- req

\* What the calls, statement by statement, make of the two users is what Friendship
\* says: a request, an answer or a removal is done as a whole or not at all, and no
\* two of them answer one request.
IsFriendship == Agreement!Spec

\* Two users become friends only by a request that was pending until then and
\* is accepted by the one it was sent to: a cancelled or rejected request never
\* makes friends.
FriendsByConsent ==
  [][(\E u \in Users : friend'[u] /\ ~friend[u]) =>
       \E c \in Calls, r \in Requests :
         /\ req[r].status = "pending" /\ req'[r].status = "accepted"
         /\ reqLock[r] = c /\ req[r].from = Other(call[c].me)]_vars

\* Every call comes to its end, also when it deadlocks with another.
CallsEnd == \A c \in Calls : call[c].pc # "idle" ~> call[c].pc = "idle"

\* Once a block was answered the two are not friends until it is lifted, as
\* the header of blocks.service says.
BlockedAreNoFriends ==
  \A u \in blocks :
    (\A c \in Calls : call[c].me = u => call[c].op \notin {"block", "close"}) => ~friend[u]
============================================================================
