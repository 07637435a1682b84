----------------------------- MODULE Friendship -----------------------------
(***************************************************************************)
(* What the calls about friends promise two users, with their statements,  *)
(* locks and failures left out: each of them changes everything it has to  *)
(* change at once, or nothing.  Friends implements it.                     *)
(***************************************************************************)
CONSTANTS
  Users,   \* the two users
  Requests \* friend requests ever made

VARIABLES
  friends, \* who of the two has the other one as a friend
  asked    \* asked[r]: who sent the request, and its status

Init ==
  /\ friends = {}
  /\ \E u \in Users : asked = [r \in Requests |-> [from |-> u, status |-> "unused"]]

Pending == {r \in Requests : asked[r].status = "pending"}

\* The requests in A are answered, and no others.
Answered(A, status) ==
  /\ A \subseteq Pending
  /\ asked' = [r \in Requests |->
                 IF r \in A THEN [from |-> asked[r].from, status |-> status] ELSE asked[r]]

----------------------------------------------------------------------------

\* A request is made, unless one of the user is pending.
Ask(u, r) ==
  /\ asked[r].status = "unused"
  /\ \A s \in Pending : asked[s].from # u
  /\ asked' = [asked EXCEPT ![r] = [from |-> u, status |-> "pending"]]
  /\ UNCHANGED friends

\* The one it was sent to accepts a request, and with it the own one that crossed
\* it, if any: both become friends, unless they were already when it came to that
\* and a removal has ended it since.
Accept(u, r) ==
  /\ asked[r].from # u
  /\ \E A \in SUBSET Requests :
       /\ r \in A
       /\ \A s \in A \ {r} : asked[s].from = u
       /\ Answered(A, "accepted")
  /\ friends' \in {Users, friends}

\* A request is rejected, or a block closes those there are.
Refuse ==
  /\ \E A \in SUBSET Requests : Answered(A, "rejected")
  /\ UNCHANGED friends

Cancel(r) == Answered({r}, "canceled") /\ UNCHANGED friends

\* Both stop being friends.
Remove ==
  /\ friends # {}
  /\ friends' = {}
  /\ UNCHANGED asked

Next ==
  \/ \E u \in Users, r \in Requests : Ask(u, r) \/ Accept(u, r)
  \/ \E r \in Requests : Cancel(r)
  \/ Refuse \/ Remove

Spec == Init /\ [][Next]_<<friends, asked>>
=============================================================================
