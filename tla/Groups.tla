------------------------------- MODULE Groups -------------------------------
(***************************************************************************)
(* One group of the server (ramupin-server/src/groups): its members and    *)
(* their roles, its owner, and the links that invite into it.  Whether a   *)
(* call is allowed is read before its transaction starts, and so is the    *)
(* number of members; the statements of the transaction see what is        *)
(* committed and wait for rows another transaction has changed.            *)
(*                                                                         *)
(* A call keeps what its transaction has changed in its record until it    *)
(* commits, and a row so changed is locked.  Which member joined first     *)
(* (joined_at) is left open.                                               *)
(***************************************************************************)
EXTENDS Naturals, FiniteSets

CONSTANTS
  People,      \* the users
  Founder,     \* the one who creates the group
  Nobody,      \* no user
  GroupCalls,  \* calls under way at the same time
  MemberLimit, \* groupMemberLimit of the policies, the same for every owner
  MaxInvited,  \* bound: friends invited by one call, 20 in the code
  MaxCalls     \* bound: calls made on the group

ASSUME GroupAssumption ==
  /\ Founder \in People
  /\ Nobody \notin People
  /\ IsFiniteSet(People)
  /\ IsFiniteSet(GroupCalls) /\ GroupCalls # {}
  /\ MemberLimit \in Nat \ {0}
  /\ MaxInvited \in Nat \ {0}
  /\ MaxCalls \in Nat

VARIABLES
  group,   \* the row of the group: whether it is there, owner_id, invite_permission
  role,    \* role[u] of the row in group_members, "none" without a row
  links,   \* the users one of whose links is neither revoked nor expired
  job,     \* job[c]: the call c is running
  overlap, \* whether a change of owner has overlapped with a departure (history)
  made     \* the number of calls made

groupVars == <<group, role, links, job, overlap, made>>

Ranks == {"owner", "admin", "member"}

GroupOps == {"none", "invite", "join", "leave", "setRole", "transfer", "kick", "settings",
             "remove", "link"}

GroupPcs == {"idle", "count", "insert", "alone", "delete", "rest", "handOver", "heir", "message",
             "update", "target", "self", "owner", "standing", "erase", "revoke", "reuse", "commit"}

\* who: the users it is about; rank: the role of me or the one to be given;
\* owned: owner_id was me; fits: there was room when the members were counted;
\* row, heir, gone: what the transaction has changed so far.
Jobs ==
  [op: GroupOps, pc: GroupPcs, me: People, who: SUBSET People, rank: Ranks, owned: BOOLEAN,
   fits: BOOLEAN, row: [People -> Ranks \cup {"none", "same"}], heir: People \cup {Nobody},
   gone: BOOLEAN]

Untouched == [u \in People |-> "same"]

Call(op, pc, u, who, rank) ==
  [op |-> op, pc |-> pc, me |-> u, who |-> who, rank |-> rank, owned |-> FALSE,
   fits |-> FALSE, row |-> Untouched, heir |-> Nobody, gone |-> FALSE]

NoJob == Call("none", "idle", Founder, {}, "member")

GroupInit ==
  /\ group = [state |-> "none", owner |-> Founder, permission |-> "all"]
  /\ role = [u \in People |-> "none"]
  /\ links = {}
  /\ job = [c \in GroupCalls |-> NoJob]
  /\ overlap = FALSE
  /\ made = 0

----------------------------------------------------------------------------
(* Rows and transactions.                                                  *)

InGroup == {u \in People : role[u] # "none"}

There == group.state = "there"

\* No other transaction has changed the row of u, or deleted the group with it.
RowFree(c, u) == \A d \in GroupCalls \ {c} : ~job[d].gone /\ job[d].row[u] = "same"

\* No other transaction has deleted the group: the foreign keys of members and
\* messages wait for one that has.
KeyFree(c) == \A d \in GroupCalls \ {c} : ~job[d].gone

\* No other transaction has changed or deleted the row of the group: before their
\* commit all of them have written its updated_at, or owner_id.
GroupFree(c) ==
  \A d \in GroupCalls \ {c} :
    ~job[d].gone /\ job[d].heir = Nobody /\ job[d].pc # "commit"

\* No other transaction has written a row that refers to the group.
Unreferenced(c) == \A d \in GroupCalls \ {c} : job[d].pc # "commit" /\ job[d].row = Untouched

Step1(c, pc) == job' = [job EXCEPT ![c].pc = pc]

Over(c) == job' = [job EXCEPT ![c] = NoJob]

GroupCommit(c) ==
  /\ job[c].pc = "commit"
  /\ role' = [u \in People |-> IF job[c].gone THEN "none"
                               ELSE IF job[c].row[u] = "same" THEN role[u] ELSE job[c].row[u]]
  /\ group' = [state |-> IF job[c].gone THEN "deleted" ELSE group.state,
               owner |-> IF job[c].heir = Nobody THEN group.owner ELSE job[c].heir,
               permission |-> group.permission]
  /\ links' = IF job[c].gone THEN {} ELSE links
  /\ Over(c)
  /\ UNCHANGED <<overlap, made>>

\* A statement fails, the transaction is rolled back, the server dies.
GroupFail(c) ==
  /\ job[c].pc # "idle"
  /\ Over(c)
  /\ UNCHANGED <<group, role, links, overlap, made>>

\* A call that hands the group over, and one that takes somebody out of it.
HandsOver(j) == j.op = "transfer" \/ (j.op = "leave" /\ j.owned)
Departs(j) == j.op \in {"transfer", "leave", "kick"}

\* A call may begin while there is a group.
MayBegin(c) == There /\ job[c].pc = "idle" /\ made < MaxCalls

\* A member's call c begins with the record j.
Begins(c, j) ==
  /\ MayBegin(c)
  /\ role[j.me] # "none"
  /\ made' = made + 1
  /\ job' = [job EXCEPT ![c] = j]
  /\ overlap' = (overlap \/ \E d \in GroupCalls :
                     (HandsOver(j) /\ Departs(job[d])) \/ (Departs(j) /\ HandsOver(job[d])))
  /\ UNCHANGED <<group, role, links>>

----------------------------------------------------------------------------
(* Coming in.                                                              *)

\* create: the group, its owner and the friends in one transaction.
Create(friends) ==
  /\ group.state = "none"
  /\ Cardinality(friends \cup {Founder}) <= MemberLimit
  /\ group' = [group EXCEPT !.state = "there"]
  /\ role' = [u \in People |-> IF u = Founder THEN "owner"
                               ELSE IF u \in friends THEN "member" ELSE "none"]
  /\ UNCHANGED <<links, job, overlap, made>>

MayInvite(u) == role[u] \in {"owner", "admin"} \/ group.permission = "all"

\* invite: friends of u (any users here) are asked in.
Invite(c, u, who) ==
  /\ MayInvite(u)
  /\ who # {} /\ Cardinality(who) <= MaxInvited
  /\ Begins(c, Call("invite", "count", u, who, "member"))

\* alive, and accept of a link: its creator is still a member.
Accept(c, u) ==
  /\ MayBegin(c)
  /\ made' = made + 1
  /\ \E v \in links : role[v] # "none"
  /\ job' = [job EXCEPT ![c] = Call("join", "count", u, {u}, "member")]
  /\ UNCHANGED <<group, role, links, overlap>>

\* Mutation: the newcomers are not counted.
FitsBefore(who) == Cardinality(InGroup) <= MemberLimit

Fits(who) == Cardinality(InGroup) + Cardinality(who) <= MemberLimit

\* The members are counted before the transaction; invite gives up at once.
Count(c) ==
  /\ job[c].pc = "count"
  /\ IF Fits(job[c].who) \/ job[c].op = "join"
     THEN job' = [job EXCEPT ![c].pc = "insert", ![c].fits = Fits(job[c].who)]
     ELSE Over(c)
  /\ UNCHANGED <<group, role, links, overlap, made>>

\* The insert of those who are no members yet, the system message and updated_at;
\* join gives up after the insert when the group was full.
Insert(c) ==
  LET new == {u \in job[c].who : role[u] = "none"} IN
  /\ job[c].pc = "insert"
  /\ KeyFree(c) /\ \A u \in job[c].who : RowFree(c, u)
  /\ There /\ job[c].fits /\ new # {} => GroupFree(c)
  /\ IF There /\ job[c].fits /\ new # {}
     THEN job' = [job EXCEPT ![c].pc = "commit",
                             ![c].row = [u \in People |-> IF u \in new THEN "member" ELSE "same"]]
     ELSE Over(c)
  /\ UNCHANGED <<group, role, links, overlap, made>>

----------------------------------------------------------------------------
(* Going out.                                                              *)

\* leave: the owner may go only when nobody else is there.
Leave(c, u) ==
  LET owned == group.owner = u IN
  Begins(c, [Call("leave", IF owned THEN "alone" ELSE "delete", u, {u}, "member")
               EXCEPT !.owned = owned])

Alone(c) ==
  /\ job[c].pc = "alone"
  /\ IF Cardinality(InGroup) > 1 THEN Over(c) ELSE Step1(c, "delete")
  /\ UNCHANGED <<group, role, links, overlap, made>>

\* kick: the role of the target is read on its own.
Kick(c, u, v) ==
  /\ role[u] # "member"
  /\ u # v
  /\ Begins(c, Call("kick", "standing", u, {v}, role[u]))

\* The owner may not be put out, nor an admin by another one.
Protected(rank, v) == role[v] = "owner" \/ (rank = "admin" /\ role[v] = "admin")

Standing(c, v) ==
  /\ job[c].pc = "standing"
  /\ v \in job[c].who
  /\ IF role[v] = "none" \/ Protected(job[c].rank, v) THEN Over(c) ELSE Step1(c, "delete")
  /\ UNCHANGED <<group, role, links, overlap, made>>

\* The delete of the member's row, whoever it belongs to by now.
DeleteMember(c, v) ==
  /\ job[c].pc = "delete"
  /\ v \in job[c].who
  /\ RowFree(c, v)
  /\ job' = [job EXCEPT ![c].row[v] = IF role[v] = "none" THEN "same" ELSE "none",
                        ![c].pc = IF job[c].op = "leave" THEN "rest" ELSE "message"]
  /\ UNCHANGED <<group, role, links, overlap, made>>

\* Who is left?  The last one's group is deleted; an owner has an heir.
Rest(c) ==
  LET rest == InGroup \ {job[c].me} IN
  /\ job[c].pc = "rest"
  /\ \/ rest = {} /\ Step1(c, "erase")
     \/ rest # {} /\ ~job[c].owned /\ Step1(c, "message")
     \/ /\ rest # {} /\ job[c].owned
        /\ \E v \in rest : job' = [job EXCEPT ![c].pc = "handOver", ![c].who = {v}]
  /\ UNCHANGED <<group, role, links, overlap, made>>

\* leave and transfer write the new owner_id, if the group is still there.
HandOver(c, v, pc, next) ==
  /\ job[c].pc = pc
  /\ v \in job[c].who
  /\ GroupFree(c)
  /\ job' = [job EXCEPT ![c].pc = next, ![c].heir = IF There THEN v ELSE Nobody]
  /\ UNCHANGED <<group, role, links, overlap, made>>

\* The role of the heir, if still a member.
Heir(c, v) ==
  /\ job[c].pc = "heir"
  /\ v \in job[c].who
  /\ RowFree(c, v)
  /\ job' = [job EXCEPT ![c].pc = "message",
                        ![c].row[v] = IF role[v] = "none" THEN "same" ELSE "owner"]
  /\ UNCHANGED <<group, role, links, overlap, made>>

\* The system message refers to the group, and leave and kick write its updated_at
\* after it, as transfer has done before.
Message(c) ==
  /\ job[c].pc = "message"
  /\ KeyFree(c)
  /\ job[c].op # "transfer" => GroupFree(c)
  /\ IF There THEN Step1(c, "commit") ELSE Over(c)
  /\ UNCHANGED <<group, role, links, overlap, made>>

----------------------------------------------------------------------------
(* Roles, settings, the end of the group.                                  *)

\* Calls for the owner only (assertOwner, by the role).
ForOwner(c, op, pc, u, who, rank) ==
  /\ role[u] = "owner"
  /\ Begins(c, Call(op, pc, u, who, rank))

\* Mutation: the update does not spare an owner.
RankableAll(v) == role[v] # "none"

Rankable(v) == role[v] \notin {"none", "owner"}

\* setRole is one update of one row.
SetRole(c, v) ==
  /\ job[c].pc = "update"
  /\ v \in job[c].who
  /\ RowFree(c, v)
  /\ role' = IF Rankable(v) THEN [role EXCEPT ![v] = job[c].rank] ELSE role
  /\ Over(c)
  /\ UNCHANGED <<group, links, overlap, made>>

\* transferOwner makes the target an owner ...
Target(c, v) ==
  /\ job[c].pc = "target"
  /\ v \in job[c].who
  /\ RowFree(c, v)
  /\ IF role[v] = "none" THEN Over(c)
     ELSE job' = [job EXCEPT ![c].pc = "self", ![c].row[v] = "owner"]
  /\ UNCHANGED <<group, role, links, overlap, made>>

\* ... and me an admin.
Self(c) ==
  LET u == job[c].me IN
  /\ job[c].pc = "self"
  /\ RowFree(c, u)
  /\ job' = [job EXCEPT ![c].pc = "owner",
                        ![c].row[u] = IF role[u] = "none" THEN "same" ELSE "admin"]
  /\ UNCHANGED <<group, role, links, overlap, made>>

\* updateSettings: who may invite.
Settings(c, permission) ==
  /\ job[c].pc = "standing" /\ job[c].op = "settings"
  /\ GroupFree(c)
  /\ group' = IF There THEN [group EXCEPT !.permission = permission] ELSE group
  /\ Over(c)
  /\ UNCHANGED <<role, links, overlap, made>>

\* The group is deleted, and what refers to it with it.
Erase(c) ==
  /\ job[c].pc = "erase"
  /\ GroupFree(c) /\ Unreferenced(c)
  /\ job' = [job EXCEPT ![c].pc = "commit", ![c].gone = TRUE]
  /\ UNCHANGED <<group, role, links, overlap, made>>

----------------------------------------------------------------------------
(* Links.                                                                  *)

\* A link is asked for, renewed, or all of them are revoked.
Link(c, u, pc, rank) ==
  /\ MayInvite(u)
  /\ Begins(c, Call("link", pc, u, {}, rank))

\* revokeAll, on its own (rank "owner" here) or before a new link is made.
Revoke(c) ==
  /\ job[c].pc = "revoke"
  /\ links' = {}
  /\ IF job[c].rank = "owner" THEN Over(c) ELSE Step1(c, "reuse")
  /\ UNCHANGED <<group, role, overlap, made>>

\* A link of mine that is alive is given again, else there is a new one.
Reuse(c) ==
  /\ job[c].pc = "reuse"
  /\ KeyFree(c)
  /\ links' = IF There THEN links \cup {job[c].me} ELSE links
  /\ Over(c)
  /\ UNCHANGED <<group, role, overlap, made>>

\* The last link of u has expired.
Expire(u) ==
  /\ u \in links
  /\ links' = links \ {u}
  /\ UNCHANGED <<group, role, job, overlap, made>>

----------------------------------------------------------------------------
GroupStep(c) ==
  \/ Count(c) \/ Insert(c)
  \/ Alone(c) \/ Rest(c) \/ Message(c) \/ Erase(c)
  \/ Self(c) \/ Revoke(c) \/ Reuse(c)
  \/ \E v \in People :
       \/ Standing(c, v) \/ DeleteMember(c, v) \/ Heir(c, v) \/ SetRole(c, v) \/ Target(c, v)
       \/ HandOver(c, v, "handOver", "heir") \/ HandOver(c, v, "owner", "message")
  \/ \E permission \in {"all", "admins"} : Settings(c, permission)
  \/ GroupCommit(c)

GroupStart(c, u) ==
  \/ \E who \in SUBSET People : Invite(c, u, who)
  \/ Accept(c, u) \/ Leave(c, u)
  \/ \E v \in People \ {u} :
       \/ Kick(c, u, v)
       \/ ForOwner(c, "transfer", "target", u, {v}, "owner")
       \/ \E rank \in {"admin", "member"} : ForOwner(c, "setRole", "update", u, {v}, rank)
  \/ ForOwner(c, "settings", "standing", u, {}, "owner")
  \/ ForOwner(c, "remove", "erase", u, {}, "owner")
  \/ Link(c, u, "revoke", "owner") \/ Link(c, u, "revoke", "member")
  \/ Link(c, u, "reuse", "member")

GroupNext ==
  \/ \E friends \in SUBSET People : Create(friends)
  \/ \E c \in GroupCalls : GroupStep(c) \/ GroupFail(c) \/ (\E u \in People : GroupStart(c, u))
  \/ \E u \in People : Expire(u)

GroupSpec == GroupInit /\ [][GroupNext]_groupVars

----------------------------------------------------------------------------
(* Properties.                                                             *)

GroupTypeOK ==
  /\ group \in [state: {"none", "there", "deleted"}, owner: People, permission: {"all", "admins"}]
  /\ role \in [People -> Ranks \cup {"none"}]
  /\ links \subseteq People
  /\ job \in [GroupCalls -> Jobs]
  /\ overlap \in BOOLEAN
  /\ made \in Nat

\* The group its calls take for granted, though each reads it before its own
\* transaction.  It has exactly one owner, the one its row names, whatever joins,
\* changes of roles and settings, removals and failures do between the reads and
\* the transactions of a leave, a kick or a transfer: only a change of owner that
\* overlaps with a departure or with another change of owner can break it.  And
\* the limit, compared with a count made earlier, is exceeded by no more than the
\* other calls of that moment add.
GroupHolds ==
  /\ ~overlap => \A u \in People : (There /\ group.owner = u) <=> role[u] = "owner"
  /\ Cardinality(InGroup) <= MemberLimit + (Cardinality(GroupCalls) - 1) * MaxInvited
=============================================================================
