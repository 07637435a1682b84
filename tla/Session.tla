------------------------------ MODULE Session ------------------------------
(***************************************************************************)
(* One-device login of one user (ramupin-server/src/auth/session.service). *)
(*                                                                         *)
(* The main database holds the session rows; Redis holds a copy of the     *)
(* identifier of the active one, which the guard consults on every         *)
(* request.  A login, a logout and "it was not me" each commit a database  *)
(* transaction and write the copy afterwards, so the handlers of several   *)
(* servers interleave between the two.                                     *)
(*                                                                         *)
(* Every key of this code carries the user's identifier, so one user is    *)
(* enough.  Of a row's timestamps the model keeps what the code compares:  *)
(* the order of the replacements, whether an unrevoked row has reached     *)
(* expires_at, and whether a replaced row may still be restored.           *)
(***************************************************************************)
EXTENDS Naturals

CONSTANTS
  MaxSessions,  \* bound: sessions ever issued, numbered in order of issue
  Devices,    \* installation identifiers of the user's devices
  RedisFails, \* whether Redis may refuse a write
  Requests,   \* handlers running on the servers at one time
  NoSession,  \* the value '-' of the Redis key
  None,       \* the Redis key is absent
  NoDevice    \* the device of a row not inserted yet

Sessions == 1 .. MaxSessions

ASSUME ConstantsDistinct ==
  /\ MaxSessions \in Nat
  /\ RedisFails \in BOOLEAN
  /\ NoSession \notin Sessions
  /\ None \notin Sessions \cup {NoSession}
  /\ NoDevice \notin Devices

VARIABLES
  status,      \* status[s] of the row, see Statuses
  owner,       \* owner[s]: device_id of the row
  replacedAt,  \* replacedAt[s]: when s was replaced, as a number of clock
  clock,       \* replacements in the window of 30 minutes
  displaced,   \* displaced[s]: history, the session the login of s replaced
  known,       \* sessions whose login was answered: an app holds the tokens
  cache,       \* the Redis key; fresh: it reports the latest transaction
  req          \* req[r]: the request handler r is running

rows == <<status, owner, replacedAt, clock, displaced>>
vars == <<status, owner, replacedAt, clock, displaced, known, cache, req>>

\* "active" and "expired" rows have revoked_at null; "gone" rows were replaced
\* more than 30 minutes ago or have reached expires_at since.
Statuses == {"unused", "active", "expired", "replaced", "gone", "logout"}

Steps == {"idle", "fill", "run", "set", "del"}

CacheValues == Sessions \cup {NoSession, None}

RequestRecords ==
  [pc: Steps, sid: CacheValues, val: CacheValues, fresh: BOOLEAN]

Idle == [pc |-> "idle", sid |-> None, val |-> None, fresh |-> FALSE]

Absent == [val |-> None, fresh |-> FALSE]

Unrevoked == {s \in Sessions : status[s] \in {"active", "expired"}}

\* Mutation: the default of a user without a session is forgotten.
ActiveOrNone ==
  IF \E s \in Sessions : status[s] = "active"
  THEN CHOOSE s \in Sessions : status[s] = "active"
  ELSE None

\* What the guard reads in the database: the unrevoked, unexpired session.
ActiveInDb ==
  IF \E s \in Sessions : status[s] = "active"
  THEN CHOOSE s \in Sessions : status[s] = "active"
  ELSE NoSession

Init ==
  /\ status = [s \in Sessions |-> "unused"]
  /\ owner = [s \in Sessions |-> NoDevice]
  /\ replacedAt = [s \in Sessions |-> 0]
  /\ clock = 0
  /\ displaced = [s \in Sessions |-> NoSession]
  /\ known = {}
  /\ cache = Absent
  /\ req = [r \in Requests |-> Idle]

----------------------------------------------------------------------------
(* Steps of a handler.                                                     *)

Put(r, pc, sid, val, fresh) ==
  req' = [req EXCEPT ![r] = [pc |-> pc, sid |-> sid, val |-> val, fresh |-> fresh]]

Finish(r) == Put(r, "idle", None, None, FALSE)

Outdated(h) == [pc |-> h.pc, sid |-> h.sid, val |-> h.val, fresh |-> FALSE]

\* Mutation: the cache is cleared whatever the transaction left active.
CommittedClearing(r, s, val) ==
  /\ req' = [q \in Requests |->
               IF q = r
               THEN [pc |-> "set", sid |-> s, val |-> NoSession, fresh |-> TRUE]
               ELSE Outdated(req[q])]
  /\ cache' = [cache EXCEPT !.fresh = FALSE]

\* A transaction that changed rows leaves every value computed before it
\* behind; its own handler goes on to write val.  Only a login still needs the
\* session it is about after that.
Committed(r, s, val) ==
  /\ req' = [q \in Requests |->
               IF q = r
               THEN [pc |-> "set", sid |-> s, val |-> val, fresh |-> TRUE]
               ELSE Outdated(req[q])]
  /\ cache' = [cache EXCEPT !.fresh = FALSE]

\* Mutation: the update also asks for expires_at in the future.
RevokeUnexpired(t) == IF status[t] = "active" THEN "replaced" ELSE status[t]

\* The row of t after the update that revokes every unrevoked session.
RevokeAsReplaced(t) ==
  CASE status[t] = "active" -> "replaced"
    [] status[t] = "expired" -> "gone"
    [] OTHER -> status[t]

\* The transaction of createSession: under the lock of the user row, every
\* unrevoked session is replaced by the new one.  (The push tokens it deletes
\* when the device changes are not part of this module.)
LoginTx(r, d, s) ==
  /\ req[r].pc = "idle"
  /\ status[s] = "unused"
  /\ \A t \in Sessions : t < s => status[t] # "unused"
  /\ status' = [t \in Sessions |-> IF t = s THEN "active" ELSE RevokeAsReplaced(t)]
  /\ replacedAt' = [t \in Sessions |->
                      IF t \in Unrevoked THEN clock + 1 ELSE replacedAt[t]]
  /\ clock' = IF Unrevoked = {} THEN clock ELSE clock + 1
  /\ displaced' = [t \in Sessions |->
                     IF t = s THEN ActiveInDb
                     ELSE IF t \in Unrevoked THEN NoSession ELSE displaced[t]]
  /\ owner' = [owner EXCEPT ![s] = d]
  /\ Committed(r, s, s)
  /\ UNCHANGED known

\* The guard's verdict on the value it found: run the handler, or answer 401.
Judge(r, s, val) ==
  IF val = s THEN Put(r, "run", s, None, FALSE) ELSE Finish(r)

\* An app that holds the tokens of s sends a guarded request; which one does
\* not matter before the guard has judged it.  assertActive, the key is there.
GuardHit(r, s) ==
  /\ req[r].pc = "idle"
  /\ s \in known
  /\ cache.val # None
  /\ Judge(r, s, cache.val)
  /\ UNCHANGED <<rows, known, cache>>

\* assertActive, the key is absent or Redis fails: read the database.
GuardMiss(r, s) ==
  /\ req[r].pc = "idle"
  /\ s \in known
  /\ Put(r, "fill", s, ActiveInDb, TRUE)
  /\ UNCHANGED <<rows, known, cache>>

\* SET NX of the value read, which may fail; then the verdict.
GuardFill(r) ==
  /\ req[r].pc = "fill"
  /\ \/ UNCHANGED cache
     \/ /\ cache.val = None
        /\ cache' = [val |-> req[r].val, fresh |-> req[r].fresh]
  /\ Judge(r, req[r].sid, req[r].val)
  /\ UNCHANGED <<rows, known>>

\* An admitted request of any other module: no effect on the session.
RunOther(r) ==
  /\ req[r].pc = "run"
  /\ Finish(r)
  /\ UNCHANGED <<rows, known, cache>>

\* revoke: only a row that was still unrevoked makes it touch the cache.
LogoutTx(r) ==
  LET s == req[r].sid IN
  /\ req[r].pc = "run"
  /\ IF s \in Unrevoked
     THEN /\ status' = [status EXCEPT ![s] = "logout"]
          /\ Committed(r, None, NoSession)
     ELSE /\ Finish(r)
          /\ UNCHANGED <<status, cache>>
  /\ displaced' = [displaced EXCEPT ![s] = NoSession]
  /\ UNCHANGED <<owner, replacedAt, clock, known>>

\* Mutation: the filter on revoke_reason is forgotten.
RestorableWhatever(s) ==
  {t \in Sessions : status[t] \in {"replaced", "logout"} /\ owner[t] # owner[s]}

\* Sessions "it was not me" may bring back: replaced within 30 minutes, not
\* expired, on another device.
Restorable(s) ==
  {t \in Sessions : status[t] = "replaced" /\ owner[t] # owner[s]}

\* Mutation: the order of revoked_at is ascending.
FirstReplaced(s, t) ==
  t \in Restorable(s) /\ \A u \in Restorable(s) : replacedAt[u] >= replacedAt[t]

\* The order of revoked_at, descending, takes the last one.
LastReplaced(s, t) ==
  t \in Restorable(s) /\ \A u \in Restorable(s) : replacedAt[u] <= replacedAt[t]

\* notMe: revoke the caller's session and bring the one before back.  A caller
\* revoked meanwhile changes no row and yet goes on to write the cache.
NotMeTx(r) ==
  LET s == req[r].sid IN
  /\ req[r].pc = "run"
  /\ \/ /\ s \notin Unrevoked
        /\ Put(r, "set", None, NoSession, FALSE)
        /\ UNCHANGED <<status, cache>>
     \/ /\ s \in Unrevoked
        /\ Restorable(s) = {}
        /\ status' = [status EXCEPT ![s] = "logout"]
        /\ Committed(r, None, NoSession)
     \/ \E t \in Sessions :
          /\ s \in Unrevoked
          /\ LastReplaced(s, t)
          /\ status' = [status EXCEPT ![s] = "logout", ![t] = "active"]
          /\ Committed(r, None, t)
  /\ displaced' = [displaced EXCEPT ![s] = NoSession]
  /\ UNCHANGED <<owner, replacedAt, clock, known>>

\* A login is answered with its tokens once the cache is dealt with.
Answer(r) ==
  /\ known' = IF req[r].sid = None THEN known ELSE known \cup {req[r].sid}
  /\ Finish(r)

\* cacheActive: SET with a time to live.
CacheSet(r) ==
  /\ req[r].pc = "set"
  /\ cache' = [val |-> req[r].val, fresh |-> req[r].fresh]
  /\ Answer(r)
  /\ UNCHANGED rows

\* The SET reports an error: it may have been applied all the same.
CacheSetFails(r) ==
  /\ RedisFails
  /\ req[r].pc = "set"
  /\ cache' \in {cache, [val |-> req[r].val, fresh |-> req[r].fresh]}
  /\ Put(r, "del", req[r].sid, None, FALSE)
  /\ UNCHANGED <<rows, known>>

\* The DEL that follows a failed SET may fail too.
CacheDel(r) ==
  /\ req[r].pc = "del"
  /\ cache' \in {cache, Absent}
  /\ Answer(r)
  /\ UNCHANGED rows

\* The server dies between the commit and the cache write.
Crash(r) ==
  /\ req[r].pc = "set"
  /\ Finish(r)
  /\ UNCHANGED <<rows, known, cache>>

----------------------------------------------------------------------------
(* Time.                                                                   *)

\* Mutation: the key is written without a time to live.
CacheStays == FALSE /\ UNCHANGED vars

\* The time to live of the Redis key ends.
CacheExpires ==
  /\ cache.val # None
  /\ cache' = Absent
  /\ UNCHANGED <<rows, known, req>>

\* An unrevoked session reaches expires_at: what was read before is old.
SessionExpires(s) ==
  /\ status[s] = "active"
  /\ status' = [status EXCEPT ![s] = "expired"]
  /\ cache' = [cache EXCEPT !.fresh = FALSE]
  /\ req' = [q \in Requests |-> Outdated(req[q])]
  /\ UNCHANGED <<owner, replacedAt, clock, displaced, known>>

\* Thirty minutes pass since t was replaced, or t reaches expires_at: the login
\* that took its place has nothing to bring back.
WindowPasses(t) ==
  /\ status[t] = "replaced"
  /\ status' = [status EXCEPT ![t] = "gone"]
  /\ displaced' = [s \in Sessions |-> IF displaced[s] = t THEN NoSession ELSE displaced[s]]
  /\ UNCHANGED <<owner, replacedAt, clock, known, cache, req>>

----------------------------------------------------------------------------

\* What the servers do with a request they have.
Handle(r) ==
  \/ GuardFill(r) \/ RunOther(r) \/ LogoutTx(r) \/ NotMeTx(r)
  \/ CacheSet(r) \/ CacheSetFails(r) \/ CacheDel(r) \/ Crash(r)

Next ==
  \/ \E r \in Requests :
       \/ \E d \in Devices, s \in Sessions : LoginTx(r, d, s)
       \/ \E s \in Sessions : GuardHit(r, s) \/ GuardMiss(r, s)
       \/ Handle(r)
  \/ CacheExpires
  \/ \E s \in Sessions : SessionExpires(s) \/ WindowPasses(s)

Spec == Init /\ [][Next]_vars

\* Redis ends every time to live, and a server gets on with every request.
FairSpec ==
  /\ Spec
  /\ WF_vars(CacheExpires)
  /\ \A r \in Requests : WF_vars(Handle(r))

----------------------------------------------------------------------------
(* Properties.                                                             *)

\* A guarded request knows its session; a login, the session it made.
WellFormed(h) ==
  /\ h.pc \in {"fill", "run"} => h.sid \in Sessions
  /\ h.pc \in {"set", "del"} => h.sid \in Sessions \cup {None}
  /\ h.pc \in {"fill", "set"} => h.val # None

\* Types of the variables.  A guarded request knows its session, and "absent"
\* is never a value some handler is about to write to Redis.
TypeOK ==
  /\ status \in [Sessions -> Statuses]
  /\ owner \in [Sessions -> Devices \cup {NoDevice}]
  /\ replacedAt \in [Sessions -> Nat]
  /\ clock \in Nat
  /\ displaced \in [Sessions -> Sessions \cup {NoSession}]
  /\ known \subseteq Sessions
  /\ cache \in [val: CacheValues, fresh: BOOLEAN]
  /\ req \in [Requests -> RequestRecords]
  /\ \A r \in Requests : WellFormed(req[r])

\* A user never has two unrevoked sessions, however logins, logouts and
\* restorations interleave: the unique index sessions_one_active_per_user
\* never makes a transaction of this service fail.
OneActive == \A s, t \in Unrevoked : s = t

\* A cache value that reports the latest transaction names the session the
\* database holds active, or '-' when there is none: the guard is wrong only
\* while the key is older than the rows.
CacheReportsLastTx == (cache.val # None /\ cache.fresh) => cache.val = ActiveInDb

\* A session its user ended stays ended: "it was not me" brings back sessions
\* that were replaced, never one somebody logged out of.
EndedStaysEnded ==
  [][\A s \in Sessions : status[s] = "logout" => status'[s] = "logout"]_vars

\* "It was not me" undoes the login it was said of: the session that login
\* took the place of, on another device, is the one that comes back, while
\* it may still be restored and nothing has replaced the login since.
UndoesTheLogin ==
  [][\A r \in Requests : LET s == req[r].sid  t == displaced[s] IN
       (/\ NotMeTx(r)
        /\ s \in Unrevoked
        /\ t \in Restorable(s)) => status'[t] = "active"]_vars

\* However the writes of the cache were reordered, lost or repeated, the guard
\* ends up with what the database says once logins stop.
CacheHeals == <>[](cache.val \in {None, ActiveInDb})

\* A device that holds the tokens of the active session is not turned away,
\* unless a handler is still about to write that session: the comment of
\* assertActive calls what a login wrote the newest value.
LatestLoginServed ==
  \A s \in known :
    (status[s] = "active" /\ \A r \in Requests : req[r].val # s) =>
      cache.val \in {None, s}
============================================================================
