--------------------------- MODULE SessionProofs ---------------------------
(***************************************************************************)
(* Proofs about Session, for any number of sessions, devices and handlers. *)
(* The inductive invariant adds to OneActive what every value on its way   *)
(* to the cache says: a fresh one names the session the rows hold active.  *)
(***************************************************************************)
EXTENDS Session, TLAPS

\* Every value computed from the latest transaction is right, wherever it is:
\* in the cache, or in a handler about to write it.
FreshIsRight ==
  /\ cache.fresh => cache.val = ActiveInDb
  /\ \A r \in Requests :
       req[r].fresh => req[r].pc \in {"fill", "set"} /\ req[r].val = ActiveInDb

IInv == TypeOK /\ OneActive /\ FreshIsRight

----------------------------------------------------------------------------

\* While the rows keep their status the database's answer stays the same.
LEMMA ActiveInDbStable == status' = status => ActiveInDb' = ActiveInDb
  BY DEF ActiveInDb

\* The guard's query returns the active session when there is one.
LEMMA ActiveInDbIs ==
  ASSUME OneActive, NEW s \in Sessions, status[s] = "active"
  PROVE  ActiveInDb = s
  BY DEF ActiveInDb, OneActive, Unrevoked

\* ... and '-' when there is none.
LEMMA ActiveInDbNone ==
  ASSUME \A s \in Sessions : status[s] # "active"
  PROVE  ActiveInDb = NoSession
  BY DEF ActiveInDb

\* The answer is a session or '-', never "absent".
LEMMA ActiveInDbType == ActiveInDb \in Sessions \cup {NoSession} /\ ActiveInDb # None
  BY ConstantsDistinct DEF ActiveInDb

\* The initial state satisfies the invariant.
LEMMA InitInv == Init => IInv
<1> SUFFICES ASSUME Init PROVE IInv
  OBVIOUS
<1>1. Idle \in RequestRecords /\ WellFormed(Idle)
  BY DEF Idle, RequestRecords, Steps, CacheValues, WellFormed
<1>2. /\ req \in [Requests -> RequestRecords]
      /\ \A r \in Requests : WellFormed(req[r])
  BY <1>1 DEF Init
<1>3. TypeOK
  BY <1>2 DEF Init, TypeOK, Absent, Statuses, CacheValues
<1>4. OneActive
  BY DEF Init, OneActive, Unrevoked
<1>5. FreshIsRight
  BY DEF Init, FreshIsRight, Idle, Absent
<1> QED
  BY <1>3, <1>4, <1>5 DEF IInv

\* A handler given a well-formed record keeps the requests well typed.
LEMMA PutType ==
  ASSUME TypeOK, NEW r \in Requests, NEW pc \in Steps, NEW sid \in CacheValues,
         NEW val \in CacheValues, NEW fresh \in BOOLEAN, Put(r, pc, sid, val, fresh),
         WellFormed([pc |-> pc, sid |-> sid, val |-> val, fresh |-> fresh])
  PROVE  req' \in [Requests -> RequestRecords] /\ \A q \in Requests : WellFormed(req'[q])
<1> DEFINE h == [pc |-> pc, sid |-> sid, val |-> val, fresh |-> fresh]
<1>1. h \in RequestRecords
  BY DEF RequestRecords
<1>2. req' = [req EXCEPT ![r] = h]
  BY DEF Put
<1>3. req \in [Requests -> RequestRecords] /\ \A q \in Requests : WellFormed(req[q])
  BY DEF TypeOK
<1> HIDE DEF h
<1>4. req' \in [Requests -> RequestRecords]
  BY <1>1, <1>2, <1>3
<1>5. WellFormed(h)
  BY DEF h
<1> QED
  BY <1>2, <1>3, <1>4, <1>5

\* A handler that ends keeps the requests well typed.
LEMMA FinishType ==
  ASSUME TypeOK, NEW r \in Requests, Finish(r)
  PROVE  req' \in [Requests -> RequestRecords] /\ \A q \in Requests : WellFormed(req'[q])
  BY PutType DEF Finish, Steps, CacheValues, WellFormed

\* So does the verdict of the guard on a session.
LEMMA JudgeType ==
  ASSUME TypeOK, NEW r \in Requests, NEW s \in Sessions, NEW val, Judge(r, s, val)
  PROVE  req' \in [Requests -> RequestRecords] /\ \A q \in Requests : WellFormed(req'[q])
<1>1. WellFormed([pc |-> "run", sid |-> s, val |-> None, fresh |-> FALSE])
  BY DEF WellFormed
<1> QED
  BY <1>1, PutType, FinishType DEF Judge, Steps, CacheValues

\* So does an answer; it makes known the session of the login it answers.
LEMMA AnswerType ==
  ASSUME TypeOK, NEW r \in Requests, req[r].pc \in {"set", "del"}, Answer(r)
  PROVE  /\ req' \in [Requests -> RequestRecords] /\ \A q \in Requests : WellFormed(req'[q])
         /\ known' \subseteq Sessions
<1>1. req[r].sid \in Sessions \cup {None} /\ known \subseteq Sessions
  BY DEF TypeOK, WellFormed
<1> QED
  BY <1>1, FinishType DEF Answer

\* Forgetting that a value is fresh keeps a request record well formed.
LEMMA OutdatedType ==
  ASSUME NEW h \in RequestRecords, WellFormed(h)
  PROVE  Outdated(h) \in RequestRecords /\ WellFormed(Outdated(h))
  BY DEF Outdated, RequestRecords, WellFormed

\* A committed transaction keeps the requests and the cache well typed.
LEMMA CommittedType ==
  ASSUME TypeOK, NEW r \in Requests, NEW s \in Sessions \cup {None},
         NEW val \in Sessions \cup {NoSession}, Committed(r, s, val)
  PROVE  /\ req' \in [Requests -> RequestRecords] /\ \A q \in Requests : WellFormed(req'[q])
         /\ cache' \in [val: CacheValues, fresh: BOOLEAN]
<1> DEFINE h == [pc |-> "set", sid |-> s, val |-> val, fresh |-> TRUE]
<1>1. h \in RequestRecords /\ WellFormed(h)
  BY ConstantsDistinct DEF RequestRecords, WellFormed, Steps, CacheValues
<1>2. req' = [q \in Requests |-> IF q = r THEN h ELSE Outdated(req[q])]
  BY DEF Committed
<1>3. \A q \in Requests : Outdated(req[q]) \in RequestRecords /\ WellFormed(Outdated(req[q]))
  BY OutdatedType DEF TypeOK
<1> HIDE DEF h
<1>4. req' \in [Requests -> RequestRecords] /\ \A q \in Requests : WellFormed(req'[q])
  BY <1>1, <1>2, <1>3
<1>5. cache' \in [val: CacheValues, fresh: BOOLEAN]
  BY DEF Committed, TypeOK
<1> QED
  BY <1>4, <1>5

\* Every step keeps the types.
LEMMA TypeStep == TypeOK /\ [Next]_vars => TypeOK'
<1> SUFFICES ASSUME TypeOK, [Next]_vars PROVE TypeOK'
  OBVIOUS
<1>0. /\ status \in [Sessions -> Statuses]
      /\ owner \in [Sessions -> Devices \cup {NoDevice}]
      /\ replacedAt \in [Sessions -> Nat] /\ clock \in Nat
      /\ displaced \in [Sessions -> Sessions \cup {NoSession}]
      /\ known \subseteq Sessions
      /\ cache \in [val: CacheValues, fresh: BOOLEAN]
      /\ req \in [Requests -> RequestRecords]
      /\ \A r \in Requests : WellFormed(req[r])
  BY DEF TypeOK
<1>1. ASSUME NEW r \in Requests, NEW d \in Devices, NEW s \in Sessions, LoginTx(r, d, s)
      PROVE  TypeOK'
  <2>1. status' \in [Sessions -> Statuses]
    BY <1>0, <1>1 DEF LoginTx, RevokeAsReplaced, Statuses
  <2>2. replacedAt' \in [Sessions -> Nat] /\ clock' \in Nat
    BY <1>0, <1>1 DEF LoginTx
  <2>3. displaced' \in [Sessions -> Sessions \cup {NoSession}]
    BY <1>0, <1>1, ActiveInDbType DEF LoginTx
  <2>4. owner' \in [Sessions -> Devices \cup {NoDevice}]
    BY <1>0, <1>1 DEF LoginTx
  <2>5. Committed(r, s, s) /\ known' = known
    BY <1>1 DEF LoginTx
  <2> QED
    BY <1>0, <2>1, <2>2, <2>3, <2>4, <2>5, CommittedType DEF TypeOK
<1>2. ASSUME NEW r \in Requests, NEW s \in Sessions, GuardHit(r, s) \/ GuardMiss(r, s)
      PROVE  TypeOK'
  <2>1. CASE GuardHit(r, s)
    <3>1. req' \in [Requests -> RequestRecords] /\ \A q \in Requests : WellFormed(req'[q])
      BY <2>1, JudgeType DEF GuardHit
    <3> QED
      BY <1>0, <2>1, <3>1 DEF TypeOK, GuardHit, rows
  <2>2. CASE GuardMiss(r, s)
    <3>1. WellFormed([pc |-> "fill", sid |-> s, val |-> ActiveInDb, fresh |-> TRUE])
      BY ActiveInDbType, ConstantsDistinct DEF WellFormed
    <3>2. req' \in [Requests -> RequestRecords] /\ \A q \in Requests : WellFormed(req'[q])
      BY <2>2, <3>1, PutType, ActiveInDbType DEF GuardMiss, Steps, CacheValues
    <3> QED
      BY <1>0, <2>2, <3>2 DEF TypeOK, GuardMiss, rows
  <2> QED
    BY <1>2, <2>1, <2>2
<1>3. ASSUME NEW r \in Requests, Handle(r)
      PROVE  TypeOK'
  <2> DEFINE ReqOK == req' \in [Requests -> RequestRecords] /\ \A q \in Requests : WellFormed(req'[q])
  <2>0. /\ req[r].pc \in Steps /\ req[r].sid \in CacheValues
        /\ req[r].val \in CacheValues /\ req[r].fresh \in BOOLEAN /\ WellFormed(req[r])
    BY <1>0 DEF RequestRecords
  <2>3. CASE GuardFill(r)
    <3>1. req[r].sid \in Sessions
      BY <2>0, <2>3 DEF GuardFill, WellFormed
    <3>3. ReqOK
      BY <2>3, <3>1, JudgeType DEF GuardFill
    <3>2. cache' \in [val: CacheValues, fresh: BOOLEAN]
      BY <1>0, <2>0, <2>3 DEF GuardFill
    <3> QED
      BY <1>0, <2>3, <3>2, <3>3 DEF TypeOK, GuardFill, rows
  <2>4. CASE RunOther(r)
    <3>1. ReqOK
      BY <2>4, FinishType DEF RunOther
    <3> QED
      BY <1>0, <2>4, <3>1 DEF TypeOK, RunOther, rows
  <2>5. CASE LogoutTx(r)
    <3>1. status' \in [Sessions -> Statuses] /\ displaced' \in [Sessions -> Sessions \cup {NoSession}]
      BY <1>0, <2>5 DEF LogoutTx, Statuses
    <3>2. ReqOK /\ cache' \in [val: CacheValues, fresh: BOOLEAN]
      BY <1>0, <2>5, CommittedType, FinishType DEF LogoutTx
    <3> QED
      BY <1>0, <2>5, <3>1, <3>2 DEF TypeOK, LogoutTx
  <2>6. CASE NotMeTx(r)
    <3>1. status' \in [Sessions -> Statuses] /\ displaced' \in [Sessions -> Sessions \cup {NoSession}]
      BY <1>0, <2>6 DEF NotMeTx, Statuses
    <3>2. WellFormed([pc |-> "set", sid |-> None, val |-> NoSession, fresh |-> FALSE])
      BY ConstantsDistinct DEF WellFormed
    <3>3. Put(r, "set", None, NoSession, FALSE) => ReqOK
      BY <3>2, PutType DEF Steps, CacheValues
    <3>4. ReqOK /\ cache' \in [val: CacheValues, fresh: BOOLEAN]
      BY <1>0, <2>6, <3>3, CommittedType DEF NotMeTx
    <3> QED
      BY <1>0, <2>6, <3>1, <3>4 DEF TypeOK, NotMeTx
  <2>7. CASE CacheSet(r)
    <3>1. ReqOK /\ known' \subseteq Sessions
      BY <2>7, AnswerType DEF CacheSet
    <3>2. cache' \in [val: CacheValues, fresh: BOOLEAN]
      BY <2>0, <2>7 DEF CacheSet
    <3> QED
      BY <1>0, <2>7, <3>1, <3>2 DEF TypeOK, CacheSet, rows
  <2>8. CASE CacheSetFails(r)
    <3>1. WellFormed([pc |-> "del", sid |-> req[r].sid, val |-> None, fresh |-> FALSE])
      BY <2>0, <2>8 DEF CacheSetFails, WellFormed
    <3>2. ReqOK
      BY <2>0, <2>8, <3>1, PutType DEF CacheSetFails, Steps, CacheValues
    <3>3. cache' \in [val: CacheValues, fresh: BOOLEAN]
      BY <1>0, <2>0, <2>8 DEF CacheSetFails
    <3> QED
      BY <1>0, <2>8, <3>2, <3>3 DEF TypeOK, CacheSetFails, rows
  <2>9. CASE CacheDel(r)
    <3>1. ReqOK /\ known' \subseteq Sessions
      BY <2>9, AnswerType DEF CacheDel
    <3>2. Absent \in [val: CacheValues, fresh: BOOLEAN]
      BY DEF Absent, CacheValues
    <3>3. cache' \in [val: CacheValues, fresh: BOOLEAN]
      BY <1>0, <2>9, <3>2 DEF CacheDel
    <3> QED
      BY <1>0, <2>9, <3>1, <3>3 DEF TypeOK, CacheDel, rows
  <2>10. CASE Crash(r)
    <3>1. ReqOK
      BY <2>10, FinishType DEF Crash
    <3> QED
      BY <1>0, <2>10, <3>1 DEF TypeOK, Crash, rows
  <2> QED
    BY <1>3, <2>3, <2>4, <2>5, <2>6, <2>7, <2>8, <2>9, <2>10 DEF Handle
<1>4. CASE CacheExpires
  BY <1>0, <1>4 DEF TypeOK, CacheExpires, Absent, CacheValues, rows
<1>5. ASSUME NEW s \in Sessions, SessionExpires(s)
      PROVE  TypeOK'
  <2>1. status' \in [Sessions -> Statuses] /\ cache' \in [val: CacheValues, fresh: BOOLEAN]
    BY <1>0, <1>5 DEF SessionExpires, Statuses
  <2>2. \A q \in Requests : Outdated(req[q]) \in RequestRecords /\ WellFormed(Outdated(req[q]))
    BY <1>0, OutdatedType
  <2>3. req' \in [Requests -> RequestRecords] /\ \A q \in Requests : WellFormed(req'[q])
    BY <1>5, <2>2 DEF SessionExpires
  <2> QED
    BY <1>0, <1>5, <2>1, <2>3 DEF TypeOK, SessionExpires
<1>6. ASSUME NEW t \in Sessions, WindowPasses(t)
      PROVE  TypeOK'
  BY <1>0, <1>6 DEF TypeOK, WindowPasses, Statuses
<1>7. CASE UNCHANGED vars
  BY <1>0, <1>7 DEF TypeOK, vars
<1> QED
  BY <1>1, <1>2, <1>3, <1>4, <1>5, <1>6, <1>7 DEF Next

----------------------------------------------------------------------------

\* Every step keeps the index: a login revokes all unrevoked rows, and a
\* restoration first revokes the caller's, which was the only one.
LEMMA OneActiveStep == TypeOK /\ OneActive /\ [Next]_vars => OneActive'
<1> SUFFICES ASSUME TypeOK, OneActive, [Next]_vars PROVE OneActive'
  OBVIOUS
<1>0. status \in [Sessions -> Statuses] /\ \A s, t \in Unrevoked : s = t
  BY DEF TypeOK, OneActive
<1>a. ASSUME Unrevoked' \subseteq Unrevoked PROVE OneActive'
  BY <1>0, <1>a DEF OneActive
<1>b. ASSUME status' = status PROVE OneActive'
  BY <1>0, <1>b DEF OneActive, Unrevoked
<1>1. ASSUME NEW r \in Requests, NEW d \in Devices, NEW s \in Sessions, LoginTx(r, d, s)
      PROVE  OneActive'
  <2>1. \A t \in Sessions \ {s} : status'[t] = RevokeAsReplaced(t)
    BY <1>1 DEF LoginTx
  <2>2. \A t \in Sessions : RevokeAsReplaced(t) \notin {"active", "expired"}
    BY <1>0 DEF RevokeAsReplaced
  <2> QED
    BY <2>1, <2>2 DEF OneActive, Unrevoked
<1>2. ASSUME NEW r \in Requests, NEW s \in Sessions, GuardHit(r, s) \/ GuardMiss(r, s)
      PROVE  OneActive'
  BY <1>2, <1>b DEF GuardHit, GuardMiss, rows
<1>3. ASSUME NEW r \in Requests, Handle(r)
      PROVE  OneActive'
  <2>1. CASE LogoutTx(r)
    <3>1. Unrevoked' \subseteq Unrevoked
      BY <1>0, <2>1 DEF LogoutTx, Unrevoked
    <3> QED
      BY <3>1, <1>a
  <2>2. CASE NotMeTx(r)
    <3>1. CASE status' = status
      BY <3>1, <1>b
    <3>2. CASE status' = [status EXCEPT ![req[r].sid] = "logout"]
      <4>1. Unrevoked' \subseteq Unrevoked
        BY <1>0, <3>2 DEF Unrevoked
      <4> QED
        BY <4>1, <1>a
    <3>3. ASSUME NEW t \in Sessions, req[r].sid \in Unrevoked,
                 status' = [status EXCEPT ![req[r].sid] = "logout", ![t] = "active"]
          PROVE  OneActive'
      <4>1. Unrevoked' \subseteq {t}
        BY <1>0, <3>3 DEF Unrevoked
      <4> QED
        BY <4>1 DEF OneActive
    <3> QED
      BY <2>2, <3>1, <3>2, <3>3 DEF NotMeTx
  <2>3. CASE status' = status
    BY <2>3, <1>b
  <2> QED
    BY <1>3, <2>1, <2>2, <2>3
    DEF Handle, GuardFill, RunOther, CacheSet, CacheSetFails,
        CacheDel, Crash, rows
<1>4. CASE CacheExpires
  BY <1>4, <1>b DEF CacheExpires, rows
<1>5. ASSUME NEW s \in Sessions, SessionExpires(s)
      PROVE  OneActive'
  <2>1. Unrevoked' \subseteq Unrevoked
    BY <1>0, <1>5 DEF SessionExpires, Unrevoked
  <2> QED
    BY <2>1, <1>a
<1>6. ASSUME NEW t \in Sessions, WindowPasses(t)
      PROVE  OneActive'
  <2>1. Unrevoked' \subseteq Unrevoked
    BY <1>0, <1>6 DEF WindowPasses, Unrevoked
  <2> QED
    BY <2>1, <1>a
<1>7. CASE UNCHANGED vars
  BY <1>7, <1>b DEF vars
<1> QED
  BY <1>1, <1>2, <1>3, <1>4, <1>5, <1>6, <1>7 DEF Next

----------------------------------------------------------------------------

\* The half of FreshIsRight about handlers.
FreshInReq ==
  \A r \in Requests :
    req[r].fresh => req[r].pc \in {"fill", "set"} /\ req[r].val = ActiveInDb

\* While the rows stay, a handler given a right value leaves the others right.
LEMMA PutFresh ==
  ASSUME TypeOK, FreshInReq, status' = status, NEW r \in Requests,
         NEW pc, NEW sid, NEW val, NEW fresh, Put(r, pc, sid, val, fresh),
         fresh => pc \in {"fill", "set"} /\ val = ActiveInDb
  PROVE  FreshInReq'
<1>1. ActiveInDb' = ActiveInDb
  BY ActiveInDbStable
<1>2. req' = [req EXCEPT ![r] = [pc |-> pc, sid |-> sid, val |-> val, fresh |-> fresh]]
  BY DEF Put
<1>3. req \in [Requests -> RequestRecords]
  BY DEF TypeOK
<1> QED
  BY <1>1, <1>2, <1>3 DEF FreshInReq

\* A handler that ends carries no value.
LEMMA FinishFresh ==
  ASSUME TypeOK, FreshInReq, status' = status, NEW r \in Requests, Finish(r)
  PROVE  FreshInReq'
  BY PutFresh DEF Finish

\* A transaction that hands its handler the new answer leaves only that one
\* value fresh.
LEMMA CommittedFresh ==
  ASSUME TypeOK, NEW r \in Requests, NEW s, NEW val,
         Committed(r, s, val), val = ActiveInDb'
  PROVE  FreshIsRight'
<1>1. ~cache'.fresh
  BY DEF Committed, TypeOK
<1>2. ASSUME NEW q \in Requests, req'[q].fresh
      PROVE  req'[q].pc \in {"fill", "set"} /\ req'[q].val = ActiveInDb'
  <2>1. q = r
    BY <1>2 DEF Committed, Outdated
  <2>2. req'[r] = [pc |-> "set", sid |-> s, val |-> val, fresh |-> TRUE]
    BY DEF Committed
  <2> QED
    BY <2>1, <2>2
<1> QED
  BY <1>1, <1>2 DEF FreshIsRight

\* Every step keeps fresh values right.
LEMMA FreshStep == IInv /\ TypeOK' /\ OneActive' /\ [Next]_vars => FreshIsRight'
<1> SUFFICES ASSUME IInv, TypeOK', OneActive', [Next]_vars PROVE FreshIsRight'
  OBVIOUS
<1>0. TypeOK /\ OneActive /\ FreshIsRight /\ FreshInReq
  BY DEF IInv, FreshIsRight, FreshInReq
<1>t. /\ status \in [Sessions -> Statuses]
      /\ cache \in [val: CacheValues, fresh: BOOLEAN]
      /\ req \in [Requests -> RequestRecords]
      /\ \A r \in Requests : WellFormed(req[r])
  BY <1>0 DEF TypeOK
<1>a. ASSUME FreshInReq', status' = status,
             cache'.fresh => cache' = cache \/ cache'.val = ActiveInDb
      PROVE  FreshIsRight'
  BY <1>0, <1>a, ActiveInDbStable DEF FreshIsRight, FreshInReq
<1>1. ASSUME NEW r \in Requests, NEW d \in Devices, NEW s \in Sessions, LoginTx(r, d, s)
      PROVE  FreshIsRight'
  <2>1. status'[s] = "active"
    BY <1>1 DEF LoginTx
  <2>2. ActiveInDb' = s
    BY <2>1 DEF ActiveInDb, OneActive, Unrevoked
  <2>3. Committed(r, s, s)
    BY <1>1 DEF LoginTx
  <2> QED
    BY <1>0, <2>2, <2>3, CommittedFresh
<1>j. ASSUME NEW r \in Requests, NEW s, NEW val, Judge(r, s, val), status' = status
      PROVE  FreshInReq'
  BY <1>0, <1>j, PutFresh, FinishFresh DEF Judge
<1>2. ASSUME NEW r \in Requests, NEW s \in Sessions, GuardHit(r, s) \/ GuardMiss(r, s)
      PROVE  FreshIsRight'
  <2>1. CASE GuardHit(r, s)
    BY <1>a, <1>j, <2>1 DEF GuardHit, rows
  <2>2. CASE GuardMiss(r, s)
    <3>1. FreshInReq'
      BY <1>0, <2>2, PutFresh DEF GuardMiss, rows
    <3> QED
      BY <1>a, <2>2, <3>1 DEF GuardMiss, rows
  <2> QED
    BY <1>2, <2>1, <2>2
<1>3. ASSUME NEW r \in Requests, Handle(r)
      PROVE  FreshIsRight'
  <2>b. req[r].fresh => req[r].val = ActiveInDb
    BY <1>0 DEF FreshInReq
  <2>c. ASSUME Answer(r), status' = status
        PROVE  FreshInReq'
    BY <1>0, <2>c, FinishFresh DEF Answer
  <2>3. CASE GuardFill(r)
    <3>1. FreshInReq'
      BY <1>j, <2>3 DEF GuardFill, rows
    <3>2. cache' = cache \/ cache' = [val |-> req[r].val, fresh |-> req[r].fresh]
      BY <2>3 DEF GuardFill
    <3> QED
      BY <1>a, <2>3, <2>b, <3>1, <3>2 DEF GuardFill, rows
  <2>4. CASE RunOther(r)
    BY <1>0, <1>a, <2>4, FinishFresh DEF RunOther, rows
  <2>5. CASE LogoutTx(r)
    <3>1. CASE req[r].sid \in Unrevoked
      <4>1. \A s \in Sessions : status'[s] # "active"
        BY <1>0, <1>t, <2>5, <3>1 DEF LogoutTx, OneActive, Unrevoked
      <4>2. ActiveInDb' = NoSession
        BY <4>1 DEF ActiveInDb
      <4>3. Committed(r, None, NoSession)
        BY <2>5, <3>1 DEF LogoutTx
      <4> QED
        BY <1>0, <4>2, <4>3, CommittedFresh
    <3>2. CASE req[r].sid \notin Unrevoked
      BY <1>0, <1>a, <2>5, <3>2, FinishFresh DEF LogoutTx
    <3> QED
      BY <3>1, <3>2
  <2>6. CASE NotMeTx(r)
    <3>1. CASE /\ Put(r, "set", None, NoSession, FALSE)
               /\ UNCHANGED <<status, cache>>
      <4>1. FreshInReq'
        BY <1>0, <3>1, PutFresh
      <4> QED
        BY <1>a, <3>1, <4>1
    <3>2. CASE /\ req[r].sid \in Unrevoked
               /\ status' = [status EXCEPT ![req[r].sid] = "logout"]
               /\ Committed(r, None, NoSession)
      <4>1. \A s \in Sessions : status'[s] # "active"
        BY <1>0, <1>t, <3>2 DEF OneActive, Unrevoked
      <4>2. ActiveInDb' = NoSession
        BY <4>1 DEF ActiveInDb
      <4> QED
        BY <1>0, <3>2, <4>2, CommittedFresh
    <3>3. ASSUME NEW t \in Sessions,
                 status' = [status EXCEPT ![req[r].sid] = "logout", ![t] = "active"],
                 Committed(r, None, t)
          PROVE  FreshIsRight'
      <4>1. status'[t] = "active"
        BY <1>t, <3>3
      <4>2. ActiveInDb' = t
        BY <4>1 DEF ActiveInDb, OneActive, Unrevoked
      <4> QED
        BY <1>0, <3>3, <4>2, CommittedFresh
    <3> QED
      BY <2>6, <3>1, <3>2, <3>3 DEF NotMeTx
  <2>7. CASE CacheSet(r)
    BY <1>a, <2>7, <2>b, <2>c DEF CacheSet, rows
  <2>8. CASE CacheSetFails(r)
    <3>1. FreshInReq'
      BY <1>0, <2>8, PutFresh DEF CacheSetFails, rows
    <3>2. cache' = cache \/ cache' = [val |-> req[r].val, fresh |-> req[r].fresh]
      BY <2>8 DEF CacheSetFails
    <3> QED
      BY <1>a, <2>8, <2>b, <3>1, <3>2 DEF CacheSetFails, rows
  <2>9. CASE CacheDel(r)
    BY <1>a, <2>9, <2>c DEF CacheDel, Absent, rows
  <2>10. CASE Crash(r)
    BY <1>0, <1>a, <2>10, FinishFresh DEF Crash, rows
  <2> QED
    BY <1>3, <2>3, <2>4, <2>5, <2>6, <2>7, <2>8, <2>9, <2>10 DEF Handle
<1>4. CASE CacheExpires
  <2>1. FreshInReq'
    BY <1>0, <1>4, ActiveInDbStable DEF CacheExpires, rows, FreshInReq
  <2> QED
    BY <1>a, <1>4, <2>1 DEF CacheExpires, Absent, rows
<1>5. ASSUME NEW s \in Sessions, SessionExpires(s)
      PROVE  FreshIsRight'
  BY <1>t, <1>5 DEF SessionExpires, Outdated, FreshIsRight
<1>6. ASSUME NEW t \in Sessions, WindowPasses(t)
      PROVE  FreshIsRight'
  <2>1. \A s \in Sessions : status'[s] = "active" <=> status[s] = "active"
    BY <1>t, <1>6 DEF WindowPasses
  <2>2. ActiveInDb' = ActiveInDb
    BY <2>1 DEF ActiveInDb
  <2> QED
    BY <1>0, <1>6, <2>2 DEF WindowPasses, FreshIsRight
<1>7. CASE UNCHANGED vars
  BY <1>0, <1>7, ActiveInDbStable DEF vars, FreshIsRight
<1> QED
  BY <1>1, <1>2, <1>3, <1>4, <1>5, <1>6, <1>7 DEF Next

----------------------------------------------------------------------------

\* The invariant holds in every reachable state.
THEOREM Invariance == Spec => []IInv
<1>1. Init => IInv
  BY InitInv
<1>2. IInv /\ [Next]_vars => IInv'
  BY TypeStep, OneActiveStep, FreshStep DEF IInv
<1> QED
  BY <1>1, <1>2, PTL DEF Spec

\* The rows, the cache and the handlers keep their types.
THEOREM TypeCorrect == Spec => []TypeOK
<1>1. IInv => TypeOK
  BY DEF IInv
<1> QED
  BY <1>1, Invariance, PTL

\* A user never has two unrevoked sessions, for any number of sessions,
\* devices and concurrent handlers: the unique index of the sessions table
\* never makes a transaction of session.service fail.
THEOREM OneActiveHolds == Spec => []OneActive
<1>1. IInv => OneActive
  BY DEF IInv
<1> QED
  BY <1>1, Invariance, PTL

\* A cache value that reports the latest transaction names the session the
\* rows hold active: the guard is wrong only while the key is older than them.
THEOREM CacheIsRightWhenFresh == Spec => []CacheReportsLastTx
<1>1. IInv => CacheReportsLastTx
  BY DEF IInv, FreshIsRight, CacheReportsLastTx
<1> QED
  BY <1>1, Invariance, PTL

\* A session its user ended stays ended: no handler brings it back.
THEOREM EndedForGood == Spec => EndedStaysEnded
<1>1. TypeOK /\ [Next]_vars
        => [\A s \in Sessions : status[s] = "logout" => status'[s] = "logout"]_vars
  <2> SUFFICES ASSUME TypeOK, Next
               PROVE  \A s \in Sessions : status[s] = "logout" => status'[s] = "logout"
    OBVIOUS
  <2>0. status \in [Sessions -> Statuses]
    BY DEF TypeOK
  <2>1. ASSUME NEW r \in Requests, NEW d \in Devices, NEW s \in Sessions, LoginTx(r, d, s)
        PROVE  \A t \in Sessions : status[t] = "logout" => status'[t] = "logout"
    BY <2>0, <2>1 DEF LoginTx, RevokeAsReplaced
  <2>2. ASSUME NEW r \in Requests, NotMeTx(r)
        PROVE  \A t \in Sessions : status[t] = "logout" => status'[t] = "logout"
    BY <2>0, <2>2 DEF NotMeTx, LastReplaced, Restorable, Unrevoked
  <2>3. ASSUME NEW r \in Requests, LogoutTx(r)
        PROVE  \A t \in Sessions : status[t] = "logout" => status'[t] = "logout"
    BY <2>0, <2>3 DEF LogoutTx
  <2>4. ASSUME NEW s \in Sessions, SessionExpires(s)
        PROVE  \A t \in Sessions : status[t] = "logout" => status'[t] = "logout"
    BY <2>0, <2>4 DEF SessionExpires
  <2>5. ASSUME NEW s \in Sessions, WindowPasses(s)
        PROVE  \A t \in Sessions : status[t] = "logout" => status'[t] = "logout"
    BY <2>0, <2>5 DEF WindowPasses
  <2>6. CASE status' = status
    BY <2>6
  <2> QED
    BY <2>1, <2>2, <2>3, <2>4, <2>5, <2>6
    DEF Next, Handle, GuardHit, GuardMiss, GuardFill, RunOther, CacheSet,
        CacheSetFails, CacheDel, Crash, CacheExpires, rows
<1> QED
  BY <1>1, TypeCorrect, PTL DEF Spec, EndedStaysEnded

----------------------------------------------------------------------------
(* "It was not me".                                                        *)

\* Replaced sessions have a time of their own, and none is later than now.
Dated ==
  /\ \A s \in Sessions : status[s] = "replaced" => replacedAt[s] <= clock
  /\ \A s, t \in Sessions :
       (status[s] = "replaced" /\ status[t] = "replaced" /\ replacedAt[s] = replacedAt[t]) => s = t

\* What an unrevoked session took the place of was the last to be replaced.
DisplacedLast ==
  /\ \A s \in Sessions \ Unrevoked : displaced[s] = NoSession
  /\ \A s \in Unrevoked :
       (displaced[s] \in Sessions /\ status[displaced[s]] = "replaced") =>
         replacedAt[displaced[s]] = clock

\* A login replaces at most one session, at a time after all the others.
LEMMA LoginDates ==
  ASSUME TypeOK, OneActive, Dated, DisplacedLast,
         NEW r \in Requests, NEW d \in Devices, NEW s \in Sessions,
         LoginTx(r, d, s)
  PROVE  Dated' /\ DisplacedLast'
<1>1. /\ status \in [Sessions -> Statuses] /\ replacedAt \in [Sessions -> Nat] /\ clock \in Nat
      /\ displaced \in [Sessions -> Sessions \cup {NoSession}]
  BY DEF TypeOK
<1>2. /\ status'[s] = "active"
      /\ \A t \in Sessions \ {s} : status'[t] = RevokeAsReplaced(t)
      /\ \A t \in Sessions : replacedAt'[t] = IF t \in Unrevoked THEN clock + 1 ELSE replacedAt[t]
      /\ clock' = IF Unrevoked = {} THEN clock ELSE clock + 1
      /\ displaced'[s] = ActiveInDb
      /\ \A t \in Sessions \ {s} :
           displaced'[t] = IF t \in Unrevoked THEN NoSession ELSE displaced[t]
  BY DEF LoginTx
<1>3. \A t \in Sessions : status'[t] = "replaced" =>
        \/ t \in Unrevoked /\ status[t] = "active" /\ replacedAt'[t] = clock'
        \/ t \notin Unrevoked /\ status[t] = "replaced" /\ replacedAt'[t] = replacedAt[t]
  BY <1>1, <1>2 DEF RevokeAsReplaced, Unrevoked
<1>4. Unrevoked # {} => clock' = clock + 1
  BY <1>2
<1>5. Dated'
  <2>1. ASSUME NEW t \in Sessions, status'[t] = "replaced"
        PROVE  replacedAt'[t] <= clock'
    BY <1>1, <1>2, <1>3, <2>1 DEF Dated
  <2>2. ASSUME NEW t \in Sessions, NEW u \in Sessions,
               status'[t] = "replaced", status'[u] = "replaced", replacedAt'[t] = replacedAt'[u]
        PROVE  t = u
    BY <1>1, <1>3, <1>4, <2>2 DEF Dated, OneActive
  <2> QED
    BY <2>1, <2>2 DEF Dated
<1>6. Unrevoked' = {s}
  BY <1>1, <1>2 DEF Unrevoked, RevokeAsReplaced, Statuses
<1>7. ActiveInDb \in Sessions => status[ActiveInDb] = "active"
  BY ActiveInDbIs, ActiveInDbNone, ConstantsDistinct
<1>8. (displaced'[s] \in Sessions /\ status'[displaced'[s]] = "replaced") =>
        replacedAt'[displaced'[s]] = clock'
  BY <1>2, <1>3, <1>7
<1> QED
  BY <1>2, <1>5, <1>6, <1>8 DEF DisplacedLast

\* A step that replaces no session, and forgets what ended sessions displaced.
LEMMA QuietDates ==
  ASSUME Dated, DisplacedLast, UNCHANGED <<replacedAt, clock>>,
         \A t \in Sessions : status'[t] = "replaced" => status[t] = "replaced",
         \A t \in Sessions : displaced'[t] \in {displaced[t], NoSession},
         \A t \in Sessions \ Unrevoked' : displaced'[t] = NoSession
  PROVE  Dated' /\ DisplacedLast'
<1>1. Dated'
  BY DEF Dated
<1>2. Unrevoked \subseteq Sessions /\ Unrevoked' \subseteq Sessions
  BY DEF Unrevoked
<1>3. ASSUME NEW s \in Unrevoked', displaced'[s] \in Sessions,
             status'[displaced'[s]] = "replaced"
      PROVE  replacedAt'[displaced'[s]] = clock'
  <2>1. displaced'[s] = displaced[s] /\ displaced[s] # NoSession
    BY <1>2, <1>3, ConstantsDistinct
  <2>2. s \in Unrevoked
    BY <1>2, <2>1 DEF DisplacedLast
  <2> QED
    BY <1>3, <2>1, <2>2 DEF DisplacedLast
<1> QED
  BY <1>1, <1>3 DEF DisplacedLast

\* Every step keeps the dates.
LEMMA DatesStep ==
  TypeOK /\ OneActive /\ Dated /\ DisplacedLast /\ [Next]_vars => Dated' /\ DisplacedLast'
<1> SUFFICES ASSUME TypeOK, OneActive, Dated, DisplacedLast, [Next]_vars
             PROVE  Dated' /\ DisplacedLast'
  OBVIOUS
<1>0. /\ status \in [Sessions -> Statuses]
      /\ displaced \in [Sessions -> Sessions \cup {NoSession}]
      /\ \A r \in Requests : req[r].pc = "run" => req[r].sid \in Sessions
  BY DEF TypeOK, WellFormed
<1>1. ASSUME NEW r \in Requests, NEW d \in Devices, NEW s \in Sessions, LoginTx(r, d, s)
      PROVE  Dated' /\ DisplacedLast'
  BY <1>1, LoginDates
<1>2. ASSUME NEW r \in Requests, LogoutTx(r) PROVE Dated' /\ DisplacedLast'
  <2>1. /\ UNCHANGED <<replacedAt, clock>> /\ req[r].sid \in Sessions
        /\ displaced' = [displaced EXCEPT ![req[r].sid] = NoSession]
        /\ status' = status \/ status' = [status EXCEPT ![req[r].sid] = "logout"]
        /\ req[r].sid \in Unrevoked => status' = [status EXCEPT ![req[r].sid] = "logout"]
    BY <1>0, <1>2 DEF LogoutTx
  <2>2. \A t \in Sessions \ Unrevoked' : t = req[r].sid \/ t \notin Unrevoked
    BY <1>0, <2>1 DEF Unrevoked
  <2> QED
    BY <1>0, <2>1, <2>2, QuietDates DEF DisplacedLast
<1>3. ASSUME NEW r \in Requests, NotMeTx(r) PROVE Dated' /\ DisplacedLast'
  <2>1. /\ UNCHANGED <<replacedAt, clock>> /\ req[r].sid \in Sessions
        /\ displaced' = [displaced EXCEPT ![req[r].sid] = NoSession]
    BY <1>0, <1>3 DEF NotMeTx
  <2>2. \/ status' = status
        \/ status' = [status EXCEPT ![req[r].sid] = "logout"]
        \/ \E t \in Sessions : status' = [status EXCEPT ![req[r].sid] = "logout", ![t] = "active"]
    BY <1>3 DEF NotMeTx
  <2>3. \A t \in Sessions \ Unrevoked' : t = req[r].sid \/ t \notin Unrevoked
    BY <1>0, <2>1, <2>2 DEF Unrevoked
  <2>4. \A t \in Sessions : status'[t] = "replaced" => status[t] = "replaced"
    BY <1>0, <2>1, <2>2
  <2> QED
    BY <1>0, <2>1, <2>3, <2>4, QuietDates DEF DisplacedLast
<1>4. ASSUME NEW s \in Sessions, SessionExpires(s) PROVE Dated' /\ DisplacedLast'
  <2>1. /\ UNCHANGED <<replacedAt, clock, displaced>>
        /\ status' = [status EXCEPT ![s] = "expired"]
    BY <1>4 DEF SessionExpires
  <2>2. \A t \in Sessions \ Unrevoked' : t \notin Unrevoked
    BY <1>0, <2>1 DEF Unrevoked
  <2> QED
    BY <1>0, <2>1, <2>2, QuietDates DEF DisplacedLast
<1>5. ASSUME NEW u \in Sessions, WindowPasses(u) PROVE Dated' /\ DisplacedLast'
  <2>1. /\ UNCHANGED <<replacedAt, clock>> /\ status[u] = "replaced"
        /\ status' = [status EXCEPT ![u] = "gone"]
        /\ \A t \in Sessions : displaced'[t] \in {displaced[t], NoSession}
    BY <1>0, <1>5 DEF WindowPasses
  <2>2. Unrevoked' = Unrevoked
    BY <1>0, <2>1 DEF Unrevoked
  <2>3. \A t \in Sessions \ Unrevoked' : displaced'[t] = NoSession
    BY <1>0, <2>1, <2>2 DEF DisplacedLast
  <2> QED
    BY <1>0, <2>1, <2>3, QuietDates
<1>6. CASE UNCHANGED rows
  <2>1. UNCHANGED <<status, replacedAt, clock, displaced>>
    BY <1>6 DEF rows
  <2> QED
    BY <2>1 DEF Dated, DisplacedLast, Unrevoked
<1> QED
  BY <1>1, <1>2, <1>3, <1>4, <1>5, <1>6
  DEF Next, Handle, GuardHit, GuardMiss, GuardFill, RunOther, CacheSet,
      CacheSetFails, CacheDel, Crash, CacheExpires, rows, vars

\* "It was not me" undoes the login it was said of, for any number of logins
\* on any devices: the session that comes back is the one the login replaced.
THEOREM NotMeUndoes == Spec => UndoesTheLogin
<1> DEFINE Good == TypeOK /\ OneActive /\ Dated /\ DisplacedLast
<1>1. Init => Dated /\ DisplacedLast
  BY DEF Init, Dated, DisplacedLast, Unrevoked
<1>2. Good /\ [Next]_vars =>
        [\A r \in Requests : LET s == req[r].sid  t == displaced[s] IN
           (/\ NotMeTx(r)
            /\ s \in Unrevoked
            /\ t \in Restorable(s)) => status'[t] = "active"]_vars
  <2> SUFFICES ASSUME TypeOK, Dated, DisplacedLast, NEW r \in Requests, NotMeTx(r),
                      req[r].sid \in Unrevoked,
                      displaced[req[r].sid] \in Restorable(req[r].sid)
               PROVE  status'[displaced[req[r].sid]] = "active"
    OBVIOUS
  <2> DEFINE s == req[r].sid
             t == displaced[s]
  <2>1. /\ t \in Sessions /\ status[t] = "replaced" /\ replacedAt[t] = clock
        /\ status \in [Sessions -> Statuses] /\ replacedAt \in [Sessions -> Nat] /\ clock \in Nat
    BY DEF Restorable, DisplacedLast, TypeOK
  <2>2. PICK u \in Sessions : /\ LastReplaced(s, u)
                              /\ status' = [status EXCEPT ![s] = "logout", ![u] = "active"]
    BY DEF NotMeTx
  <2>3. status[u] = "replaced" /\ replacedAt[u] >= replacedAt[t]
    BY <2>2 DEF LastReplaced, Restorable
  <2>4. replacedAt[u] <= clock
    BY <2>3 DEF Dated
  <2>5. replacedAt[u] = replacedAt[t]
    BY <2>1, <2>3, <2>4
  <2>6. u = t
    BY <2>1, <2>3, <2>5 DEF Dated
  <2> QED
    BY <2>1, <2>2, <2>6
<1>3. Good /\ [Next]_vars => (Dated /\ DisplacedLast)'
  BY DatesStep
<1> QED
  BY <1>1, <1>2, <1>3, TypeCorrect, OneActiveHolds, PTL DEF Spec, UndoesTheLogin
============================================================================
