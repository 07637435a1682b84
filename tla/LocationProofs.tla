--------------------------- MODULE LocationProofs ---------------------------
(***************************************************************************)
(* Proofs about LocationPipeline, for any number of fixes, uploads, stream *)
(* entries and workers: no fix vanishes on its way.  Each hop is covered   *)
(* by a part of the invariant: what the app deletes was in the upload it   *)
(* awaited, what was answered is delivered, and what a worker acknowledges *)
(* is saved.  The whole way implements the register of FixRegister, and    *)
(* the newest fix wins.                                                    *)
(***************************************************************************)
EXTENDS LocationPipeline, TLAPS

\* The server is answerable for the fix, or has given it up.
Delivered(f) == InLiveEntry(f) \/ f \in saved \/ f \in letGo

\* What the app would delete is in the upload it awaits.
Coverage ==
  sending.req # NoRequest =>
    /\ sending.max <= last
    /\ \A f \in outbox : f <= sending.max => f \in reqs[sending.req].fixes

\* An upload answered as received has been delivered.
Answers == \A q \in Requests : reqs[q].pc = "ok" => \A f \in reqs[q].fixes : Delivered(f)

\* The handler has refused what it does not queue.
Handled ==
  \A q \in Requests : reqs[q].pc \in {"current", "enqueue"} =>
    \A f \in reqs[q].fixes : f \in reqs[q].points \/ f \in letGo

Used == {e \in Entries : stream[e].st # "none"}

\* Workers have entries that exist, and those done are saved.
Held ==
  \A w \in Workers :
    /\ worker[w].todo \subseteq Used
    /\ \A e \in worker[w].done : e \in Used /\ stream[e].fixes \subseteq saved
    /\ worker[w].pc = "status" =>
         worker[w].entry \in Used /\ stream[worker[w].entry].fixes \subseteq saved

IInv == TypeOK /\ Coverage /\ Answers /\ Handled /\ Held /\ NothingVanishes

----------------------------------------------------------------------------
(* Types.                                                                  *)

\* Before anything is measured the types hold.
LEMMA InitType == Init => TypeOK
  BY PipelineAssumption
  DEF Init, TypeOK, FreeRequest, Handlers, Slots, Jobs, IdleWorker, Fixes, Entries

\* An answer is a record of the handler.
LEMMA ReplyType ==
  ASSUME TypeOK, NEW q \in Requests, NEW answer \in {"ok", "rejected", "error"},
         Reply(q, answer)
  PROVE  /\ reqs' \in [Requests -> Handlers]
         /\ sending.req # NoRequest => reqs'[sending.req].pc # "free"
<1>1. FreeRequest \in Handlers /\ reqs[q] \in Handlers
  BY DEF TypeOK, FreeRequest, Handlers
<1>2. [reqs[q] EXCEPT !.pc = answer] \in Handlers
  BY <1>1 DEF Handlers
<1>3. reqs \in [Requests -> Handlers]
  BY DEF TypeOK
<1>4. sending.req # NoRequest => sending.req \in Requests /\ reqs[sending.req].pc # "free"
  BY DEF TypeOK
<1>5. CASE sending.req = q
  <2>1. reqs' = [reqs EXCEPT ![q] = [@ EXCEPT !.pc = answer]]
    BY <1>5 DEF Reply
  <2>2. reqs'[q].pc = answer
    BY <1>1, <1>3, <2>1 DEF Handlers
  <2> QED
    BY <1>2, <1>3, <1>5, <2>1, <2>2
<1>6. CASE sending.req # q
  <2>1. reqs' = [reqs EXCEPT ![q] = FreeRequest]
    BY <1>6 DEF Reply
  <2> QED
    BY <1>1, <1>3, <1>4, <1>6, <2>1
<1> QED
  BY <1>5, <1>6

\* A counted fault stays within the bound.
LEMMA FaultType == ASSUME TypeOK, Fault PROVE faults' \in 0 .. MaxFaults
  BY PipelineAssumption DEF TypeOK, Fault

\* A worker goes on with a record of its kind.
LEMMA JobType ==
  ASSUME TypeOK, NEW w \in Workers, NEW todo \in SUBSET Entries, NEW done \in SUBSET Entries,
         SetJob(w, todo, done)
  PROVE  worker' \in [Workers -> Jobs]
<1>1. [IdleWorker EXCEPT !.pc = "save", !.todo = todo, !.done = done] \in Jobs
  BY DEF IdleWorker, Jobs
<1> QED
  BY <1>1 DEF TypeOK, SetJob

\* The variables of the app and the upload keep their types.
AppType ==
  /\ last \in Fixes \cup {0}
  /\ outbox \subseteq 1 .. last
  /\ sending \in [req: Requests \cup {NoRequest}, max: Fixes \cup {0}]
  /\ reqs \in [Requests -> Handlers]
  /\ sending.req # NoRequest => reqs[sending.req].pc # "free"

\* Those of the server, too.
ServerType ==
  /\ stream \in [Entries -> Slots]
  /\ worker \in [Workers -> Jobs]
  /\ saved \subseteq Fixes
  /\ current \in Fixes \cup {0}
  /\ status \in Fixes \cup {0}
  /\ letGo \subseteq Fixes
  /\ raced \in [current: BOOLEAN, status: BOOLEAN]
  /\ faults \in 0 .. MaxFaults

\* A step of the app keeps the types.
LEMMA AppTypeStep ==
  ASSUME TypeOK, Measure \/ (\E q \in Requests : Upload(q) \/ Answered(q)) \/ GiveUp \/ EndSession
  PROVE  TypeOK'
<1>0. AppType /\ ServerType /\ 1 .. last \subseteq Fixes
  BY PipelineAssumption DEF TypeOK, AppType, ServerType, Fixes
<1>1. CASE Measure
  <2>1. last \in Nat /\ last' = last + 1 /\ last' \in Fixes
    BY <1>0, <1>1, PipelineAssumption DEF Measure, AppType, Fixes
  <2>2. outbox \cup {last + 1} \subseteq 1 .. last'
    BY <1>0, <2>1 DEF AppType
  <2>3. /\ outbox' \subseteq outbox \cup {last + 1}
        /\ letGo' \subseteq letGo \cup outbox \cup {last + 1}
    BY <1>1 DEF Measure, Kept
  <2> QED
    BY <1>0, <1>1, <2>1, <2>2, <2>3 DEF Measure, AppType, ServerType, TypeOK
<1>2. ASSUME NEW q \in Requests, Upload(q)
      PROVE  TypeOK'
  <2>1. PICK rows \in SUBSET outbox, maxSeq \in Fixes :
          /\ reqs' = [reqs EXCEPT ![q] = [FreeRequest EXCEPT !.pc = "sent", !.fixes = rows]]
          /\ sending' = [req |-> q, max |-> maxSeq]
    BY <1>2 DEF Upload
  <2>2. [FreeRequest EXCEPT !.pc = "sent", !.fixes = rows] \in Handlers
    BY <1>0 DEF FreeRequest, Handlers, AppType
  <2>3. reqs' \in [Requests -> Handlers] /\ reqs'[q].pc = "sent"
    BY <1>0, <2>1, <2>2 DEF AppType, FreeRequest
  <2> QED
    BY <1>0, <1>2, <2>1, <2>3 DEF Upload, AppType, ServerType, TypeOK
<1>3. ASSUME NEW q \in Requests, Answered(q)
      PROVE  TypeOK'
  <2>1. FreeRequest \in Handlers
    BY DEF FreeRequest, Handlers
  <2>2. outbox' \subseteq outbox /\ letGo' \subseteq letGo \cup outbox
    BY <1>3 DEF Answered, DeleteSent
  <2>3. sending' = [req |-> NoRequest, max |-> 0]
    BY <1>3 DEF Answered, StopAwaiting
  <2> QED
    BY <1>0, <1>3, <2>1, <2>2, <2>3 DEF Answered, AppType, ServerType, TypeOK
<1>4. CASE GiveUp
  <2>1. FreeRequest \in Handlers
    BY DEF FreeRequest, Handlers
  <2>2. reqs' \in [Requests -> Handlers]
    BY <1>0, <1>4, <2>1 DEF GiveUp, AppType
  <2>3. sending' = [req |-> NoRequest, max |-> 0]
    BY <1>4 DEF GiveUp, StopAwaiting
  <2> QED
    BY <1>0, <1>4, <2>2, <2>3, FaultType DEF GiveUp, AppType, ServerType, TypeOK
<1>5. CASE EndSession
  BY <1>0, <1>5, FaultType DEF EndSession, AppType, ServerType, TypeOK
<1> QED
  BY <1>1, <1>2, <1>3, <1>4, <1>5

\* A step of a handler keeps the types.
LEMMA HandlerTypeStep ==
  ASSUME TypeOK, NEW q \in Requests, Handle(q) \/ HandlerFails(q)
  PROVE  TypeOK'
<1>0. AppType /\ ServerType /\ reqs[q] \in Handlers
  BY DEF TypeOK, AppType, ServerType
<1>1. CASE Accept(q)
  <2>1. UNCHANGED <<last, outbox, sending, stream, worker, saved, current, status, raced, faults>>
    BY <1>1 DEF Accept, app
  <2>2. CASE Reply(q, "rejected") /\ letGo' = letGo
    BY <1>0, <2>1, <2>2, ReplyType DEF AppType, ServerType, TypeOK
  <2>3. ASSUME NEW points \in {Acceptable(reqs[q].fixes), {}}, TakeIn(q, points)
        PROVE  TypeOK'
    <3>1. reqs[q].fixes \subseteq Fixes /\ points \subseteq Fixes
      BY <1>0 DEF Handlers, Acceptable
    <3>2. letGo' \subseteq Fixes
      BY <1>0, <2>3, <3>1 DEF TakeIn, ServerType
    <3>3. /\ reqs' \in [Requests -> Handlers]
          /\ sending.req # NoRequest => reqs'[sending.req].pc # "free"
      <4>1. CASE Reply(q, "ok")
        BY <4>1, ReplyType
      <4>2. CASE reqs' = [reqs EXCEPT ![q].pc = "current", ![q].points = points,
                                      ![q].prev = current]
        <5>1. reqs'[q] \in Handlers /\ reqs'[q].pc = "current"
          BY <1>0, <3>1, <4>2 DEF Handlers, ServerType, AppType
        <5> QED
          BY <1>0, <4>2, <5>1 DEF AppType
      <4> QED
        BY <2>3, <4>1, <4>2 DEF TakeIn
    <3> QED
      BY <1>0, <2>1, <3>2, <3>3 DEF AppType, ServerType, TypeOK
  <2> QED
    BY <1>1, <2>2, <2>3 DEF Accept
<1>2. CASE SetCurrent(q)
  <2>1. PICK latest \in reqs[q].points :
          current' = IF Newer(reqs[q].prev, latest) THEN current ELSE latest
    BY <1>2 DEF SetCurrent
  <2>2. current' \in Fixes \cup {0}
    BY <1>0, <2>1 DEF Handlers, ServerType
  <2>3. raced' \in [current: BOOLEAN, status: BOOLEAN]
    BY <1>0, <1>2 DEF SetCurrent, ServerType
  <2>4. reqs' = [reqs EXCEPT ![q].pc = "enqueue"]
    BY <1>2 DEF SetCurrent
  <2>5. reqs'[q] \in Handlers /\ reqs'[q].pc = "enqueue"
    BY <1>0, <2>4 DEF Handlers, AppType
  <2>6. /\ reqs' \in [Requests -> Handlers]
        /\ sending.req # NoRequest => reqs'[sending.req].pc # "free"
    BY <1>0, <2>4, <2>5 DEF AppType
  <2>7. UNCHANGED <<last, outbox, sending, stream, worker, saved, status, letGo, faults>>
    BY <1>2 DEF SetCurrent, app
  <2> QED
    BY <1>0, <2>2, <2>3, <2>6, <2>7 DEF AppType, ServerType, TypeOK
<1>3. CASE Enqueue(q)
  <2>1. PICK e \in Entries, T \in SUBSET Entries :
          /\ stream' = [d \in Entries |->
                          IF d = e THEN [st |-> "queued", fixes |-> reqs[q].points]
                          ELSE IF d \in T THEN [stream[d] EXCEPT !.st = "trimmed"]
                          ELSE stream[d]]
          /\ letGo' = letGo \cup UNION {stream[d].fixes : d \in T}
    BY <1>3 DEF Enqueue
  <2>2. \A d \in Entries : stream[d] \in Slots /\ [stream[d] EXCEPT !.st = "trimmed"] \in Slots
    BY <1>0 DEF ServerType, Slots
  <2>3. [st |-> "queued", fixes |-> reqs[q].points] \in Slots
    BY <1>0 DEF Slots, Handlers
  <2>4. stream' \in [Entries -> Slots]
    BY <2>1, <2>2, <2>3
  <2>5. letGo' \subseteq Fixes
    <3>1. \A d \in T : stream[d].fixes \subseteq Fixes
      BY <2>2 DEF Slots
    <3> QED
      BY <1>0, <2>1, <3>1 DEF ServerType
  <2>6. /\ reqs' \in [Requests -> Handlers]
        /\ sending.req # NoRequest => reqs'[sending.req].pc # "free"
    BY <1>3, ReplyType DEF Enqueue
  <2>7. UNCHANGED <<last, outbox, sending, worker, saved, current, status, raced, faults>>
    BY <1>3 DEF Enqueue, app
  <2> QED
    BY <1>0, <2>4, <2>5, <2>6, <2>7 DEF AppType, ServerType, TypeOK
<1>4. CASE HandlerFails(q)
  <2>1. /\ reqs' \in [Requests -> Handlers]
        /\ sending.req # NoRequest => reqs'[sending.req].pc # "free"
    BY <1>4, ReplyType DEF HandlerFails
  <2>2. UNCHANGED <<last, outbox, sending, stream, worker, saved, current, status, letGo, raced>>
    BY <1>4 DEF HandlerFails, app
  <2>3. faults' \in 0 .. MaxFaults
    BY <1>4, FaultType DEF HandlerFails
  <2> QED
    BY <1>0, <2>1, <2>2, <2>3 DEF AppType, ServerType, TypeOK
<1> QED
  BY <1>1, <1>2, <1>3, <1>4 DEF Handle

\* A step of a worker keeps the types.
LEMMA WorkerTypeStep ==
  ASSUME TypeOK, Held, NEW w \in Workers, Work(w) \/ SaveFails(w) \/ WorkerDies(w)
  PROVE  TypeOK'
<1>0. AppType /\ ServerType /\ worker[w] \in Jobs
  BY DEF TypeOK, AppType, ServerType
<1>1. IdleWorker \in Jobs
  BY DEF IdleWorker, Jobs
<1>2. \A e \in Entries : stream[e] \in Slots /\ stream[e].fixes \subseteq Fixes
  BY <1>0 DEF ServerType, Slots
<1> DEFINE Rest == UNCHANGED <<last, outbox, sending, reqs, current, letGo>>
<1>3. CASE Reclaim(w)
  <2>1. PICK E \in SUBSET Pending : SetJob(w, E, {})
    BY <1>3 DEF Reclaim
  <2>2. E \in SUBSET Entries
    BY DEF Pending
  <2>3. worker' \in [Workers -> Jobs]
    BY <2>1, <2>2, JobType
  <2>4. Rest /\ UNCHANGED <<stream, saved, status, raced, faults>>
    BY <1>3 DEF Reclaim, app
  <2> QED
    BY <1>0, <2>3, <2>4 DEF AppType, ServerType, TypeOK
<1>4. CASE TakeNew(w)
  <2>1. PICK E \in SUBSET Queued :
          /\ SetJob(w, E, {})
          /\ stream' = [e \in Entries |->
                          IF e \in E THEN [stream[e] EXCEPT !.st = "pending"] ELSE stream[e]]
    BY <1>4 DEF TakeNew
  <2>2. E \in SUBSET Entries
    BY DEF Queued
  <2>3. worker' \in [Workers -> Jobs]
    BY <2>1, <2>2, JobType
  <2>4. \A e \in Entries : [stream[e] EXCEPT !.st = "pending"] \in Slots
    BY <1>2 DEF Slots
  <2>5. stream' \in [Entries -> Slots]
    BY <1>2, <2>1, <2>4
  <2>6. Rest /\ UNCHANGED <<saved, status, raced, faults>>
    BY <1>4 DEF TakeNew, app
  <2> QED
    BY <1>0, <2>3, <2>5, <2>6 DEF AppType, ServerType, TypeOK
<1>5. CASE Save(w)
  <2>1. PICK e \in Entries :
          /\ saved' = saved \cup stream[e].fixes
          /\ worker' = [worker EXCEPT ![w].pc = "status", ![w].entry = e,
                                      ![w].todo = @ \ {e}, ![w].prev = status]
    BY <1>5 DEF Save
  <2>2. worker'[w] \in Jobs
    BY <1>0, <2>1 DEF ServerType, Jobs
  <2>3. worker' \in [Workers -> Jobs]
    BY <1>0, <2>1, <2>2 DEF ServerType
  <2>4. Rest /\ UNCHANGED <<stream, status, raced, faults>>
    BY <1>5 DEF Save, app
  <2> QED
    BY <1>0, <1>2, <2>1, <2>3, <2>4 DEF AppType, ServerType, TypeOK
<1>6. CASE WriteStatus(w)
  <2>1. worker[w].entry \in Entries
    BY <1>6 DEF Held, Used, WriteStatus
  <2>2. status' \in Fixes \cup {0}
    BY <1>0, <1>2, <1>6, <2>1 DEF WriteStatus, ServerType
  <2>3. /\ worker[w].todo \in SUBSET Entries
        /\ worker[w].done \cup {worker[w].entry} \in SUBSET Entries
    BY <1>0, <2>1 DEF Jobs
  <2>4. worker' \in [Workers -> Jobs]
    BY <1>6, <2>3, JobType DEF WriteStatus
  <2>5. raced' \in [current: BOOLEAN, status: BOOLEAN]
    BY <1>0, <1>6 DEF WriteStatus, ServerType
  <2>6. Rest /\ UNCHANGED <<stream, saved, faults>>
    BY <1>6 DEF WriteStatus, app
  <2> QED
    BY <1>0, <2>2, <2>4, <2>5, <2>6 DEF AppType, ServerType, TypeOK
<1>7. CASE Ack(w)
  <2>1. \A e \in Entries : [stream[e] EXCEPT !.st = "acked"] \in Slots
    BY <1>2 DEF Slots
  <2>2. stream' \in [Entries -> Slots]
    BY <1>2, <1>7, <2>1 DEF Ack
  <2>3. worker' \in [Workers -> Jobs]
    BY <1>0, <1>1, <1>7 DEF Ack, ServerType
  <2>4. Rest /\ UNCHANGED <<saved, status, raced, faults>>
    BY <1>7 DEF Ack, app
  <2> QED
    BY <1>0, <2>2, <2>3, <2>4 DEF AppType, ServerType, TypeOK
<1>8. CASE SaveFails(w)
  <2>1. \A e \in Entries : worker[w].todo \in SUBSET Entries
                           /\ worker[w].todo \ {e} \in SUBSET Entries
                           /\ DoneAfterFailure(w, e) \in SUBSET Entries
    BY <1>0 DEF Jobs, DoneAfterFailure
  <2>2. worker[w].todo \in SUBSET Entries
        /\ DoneAfterFailure(w, worker[w].entry) \in SUBSET Entries
    BY <1>0 DEF Jobs, DoneAfterFailure
  <2>3. worker' \in [Workers -> Jobs]
    BY <1>8, <2>1, <2>2, JobType DEF SaveFails
  <2>4. faults' \in 0 .. MaxFaults
    BY <1>8, FaultType DEF SaveFails
  <2>5. Rest /\ UNCHANGED <<stream, saved, status, raced>>
    BY <1>8 DEF SaveFails, app
  <2> QED
    BY <1>0, <2>3, <2>4, <2>5 DEF AppType, ServerType, TypeOK
<1>9. CASE WorkerDies(w)
  <2>1. worker' \in [Workers -> Jobs]
    BY <1>0, <1>1, <1>9 DEF WorkerDies, ServerType
  <2>2. faults' \in 0 .. MaxFaults
    BY <1>9, FaultType DEF WorkerDies
  <2>3. Rest /\ UNCHANGED <<stream, saved, status, raced>>
    BY <1>9 DEF WorkerDies, app
  <2> QED
    BY <1>0, <2>1, <2>2, <2>3 DEF AppType, ServerType, TypeOK
<1> QED
  BY <1>3, <1>4, <1>5, <1>6, <1>7, <1>8, <1>9 DEF Work

\* Every step keeps the types.
LEMMA TypeStep == TypeOK /\ Held /\ [Next]_vars => TypeOK'
<1> SUFFICES ASSUME TypeOK, Held, [Next]_vars PROVE TypeOK'
  OBVIOUS
<1>1. CASE UNCHANGED vars
  BY <1>1 DEF vars, TypeOK
<1> QED
  BY <1>1, AppTypeStep, HandlerTypeStep, WorkerTypeStep DEF Next, AppStep

----------------------------------------------------------------------------
(* What the server is answerable for.                                      *)

\* Steps that leave the stream alone and forget nothing.
LEMMA DeliveredKept ==
  ASSUME stream' = stream, saved \subseteq saved', letGo \subseteq letGo', NEW f
  PROVE  Delivered(f) => Delivered(f)'
  BY DEF Delivered, InLiveEntry

\* The stream never takes back the answer: what is delivered stays so, and an
\* entry in use keeps its fixes.
LEMMA DeliveredStep ==
  ASSUME TypeOK, Held, Next
  PROVE  /\ \A f : Delivered(f) => Delivered(f)'
         /\ saved \subseteq saved' /\ letGo \subseteq letGo'
         /\ \A e \in Used : e \in Used' /\ stream'[e].fixes = stream[e].fixes
<1>0. stream \in [Entries -> Slots] /\ \A e \in Entries : stream[e] \in Slots
  BY DEF TypeOK
<1> DEFINE Goal == /\ \A f : Delivered(f) => Delivered(f)'
                   /\ saved \subseteq saved' /\ letGo \subseteq letGo'
                   /\ \A e \in Used : e \in Used' /\ stream'[e].fixes = stream[e].fixes
<1>1. ASSUME stream' = stream, saved \subseteq saved', letGo \subseteq letGo'
      PROVE  Goal
  BY <1>1, DeliveredKept DEF Used
<1>2. ASSUME NEW q \in Requests, Enqueue(q)
      PROVE  Goal
  <2>1. PICK e \in Entries, T \in SUBSET Entries :
          /\ stream[e].st = "none"
          /\ stream' = [d \in Entries |->
                          IF d = e THEN [st |-> "queued", fixes |-> reqs[q].points]
                          ELSE IF d \in T THEN [stream[d] EXCEPT !.st = "trimmed"]
                          ELSE stream[d]]
          /\ letGo' = letGo \cup UNION {stream[d].fixes : d \in T}
    BY <1>2 DEF Enqueue
  <2>2. saved' = saved
    BY <1>2 DEF Enqueue
  <2>3. \A d \in Entries : d # e => stream'[d].fixes = stream[d].fixes
    BY <1>0, <2>1 DEF Slots
  <2>4. \A d \in Entries : d # e =>
           /\ stream[d].st # "none" => stream'[d].st # "none"
           /\ d \notin T => stream'[d].st = stream[d].st
    BY <1>0, <2>1 DEF Slots
  <2>5. ASSUME NEW f, Delivered(f)
        PROVE  Delivered(f)'
    <3>1. CASE f \in saved \/ f \in letGo
      BY <2>1, <2>2, <3>1 DEF Delivered
    <3>2. ASSUME NEW d \in Entries, stream[d].st \in {"queued", "pending"}, f \in stream[d].fixes
          PROVE  Delivered(f)'
      <4>1. d # e
        BY <2>1, <3>2
      <4>2. CASE d \in T
        BY <2>1, <3>2, <4>2 DEF Delivered
      <4>3. CASE d \notin T
        BY <2>3, <2>4, <3>2, <4>1, <4>3 DEF Delivered, InLiveEntry
      <4> QED
        BY <4>2, <4>3
    <3> QED
      BY <2>5, <3>1, <3>2 DEF Delivered, InLiveEntry
  <2> QED
    BY <2>1, <2>2, <2>3, <2>4, <2>5 DEF Used
<1>3. ASSUME NEW w \in Workers, TakeNew(w)
      PROVE  Goal
  <2>1. PICK E \in SUBSET Queued :
          stream' = [e \in Entries |->
                       IF e \in E THEN [stream[e] EXCEPT !.st = "pending"] ELSE stream[e]]
    BY <1>3 DEF TakeNew
  <2>2. \A e \in Entries : stream'[e].fixes = stream[e].fixes
    BY <1>0, <2>1 DEF Slots
  <2>3. \A e \in Entries : stream'[e].st = "pending" \/ stream'[e].st = stream[e].st
    BY <1>0, <2>1 DEF Slots
  <2>4. saved' = saved /\ letGo' = letGo
    BY <1>3 DEF TakeNew
  <2> QED
    BY <2>2, <2>3, <2>4 DEF Delivered, InLiveEntry, Used
<1>4. ASSUME NEW w \in Workers, Ack(w)
      PROVE  Goal
  <2>1. stream' = [e \in Entries |->
                     IF e \in worker[w].done /\ stream[e].st = "pending"
                     THEN [stream[e] EXCEPT !.st = "acked"] ELSE stream[e]]
    BY <1>4 DEF Ack
  <2>2. \A e \in Entries : stream'[e].fixes = stream[e].fixes
    BY <1>0, <2>1 DEF Slots
  <2>3. \A e \in Entries : \/ stream'[e].st = stream[e].st
                           \/ stream'[e].st = "acked" /\ stream[e].fixes \subseteq saved
    BY <1>0, <2>1 DEF Slots, Held
  <2>4. saved' = saved /\ letGo' = letGo
    BY <1>4 DEF Ack
  <2> QED
    BY <2>2, <2>3, <2>4 DEF Delivered, InLiveEntry, Used
<1>5. ASSUME NEW w \in Workers, Save(w)
      PROVE  stream' = stream /\ saved \subseteq saved' /\ letGo \subseteq letGo'
  BY <1>5 DEF Save
<1>6. ASSUME NEW w \in Workers, Reclaim(w) \/ WriteStatus(w) \/ SaveFails(w) \/ WorkerDies(w)
      PROVE  stream' = stream /\ saved \subseteq saved' /\ letGo \subseteq letGo'
  BY <1>6 DEF Reclaim, WriteStatus, SaveFails, WorkerDies
<1>7. ASSUME NEW q \in Requests,
             Upload(q) \/ Answered(q) \/ Accept(q) \/ SetCurrent(q) \/ HandlerFails(q)
      PROVE  stream' = stream /\ saved \subseteq saved' /\ letGo \subseteq letGo'
  BY <1>7 DEF Upload, Answered, Accept, TakeIn, SetCurrent, HandlerFails
<1>8. ASSUME Measure \/ GiveUp \/ EndSession
      PROVE  stream' = stream /\ saved \subseteq saved' /\ letGo \subseteq letGo'
  BY <1>8 DEF Measure, GiveUp, EndSession
<1> HIDE DEF Goal
<1>9. Goal
  BY <1>1, <1>2, <1>3, <1>4, <1>5, <1>6, <1>7, <1>8 DEF Next, AppStep, Handle, Work
<1> QED
  BY <1>9 DEF Goal

----------------------------------------------------------------------------
(* The hops.                                                               *)

\* Whoever holds entries holds existing ones, and lists as done what is saved.
LEMMA HeldStep == ASSUME TypeOK, Held, Next PROVE Held'
<1>0. /\ worker \in [Workers -> Jobs] /\ stream \in [Entries -> Slots]
      /\ \A e \in Used : e \in Used' /\ stream'[e].fixes = stream[e].fixes
      /\ saved \subseteq saved'
  BY DeliveredStep DEF TypeOK
<1> DEFINE HeldBy(job) ==
      /\ job.todo \subseteq Used
      /\ \A e \in job.done : e \in Used /\ stream[e].fixes \subseteq saved
      /\ job.pc = "status" => job.entry \in Used /\ stream[job.entry].fixes \subseteq saved
<1>1. ASSUME NEW v \in Workers, worker'[v] = worker[v]
      PROVE  HeldBy(worker[v])'
  <2>1. HeldBy(worker[v])
    BY DEF Held
  <2> QED
    BY <1>0, <1>1, <2>1
<1>2. ASSUME NEW v \in Workers, NEW todo \in SUBSET Used', NEW done \in SUBSET Used',
             \A e \in done : stream'[e].fixes \subseteq saved',
             worker'[v] = [IdleWorker EXCEPT !.pc = "save", !.todo = todo, !.done = done]
      PROVE  HeldBy(worker[v])'
  BY <1>2 DEF IdleWorker
<1>3. ASSUME NEW v \in Workers, worker'[v] = IdleWorker
      PROVE  HeldBy(worker[v])'
  BY <1>3 DEF IdleWorker
<1>4. ASSUME NEW w \in Workers, Work(w) \/ SaveFails(w) \/ WorkerDies(w)
      PROVE  HeldBy(worker[w])'
  <2>0. HeldBy(worker[w]) /\ worker[w] \in Jobs
    BY <1>0 DEF Held
  <2>1. CASE Reclaim(w)
    <3>1. PICK E \in SUBSET Pending : SetJob(w, E, {})
      BY <2>1 DEF Reclaim
    <3>2. E \in SUBSET Used'
      BY <1>0 DEF Pending, Used
    <3>3. worker'[w] = [IdleWorker EXCEPT !.pc = "save", !.todo = E, !.done = {}]
      BY <1>0, <3>1 DEF SetJob
    <3> QED
      BY <1>2, <3>2, <3>3
  <2>2. CASE TakeNew(w)
    <3>1. PICK E \in SUBSET Queued : SetJob(w, E, {})
      BY <2>2 DEF TakeNew
    <3>2. E \in SUBSET Used'
      BY <1>0 DEF Queued, Used
    <3>3. worker'[w] = [IdleWorker EXCEPT !.pc = "save", !.todo = E, !.done = {}]
      BY <1>0, <3>1 DEF SetJob
    <3> QED
      BY <1>2, <3>2, <3>3
  <2>3. CASE Save(w)
    <3>1. PICK e \in Entries :
            /\ IsNext(w, e)
            /\ saved' = saved \cup stream[e].fixes
            /\ worker' = [worker EXCEPT ![w].pc = "status", ![w].entry = e,
                                        ![w].todo = @ \ {e}, ![w].prev = status]
      BY <2>3 DEF Save
    <3>2. e \in Used /\ stream' = stream
      BY <2>0, <2>3, <3>1 DEF Save, IsNext
    <3>3. /\ worker'[w].pc = "status" /\ worker'[w].entry = e
          /\ worker'[w].todo \subseteq worker[w].todo /\ worker'[w].done = worker[w].done
      BY <1>0, <2>0, <3>1 DEF Jobs
    <3> QED
      BY <1>0, <2>0, <3>1, <3>2, <3>3
  <2>4. CASE WriteStatus(w)
    <3> DEFINE done == worker[w].done \cup {worker[w].entry}
    <3>1. /\ worker[w].todo \in SUBSET Used' /\ done \in SUBSET Used'
          /\ \A e \in done : stream'[e].fixes \subseteq saved'
      BY <1>0, <2>0, <2>4 DEF WriteStatus
    <3>2. worker'[w] = [IdleWorker EXCEPT !.pc = "save", !.todo = worker[w].todo, !.done = done]
      BY <1>0, <2>4 DEF WriteStatus, SetJob
    <3> QED
      BY <1>2, <3>1, <3>2
  <2>5. CASE Ack(w) \/ WorkerDies(w)
    BY <1>0, <1>3, <2>5 DEF Ack, WorkerDies
  <2>6. CASE SaveFails(w)
    <3>1. PICK todo \in SUBSET worker[w].todo : SetJob(w, todo, worker[w].done)
      BY <2>6 DEF SaveFails, DoneAfterFailure
    <3>2. /\ todo \in SUBSET Used' /\ worker[w].done \in SUBSET Used'
          /\ \A e \in worker[w].done : stream'[e].fixes \subseteq saved'
      BY <1>0, <2>0
    <3>3. worker'[w] = [IdleWorker EXCEPT !.pc = "save", !.todo = todo, !.done = worker[w].done]
      BY <1>0, <3>1 DEF SetJob
    <3> QED
      BY <1>2, <3>2, <3>3
  <2> QED
    BY <1>4, <2>1, <2>2, <2>3, <2>4, <2>5, <2>6 DEF Work
<1> HIDE DEF HeldBy
<1>5. ASSUME NEW v \in Workers
      PROVE  HeldBy(worker[v])'
  <2>1. ASSUME NEW w \in Workers, Work(w) \/ SaveFails(w) \/ WorkerDies(w), v # w
        PROVE  worker'[v] = worker[v]
    BY <1>0, <2>1
    DEF Work, Reclaim, TakeNew, Save, WriteStatus, Ack, SaveFails, WorkerDies, SetJob
  <2>2. ASSUME NEW q \in Requests, Upload(q) \/ Answered(q) \/ Handle(q) \/ HandlerFails(q)
        PROVE  worker' = worker
    BY <2>2 DEF Upload, Answered, Handle, Accept, TakeIn, SetCurrent, Enqueue, HandlerFails
  <2>3. ASSUME Measure \/ GiveUp \/ EndSession
        PROVE  worker' = worker
    BY <2>3 DEF Measure, GiveUp, EndSession
  <2> QED
    BY <1>1, <1>4, <2>1, <2>2, <2>3 DEF Next, AppStep
<1> QED
  BY <1>5 DEF Held, HeldBy

\* What the app would delete is in the upload it awaits: rows measured later
\* have a greater seq, and nothing puts an older row back.
LEMMA CoverageStep == ASSUME TypeOK, Coverage, Next PROVE Coverage'
<1>0. /\ last \in Nat /\ outbox \subseteq 1 .. last /\ reqs \in [Requests -> Handlers]
      /\ sending.req # NoRequest => sending.req \in Requests
      /\ sending \in [req: Requests \cup {NoRequest}, max: Fixes \cup {0}]
  BY PipelineAssumption DEF TypeOK, Fixes
<1>1. CASE Measure
  <2>1. outbox' \subseteq outbox \cup {last + 1} /\ last' = last + 1
    BY <1>1 DEF Measure, Kept
  <2>2. reqs' = reqs /\ sending' = sending
    BY <1>1 DEF Measure
  <2>3. sending.max \in Nat
    BY <1>0, PipelineAssumption DEF Fixes
  <2>4. ASSUME sending.req # NoRequest, NEW f \in outbox', f <= sending.max
        PROVE  f \in reqs[sending.req].fixes
    <3>1. f # last + 1
      BY <1>0, <2>3, <2>4 DEF Coverage
    <3> QED
      BY <2>1, <2>4, <3>1 DEF Coverage
  <2>5. sending.req # NoRequest => sending.max <= last'
    BY <1>0, <2>1, <2>3 DEF Coverage
  <2> QED
    BY <2>2, <2>4, <2>5 DEF Coverage
<1>2. ASSUME NEW q \in Requests, Upload(q)
      PROVE  Coverage'
  <2>1. PICK rows \in SUBSET outbox, maxSeq \in Fixes :
          /\ IsBatch(rows)
          /\ Newest(rows, maxSeq)
          /\ reqs' = [reqs EXCEPT ![q] = [FreeRequest EXCEPT !.pc = "sent", !.fixes = rows]]
          /\ sending' = [req |-> q, max |-> maxSeq]
    BY <1>2 DEF Upload
  <2>2. reqs'[q].fixes = rows
    BY <1>0, <2>1 DEF FreeRequest
  <2>3. maxSeq \in rows /\ \A f \in outbox : f <= maxSeq => f \in rows
    <3>1. maxSeq \in rows /\ \A f \in outbox \ rows : maxSeq < f
      BY <2>1 DEF IsBatch, Newest
    <3>2. \A f \in outbox : f \in Nat
      BY <1>0
    <3> QED
      BY <3>1, <3>2
  <2>4. outbox' = outbox /\ last' = last
    BY <1>2 DEF Upload
  <2> QED
    BY <1>0, <2>1, <2>2, <2>3, <2>4 DEF Coverage
<1>3. ASSUME NEW q \in Requests, Answered(q)
      PROVE  Coverage'
  BY <1>3 DEF Coverage, Answered, StopAwaiting
<1>4. CASE GiveUp
  BY <1>4 DEF Coverage, GiveUp, StopAwaiting
<1>5. CASE EndSession
  BY <1>0, <1>5 DEF Coverage, EndSession
<1>6. ASSUME UNCHANGED <<last, outbox, sending>>,
             sending.req # NoRequest => reqs'[sending.req].fixes = reqs[sending.req].fixes
      PROVE  Coverage'
  BY <1>6 DEF Coverage
<1>7. ASSUME NEW q \in Requests, Handle(q) \/ HandlerFails(q)
      PROVE  sending.req # NoRequest => reqs'[sending.req].fixes = reqs[sending.req].fixes
  <2>1. \A p \in Requests : reqs[p] \in Handlers
    BY <1>0
  <2>2. ASSUME NEW answer, Reply(q, answer), sending.req # NoRequest
        PROVE  reqs'[sending.req].fixes = reqs[sending.req].fixes
    BY <1>0, <2>1, <2>2 DEF Reply, Handlers
  <2> QED
    BY <1>0, <1>7, <2>1, <2>2
    DEF Handle, Accept, TakeIn, SetCurrent, Enqueue, HandlerFails, Handlers
<1>8. ASSUME NEW q \in Requests, Handle(q) \/ HandlerFails(q)
      PROVE  UNCHANGED <<last, outbox, sending>>
  BY <1>8 DEF Handle, Accept, TakeIn, SetCurrent, Enqueue, HandlerFails, app
<1>9. ASSUME NEW w \in Workers, Work(w) \/ SaveFails(w) \/ WorkerDies(w)
      PROVE  UNCHANGED <<last, outbox, sending, reqs>>
  BY <1>9 DEF Work, Reclaim, TakeNew, Save, WriteStatus, Ack, SaveFails, WorkerDies, app
<1> QED
  BY <1>1, <1>2, <1>3, <1>4, <1>5, <1>6, <1>7, <1>8, <1>9 DEF Next, AppStep

\* After the app has sent a batch or had an answer, every upload is as before,
\* just sent, or free.
LEMMA AppLeavesUploads ==
  ASSUME TypeOK, NEW q \in Requests, Upload(q) \/ Answered(q), NEW p \in Requests
  PROVE  reqs'[p] = reqs[p] \/ reqs'[p].pc \in {"sent", "free"}
<1>0. reqs \in [Requests -> Handlers]
  BY DEF TypeOK
<1>1. ASSUME Upload(q)
      PROVE  reqs'[p] = reqs[p] \/ reqs'[p].pc \in {"sent", "free"}
  <2>1. PICK rows :
          reqs' = [reqs EXCEPT ![q] = [FreeRequest EXCEPT !.pc = "sent", !.fixes = rows]]
    BY <1>1 DEF Upload
  <2>2. [FreeRequest EXCEPT !.pc = "sent", !.fixes = rows].pc = "sent"
    BY DEF FreeRequest
  <2> QED
    BY <1>0, <2>1, <2>2
<1>2. ASSUME Answered(q)
      PROVE  reqs'[p] = reqs[p] \/ reqs'[p].pc \in {"sent", "free"}
  BY <1>0, <1>2 DEF Answered, FreeRequest
<1> QED
  BY <1>1, <1>2

\* What an upload holds that its handler does not queue has been given up.
LEMMA HandledStep == ASSUME TypeOK, Held, Handled, Next PROVE Handled'
<1>0. /\ reqs \in [Requests -> Handlers] /\ \A p \in Requests : reqs[p] \in Handlers
      /\ letGo \subseteq letGo'
      /\ sending.req # NoRequest => sending.req \in Requests
  BY DeliveredStep DEF TypeOK
<1> DEFINE OK(p) == reqs[p].pc \in {"current", "enqueue"} =>
                      \A f \in reqs[p].fixes : f \in reqs[p].points \/ f \in letGo
<1>1. ASSUME NEW p \in Requests, reqs'[p] = reqs[p]
      PROVE  OK(p)'
  BY <1>0, <1>1 DEF Handled
<1>2. ASSUME NEW p \in Requests, reqs'[p].pc \notin {"current", "enqueue"}
      PROVE  OK(p)'
  BY <1>2
<1>3. ASSUME NEW q \in Requests, NEW answer \in {"ok", "rejected", "error"},
             Reply(q, answer), NEW p \in Requests
      PROVE  reqs'[p] = reqs[p] \/ reqs'[p].pc \notin {"current", "enqueue"}
  BY <1>0, <1>3 DEF Reply, FreeRequest, Handlers
<1>4. ASSUME NEW q \in Requests, Accept(q), NEW p \in Requests
      PROVE  OK(p)'
  <2>1. CASE Reply(q, "rejected") \/ Reply(q, "ok")
    BY <1>1, <1>2, <1>3, <2>1
  <2>2. ASSUME NEW points, letGo' = letGo \cup (reqs[q].fixes \ points),
               reqs' = [reqs EXCEPT ![q].pc = "current", ![q].points = points,
                                    ![q].prev = current]
        PROVE  OK(p)'
    <3>1. CASE p = q
      <4>1. reqs'[q].fixes = reqs[q].fixes /\ reqs'[q].points = points
        BY <1>0, <2>2 DEF Handlers
      <4> QED
        BY <2>2, <3>1, <4>1
    <3>2. CASE p # q
      BY <1>0, <1>1, <2>2, <3>2
    <3> QED
      BY <3>1, <3>2
  <2> QED
    BY <1>4, <2>1, <2>2 DEF Accept, TakeIn
<1>5. ASSUME NEW q \in Requests, SetCurrent(q), NEW p \in Requests
      PROVE  OK(p)'
  <2>1. reqs' = [reqs EXCEPT ![q].pc = "enqueue"] /\ reqs[q].pc = "current"
    BY <1>5 DEF SetCurrent
  <2>2. /\ reqs'[p].fixes = reqs[p].fixes /\ reqs'[p].points = reqs[p].points
        /\ p # q => reqs'[p].pc = reqs[p].pc
    BY <1>0, <2>1 DEF Handlers
  <2> QED
    BY <1>0, <2>1, <2>2 DEF Handled
<1>6. ASSUME NEW q \in Requests, Enqueue(q) \/ HandlerFails(q), NEW p \in Requests
      PROVE  OK(p)'
  <2>1. Reply(q, "ok") \/ Reply(q, "error")
    BY <1>6 DEF Enqueue, HandlerFails
  <2> QED
    BY <1>1, <1>2, <1>3, <2>1
<1>7. ASSUME NEW q \in Requests, Upload(q) \/ Answered(q), NEW p \in Requests
      PROVE  OK(p)'
  <2>1. reqs'[p] = reqs[p] \/ reqs'[p].pc \in {"sent", "free"}
    BY <1>7, AppLeavesUploads
  <2> QED
    BY <1>1, <1>2, <2>1
<1>8. ASSUME GiveUp, NEW p \in Requests
      PROVE  OK(p)'
  <2>1. reqs'[p] = reqs[p] \/ reqs'[p].pc = "free"
    BY <1>0, <1>8 DEF GiveUp, FreeRequest
  <2> QED
    BY <1>1, <1>2, <2>1
<1>9. ASSUME Measure \/ EndSession \/ \E w \in Workers : Work(w) \/ SaveFails(w) \/ WorkerDies(w)
      PROVE  reqs' = reqs
  BY <1>9 DEF Measure, EndSession, Work, Reclaim, TakeNew, Save, WriteStatus, Ack,
              SaveFails, WorkerDies
<1> HIDE DEF OK
<1>10. ASSUME NEW p \in Requests
       PROVE  OK(p)'
  BY <1>1, <1>4, <1>5, <1>6, <1>7, <1>8, <1>9 DEF Next, AppStep, Handle
<1> QED
  BY <1>10 DEF OK, Handled

\* An upload is answered as received only when all of it is delivered.
LEMMA AnswersStep == ASSUME TypeOK, Held, Handled, Answers, Next PROVE Answers'
<1>0. /\ reqs \in [Requests -> Handlers] /\ \A p \in Requests : reqs[p] \in Handlers
      /\ stream \in [Entries -> Slots]
      /\ \A f : Delivered(f) => Delivered(f)'
      /\ letGo \subseteq letGo'
  BY DeliveredStep DEF TypeOK
<1> DEFINE OK(p) == reqs[p].pc = "ok" => \A f \in reqs[p].fixes : Delivered(f)
<1>1. ASSUME NEW p \in Requests, reqs'[p] = reqs[p]
      PROVE  OK(p)'
  BY <1>0, <1>1 DEF Answers
<1>2. ASSUME NEW p \in Requests, reqs'[p].pc # "ok"
      PROVE  OK(p)'
  BY <1>2
<1>3. ASSUME NEW q \in Requests, NEW answer, Reply(q, answer), NEW p \in Requests
      PROVE  \/ reqs'[p] = reqs[p]
             \/ reqs'[p] = FreeRequest
             \/ p = q /\ reqs'[p].pc = answer /\ reqs'[p].fixes = reqs[p].fixes
  BY <1>0, <1>3 DEF Reply, Handlers
<1>4. ASSUME NEW q \in Requests, Accept(q), NEW p \in Requests
      PROVE  OK(p)'
  <2>1. CASE Reply(q, "rejected")
    BY <1>1, <1>2, <1>3, <2>1 DEF FreeRequest
  <2>2. CASE Reply(q, "ok") /\ letGo' = letGo \cup (reqs[q].fixes \ {})
    <3>1. \A f \in reqs[q].fixes : Delivered(f)'
      BY <2>2 DEF Delivered
    <3> QED
      BY <1>1, <1>2, <1>3, <2>2, <3>1 DEF FreeRequest
  <2>3. ASSUME NEW points, reqs' = [reqs EXCEPT ![q].pc = "current", ![q].points = points,
                                                ![q].prev = current]
        PROVE  OK(p)'
    <3>1. reqs'[p] = reqs[p] \/ reqs'[p].pc = "current"
      BY <1>0, <2>3 DEF Handlers
    <3> QED
      BY <1>1, <1>2, <3>1
  <2> QED
    BY <1>4, <2>1, <2>2, <2>3 DEF Accept, TakeIn
<1>5. ASSUME NEW q \in Requests, Enqueue(q), NEW p \in Requests
      PROVE  OK(p)'
  <2>1. PICK e \in Entries, T \in SUBSET Entries :
          stream' = [d \in Entries |->
                       IF d = e THEN [st |-> "queued", fixes |-> reqs[q].points]
                       ELSE IF d \in T THEN [stream[d] EXCEPT !.st = "trimmed"]
                       ELSE stream[d]]
    BY <1>5 DEF Enqueue
  <2>2. stream'[e].st = "queued" /\ stream'[e].fixes = reqs[q].points
    BY <2>1
  <2>3. \A f \in reqs[q].fixes : f \in reqs[q].points \/ f \in letGo
    BY <1>5 DEF Enqueue, Handled
  <2>4. \A f \in reqs[q].fixes : Delivered(f)'
    BY <1>0, <2>2, <2>3 DEF Delivered, InLiveEntry
  <2>5. Reply(q, "ok")
    BY <1>5 DEF Enqueue
  <2> QED
    BY <1>1, <1>2, <1>3, <2>4, <2>5 DEF FreeRequest
<1>6. ASSUME NEW q \in Requests, HandlerFails(q), NEW p \in Requests
      PROVE  OK(p)'
  <2>1. Reply(q, "error")
    BY <1>6 DEF HandlerFails
  <2> QED
    BY <1>1, <1>2, <1>3, <2>1 DEF FreeRequest
<1>7. ASSUME NEW q \in Requests, Upload(q) \/ Answered(q) \/ SetCurrent(q), NEW p \in Requests
      PROVE  OK(p)'
  <2>1. reqs'[p] = reqs[p] \/ reqs'[p].pc \in {"sent", "free", "enqueue"}
    BY <1>0, <1>7, AppLeavesUploads DEF SetCurrent, Handlers
  <2> QED
    BY <1>1, <1>2, <2>1
<1>8. ASSUME GiveUp, NEW p \in Requests
      PROVE  OK(p)'
  <2>1. reqs'[p] = reqs[p] \/ reqs'[p].pc = "free"
    BY <1>0, <1>8 DEF GiveUp, FreeRequest, TypeOK
  <2> QED
    BY <1>1, <1>2, <2>1
<1>9. ASSUME Measure \/ EndSession \/ \E w \in Workers : Work(w) \/ SaveFails(w) \/ WorkerDies(w)
      PROVE  reqs' = reqs
  BY <1>9 DEF Measure, EndSession, Work, Reclaim, TakeNew, Save, WriteStatus, Ack,
              SaveFails, WorkerDies
<1> HIDE DEF OK
<1>10. ASSUME NEW p \in Requests
       PROVE  OK(p)'
  BY <1>1, <1>4, <1>5, <1>6, <1>7, <1>8, <1>9 DEF Next, AppStep, Handle
<1> QED
  BY <1>10 DEF OK, Answers

\* A fix leaves the outbox only when it is delivered or given up.
LEMMA VanishStep ==
  ASSUME TypeOK, Held, Coverage, Answers, NothingVanishes, Next
  PROVE  NothingVanishes'
<1>0. /\ last \in Nat /\ outbox \subseteq 1 .. last
      /\ \A f : Delivered(f) => Delivered(f)'
  BY DeliveredStep, PipelineAssumption DEF TypeOK, Fixes
<1>1. \A f \in 1 .. last : f \in outbox \/ Delivered(f)
  BY DEF NothingVanishes, Delivered
<1>2. SUFFICES \A f \in 1 .. last' : f \in outbox' \/ Delivered(f)'
  BY DEF NothingVanishes, Delivered
<1>3. CASE Measure
  <2>1. last' = last + 1 /\ letGo' = letGo \cup ((outbox \cup {last + 1}) \ outbox')
    BY <1>3 DEF Measure
  <2>2. ASSUME NEW f \in 1 .. last'
        PROVE  f \in outbox' \/ Delivered(f)'
    <3>1. f \in 1 .. last \/ f = last + 1
      BY <1>0, <2>1
    <3>2. CASE f \in outbox \cup {last + 1}
      BY <2>1, <3>2 DEF Delivered
    <3>3. CASE f \notin outbox \cup {last + 1}
      BY <1>0, <1>1, <3>1, <3>3
    <3> QED
      BY <3>2, <3>3
  <2> QED
    BY <2>2
<1>4. ASSUME NEW q \in Requests, Answered(q)
      PROVE  \A f \in 1 .. last' : f \in outbox' \/ Delivered(f)'
  <2>1. last' = last
    BY <1>4 DEF Answered
  <2>2. CASE reqs[q].pc = "ok"
    <3>1. outbox' = DeleteSent
      BY <1>4, <2>2 DEF Answered, DeletedBy
    <3>2. \A f \in outbox : f \in outbox' \/ f <= sending.max
      <4>1. sending.max \in Nat /\ \A f \in outbox : f \in Nat
        BY <1>0, PipelineAssumption DEF TypeOK, Fixes
      <4> QED
        BY <3>1, <4>1 DEF DeleteSent
    <3>3. \A f \in outbox : f <= sending.max => Delivered(f)
      BY <1>4, <2>2, PipelineAssumption DEF Answered, Coverage, Answers
    <3> QED
      BY <1>0, <1>1, <2>1, <3>2, <3>3
  <2>3. CASE reqs[q].pc = "rejected"
    BY <1>0, <1>1, <1>4, <2>1, <2>3 DEF Answered, Delivered
  <2>4. CASE reqs[q].pc = "error"
    BY <1>0, <1>1, <1>4, <2>1, <2>4 DEF Answered, DeletedBy
  <2> QED
    BY <1>4, <2>2, <2>3, <2>4 DEF Answered
<1>5. CASE EndSession
  BY <1>0, <1>1, <1>5 DEF EndSession, Delivered
<1>6. ASSUME UNCHANGED <<last, outbox>>
      PROVE  \A f \in 1 .. last' : f \in outbox' \/ Delivered(f)'
  BY <1>0, <1>1, <1>6
<1>7. ASSUME GiveUp \/ (\E q \in Requests : Upload(q) \/ Handle(q) \/ HandlerFails(q))
               \/ \E w \in Workers : Work(w) \/ SaveFails(w) \/ WorkerDies(w)
      PROVE  UNCHANGED <<last, outbox>>
  BY <1>7 DEF GiveUp, Upload, Handle, Accept, TakeIn, SetCurrent, Enqueue, HandlerFails, Work,
                Reclaim, TakeNew, Save, WriteStatus, Ack, SaveFails, WorkerDies, app
<1> QED
  BY <1>3, <1>4, <1>5, <1>6, <1>7 DEF Next, AppStep

----------------------------------------------------------------------------

\* At the start nothing is on its way.
LEMMA InitInv == Init => IInv
<1> SUFFICES ASSUME Init PROVE IInv
  OBVIOUS
<1>1. Coverage /\ Answers /\ Handled /\ Held
  BY DEF Init, Coverage, Answers, Handled, Held, FreeRequest, IdleWorker
<1>2. NothingVanishes
  BY DEF Init, NothingVanishes
<1> QED
  BY <1>1, <1>2, InitType DEF IInv

\* Every step keeps the invariant.
LEMMA StepInv == IInv /\ [Next]_vars => IInv'
<1> SUFFICES ASSUME IInv, [Next]_vars PROVE IInv'
  OBVIOUS
<1>1. TypeOK'
  BY TypeStep DEF IInv
<1>2. CASE Next
  BY <1>1, <1>2, CoverageStep, AnswersStep, HandledStep, HeldStep, VanishStep DEF IInv
<1>3. CASE UNCHANGED vars
  BY <1>1, <1>3 DEF vars, IInv, Coverage, Answers, Handled, Held, Used, Delivered, InLiveEntry,
                    NothingVanishes
<1> QED
  BY <1>2, <1>3

\* The inductive invariant holds.
THEOREM Invariance == Spec => []IInv
  BY InitInv, StepInv, PTL DEF Spec

\* The variables keep their types.
THEOREM TypeCorrect == Spec => []TypeOK
<1>1. IInv => TypeOK
  BY DEF IInv
<1> QED
  BY <1>1, Invariance, PTL

\* However requests are lost or repeated, servers die and saves fail, a fix is
\* in the outbox, in the stream or in the database, unless it was given up on
\* purpose, for any number of fixes, requests and workers.
THEOREM NoFixVanishes == Spec => []NothingVanishes
<1>1. IInv => NothingVanishes
  BY DEF IInv
<1> QED
  BY <1>1, Invariance, PTL

----------------------------------------------------------------------------
(* The pipeline implements the register.                                   *)

\* Nobody knows of a fix before it is measured, and a handler queues what it was
\* sent.
Known ==
  /\ saved \cup letGo \subseteq 1 .. last
  /\ \A q \in Requests : reqs[q].fixes \subseteq 1 .. last /\ reqs[q].points \subseteq 1 .. last
  /\ \A e \in Entries : stream[e].fixes \subseteq 1 .. last

\* An entry ends by being saved or by being given up.
Ended ==
  \A e \in Entries :
    /\ stream[e].st = "trimmed" => stream[e].fixes \subseteq letGo
    /\ stream[e].st = "acked" => stream[e].fixes \subseteq saved

RegInv == IInv /\ Known /\ Ended

\* Steps after which the uploads hold no fix they did not hold before.
LEMMA UploadsKnown ==
  ASSUME TypeOK, Known, NEW q \in Requests, NEW answer \in {"ok", "rejected", "error"},
         Reply(q, answer), NEW p \in Requests
  PROVE  reqs'[p].fixes \subseteq 1 .. last /\ reqs'[p].points \subseteq 1 .. last
<1>0. reqs \in [Requests -> Handlers] /\ \A r \in Requests : reqs[r] \in Handlers
  BY DEF TypeOK
<1>1. reqs[p].fixes \subseteq 1 .. last /\ reqs[p].points \subseteq 1 .. last
  BY DEF Known
<1>2. CASE reqs'[p] = FreeRequest
  BY <1>2 DEF FreeRequest
<1>3. CASE reqs'[p] # FreeRequest
  <2>1. reqs'[p].fixes = reqs[p].fixes /\ reqs'[p].points = reqs[p].points
    BY <1>0, <1>3 DEF Reply, Handlers
  <2> QED
    BY <1>1, <2>1
<1> QED
  BY <1>2, <1>3

\* A step of the app makes nothing known that is not measured.
LEMMA AppKnown ==
  ASSUME TypeOK, Known, Measure \/ AppStep \/ GiveUp \/ EndSession
  PROVE  Known'
<1>0. /\ reqs \in [Requests -> Handlers] /\ \A r \in Requests : reqs[r] \in Handlers
      /\ last \in Nat /\ outbox \subseteq 1 .. last
      /\ sending.req # NoRequest => sending.req \in Requests
  BY PipelineAssumption DEF TypeOK, Fixes
<1>1. CASE Measure
  <2>1. /\ last' = last + 1 /\ letGo' \subseteq letGo \cup outbox \cup {last + 1}
        /\ UNCHANGED <<saved, reqs, stream>>
    BY <1>1 DEF Measure, Kept
  <2>2. 1 .. last \subseteq 1 .. last' /\ last + 1 \in 1 .. last'
    BY <1>0, <2>1
  <2> QED
    BY <1>0, <2>1, <2>2 DEF Known
<1>2. ASSUME NEW q \in Requests, Upload(q)
      PROVE  Known'
  <2>1. PICK rows \in SUBSET outbox :
          reqs' = [reqs EXCEPT ![q] = [FreeRequest EXCEPT !.pc = "sent", !.fixes = rows]]
    BY <1>2 DEF Upload
  <2>2. \A p \in Requests :
          reqs'[p].fixes \subseteq 1 .. last /\ reqs'[p].points \subseteq 1 .. last
    BY <1>0, <2>1 DEF Known, FreeRequest
  <2>3. UNCHANGED <<last, saved, letGo, stream>>
    BY <1>2 DEF Upload
  <2> QED
    BY <2>2, <2>3 DEF Known
<1>3. ASSUME NEW q \in Requests, reqs' = [reqs EXCEPT ![q] = FreeRequest] \/ reqs' = reqs,
             UNCHANGED <<last, saved, stream>>, letGo' \subseteq letGo \cup outbox
      PROVE  Known'
  <2>1. \A p \in Requests :
          reqs'[p].fixes \subseteq 1 .. last /\ reqs'[p].points \subseteq 1 .. last
    BY <1>0, <1>3 DEF Known, FreeRequest
  <2> QED
    BY <1>0, <1>3, <2>1 DEF Known
<1>4. ASSUME NEW q \in Requests, Answered(q)
      PROVE  Known'
  BY <1>3, <1>4 DEF Answered
<1>5. CASE GiveUp
  BY <1>0, <1>3, <1>5 DEF GiveUp
<1>6. CASE EndSession
  BY <1>0, <1>6 DEF EndSession, Known
<1> QED
  BY <1>1, <1>2, <1>4, <1>5, <1>6 DEF AppStep

\* Neither does one of a handler.
LEMMA HandlerKnown ==
  ASSUME TypeOK, Known, NEW q \in Requests, Handle(q) \/ HandlerFails(q)
  PROVE  Known'
<1>0. /\ reqs \in [Requests -> Handlers] /\ \A r \in Requests : reqs[r] \in Handlers
      /\ stream \in [Entries -> Slots] /\ \A e \in Entries : stream[e] \in Slots
  BY DEF TypeOK
<1> DEFINE Uploads == \A p \in Requests :
                        reqs'[p].fixes \subseteq 1 .. last /\ reqs'[p].points \subseteq 1 .. last
<1>1. ASSUME NEW answer \in {"ok", "rejected", "error"}, Reply(q, answer)
      PROVE  Uploads
  BY <1>1, UploadsKnown
<1>2. CASE Accept(q)
  <2>1. UNCHANGED <<last, saved, stream>>
    BY <1>2 DEF Accept, app
  <2>2. CASE Reply(q, "rejected") /\ letGo' = letGo
    <3>1. Uploads
      BY <1>1, <2>2
    <3> QED
      BY <2>1, <2>2, <3>1 DEF Known
  <2>3. ASSUME NEW points \in {Acceptable(reqs[q].fixes), {}}, TakeIn(q, points)
        PROVE  Known'
    <3>1. points \subseteq 1 .. last /\ reqs[q].fixes \subseteq 1 .. last
      BY DEF Known, Acceptable
    <3>2. letGo' \subseteq 1 .. last
      BY <2>3, <3>1 DEF TakeIn, Known
    <3>3. CASE Reply(q, "ok")
      BY <1>1, <2>1, <3>2, <3>3 DEF Known
    <3>4. CASE reqs' = [reqs EXCEPT ![q].pc = "current", ![q].points = points,
                                    ![q].prev = current]
      <4>1. Uploads
        BY <1>0, <3>1, <3>4 DEF Known, Handlers
      <4> QED
        BY <2>1, <3>2, <4>1 DEF Known
    <3> QED
      BY <2>3, <3>3, <3>4 DEF TakeIn
  <2> QED
    BY <1>2, <2>2, <2>3 DEF Accept
<1>3. CASE SetCurrent(q)
  <2>1. reqs' = [reqs EXCEPT ![q].pc = "enqueue"] /\ UNCHANGED <<last, saved, stream, letGo>>
    BY <1>3 DEF SetCurrent, app
  <2>2. Uploads
    BY <1>0, <2>1 DEF Known, Handlers
  <2> QED
    BY <2>1, <2>2 DEF Known
<1>4. CASE Enqueue(q)
  <2>1. PICK e \in Entries, T \in SUBSET Entries :
          /\ stream' = [d \in Entries |->
                          IF d = e THEN [st |-> "queued", fixes |-> reqs[q].points]
                          ELSE IF d \in T THEN [stream[d] EXCEPT !.st = "trimmed"]
                          ELSE stream[d]]
          /\ letGo' = letGo \cup UNION {stream[d].fixes : d \in T}
    BY <1>4 DEF Enqueue
  <2>2. Uploads /\ UNCHANGED <<last, saved>>
    BY <1>1, <1>4 DEF Enqueue, app
  <2>3. \A d \in Entries : stream'[d].fixes \in {reqs[q].points, stream[d].fixes}
    BY <1>0, <2>1 DEF Slots
  <2>4. \A d \in Entries : stream'[d].fixes \subseteq 1 .. last
    BY <2>3 DEF Known
  <2>5. UNION {stream[d].fixes : d \in T} \subseteq 1 .. last
    BY DEF Known
  <2>6. letGo' \subseteq 1 .. last
    BY <2>1, <2>5 DEF Known
  <2> QED
    BY <2>2, <2>4, <2>6 DEF Known
<1>5. CASE HandlerFails(q)
  <2>1. Uploads /\ UNCHANGED <<last, saved, stream, letGo>>
    BY <1>1, <1>5 DEF HandlerFails, app
  <2> QED
    BY <2>1 DEF Known
<1> QED
  BY <1>2, <1>3, <1>4, <1>5 DEF Handle

\* Nor one of a worker.
LEMMA WorkerKnown ==
  ASSUME TypeOK, Known, NEW w \in Workers, Work(w) \/ SaveFails(w) \/ WorkerDies(w)
  PROVE  Known'
<1>0. stream \in [Entries -> Slots] /\ \A e \in Entries : stream[e] \in Slots
  BY DEF TypeOK
<1>1. UNCHANGED <<last, letGo, reqs>>
  BY DEF Work, Reclaim, TakeNew, Save, WriteStatus, Ack, SaveFails, WorkerDies, app
<1>2. CASE Save(w)
  BY <1>1, <1>2 DEF Save, Known
<1>3. CASE TakeNew(w) \/ Ack(w)
  <2>1. saved' = saved
    BY <1>3 DEF TakeNew, Ack
  <2>2. \A e \in Entries : stream'[e].fixes = stream[e].fixes
    BY <1>0, <1>3 DEF TakeNew, Ack, Slots
  <2> QED
    BY <1>1, <2>1, <2>2 DEF Known
<1>4. CASE Reclaim(w) \/ WriteStatus(w) \/ SaveFails(w) \/ WorkerDies(w)
  <2>1. UNCHANGED <<stream, saved>>
    BY <1>4 DEF Reclaim, WriteStatus, SaveFails, WorkerDies
  <2> QED
    BY <1>1, <2>1 DEF Known
<1> QED
  BY <1>2, <1>3, <1>4 DEF Work

\* Entries end as they should.
LEMMA EndedStep == ASSUME TypeOK, Held, Ended, Next PROVE Ended'
<1>0. /\ stream \in [Entries -> Slots] /\ \A e \in Entries : stream[e] \in Slots
      /\ saved \subseteq saved' /\ letGo \subseteq letGo'
  BY DeliveredStep DEF TypeOK
<1>1. ASSUME stream' = stream
      PROVE  Ended'
  BY <1>0, <1>1 DEF Ended
<1>2. ASSUME NEW q \in Requests, Enqueue(q)
      PROVE  Ended'
  <2>1. PICK e \in Entries, T \in SUBSET Entries :
          /\ stream' = [d \in Entries |->
                          IF d = e THEN [st |-> "queued", fixes |-> reqs[q].points]
                          ELSE IF d \in T THEN [stream[d] EXCEPT !.st = "trimmed"]
                          ELSE stream[d]]
          /\ letGo' = letGo \cup UNION {stream[d].fixes : d \in T}
    BY <1>2 DEF Enqueue
  <2>2. ASSUME NEW d \in Entries
        PROVE  /\ stream'[d].st = "trimmed" => stream'[d].fixes \subseteq letGo'
               /\ stream'[d].st = "acked" => stream'[d].fixes \subseteq saved'
    <3>1. CASE d = e
      BY <2>1, <3>1
    <3>2. CASE d # e /\ d \in T
      <4>1. stream'[d] = [stream[d] EXCEPT !.st = "trimmed"]
        BY <2>1, <3>2
      <4>2. stream'[d].st = "trimmed" /\ stream'[d].fixes = stream[d].fixes
        BY <1>0, <4>1 DEF Slots
      <4>3. stream[d].fixes \subseteq letGo'
        BY <2>1, <3>2
      <4> QED
        BY <4>2, <4>3
    <3>3. CASE d # e /\ d \notin T
      <4>1. stream'[d] = stream[d]
        BY <2>1, <3>3
      <4> QED
        BY <1>0, <4>1 DEF Ended
    <3> QED
      BY <3>1, <3>2, <3>3
  <2> QED
    BY <2>2 DEF Ended
<1>3. ASSUME NEW w \in Workers, TakeNew(w)
      PROVE  Ended'
  <2>1. PICK E \in SUBSET Queued :
          stream' = [e \in Entries |->
                       IF e \in E THEN [stream[e] EXCEPT !.st = "pending"] ELSE stream[e]]
    BY <1>3 DEF TakeNew
  <2>2. \A e \in Entries : stream'[e] = stream[e] \/ stream'[e].st = "pending"
    BY <1>0, <2>1 DEF Slots
  <2> QED
    BY <1>0, <2>2 DEF Ended
<1>4. ASSUME NEW w \in Workers, Ack(w)
      PROVE  Ended'
  <2>1. stream' = [e \in Entries |->
                     IF e \in worker[w].done /\ stream[e].st = "pending"
                     THEN [stream[e] EXCEPT !.st = "acked"] ELSE stream[e]]
    BY <1>4 DEF Ack
  <2>2. \A e \in Entries :
          \/ stream'[e] = stream[e]
          \/ /\ stream'[e].st = "acked" /\ stream'[e].fixes = stream[e].fixes
             /\ stream[e].fixes \subseteq saved
    BY <1>0, <2>1 DEF Slots, Held
  <2> QED
    BY <1>0, <2>2 DEF Ended
<1>5. ASSUME \/ Measure \/ AppStep \/ GiveUp \/ EndSession
             \/ \E q \in Requests : Accept(q) \/ SetCurrent(q) \/ HandlerFails(q)
             \/ \E w \in Workers : \/ Reclaim(w) \/ Save(w) \/ WriteStatus(w)
                                   \/ SaveFails(w) \/ WorkerDies(w)
      PROVE  stream' = stream
  BY <1>5 DEF Measure, AppStep, Upload, Answered, GiveUp, EndSession, Accept, SetCurrent,
              HandlerFails, Reclaim, Save, WriteStatus, SaveFails, WorkerDies
<1> QED
  BY <1>1, <1>2, <1>3, <1>4, <1>5 DEF Next, Handle, Work

\* Every step keeps the invariant of the refinement.
LEMMA RegStep == RegInv /\ [Next]_vars => RegInv'
<1> SUFFICES ASSUME RegInv, [Next]_vars PROVE RegInv'
  OBVIOUS
<1>1. IInv'
  BY StepInv DEF RegInv
<1>2. CASE Next
  <2>1. Known'
    BY <1>2, AppKnown, HandlerKnown, WorkerKnown DEF RegInv, IInv, Next
  <2> QED
    BY <1>1, <1>2, <2>1, EndedStep DEF RegInv, IInv
<1>3. CASE UNCHANGED vars
  BY <1>1, <1>3 DEF vars, RegInv, Known, Ended
<1> QED
  BY <1>2, <1>3

\* At the start no fix is known.
LEMMA RegInit == Init => RegInv
<1> SUFFICES ASSUME Init PROVE RegInv
  OBVIOUS
<1>1. Known /\ Ended
  BY DEF Init, Known, Ended, FreeRequest
<1> QED
  BY <1>1, InitInv DEF RegInv

\* What a worker saves was with the server, or had been given up while it was in
\* the hand of the worker.
LEMMA SavedFromServer ==
  ASSUME RegInv, Next, NEW f \in saved', f \notin saved
  PROVE  InLiveEntry(f) \/ f \in letGo
<1>0. stream \in [Entries -> Slots] /\ Held /\ Ended
  BY DEF RegInv, IInv, TypeOK
<1>1. PICK w \in Workers : Save(w)
  BY DEF Next, Measure, AppStep, Upload, Answered, GiveUp, EndSession, Handle, Accept,
         SetCurrent, Enqueue, HandlerFails, Work, Reclaim, TakeNew, WriteStatus, Ack, SaveFails,
         WorkerDies
<1>2. PICK e \in Entries : IsNext(w, e) /\ saved' = saved \cup stream[e].fixes
  BY <1>1 DEF Save
<1>3. e \in Used /\ f \in stream[e].fixes
  BY <1>0, <1>2 DEF IsNext, Held
<1>4. stream[e].st \in {"queued", "pending", "acked", "trimmed"}
  BY <1>0, <1>3 DEF Used, Slots
<1> QED
  BY <1>0, <1>3, <1>4 DEF Ended, InLiveEntry

\* Where a fix is that has been measured.
LEMMA PlaceOfMeasured ==
  ASSUME RegInv, NEW f \in 1 .. last
  PROVE  Place(f) \in {"phone", "server", "saved", "given up"}
<1>1. last \in Nat /\ ~(f > last)
  BY PipelineAssumption DEF RegInv, IInv, TypeOK, Fixes
<1>2. f \in outbox \/ InLiveEntry(f) \/ f \in saved \/ f \in letGo
  BY DEF RegInv, IInv, NothingVanishes
<1> QED
  BY <1>1, <1>2 DEF Place

\* The number of fixes measured grows by one at a time, and only by measuring.
LEMMA LastStep == ASSUME TypeOK, Next PROVE last' = last \/ (Measure /\ last' = last + 1)
  BY DEF Next, Measure, AppStep, Upload, Answered, GiveUp, EndSession, Handle, Accept, TakeIn,
         SetCurrent, Enqueue, HandlerFails, Work, Reclaim, TakeNew, Save, WriteStatus, Ack,
         SaveFails, WorkerDies, app

\* A step of the pipeline is at most one hop of a fix.
LEMMA HopOfFix ==
  ASSUME RegInv, RegInv', Next, NEW f \in Fixes
  PROVE  \/ Place(f) = "unmeasured" /\ Place(f)' = "phone" /\ f = last + 1
         \/ Place(f) \in {"phone", "given up"} /\ Place(f)' = "server"
         \/ Place(f) \in {"server", "given up"} /\ Place(f)' = "saved"
         \/ Place(f) \in {"phone", "server"} /\ Place(f)' = "given up"
         \/ Place(f)' = Place(f)
<1>0. /\ last \in Nat /\ f \in Nat \ {0} /\ TypeOK /\ Held
      /\ saved \subseteq saved' /\ letGo \subseteq letGo'
      /\ \A g : Delivered(g) => Delivered(g)'
  BY DeliveredStep, PipelineAssumption DEF RegInv, IInv, TypeOK, Fixes
<1>1. last' \in Nat /\ (last' = last \/ (Measure /\ last' = last + 1))
  BY <1>0, LastStep
<1>2. CASE f > last'
  <2>1. f > last
    BY <1>0, <1>1, <1>2
  <2> QED
    BY <1>2, <2>1 DEF Place
<1>3. CASE f > last /\ ~(f > last')
  <2>1. Measure /\ f = last + 1 /\ last' = last + 1
    BY <1>0, <1>1, <1>3
  <2>2. f \notin 1 .. last
    BY <1>0, <1>3
  <2>3. f \notin saved /\ ~InLiveEntry(f) /\ f \notin letGo
    BY <2>2 DEF RegInv, Known, InLiveEntry
  <2>4. f \in Kept(f)
    BY <1>0, PipelineAssumption DEF Kept
  <2>5. f \in outbox' /\ f \notin letGo' /\ UNCHANGED <<saved, stream>>
    BY <2>1, <2>3, <2>4 DEF Measure
  <2>6. ~InLiveEntry(f)'
    BY <2>3, <2>5 DEF InLiveEntry
  <2>7. Place(f)' = "phone"
    BY <1>3, <2>3, <2>5, <2>6 DEF Place
  <2>8. Place(f) = "unmeasured"
    BY <1>3 DEF Place
  <2> QED
    BY <2>1, <2>7, <2>8
<1>4. CASE ~(f > last)
  <2>1. ~(f > last') /\ f \in 1 .. last /\ f \in 1 .. last'
    BY <1>0, <1>1, <1>4
  <2>2. f \in outbox' \/ InLiveEntry(f)' \/ f \in saved' \/ f \in letGo'
    BY <2>1 DEF RegInv, IInv, NothingVanishes
  <2>3. f \in outbox \/ InLiveEntry(f) \/ f \in saved \/ f \in letGo
    BY <2>1 DEF RegInv, IInv, NothingVanishes
  <2>4. CASE f \in saved
    <3>1. Place(f) = "saved" /\ Place(f)' = "saved"
      BY <1>0, <1>4, <2>1, <2>4 DEF Place
    <3> QED
      BY <3>1
  <2>5. CASE f \notin saved /\ InLiveEntry(f)
    <3>1. Place(f) = "server"
      BY <1>4, <2>5 DEF Place
    <3>2. InLiveEntry(f)' \/ f \in saved' \/ f \in letGo'
      BY <1>0, <2>5 DEF Delivered
    <3>3. Place(f)' \in {"saved", "server", "given up"}
      BY <2>1, <3>2 DEF Place
    <3> QED
      BY <3>1, <3>3
  <2>6. CASE f \notin saved /\ ~InLiveEntry(f) /\ f \in letGo
    <3>1. Place(f) = "given up"
      BY <1>4, <2>6 DEF Place
    <3>2. Place(f)' \in {"saved", "server", "given up"}
      BY <1>0, <2>1, <2>6 DEF Place
    <3> QED
      BY <3>1, <3>2
  <2>7. CASE f \notin saved /\ ~InLiveEntry(f) /\ f \notin letGo
    <3>1. Place(f) = "phone"
      BY <1>4, <2>3, <2>7 DEF Place
    <3>2. f \notin saved'
      BY <2>7, SavedFromServer
    <3>3. Place(f)' \in {"server", "given up", "phone"}
      BY <2>1, <2>2, <3>2 DEF Place
    <3> QED
      BY <3>1, <3>3
  <2> QED
    BY <2>4, <2>5, <2>6, <2>7
<1> QED
  BY <1>2, <1>3, <1>4

\* The hops of all fixes make a step of the register.
LEMMA RegisterStep ==
  ASSUME RegInv, RegInv', [Next]_vars
  PROVE  [Register!Next]_[f \in Fixes |-> Place(f)]
<1> DEFINE place == [f \in Fixes |-> Place(f)]
<1>1. CASE UNCHANGED vars
  <2>1. \A f \in Fixes : Place(f)' = Place(f)
    BY <1>1 DEF vars, Place, InLiveEntry
  <2> QED
    BY <2>1
<1>2. CASE Next
  <2>0. last \in Nat /\ Fixes = Register!Fixes
    BY PipelineAssumption DEF RegInv, IInv, TypeOK, Fixes, Register!Fixes
  <2>1. \A f \in Fixes : place[f] = Place(f) /\ place'[f] = Place(f)'
    OBVIOUS
  <2>2. \A f \in Fixes : Place(f)' \in Register!Places
    <3>1. ASSUME NEW f \in Fixes
          PROVE  Place(f) \in {"unmeasured", "phone", "server", "saved", "given up"}
      <4>1. CASE f > last
        BY <4>1 DEF Place
      <4>2. CASE ~(f > last)
        <5>1. f \in 1 .. last
          BY <2>0, <4>2, PipelineAssumption DEF Fixes
        <5> QED
          BY <5>1, PlaceOfMeasured
      <4> QED
        BY <4>1, <4>2
    <3>2. \A f \in Fixes :
            \/ Place(f) = "unmeasured" /\ Place(f)' = "phone" /\ f = last + 1
            \/ Place(f) \in {"phone", "given up"} /\ Place(f)' = "server"
            \/ Place(f) \in {"server", "given up"} /\ Place(f)' = "saved"
            \/ Place(f) \in {"phone", "server"} /\ Place(f)' = "given up"
            \/ Place(f)' = Place(f)
      BY <1>2, HopOfFix
    <3> QED
      BY <3>1, <3>2 DEF Register!Places
  <2>3. ASSUME NEW f \in Fixes
        PROVE  \/ Register!Measured(f) \/ Register!TakenOn(f) \/ Register!Saved(f)
               \/ Register!GivenUp(f) \/ place'[f] = place[f]
    <3>1. ASSUME Place(f) = "unmeasured", Place(f)' = "phone", f = last + 1
          PROVE  Register!Measured(f)
      <4>1. \A g \in 1 .. f - 1 : g \in Fixes /\ g \in 1 .. last
        BY <2>0, <3>1, PipelineAssumption DEF Fixes
      <4>2. \A g \in 1 .. f - 1 : place[g] # "unmeasured"
        BY <2>1, <4>1, PlaceOfMeasured
      <4> HIDE DEF place
      <4> QED
        BY <2>1, <3>1, <4>2 DEF Register!Measured, place
    <3>2. ASSUME Place(f) \in {"phone", "given up"}, Place(f)' = "server"
          PROVE  Register!TakenOn(f)
      BY <2>1, <3>2 DEF Register!TakenOn
    <3>3. ASSUME Place(f) \in {"server", "given up"}, Place(f)' = "saved"
          PROVE  Register!Saved(f)
      BY <2>1, <3>3 DEF Register!Saved
    <3>4. ASSUME Place(f) \in {"phone", "server"}, Place(f)' = "given up"
          PROVE  Register!GivenUp(f)
      BY <2>1, <3>4 DEF Register!GivenUp
    <3> QED
      BY <1>2, <2>1, <3>1, <3>2, <3>3, <3>4, HopOfFix
  <2>4. place' \in [Register!Fixes -> Register!Places]
    BY <2>0, <2>2
  <2> QED
    BY <2>0, <2>3, <2>4 DEF Register!Next
<1> QED
  BY <1>1, <1>2

\* At the start no fix is measured.
LEMMA RegisterInit == ASSUME RegInv, Init PROVE Register!Init
<1>1. \A f \in Fixes : Place(f) = "unmeasured"
  BY PipelineAssumption DEF Init, Place, Fixes
<1> QED
  BY <1>1 DEF Register!Init, Register!Fixes, Fixes

\* The outbox, the uploads, the stream and the workers together implement the
\* register, for any number of fixes, requests, entries and workers: a fix takes
\* the hops one after the other, never back, and is never lost.
THEOREM ImplementsRegister == Spec => IsRegister
<1>1. Init => RegInv
  BY RegInit
<1>2. RegInv /\ [Next]_vars => RegInv'
  BY RegStep
<1>3. Init => Register!Init
  BY RegInit, RegisterInit
<1>4. RegInv /\ RegInv' /\ [Next]_vars => [Register!Next]_[f \in Fixes |-> Place(f)]
  BY RegisterStep
<1> QED
  BY <1>1, <1>2, <1>3, <1>4, PTL DEF Spec, IsRegister, Register!Spec

----------------------------------------------------------------------------
(* The newest fix wins.                                                    *)

\* Until two uploads were between their get and their set at the same time: what a
\* handler has read is what the key holds, and what it goes on to queue is not
\* newer than the key.
CurrentFits ==
  ~raced.current =>
    /\ \A q \in Requests :
         /\ reqs[q].pc = "current" => reqs[q].prev = current
         /\ reqs[q].pc = "enqueue" => \A f \in reqs[q].points : f <= current
    /\ \A e \in Entries : \A f \in stream[e].fixes : f <= current

\* The same of the workers and the status.
StatusFits ==
  ~raced.status =>
    /\ \A w \in Workers : worker[w].pc = "status" => worker[w].prev = status
    /\ \A e \in Entries :
         (stream[e].st = "acked" \/ \E w \in Workers : e \in worker[w].done) =>
           \A f \in stream[e].fixes : f <= status

\* A step that leaves the key alone, lets handlers only begin or go on as they
\* were, and puts into the stream only what is not newer.
LEMMA CurrentKept ==
  ASSUME CurrentFits, current' = current, raced'.current = raced.current,
         \A q \in Requests :
           /\ reqs'[q].pc = "current" => reqs'[q] = reqs[q] \/ reqs'[q].prev = current
           /\ reqs'[q].pc = "enqueue" => reqs'[q] = reqs[q],
         ~raced.current => \A e \in Entries : \A f \in stream'[e].fixes :
                             f \in stream[e].fixes \/ f <= current
  PROVE  CurrentFits'
  BY DEF CurrentFits

\* An answer ends what the handler was doing.
LEMMA ReplyEnds ==
  ASSUME TypeOK, NEW q \in Requests, NEW answer \in {"ok", "rejected", "error"},
         Reply(q, answer), NEW p \in Requests
  PROVE  reqs'[p] = reqs[p] \/ reqs'[p].pc \in {"free", "ok", "rejected", "error"}
<1>1. reqs \in [Requests -> Handlers] /\ reqs[q] \in Handlers
  BY DEF TypeOK
<1>2. [reqs[q] EXCEPT !.pc = answer].pc = answer
  BY <1>1 DEF Handlers
<1> QED
  BY <1>1, <1>2 DEF Reply, FreeRequest

\* What is newest is as new as the others.
LEMMA NewestBounds ==
  ASSUME NEW F \in SUBSET Fixes, NEW latest, Newest(F, latest), NEW c \in Fixes \cup {0},
         latest <= c
  PROVE  \A f \in F : f <= c
<1>1. Fixes \subseteq Nat
  BY DEF Fixes
<1> QED
  BY <1>1 DEF Newest

\* No step but the set of a handler changes the key, and that one makes it newer.
LEMMA CurrentStep == ASSUME TypeOK, CurrentFits, Next PROVE CurrentFits'
<1>0. /\ reqs \in [Requests -> Handlers] /\ stream \in [Entries -> Slots]
      /\ \A e \in Entries : stream[e] \in Slots /\ stream[e].fixes \subseteq Fixes
      /\ \A q \in Requests : reqs[q] \in Handlers /\ reqs[q].points \subseteq Fixes
      /\ current \in Fixes \cup {0} /\ Fixes \subseteq Nat
      /\ raced \in [current: BOOLEAN, status: BOOLEAN]
  BY DEF TypeOK, Slots, Handlers, Fixes
<1>1. ASSUME UNCHANGED <<current, raced, reqs>>,
             \A e \in Entries : stream'[e].fixes = stream[e].fixes
      PROVE  CurrentFits'
  BY <1>1 DEF CurrentFits
<1>2. ASSUME UNCHANGED <<current, raced, stream>>,
             \A p \in Requests :
               reqs'[p] = reqs[p] \/ reqs'[p].pc \in {"free", "sent", "ok", "rejected", "error"}
      PROVE  CurrentFits'
  BY <1>2, CurrentKept
<1>3. ASSUME Measure \/ EndSession PROVE CurrentFits'
  BY <1>1, <1>3 DEF Measure, EndSession
<1>4. ASSUME GiveUp PROVE CurrentFits'
  BY <1>0, <1>2, <1>4 DEF GiveUp, FreeRequest
<1>5. ASSUME NEW q \in Requests, Upload(q) \/ Answered(q) PROVE CurrentFits'
  BY <1>2, <1>5, AppLeavesUploads DEF Upload, Answered
<1>6. ASSUME NEW q \in Requests, HandlerFails(q) PROVE CurrentFits'
  BY <1>2, <1>6, ReplyEnds DEF HandlerFails
<1>7. ASSUME NEW q \in Requests, Accept(q) PROVE CurrentFits'
  <2>1. CASE Reply(q, "rejected") \/ Reply(q, "ok")
    BY <1>2, <1>7, <2>1, ReplyEnds DEF Accept
  <2>2. ASSUME NEW points, reqs' = [reqs EXCEPT ![q].pc = "current", ![q].points = points,
                                                ![q].prev = current]
        PROVE  CurrentFits'
    <3>1. /\ reqs'[q].pc = "current" /\ reqs'[q].prev = current
          /\ \A p \in Requests : p # q => reqs'[p] = reqs[p]
      BY <1>0, <2>2 DEF Handlers
    <3>2. UNCHANGED <<current, raced, stream>>
      BY <1>7 DEF Accept
    <3> QED
      BY <3>1, <3>2, CurrentKept
  <2> QED
    BY <1>7, <2>1, <2>2 DEF Accept, TakeIn
<1>8. ASSUME NEW q \in Requests, SetCurrent(q) PROVE CurrentFits'
  <2> SUFFICES ASSUME ~raced'.current PROVE CurrentFits'
    BY DEF CurrentFits
  <2>1. ~raced.current /\ \A p \in Requests : p # q => reqs[p].pc # "current"
    BY <1>0, <1>8 DEF SetCurrent
  <2>2. PICK latest \in reqs[q].points :
          /\ Newest(reqs[q].points, latest)
          /\ current' = IF Newer(reqs[q].prev, latest) THEN current ELSE latest
    BY <1>8 DEF SetCurrent
  <2>3. reqs[q].prev = current /\ latest \in Fixes
    BY <1>0, <1>8, <2>1, <2>2 DEF SetCurrent, CurrentFits
  <2>4. current' \in Fixes \cup {0} /\ latest <= current' /\ current <= current'
    BY <1>0, <2>2, <2>3 DEF Newer
  <2>5. \A f \in reqs[q].points : f <= current'
    BY <1>0, <2>2, <2>4, NewestBounds
  <2>6. /\ reqs'[q].pc = "enqueue" /\ reqs'[q].points = reqs[q].points
        /\ \A p \in Requests : p # q => reqs'[p] = reqs[p]
        /\ stream' = stream
    BY <1>0, <1>8 DEF SetCurrent, Handlers
  <2>7. \A f \in Fixes : f <= current => f <= current'
    BY <1>0, <2>4
  <2>8. \A p \in Requests : p # q /\ reqs[p].pc = "enqueue" =>
          \A f \in reqs[p].points : f <= current'
    BY <1>0, <2>1, <2>7 DEF CurrentFits
  <2>9. \A e \in Entries : \A f \in stream[e].fixes : f <= current'
    BY <1>0, <2>1, <2>7 DEF CurrentFits
  <2> QED
    BY <2>1, <2>5, <2>6, <2>8, <2>9 DEF CurrentFits
<1>9. ASSUME NEW q \in Requests, Enqueue(q) PROVE CurrentFits'
  <2>1. PICK e \in Entries, T \in SUBSET Entries :
          stream' = [d \in Entries |->
                       IF d = e THEN [st |-> "queued", fixes |-> reqs[q].points]
                       ELSE IF d \in T THEN [stream[d] EXCEPT !.st = "trimmed"]
                       ELSE stream[d]]
    BY <1>9 DEF Enqueue
  <2>2. /\ stream'[e].fixes = reqs[q].points
        /\ \A d \in Entries : d # e => stream'[d].fixes = stream[d].fixes
    BY <1>0, <2>1 DEF Slots
  <2>3. ~raced.current => \A f \in reqs[q].points : f <= current
    BY <1>9 DEF CurrentFits, Enqueue
  <2>4. UNCHANGED <<current, raced>>
    BY <1>9 DEF Enqueue
  <2>5. \A p \in Requests :
          reqs'[p] = reqs[p] \/ reqs'[p].pc \in {"free", "ok", "rejected", "error"}
    BY <1>9, ReplyEnds DEF Enqueue
  <2>6. ~raced.current => \A d \in Entries : \A f \in stream'[d].fixes :
                            f \in stream[d].fixes \/ f <= current
    BY <2>2, <2>3
  <2> QED
    BY <2>4, <2>5, <2>6, CurrentKept
<1>10. ASSUME NEW w \in Workers, Work(w) \/ SaveFails(w) \/ WorkerDies(w) PROVE CurrentFits'
  <2>1. UNCHANGED <<current, reqs>> /\ raced'.current = raced.current
    BY <1>0, <1>10 DEF Work, Reclaim, TakeNew, Save, WriteStatus, Ack, SaveFails, WorkerDies
  <2>2. \A e \in Entries : stream'[e].fixes = stream[e].fixes
    <3>1. CASE TakeNew(w)
      <4>1. PICK E \in SUBSET Queued :
              stream' = [e \in Entries |->
                           IF e \in E THEN [stream[e] EXCEPT !.st = "pending"] ELSE stream[e]]
        BY <3>1 DEF TakeNew
      <4> QED
        BY <1>0, <4>1 DEF Slots
    <3>2. CASE Ack(w)
      BY <1>0, <3>2 DEF Ack, Slots
    <3> QED
      BY <1>10, <3>1, <3>2 DEF Work, Reclaim, Save, WriteStatus, SaveFails, WorkerDies
  <2> QED
    BY <2>1, <2>2, CurrentKept
<1> QED
  BY <1>3, <1>4, <1>5, <1>6, <1>7, <1>8, <1>9, <1>10 DEF Next, AppStep, Handle

\* A step that leaves the status alone, and in which a worker begins, goes on as
\* it was, or keeps no more as done than it had.
LEMMA StatusKept ==
  ASSUME StatusFits, status' = status, raced'.status = raced.status,
         \A w \in Workers :
           /\ worker'[w].pc = "status" => worker'[w] = worker[w] \/ worker'[w].prev = status
           /\ worker'[w].done \subseteq worker[w].done,
         \A e \in Entries :
           /\ stream'[e].st = "acked" =>
                stream[e].st = "acked" \/ \E w \in Workers : e \in worker[w].done
           /\ (stream[e].st = "acked" \/ \E w \in Workers : e \in worker[w].done)
                => stream'[e].fixes = stream[e].fixes
  PROVE  StatusFits'
<1>1. ASSUME ~raced.status, NEW e \in Entries,
             stream'[e].st = "acked" \/ \E w \in Workers : e \in worker'[w].done
      PROVE  \A f \in stream'[e].fixes : f <= status
  <2>1. stream[e].st = "acked" \/ \E w \in Workers : e \in worker[w].done
    BY <1>1
  <2> QED
    BY <1>1, <2>1 DEF StatusFits
<1> QED
  BY <1>1 DEF StatusFits

\* No step but the upsert of a worker changes the status, and that one makes it
\* newer.
LEMMA StatusStep == ASSUME TypeOK, Held, StatusFits, Next PROVE StatusFits'
<1>0. /\ worker \in [Workers -> Jobs] /\ stream \in [Entries -> Slots]
      /\ \A e \in Entries : stream[e] \in Slots /\ stream[e].fixes \subseteq Fixes
      /\ \A w \in Workers : worker[w] \in Jobs
      /\ status \in Fixes \cup {0} /\ Fixes \subseteq Nat
      /\ raced \in [current: BOOLEAN, status: BOOLEAN]
      /\ \A w \in Workers : \A e \in worker[w].done : stream[e].st # "none"
  BY DEF TypeOK, Slots, Jobs, Fixes, Held, Used
<1>1. ASSUME UNCHANGED <<status, worker, stream>>, raced'.status = raced.status
      PROVE  StatusFits'
  BY <1>1, StatusKept
<1>2. ASSUME Measure \/ EndSession \/ GiveUp PROVE StatusFits'
  BY <1>1, <1>2 DEF Measure, EndSession, GiveUp
<1>3. ASSUME NEW q \in Requests,
             Upload(q) \/ Answered(q) \/ Accept(q) \/ SetCurrent(q) \/ HandlerFails(q)
      PROVE  StatusFits'
  <2>1. UNCHANGED <<status, worker, stream>> /\ raced'.status = raced.status
    BY <1>0, <1>3 DEF Upload, Answered, Accept, TakeIn, SetCurrent, HandlerFails
  <2> QED
    BY <1>1, <2>1
<1>4. ASSUME NEW q \in Requests, Enqueue(q) PROVE StatusFits'
  <2>1. PICK e \in Entries, T \in SUBSET Entries :
          /\ stream[e].st = "none"
          /\ stream' = [d \in Entries |->
                          IF d = e THEN [st |-> "queued", fixes |-> reqs[q].points]
                          ELSE IF d \in T THEN [stream[d] EXCEPT !.st = "trimmed"]
                          ELSE stream[d]]
    BY <1>4 DEF Enqueue
  <2>2. UNCHANGED <<status, worker, raced>>
    BY <1>4 DEF Enqueue
  <2>3. /\ stream'[e].st = "queued"
        /\ \A d \in Entries : d # e => /\ stream'[d].fixes = stream[d].fixes
                                       /\ stream'[d].st \in {stream[d].st, "trimmed"}
    BY <1>0, <2>1 DEF Slots
  <2>4. stream[e].st # "acked" /\ \A w \in Workers : e \notin worker[w].done
    BY <1>0, <2>1
  <2> QED
    BY <2>2, <2>3, <2>4, StatusKept
<1>5. ASSUME NEW w \in Workers, NEW todo, NEW done,
             done \subseteq worker[w].done,
             SetJob(w, todo, done), UNCHANGED <<status, raced>>,
             \A e \in Entries : stream'[e].fixes = stream[e].fixes /\
               (stream'[e].st = "acked" => stream[e].st = "acked")
      PROVE  StatusFits'
  <2>1. /\ worker'[w].pc = "save" /\ worker'[w].done = done
        /\ \A v \in Workers : v # w => worker'[v] = worker[v]
    BY <1>0, <1>5 DEF SetJob, IdleWorker
  <2> QED
    BY <1>5, <2>1, StatusKept
<1>6. ASSUME NEW w \in Workers, Reclaim(w) PROVE StatusFits'
  BY <1>5, <1>6 DEF Reclaim
<1>7. ASSUME NEW w \in Workers, TakeNew(w) PROVE StatusFits'
  <2>1. PICK E \in SUBSET Queued :
          /\ SetJob(w, E, {})
          /\ stream' = [e \in Entries |->
                          IF e \in E THEN [stream[e] EXCEPT !.st = "pending"] ELSE stream[e]]
    BY <1>7 DEF TakeNew
  <2>2. \A e \in Entries : stream'[e].fixes = stream[e].fixes /\
               (stream'[e].st = "acked" => stream[e].st = "acked")
    BY <1>0, <2>1 DEF Slots
  <2>3. UNCHANGED <<status, raced>>
    BY <1>7 DEF TakeNew
  <2> QED
    BY <1>5, <2>1, <2>2, <2>3
<1>8. ASSUME NEW w \in Workers, Save(w) PROVE StatusFits'
  <2>1. PICK e \in Entries :
          worker' = [worker EXCEPT ![w].pc = "status", ![w].entry = e,
                                   ![w].todo = @ \ {e}, ![w].prev = status]
    BY <1>8 DEF Save
  <2>2. /\ worker'[w].prev = status /\ worker'[w].done = worker[w].done
        /\ \A v \in Workers : v # w => worker'[v] = worker[v]
    BY <1>0, <2>1 DEF Jobs
  <2>3. UNCHANGED <<status, raced, stream>>
    BY <1>8 DEF Save
  <2> QED
    BY <2>2, <2>3, StatusKept
<1>9. ASSUME NEW w \in Workers, WriteStatus(w) PROVE StatusFits'
  <2> SUFFICES ASSUME ~raced'.status PROVE StatusFits'
    BY DEF StatusFits
  <2>1. ~raced.status /\ \A v \in Workers : v # w => worker[v].pc # "status"
    BY <1>0, <1>9 DEF WriteStatus
  <2> DEFINE fixes == stream[worker[w].entry].fixes
  <2>2. PICK latest \in fixes :
          /\ Newest(fixes, latest)
          /\ status' = IF AsNew(worker[w].prev, latest) THEN status ELSE latest
    BY <1>9 DEF WriteStatus
  <2>3. worker[w].entry \in Entries /\ fixes \in SUBSET Fixes /\ worker[w].pc = "status"
    BY <1>0, <1>9 DEF WriteStatus, Held, Used
  <2>4. worker[w].prev = status /\ latest \in Fixes
    BY <2>1, <2>2, <2>3 DEF StatusFits
  <2>5. status' \in Fixes \cup {0} /\ latest <= status' /\ status <= status'
    BY <1>0, <2>2, <2>4 DEF AsNew
  <2>6. \A f \in fixes : f <= status'
    BY <2>2, <2>3, <2>5, NewestBounds
  <2>7. /\ worker'[w].pc = "save" /\ worker'[w].done = worker[w].done \cup {worker[w].entry}
        /\ \A v \in Workers : v # w => worker'[v] = worker[v]
        /\ stream' = stream
    BY <1>0, <1>9 DEF WriteStatus, SetJob, IdleWorker
  <2>8. \A f \in Fixes : f <= status => f <= status'
    BY <1>0, <2>5
  <2>9. ASSUME NEW e \in Entries,
               stream'[e].st = "acked" \/ \E v \in Workers : e \in worker'[v].done
        PROVE  \A f \in stream'[e].fixes : f <= status'
    <3>1. CASE e = worker[w].entry
      BY <2>6, <2>7, <3>1
    <3>2. CASE e # worker[w].entry
      <4>1. stream[e].st = "acked" \/ \E v \in Workers : e \in worker[v].done
        BY <2>7, <2>9, <3>2
      <4> QED
        BY <1>0, <2>1, <2>7, <2>8, <4>1 DEF StatusFits
    <3> QED
      BY <3>1, <3>2
  <2>10. \A v \in Workers : worker'[v].pc # "status"
    BY <2>1, <2>7
  <2> QED
    BY <2>9, <2>10 DEF StatusFits
<1>10. ASSUME NEW w \in Workers, SaveFails(w) PROVE StatusFits'
  <2>1. PICK todo : SetJob(w, todo, worker[w].done)
    BY <1>10 DEF SaveFails, DoneAfterFailure
  <2>2. UNCHANGED <<status, raced, stream>>
    BY <1>10 DEF SaveFails
  <2> QED
    BY <1>5, <2>1, <2>2
<1>11. ASSUME NEW w \in Workers, Ack(w) \/ WorkerDies(w) PROVE StatusFits'
  <2>1. /\ worker'[w].pc = "idle" /\ worker'[w].done = {}
        /\ \A v \in Workers : v # w => worker'[v] = worker[v]
    BY <1>0, <1>11 DEF Ack, WorkerDies, IdleWorker
  <2>2. \A e \in Entries :
          /\ stream'[e].fixes = stream[e].fixes
          /\ stream'[e].st = "acked" => stream[e].st = "acked" \/ e \in worker[w].done
    <3>1. CASE Ack(w)
      BY <1>0, <3>1 DEF Ack, Slots
    <3>2. CASE WorkerDies(w)
      BY <3>2 DEF WorkerDies
    <3> QED
      BY <1>11, <3>1, <3>2
  <2>3. UNCHANGED <<status, raced>>
    BY <1>11 DEF Ack, WorkerDies
  <2> QED
    BY <2>1, <2>2, <2>3, StatusKept
<1> QED
  BY <1>2, <1>3, <1>4, <1>6, <1>7, <1>8, <1>9, <1>10, <1>11 DEF Next, AppStep, Handle, Work

\* Whatever is late, repeated or taken up again, the newest fix is the one friends
\* are shown, and the status is as new as what was processed; only two requests or
\* workers between their get and their set can break this.
THEOREM NewestIsShown == Spec => []NewestWins
<1>1. Init => CurrentFits /\ StatusFits
  BY DEF Init, CurrentFits, StatusFits, FreeRequest, IdleWorker
<1>2. IInv /\ CurrentFits /\ StatusFits /\ [Next]_vars => CurrentFits' /\ StatusFits'
  <2>1. IInv /\ CurrentFits /\ StatusFits /\ Next => CurrentFits' /\ StatusFits'
    BY CurrentStep, StatusStep DEF IInv
  <2>2. CurrentFits /\ StatusFits /\ UNCHANGED vars => CurrentFits' /\ StatusFits'
    BY DEF vars, CurrentFits, StatusFits
  <2> QED
    BY <2>1, <2>2
<1>3. CurrentFits /\ StatusFits => NewestWins
  BY DEF CurrentFits, StatusFits, NewestWins
<1> QED
  BY <1>1, <1>2, <1>3, Invariance, PTL DEF Spec
============================================================================
