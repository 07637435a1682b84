--------------------------- MODULE LocationPipeline ---------------------------
(***************************************************************************)
(* The way of a position from the phone to the location database: the      *)
(* outbox of the app (ramupin/src/features/location/uploader), the upload  *)
(* handler (ramupin-server/src/location/location.module), the Redis stream *)
(* (location.queue) and the workers that save it (location.worker and      *)
(* location.service).                                                      *)
(*                                                                         *)
(* Each hop hands a fix over only when the next one has it, so what can go *)
(* wrong is a hop that lets go too early, or one that never does.  The     *)
(* fixes of one user are modelled, numbered in the order measured, which   *)
(* is also their seq; a payload is its number, and two fixes are the same  *)
(* row (user_id, measured_at) exactly when they are the same number.       *)
(***************************************************************************)
EXTENDS Naturals, FiniteSets

CONSTANTS
  MaxFix,     \* bound: fixes the phone measures
  Odd,        \* fixes whose time the server does not accept
  Malformed,  \* fixes that fail the schema of the upload
  BatchSize,  \* BATCH_SIZE: rows the app sends at a time
  MaxQueue,   \* MAX_QUEUE: rows the outbox keeps
  Requests,   \* uploads on their way at one time
  NoRequest,  \* the app awaits no upload
  MaxEntries, \* bound: entries ever put into the stream
  MaxLen,     \* MAX_LEN: entries the stream keeps
  TakeCount,  \* BATCH: entries a worker takes at a time
  Workers,    \* one for each server
  MaxFaults   \* bound: timeouts, deaths and failed statements

ASSUME PipelineAssumption ==
  /\ MaxFix \in Nat /\ MaxEntries \in Nat /\ MaxFaults \in Nat
  /\ BatchSize \in Nat \ {0} /\ MaxQueue \in Nat \ {0}
  /\ MaxLen \in Nat \ {0} /\ TakeCount \in Nat \ {0}
  /\ NoRequest \notin Requests

Fixes == 1 .. MaxFix
Entries == 1 .. MaxEntries

VARIABLES
  last,     \* the newest fix measured so far (the last seq of the outbox)
  outbox,   \* rows of location_outbox
  sending,  \* the upload the app awaits (flushing), and its maxSeq
  reqs,     \* reqs[q]: an upload, its handler or its answer
  stream,   \* stream[e]: entry e of location:points
  worker,   \* worker[w]: what the worker of a server is doing
  saved,    \* rows of location_points
  current,  \* the fix in the Redis key of the current location, 0 for none
  status,   \* last_measured_at of user_status, 0 for no row
  letGo,    \* history: fixes somebody gave up on purpose
  raced,    \* history: which read-compare-write was overtaken by another one
  faults

app == <<last, outbox, sending>>
vars == <<last, outbox, sending, reqs, stream, worker, saved, current, status,
          letGo, raced, faults>>

Handlers == [pc: {"free", "sent", "current", "enqueue", "ok", "rejected", "error"},
             fixes: SUBSET Fixes, points: SUBSET Fixes, prev: Fixes \cup {0}]

FreeRequest == [pc |-> "free", fixes |-> {}, points |-> {}, prev |-> 0]

Slots == [st: {"none", "queued", "pending", "acked", "trimmed"}, fixes: SUBSET Fixes]

Jobs == [pc: {"idle", "save", "status"}, todo: SUBSET Entries,
         done: SUBSET Entries, entry: Entries \cup {0}, prev: Fixes \cup {0}]

IdleWorker == [pc |-> "idle", todo |-> {}, done |-> {}, entry |-> 0, prev |-> 0]

Init ==
  /\ last = 0
  /\ outbox = {}
  /\ sending = [req |-> NoRequest, max |-> 0]
  /\ reqs = [q \in Requests |-> FreeRequest]
  /\ stream = [e \in Entries |-> [st |-> "none", fixes |-> {}]]
  /\ worker = [w \in Workers |-> IdleWorker]
  /\ saved = {}
  /\ current = 0
  /\ status = 0
  /\ letGo = {}
  /\ raced = [current |-> FALSE, status |-> FALSE]
  /\ faults = 0

Newest(F, f) == f \in F /\ \A g \in F : g <= f

Fault ==
  /\ faults < MaxFaults
  /\ faults' = faults + 1

----------------------------------------------------------------------------
(* The app.                                                                *)

\* The rows enqueueLocation keeps once f is in.
Kept(f) == {g \in outbox \cup {f} : g + MaxQueue > f}

\* enqueueLocation: the row is inserted and the oldest ones are evicted.
Measure ==
  LET f == last + 1 IN
  /\ f \in Fixes
  /\ last' = f
  /\ outbox' = Kept(f)
  /\ letGo' = letGo \cup ((outbox \cup {f}) \ Kept(f))
  /\ UNCHANGED <<sending, reqs, stream, worker, saved, current, status, raced, faults>>

\* The first rows of the outbox, in the order of seq, at most a batch.
IsBatch(rows) ==
  /\ rows # {}
  /\ rows \subseteq outbox
  /\ rows = outbox \/ Cardinality(rows) = BatchSize
  /\ Cardinality(rows) <= BatchSize
  /\ \A f \in rows, g \in outbox \ rows : f < g

\* One round of the loop of flushLocationOutbox; only one runs at a time.
Upload(q) ==
  /\ sending.req = NoRequest
  /\ reqs[q].pc = "free"
  /\ \E rows \in SUBSET outbox, maxSeq \in Fixes :
       /\ IsBatch(rows)
       /\ Newest(rows, maxSeq)
       /\ reqs' = [reqs EXCEPT ![q] = [FreeRequest EXCEPT !.pc = "sent", !.fixes = rows]]
       /\ sending' = [req |-> q, max |-> maxSeq]
  /\ UNCHANGED <<last, outbox, stream, worker, saved, current, status, letGo, raced, faults>>

\* Mutation: flushing is not cleared at the end.
KeepAwaiting == UNCHANGED sending

\* finally: flushing is cleared.
StopAwaiting == sending' = [req |-> NoRequest, max |-> 0]

\* Mutation: everything is deleted, what was measured meanwhile, too.
DeleteAll == {}

\* DELETE FROM location_outbox WHERE seq <= maxSeq
DeleteSent == {f \in outbox : f > sending.max}

\* Mutation: rows the server rejects stay in the outbox.
DeletedByOkOnly == {"ok"}

\* Answers after which the rows are deleted: they have arrived, or would be
\* refused (400) however often they were sent.
DeletedBy == {"ok", "rejected"}

\* The answer arrives.
Answered(q) ==
  /\ sending.req = q
  /\ reqs[q].pc \in {"ok", "rejected", "error"}
  /\ outbox' = IF reqs[q].pc \in DeletedBy THEN DeleteSent ELSE outbox
  /\ letGo' = IF reqs[q].pc = "rejected" THEN letGo \cup (outbox \ outbox') ELSE letGo
  /\ reqs' = [reqs EXCEPT ![q] = FreeRequest]
  /\ StopAwaiting
  /\ UNCHANGED <<last, stream, worker, saved, current, status, raced, faults>>

\* The request times out or the app is killed: the rows stay.  The request may
\* be lost, or still be with the server.
GiveUp ==
  /\ sending.req # NoRequest
  /\ Fault
  /\ StopAwaiting
  /\ \/ reqs' = [reqs EXCEPT ![sending.req] = FreeRequest]
     \/ /\ reqs[sending.req].pc \in {"sent", "current", "enqueue"}
        /\ UNCHANGED reqs
  /\ UNCHANGED <<last, outbox, stream, worker, saved, current, status, letGo, raced>>

\* endSession empties the outbox; an upload under way is not stopped.
EndSession ==
  /\ outbox # {}
  /\ Fault
  /\ outbox' = {}
  /\ letGo' = letGo \cup outbox
  /\ UNCHANGED <<last, sending, reqs, stream, worker, saved, current, status, raced>>

----------------------------------------------------------------------------
(* The upload handler.                                                     *)

Acceptable(F) == F \ Odd

\* The handler is through; an answer nobody awaits is dropped.
Reply(q, answer) ==
  reqs' = [reqs EXCEPT ![q] = IF sending.req = q THEN [@ EXCEPT !.pc = answer]
                              ELSE FreeRequest]

\* upload goes on with points: a batch with nothing left is answered as
\* received; otherwise it reads the key of the current location.
TakeIn(q, points) ==
  /\ letGo' = letGo \cup (reqs[q].fixes \ points)
  /\ IF points = {}
     THEN Reply(q, "ok")
     ELSE reqs' = [reqs EXCEPT ![q].pc = "current", ![q].points = points,
                               ![q].prev = current]

\* upload: a batch with a malformed point is rejected whole, points of an
\* impossible time are dropped, and so is the batch of a user who hides or
\* waits for a guardian's consent (refusesLocation).
Accept(q) ==
  /\ reqs[q].pc = "sent"
  /\ IF reqs[q].fixes \cap Malformed # {}
     THEN /\ Reply(q, "rejected")
          /\ UNCHANGED letGo
     ELSE \E points \in {Acceptable(reqs[q].fixes), {}} : TakeIn(q, points)
  /\ UNCHANGED <<app, stream, worker, saved, current, status, raced, faults>>

\* Mutation: a late old point overwrites the current location.
NotNewer(prev, f) == FALSE

\* The stored one is newer, so it is kept.
Newer(prev, f) == prev > f

\* The rest of updateCurrent.
SetCurrent(q) ==
  /\ reqs[q].pc = "current"
  /\ \E latest \in reqs[q].points :
       /\ Newest(reqs[q].points, latest)
       /\ current' = IF Newer(reqs[q].prev, latest) THEN current ELSE latest
  /\ raced' = [raced EXCEPT !.current =
                 @ \/ \E p \in Requests \ {q} : reqs[p].pc = "current"]
  /\ reqs' = [reqs EXCEPT ![q].pc = "enqueue"]
  /\ UNCHANGED <<app, stream, worker, saved, status, letGo, faults>>

InStream == {e \in Entries : stream[e].st \in {"queued", "pending", "acked"}}

\* XADD with MAXLEN ~: the oldest entries beyond MaxLen may be trimmed,
\* whether they have been saved or not.
Trimmed(T) ==
  \/ T = {}
  \/ /\ T \subseteq InStream
     /\ Cardinality(InStream) + 1 = MaxLen + Cardinality(T)
     /\ \A d \in T, c \in InStream \ T : d < c

\* enqueue, and the answer that it is queued.
Enqueue(q) ==
  /\ reqs[q].pc = "enqueue"
  /\ \E e \in Entries, T \in SUBSET Entries :
       /\ stream[e].st = "none"
       /\ \A d \in Entries : d < e => stream[d].st # "none"
       /\ Trimmed(T)
       /\ stream' = [d \in Entries |->
                       IF d = e THEN [st |-> "queued", fixes |-> reqs[q].points]
                       ELSE IF d \in T THEN [stream[d] EXCEPT !.st = "trimmed"]
                       ELSE stream[d]]
       /\ letGo' = letGo \cup UNION {stream[d].fixes : d \in T}
  /\ Reply(q, "ok")
  /\ UNCHANGED <<app, worker, saved, current, status, raced, faults>>

\* A statement of the handler fails or the server dies.
HandlerFails(q) ==
  /\ reqs[q].pc \in {"sent", "current", "enqueue"}
  /\ Fault
  /\ Reply(q, "error")
  /\ UNCHANGED <<app, stream, worker, saved, current, status, letGo, raced>>

----------------------------------------------------------------------------
(* The workers.                                                            *)

Queued == {e \in Entries : stream[e].st = "queued"}
Pending == {e \in Entries : stream[e].st = "pending"}

SetJob(w, todo, done) ==
  worker' = [worker EXCEPT ![w] = [IdleWorker EXCEPT !.pc = "save", !.todo = todo, !.done = done]]

\* reclaim: entries taken STALE_MS ago or more and not acknowledged, by a dead
\* worker, a failed save or a worker that is only slow.
Reclaim(w) ==
  /\ worker[w].pc = "idle"
  /\ \E E \in SUBSET Pending :
       /\ E # {}
       /\ Cardinality(E) <= TakeCount
       /\ SetJob(w, E, {})
  /\ UNCHANGED <<app, reqs, stream, saved, current, status, letGo, raced, faults>>

\* XREADGROUP: the oldest entries nobody has taken.
TakeNew(w) ==
  /\ worker[w].pc = "idle"
  /\ \E E \in SUBSET Queued :
       /\ E # {}
       /\ E = Queued \/ Cardinality(E) = TakeCount
       /\ Cardinality(E) <= TakeCount
       /\ \A e \in E, d \in Queued \ E : e < d
       /\ SetJob(w, E, {})
       /\ stream' = [e \in Entries |->
                       IF e \in E THEN [stream[e] EXCEPT !.st = "pending"] ELSE stream[e]]
  /\ UNCHANGED <<app, reqs, saved, current, status, letGo, raced, faults>>

IsNext(w, e) ==
  /\ e \in worker[w].todo
  /\ \A d \in worker[w].todo : e <= d

\* savePoints: the insert (a row that is there already is left alone) and the
\* query of updateStatus.
Save(w) ==
  /\ worker[w].pc = "save"
  /\ \E e \in Entries :
       /\ IsNext(w, e)
       /\ saved' = saved \cup stream[e].fixes
       /\ worker' = [worker EXCEPT ![w].pc = "status", ![w].entry = e,
                                   ![w].todo = @ \ {e}, ![w].prev = status]
  /\ UNCHANGED <<app, reqs, stream, current, status, letGo, raced, faults>>

\* Mutation: the age of the stored status is not asked.
NoNewerStatus(prev, f) == FALSE

\* last_measured_at is as new already.
AsNew(prev, f) == prev >= f

\* The upsert of updateStatus.  What follows it (safe zones, speeding) never
\* throws, so the entry is done.
WriteStatus(w) ==
  /\ worker[w].pc = "status"
  /\ \E latest \in stream[worker[w].entry].fixes :
       /\ Newest(stream[worker[w].entry].fixes, latest)
       /\ status' = IF AsNew(worker[w].prev, latest) THEN status ELSE latest
  /\ raced' = [raced EXCEPT !.status =
                 @ \/ \E v \in Workers \ {w} : worker[v].pc = "status"]
  /\ SetJob(w, worker[w].todo, worker[w].done \cup {worker[w].entry})
  /\ UNCHANGED <<app, reqs, stream, saved, current, letGo, faults>>

\* Mutation: an entry that failed is acknowledged with the others.
DoneAnyway(w, e) == worker[w].done \cup {e}

\* An entry that failed is not among those to acknowledge.
DoneAfterFailure(w, e) == worker[w].done

\* A statement of savePoints fails: only this entry is left for later.
SaveFails(w) ==
  /\ Fault
  /\ \/ /\ worker[w].pc = "save"
        /\ \E e \in Entries :
             /\ IsNext(w, e)
             /\ SetJob(w, worker[w].todo \ {e}, DoneAfterFailure(w, e))
     \/ /\ worker[w].pc = "status"
        /\ SetJob(w, worker[w].todo, DoneAfterFailure(w, worker[w].entry))
  /\ UNCHANGED <<app, reqs, stream, saved, current, status, letGo, raced>>

\* ack of the entries that are done; trimmed ones are gone.
Ack(w) ==
  /\ worker[w].pc = "save"
  /\ worker[w].todo = {}
  /\ stream' = [e \in Entries |->
                  IF e \in worker[w].done /\ stream[e].st = "pending"
                  THEN [stream[e] EXCEPT !.st = "acked"] ELSE stream[e]]
  /\ worker' = [worker EXCEPT ![w] = IdleWorker]
  /\ UNCHANGED <<app, reqs, saved, current, status, letGo, raced, faults>>

\* The server dies, or Redis fails: the worker starts again with nothing.
WorkerDies(w) ==
  /\ worker[w].pc # "idle"
  /\ Fault
  /\ worker' = [worker EXCEPT ![w] = IdleWorker]
  /\ UNCHANGED <<app, reqs, stream, saved, current, status, letGo, raced>>

----------------------------------------------------------------------------

AppStep == \E q \in Requests : Upload(q) \/ Answered(q)
Handle(q) == Accept(q) \/ SetCurrent(q) \/ Enqueue(q)
Work(w) == Reclaim(w) \/ TakeNew(w) \/ Save(w) \/ WriteStatus(w) \/ Ack(w)

Next ==
  \/ Measure \/ AppStep \/ GiveUp \/ EndSession
  \/ \E q \in Requests : Handle(q) \/ HandlerFails(q)
  \/ \E w \in Workers : Work(w) \/ SaveFails(w) \/ WorkerDies(w)

Spec == Init /\ [][Next]_vars

\* The app checks its outbox again and again, a handler comes to its end, and
\* the loop of a worker goes round.
FairSpec ==
  /\ Spec
  /\ WF_vars(AppStep)
  /\ \A q \in Requests : WF_vars(Handle(q))
  /\ \A w \in Workers : WF_vars(Work(w))

----------------------------------------------------------------------------
(* Properties.                                                             *)

\* Types of the variables; the upload the app awaits exists.
TypeOK ==
  /\ last \in Fixes \cup {0}
  /\ outbox \subseteq 1 .. last
  /\ sending \in [req: Requests \cup {NoRequest}, max: Fixes \cup {0}]
  /\ reqs \in [Requests -> Handlers]
  /\ sending.req # NoRequest => reqs[sending.req].pc # "free"
  /\ stream \in [Entries -> Slots]
  /\ worker \in [Workers -> Jobs]
  /\ saved \subseteq Fixes
  /\ current \in Fixes \cup {0}
  /\ status \in Fixes \cup {0}
  /\ letGo \subseteq Fixes
  /\ raced \in [current: BOOLEAN, status: BOOLEAN]
  /\ faults \in 0 .. MaxFaults

InLiveEntry(f) == \E e \in Entries : stream[e].st \in {"queued", "pending"} /\ f \in stream[e].fixes

\* However requests are lost or repeated, servers die and saves fail, a fix is
\* in the outbox, in the stream or in the database, unless it was given up on
\* purpose: evicted, refused, trimmed, or thrown away by the logout.
NothingVanishes ==
  \A f \in 1 .. last : f \in outbox \/ InLiveEntry(f) \/ f \in saved \/ f \in letGo

\* The current location friends are shown is at least as new as anything that
\* was queued, even when an old upload arrives after a newer one; and so is the
\* status the anomaly detection reads, as far as entries were processed, in
\* whatever order failed ones are taken up again.  Only two handlers between
\* their get and their set can break this.
NewestWins ==
  /\ ~raced.current => \A e \in Entries, f \in Fixes : f \in stream[e].fixes => f <= current
  /\ ~raced.status =>
       \A e \in Entries :
         (stream[e].st = "acked" \/ \E w \in Workers : e \in worker[w].done) =>
           \A f \in stream[e].fixes : f <= status

\* Every fix comes to an end of its way; a rejected or failing one does not
\* hold up those behind it.
FixSettles == \A f \in Fixes : last >= f ~> f \in saved \cup letGo

----------------------------------------------------------------------------
(* The pipeline as a register of fixes.                                    *)

\* How far a fix has come; "lost" is no place of the register.
Place(f) ==
  IF f > last THEN "unmeasured"
  ELSE IF f \in saved THEN "saved"
  ELSE IF InLiveEntry(f) THEN "server"
  ELSE IF f \in letGo THEN "given up"
  ELSE IF f \in outbox THEN "phone"
  ELSE "lost"

Register == INSTANCE FixRegister WITH place <- [f \in Fixes |-> Place(f)]

\* The outbox, the uploads, the stream and the workers together are a register:
\* a fix takes the hops one after the other, never back, and nobody has to
\* answer for one that is nowhere.
IsRegister == Register!Spec
============================================================================
