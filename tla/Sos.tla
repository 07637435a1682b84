-------------------------------- MODULE Sos --------------------------------
(***************************************************************************)
(* One user's SOS: the screen that sends, cancels and ends it              *)
(* (ramupin/app/(app)/sos.tsx) and the service that alarms the recipients  *)
(* (ramupin-server/src/sos/sos.service).                                   *)
(*                                                                         *)
(* The screen runs start, finish, cancel and resolve as asynchronous       *)
(* functions over shared references; the server inserts the event, then    *)
(* the deliveries, and alarms the recipients, in separate steps.  Send n   *)
(* creates event n.  The ten seconds of a timer are one step; the slide    *)
(* that cancels takes effect at once.  The text messages of an SOS have no *)
(* effect on any of this and are left out.                                 *)
(***************************************************************************)
EXTENDS Naturals

CONSTANTS
  Friends,   \* accounts that may be recipients: friends or group members
  MaxPress,  \* bound: presses of the button
  MaxSends,  \* bound: sends, and so events
  MaxFaults, \* bound: crashes, lost answers and killed apps
  EarlyCancel \* may the user cancel while the microphone is being prepared?

\* After an early cancel a second press could meet the timer of the first, and
\* this module does not tell the two apart.
ASSUME SosAssumption ==
  /\ MaxPress \in Nat
  /\ MaxSends \in Nat
  /\ MaxFaults \in Nat
  /\ EarlyCancel \in BOOLEAN
  /\ EarlyCancel => MaxPress = 1

None == 0
Sends == 1 .. MaxSends

VARIABLES
  phase,    \* what the screen shows
  press,    \* how often the button was pressed
  timer,    \* the interval that is running: "none", "count" or "record"
  mic,      \* "off", "preparing" or "on" (recorder.isRecording)
  promise,  \* sendPromise: the send whose result is awaited, or None
  sosId,    \* the state sosId of the screen
  banner,   \* "cancelled" is on the screen
  finishing, cancelling, resolving, \* where these functions are awaiting
  send,     \* send[n]: the request, its handler and its answer
  event,    \* event[n]: the row and its deliveries
  closing,  \* closing[n][kind]: the request to cancel or resolve event n
  audio,    \* audio[n]: the request that attaches the recording
  accounts, \* accounts that exist
  alarmed, calmed, \* history: who was told of event n, and of its end
  faults

screen == <<phase, press, timer, mic, promise, sosId, banner>>
waits == <<finishing, cancelling, resolving>>
server == <<event, closing, audio, alarmed, calmed>>
vars == <<screen, waits, send, server, accounts, faults>>

Kinds == {"cancelled", "resolved"}

\* An asynchronous function that waits for a send (n) or for an answer about
\* event n.
Waits == [on: {"none", "send", "answer"}, n: Sends \cup {None}, recorded: BOOLEAN]
NoWait == [on |-> "none", n |-> None, recorded |-> FALSE]

SendRecords ==
  [pc: {"free", "locating", "asked", "chosen", "inserted", "delivered", "told", "end"},
   press: 0 .. MaxPress, to: SUBSET Friends,
   result: {"none", "ok", "failed", "offline", "left"}]

\* A handler that changed the row goes on to tell the recipients.
CallSteps == {"none", "asked", "telling", "answered", "gone"}

Init ==
  /\ phase = "idle" /\ press = 0 /\ timer = "none" /\ mic = "off"
  /\ promise = None /\ sosId = None /\ banner = FALSE
  /\ finishing = NoWait /\ cancelling = NoWait /\ resolving = NoWait
  /\ send = [n \in Sends |-> [pc |-> "free", press |-> 0, to |-> {}, result |-> "none"]]
  /\ event = [n \in Sends |->
                [status |-> "none", to |-> {}, monitoring |-> FALSE, audio |-> FALSE]]
  /\ closing = [n \in Sends |-> [k \in Kinds |-> "none"]]
  /\ audio = [n \in Sends |-> "none"]
  /\ accounts \in SUBSET Friends
  /\ alarmed = [n \in Sends |-> {}]
  /\ calmed = [n \in Sends |-> {}]
  /\ faults = 0

Fault == faults < MaxFaults /\ faults' = faults + 1

----------------------------------------------------------------------------
(* The screen.                                                             *)

\* start: ten seconds to think it over.
Start ==
  /\ phase = "idle"
  /\ press < MaxPress
  /\ phase' = "countdown"
  /\ press' = press + 1
  /\ timer' = "count"
  /\ banner' = FALSE
  /\ UNCHANGED <<mic, promise, sosId, waits, send, server, accounts, faults>>

\* sendLocation: the next send, waiting for the position first.
SendLocation(n) ==
  /\ send[n].pc = "free"
  /\ \A m \in Sends : m < n => send[m].pc # "free"
  /\ send' = [send EXCEPT ![n] = [pc |-> "locating", press |-> press, to |-> {},
                                  result |-> "none"]]

Wait(on, n, recorded) == [on |-> on, n |-> n, recorded |-> recorded]

\* The countdown ends: send the location, then record or finish without.
CountdownEnds(n) ==
  /\ timer = "count"
  /\ SendLocation(n)
  /\ promise' = n
  /\ timer' = "none"
  /\ \/ \* no permission, or recording is switched off
        /\ phase' = "sending"
        /\ finishing' = Wait("send", n, FALSE)
        /\ UNCHANGED mic
     \/ /\ phase' = "recording"
        /\ mic' = "preparing"
        /\ UNCHANGED finishing
  /\ UNCHANGED <<press, sosId, banner, cancelling, resolving, server, accounts, faults>>

\* startRecording goes on after the microphone was prepared.
Recording ==
  /\ mic = "preparing"
  /\ mic' = "on"
  /\ timer' = "record"
  /\ UNCHANGED <<phase, press, promise, sosId, banner, waits, send, server, accounts, faults>>

\* finish awaits the send under way, or starts one when there is none.
Finish(recorded) ==
  /\ phase' = "sending"
  /\ mic' = "off"
  /\ \E n \in Sends :
       /\ IF promise = None THEN SendLocation(n) ELSE n = promise /\ UNCHANGED send
       /\ finishing' = Wait("send", n, recorded)

\* The ten seconds of recording are over.
RecordingEnds ==
  /\ timer = "record"
  /\ timer' = "none"
  /\ Finish(TRUE)
  /\ UNCHANGED <<press, promise, sosId, banner, cancelling, resolving, server, accounts, faults>>

\* The microphone cannot be prepared.
RecordingFails ==
  /\ mic = "preparing"
  /\ Finish(FALSE)
  /\ UNCHANGED <<press, timer, promise, sosId, banner, cancelling, resolving, server,
                 accounts, faults>>

\* Mutation: the screen stays as it is when the send failed.
AfterSendStuck(n) == IF send[n].result = "failed" THEN "sending" ELSE "sent"

\* What the screen shows once the result of the send is known.
AfterSend(n) == IF send[n].result = "failed" THEN "idle" ELSE "sent"

\* finish goes on with the result of the send: attach the recording, or show
\* that it was sent (offline: a text message of the phone is prepared), or
\* start over.
FinishSent ==
  LET n == finishing.n IN
  /\ finishing.on = "send"
  /\ send[n].result # "none"
  /\ promise' = None
  /\ \/ /\ send[n].result = "ok" /\ finishing.recorded
        /\ finishing' = Wait("answer", n, TRUE)
        /\ audio' = [audio EXCEPT ![n] = "asked"]
        /\ UNCHANGED phase
     \/ /\ ~(send[n].result = "ok" /\ finishing.recorded)
        /\ finishing' = NoWait
        /\ phase' = AfterSend(n)
        /\ UNCHANGED audio
  /\ UNCHANGED <<press, timer, mic, sosId, banner, cancelling, resolving, send, event,
                 closing, alarmed, calmed, accounts, faults>>

\* Mutation: attachAudio is not awaited.
AudioSettledAnyway(n) == TRUE /\ UNCHANGED faults

\* An awaited request has its answer, or the app gives up waiting for one: the
\* handler goes on all the same.
Settled(step) == \/ step \in {"answered", "gone"} /\ UNCHANGED faults
                 \/ step \notin {"answered", "gone"} /\ Fault

AudioSettled(n) == Settled(audio[n])

\* The recording was attached, or was not: either way the SOS was sent.
FinishAttached ==
  /\ finishing.on = "answer"
  /\ AudioSettled(finishing.n)
  /\ finishing' = NoWait
  /\ phase' = "sent"
  /\ UNCHANGED <<press, timer, mic, promise, sosId, banner, cancelling, resolving, send,
                 server, accounts>>

\* Mutation: the slide that cancels is not hidden while sending.
CancellableAlways ==
  /\ phase \in {"countdown", "recording", "sending"}
  /\ cancelling = NoWait
  /\ mic = "preparing" => EarlyCancel

\* The slide that cancels is shown; it is not slid twice.
Cancellable ==
  /\ phase \in {"countdown", "recording"}
  /\ cancelling = NoWait
  /\ mic = "preparing" => EarlyCancel

\* Mutation: cancel looks at the state sosId and not at the send under way.
AwaitedByCancelKnown == sosId

\* The send whose result cancel waits for.
AwaitedByCancel == promise

\* Mutation: cancel does not clear the timer.
TimerAfterCancelKept == timer

\* clearTimer.
TimerAfterCancel == "none"

\* cancel: the timer stops, a recording that runs stops and is deleted, and
\* the send under way is awaited.
Cancel ==
  /\ Cancellable
  /\ timer' = TimerAfterCancel
  /\ mic' = IF mic = "on" THEN "off" ELSE mic
  /\ IF AwaitedByCancel = None
     THEN /\ phase' = "idle"
          /\ banner' = TRUE
          /\ UNCHANGED cancelling
     ELSE /\ cancelling' = Wait("send", AwaitedByCancel, FALSE)
          /\ UNCHANGED <<phase, banner>>
  /\ UNCHANGED <<press, promise, sosId, finishing, resolving, send, server, accounts, faults>>

\* Mutation: the one request is made for the other.
AskResolved(n, kind) == closing' = [closing EXCEPT ![n]["resolved"] = "asked"]

\* The request to cancel or resolve event n.
AskEnd(n, kind) == closing' = [closing EXCEPT ![n][kind] = "asked"]

\* cancel goes on: an SOS that went out is cancelled on the server.
CancelSent ==
  LET n == cancelling.n IN
  /\ cancelling.on = "send"
  /\ send[n].result # "none"
  /\ promise' = None
  /\ IF send[n].result = "ok"
     THEN /\ cancelling' = Wait("answer", n, FALSE)
          /\ AskEnd(n, "cancelled")
          /\ UNCHANGED <<phase, banner>>
     ELSE /\ cancelling' = NoWait
          /\ phase' = "idle"
          /\ banner' = TRUE
          /\ UNCHANGED closing
  /\ UNCHANGED <<press, timer, mic, sosId, finishing, resolving, send, event, audio,
                 alarmed, calmed, accounts, faults>>

\* cancel ends; an error of the request is ignored.
CancelEnds ==
  /\ cancelling.on = "answer"
  /\ Settled(closing[cancelling.n]["cancelled"])
  /\ cancelling' = NoWait
  /\ phase' = "idle"
  /\ banner' = TRUE
  /\ UNCHANGED <<press, timer, mic, promise, sosId, finishing, resolving, send, server,
                 accounts>>

\* A screen that is opened again starts from nothing; what is still to come of
\* a send reaches only the screen that was left.
FreshScreen ==
  /\ phase' = "idle"
  /\ timer' = "none"
  /\ mic' = "off"
  /\ promise' = None
  /\ sosId' = None
  /\ banner' = FALSE
  /\ UNCHANGED press

Left(n, pc) ==
  [pc |-> pc, press |-> send[n].press, to |-> send[n].to,
   result |-> IF send[n].pc # "free" /\ send[n].result = "none" THEN "left"
              ELSE send[n].result]

\* resolve: "I am safe".  Without an id the screen just closes.
Resolve ==
  /\ phase = "sent"
  /\ resolving = NoWait
  /\ IF sosId = None
     THEN /\ FreshScreen
          /\ send' = [n \in Sends |-> Left(n, send[n].pc)]
          /\ UNCHANGED <<resolving, closing>>
     ELSE /\ resolving' = Wait("answer", sosId, FALSE)
          /\ AskEnd(sosId, "resolved")
          /\ UNCHANGED <<screen, send>>
  /\ UNCHANGED <<finishing, cancelling, event, audio, alarmed, calmed, accounts, faults>>

ResolveEnds ==
  /\ resolving.on = "answer"
  /\ Settled(closing[resolving.n]["resolved"])
  /\ resolving' = NoWait
  /\ FreshScreen
  /\ send' = [n \in Sends |-> Left(n, send[n].pc)]
  /\ UNCHANGED <<finishing, cancelling, server, accounts>>

\* The screen is left while nothing is awaited: the timer stops with it.
Leave ==
  /\ finishing = NoWait /\ cancelling = NoWait /\ resolving = NoWait
  /\ mic # "preparing"
  /\ phase # "idle"
  /\ FreshScreen
  /\ send' = [n \in Sends |-> Left(n, send[n].pc)]
  /\ UNCHANGED <<waits, server, accounts, faults>>

\* The app is killed: nothing it awaited matters any more, and a send that
\* still waits for the position never happens.
Killed ==
  /\ Fault
  /\ phase # "idle"
  /\ FreshScreen
  /\ finishing' = NoWait /\ cancelling' = NoWait /\ resolving' = NoWait
  /\ send' = [n \in Sends |->
                Left(n, IF send[n].pc = "locating" THEN "end" ELSE send[n].pc)]
  /\ UNCHANGED <<server, accounts>>

----------------------------------------------------------------------------
(* The handler of a send.                                                  *)

At(n, from, to) ==
  /\ send[n].pc = from
  /\ send' = [send EXCEPT ![n] = [pc |-> to, press |-> send[n].press, to |-> send[n].to,
                                  result |-> send[n].result]]

\* The position is known, or there is none; the request is on its way.
Located(n) ==
  /\ At(n, "locating", "asked")
  /\ UNCHANGED <<screen, waits, server, accounts, faults>>

\* resolveRecipients: as many as the plan allows of those who still are
\* friends or members, at least one when there is any.
Choose(n, to) ==
  /\ send[n].pc = "asked"
  /\ to \subseteq accounts
  /\ accounts # {} => to # {}
  /\ send' = [send EXCEPT ![n] = [pc |-> "chosen", press |-> send[n].press, to |-> to,
                                  result |-> send[n].result]]
  /\ UNCHANGED <<screen, waits, server, accounts, faults>>

\* Mutation: the column is left at its default.
ToMonitoringDefault(n) == FALSE

ToMonitoring(n) == send[n].to = {}

\* The event; without recipients it goes to the company.
InsertEvent(n) ==
  /\ At(n, "chosen", "inserted")
  /\ event' = [event EXCEPT ![n] = [status |-> "sent", to |-> {},
                                    monitoring |-> ToMonitoring(n), audio |-> FALSE]]
  /\ UNCHANGED <<screen, waits, closing, audio, alarmed, calmed, accounts, faults>>

\* Mutation: the screen keeps the first identifier it was given.
KnownIdFirst(n) == IF sosId = None THEN n ELSE sosId

\* setSosId.
KnownId(n) == n

\* The answer reaches the app, unless it no longer waits for one.
AnswerApp(n, result) ==
  /\ send' = [send EXCEPT ![n] = [pc |-> "end", press |-> send[n].press, to |-> send[n].to,
                                  result |-> IF send[n].result = "none" THEN result
                                             ELSE send[n].result]]
  /\ sosId' = IF send[n].result = "none" /\ result = "ok" THEN KnownId(n) ELSE sosId
  /\ UNCHANGED <<phase, press, timer, mic, promise, banner, waits>>

\* The deliveries: one statement, which a deleted account makes fail.
InsertDeliveries(n) ==
  /\ send[n].pc = "inserted"
  /\ send[n].to # {}
  /\ send[n].to \subseteq accounts
  /\ event' = [event EXCEPT ![n].to = send[n].to]
  /\ At(n, "inserted", "delivered")
  /\ UNCHANGED <<screen, waits, closing, audio, alarmed, calmed, accounts, faults>>

DeliveriesFail(n) ==
  /\ send[n].pc = "inserted"
  /\ ~(send[n].to \subseteq accounts)
  /\ AnswerApp(n, "failed")
  /\ UNCHANGED <<server, accounts, faults>>

\* Mutation: the answer does not wait for the recipients to be alarmed.
ReadyUnheard(n) == send[n].pc = "delivered" \/ (send[n].pc = "inserted" /\ send[n].to = {})

\* The recipients were alarmed, or there are none.
Ready(n) == send[n].pc = "told" \/ (send[n].pc = "inserted" /\ send[n].to = {})

\* notify: the event of the socket and the push; an error is ignored.
Notify(n) ==
  /\ At(n, "delivered", "told")
  /\ alarmed' = [alarmed EXCEPT ![n] = send[n].to]
  /\ UNCHANGED <<screen, waits, event, closing, audio, calmed, accounts, faults>>

Answer(n) ==
  /\ Ready(n)
  /\ AnswerApp(n, "ok")
  /\ UNCHANGED <<server, accounts, faults>>

\* The app gives up after fifteen seconds, or has no connection; a request
\* that got through is handled all the same.
SendLost(n) ==
  /\ Fault
  /\ send[n].pc \notin {"free", "locating"}
  /\ send[n].result = "none"
  /\ \E pc \in {send[n].pc} \cup (IF send[n].pc = "asked" THEN {"end"} ELSE {}) :
       send' = [send EXCEPT ![n] = [pc |-> pc, press |-> send[n].press,
                                    to |-> send[n].to, result |-> "offline"]]
  /\ UNCHANGED <<screen, waits, server, accounts>>

\* The server dies, or the database refuses, in the middle of the handler.
SendDies(n) ==
  /\ Fault
  /\ send[n].pc \in {"asked", "chosen", "inserted", "delivered", "told"}
  /\ \E result \in {"failed", "offline"} : AnswerApp(n, result)
  /\ UNCHANGED <<server, accounts>>

----------------------------------------------------------------------------
(* The handlers of cancel, resolve and attachAudio.                        *)

\* The update asks for the status: an SOS ends once.
CloseRow(n, kind) ==
  /\ closing[n][kind] = "asked"
  /\ IF event[n].status = "sent"
     THEN /\ event' = [event EXCEPT ![n].status = kind]
          /\ closing' = [closing EXCEPT ![n][kind] = "telling"]
     ELSE /\ closing' = [closing EXCEPT ![n][kind] = "answered"]
          /\ UNCHANGED event
  /\ UNCHANGED <<screen, waits, send, audio, alarmed, calmed, accounts, faults>>

\* Mutation: the query takes the first row only.
ToldOfEndFirst(n) ==
  IF event[n].to = {} THEN {} ELSE {CHOOSE f \in event[n].to : TRUE}

\* deliveredTo.
ToldOfEnd(n) == event[n].to

TellEnd(n, kind) ==
  /\ closing[n][kind] = "telling"
  /\ calmed' = [calmed EXCEPT ![n] = calmed[n] \cup ToldOfEnd(n)]
  /\ closing' = [closing EXCEPT ![n][kind] = "answered"]
  /\ UNCHANGED <<screen, waits, send, event, audio, alarmed, accounts, faults>>

\* The request is lost, or the server dies in its handler.
CloseLost(n, kind) ==
  /\ Fault
  /\ closing[n][kind] \in {"asked", "telling"}
  /\ closing' = [closing EXCEPT ![n][kind] = "gone"]
  /\ UNCHANGED <<screen, waits, send, event, audio, alarmed, calmed, accounts>>

\* The recording is attached to the row, which has none yet; the recipients
\* hear of it when the SOS was still open.
AttachAudio(n) ==
  /\ audio[n] = "asked"
  /\ event' = [event EXCEPT ![n].audio = TRUE]
  /\ audio' = [audio EXCEPT ![n] =
                 IF event[n].status = "sent" /\ event[n].to # {} THEN "telling" ELSE "answered"]
  /\ UNCHANGED <<screen, waits, send, closing, alarmed, calmed, accounts, faults>>

TellAudio(n) ==
  /\ audio[n] = "telling"
  /\ audio' = [audio EXCEPT ![n] = "answered"]
  /\ UNCHANGED <<screen, waits, send, event, closing, alarmed, calmed, accounts, faults>>

AudioLost(n) ==
  /\ Fault
  /\ audio[n] \in {"asked", "telling"}
  /\ audio' = [audio EXCEPT ![n] = "gone"]
  /\ UNCHANGED <<screen, waits, send, event, closing, alarmed, calmed, accounts>>

\* A recipient deletes the account; the deliveries go with it.
Withdraw(f) ==
  /\ f \in accounts
  /\ accounts' = accounts \ {f}
  /\ event' = [n \in Sends |->
                 [status |-> event[n].status, to |-> event[n].to \ {f},
                  monitoring |-> event[n].monitoring, audio |-> event[n].audio]]
  /\ UNCHANGED <<screen, waits, send, closing, audio, alarmed, calmed, faults>>

----------------------------------------------------------------------------

\* What the user chooses to do.
UserNext == Start \/ Cancel \/ Resolve \/ Leave

\* What the screen does by itself.
ScreenNext ==
  \/ \E n \in Sends : CountdownEnds(n)
  \/ Recording \/ RecordingEnds \/ RecordingFails
  \/ FinishSent \/ FinishAttached \/ CancelSent \/ CancelEnds \/ ResolveEnds

\* A request on its way to its answer.
Handle(n) ==
  \/ Located(n) \/ (\E to \in SUBSET Friends : Choose(n, to))
  \/ InsertEvent(n) \/ InsertDeliveries(n) \/ DeliveriesFail(n) \/ Notify(n) \/ Answer(n)
  \/ (\E kind \in Kinds : CloseRow(n, kind) \/ TellEnd(n, kind))
  \/ AttachAudio(n) \/ TellAudio(n)

Failures(n) ==
  \/ SendLost(n) \/ SendDies(n) \/ AudioLost(n)
  \/ \E kind \in Kinds : CloseLost(n, kind)

Next ==
  \/ UserNext \/ ScreenNext \/ Killed
  \/ \E n \in Sends : Handle(n) \/ Failures(n)
  \/ \E f \in Friends : Withdraw(f)

Spec == Init /\ [][Next]_vars

\* The intervals fire and promises resume; the position is found or given up;
\* a server gets on with every request.
FairSpec ==
  /\ Spec
  /\ WF_vars(ScreenNext)
  /\ \A n \in Sends : WF_vars(Handle(n))

----------------------------------------------------------------------------
(* Properties.                                                             *)

WaitsOk(w) ==
  /\ w \in Waits
  /\ w.on # "none" => w.n \in Sends
  /\ w.on = "send" => send[w.n].pc # "free"

\* Types of the variables.  A function that awaits a send or an answer awaits
\* something that was asked for.
TypeOK ==
  /\ phase \in {"idle", "countdown", "recording", "sending", "sent"}
  /\ press \in 0 .. MaxPress
  /\ timer \in {"none", "count", "record"}
  /\ mic \in {"off", "preparing", "on"}
  /\ promise \in Sends \cup {None}
  /\ sosId \in Sends \cup {None}
  /\ banner \in BOOLEAN
  /\ WaitsOk(finishing) /\ WaitsOk(cancelling) /\ WaitsOk(resolving)
  /\ send \in [Sends -> SendRecords]
  /\ event \in [Sends -> [status: {"none", "sent"} \cup Kinds, to: SUBSET Friends,
                          monitoring: BOOLEAN, audio: BOOLEAN]]
  /\ closing \in [Sends -> [Kinds -> CallSteps]]
  /\ audio \in [Sends -> CallSteps]
  /\ promise # None => send[promise].pc # "free"
  /\ finishing.on = "answer" => audio[finishing.n] # "none"
  /\ cancelling.on = "answer" => closing[cancelling.n]["cancelled"] # "none"
  /\ resolving.on = "answer" => closing[resolving.n]["resolved"] # "none"
  /\ accounts \in SUBSET Friends
  /\ alarmed \in [Sends -> SUBSET Friends]
  /\ calmed \in [Sends -> SUBSET Friends]
  /\ faults \in 0 .. MaxFaults

\* The last thing f heard of SOS n.
Heard(n, f) ==
  IF f \in calmed[n] THEN "end" ELSE IF f \in alarmed[n] THEN "alarm" ELSE "nothing"

\* The rows and what was heard, without the screen and the handlers.
Received == INSTANCE Alarm WITH
  status <- [n \in Sends |-> event[n].status],
  company <- {n \in Sends : event[n].monitoring},
  heard <- [n \in Sends |-> [f \in Friends |-> Heard(n, f)]]

\* To those who receive it an SOS is what Alarm says, whatever the screen does
\* and whatever is lost: alarmed once, then perhaps ended, once and in one way,
\* and only then, and only to those who were alarmed, the end is told.
IsAlarm == Received!Spec

\* Nobody hears that an SOS was cancelled or is over without having been
\* alarmed by it: the end never overtakes the alarm, however the handlers of
\* the send and of the end interleave.  It follows from IsAlarm.
AlarmComesFirst == \A n \in Sends : calmed[n] \subseteq alarmed[n]

\* An SOS the app reports as sent reached somebody: a recipient was alarmed, or
\* it is on the company's list (the head of SosService: it may not go nowhere).
SentReachesSomebody ==
  \A n \in Sends : send[n].result = "ok" => alarmed[n] # {} \/ event[n].monitoring

\* Once the screen says "cancelled", no send of that press is still to come
\* (the comment in cancel: what is cancelled is not transmitted).
CancelIsFinal ==
  banner => \A n \in Sends :
    (send[n].pc # "free" /\ send[n].press = press) => send[n].result # "none"

\* Once the screen says "cancelled", the SOS of that press, had it gone out, is
\* closed on the server, unless some message was lost; and the recording of an
\* SOS its user cancelled is never handed to the recipients.
CancelReaches ==
  /\ (banner /\ faults = 0) => \A n \in Sends :
       (send[n].result = "ok" /\ send[n].press = press) => event[n].status # "sent"
  /\ \A n \in Sends : event[n].status = "cancelled" => ~event[n].audio

\* Nobody hears of a recording after having heard that the SOS is over: "I am
\* safe" is offered only once attachAudio is through, unless the app gave up
\* waiting for it.
NoNewsAfterEnd ==
  \A n \in Sends : (audio[n] = "telling" /\ faults = 0) => calmed[n] = {}

\* "I am safe" ends the SOS the user means, also after an earlier one on the
\* same screen, unless some message was lost.
ResolveCloses ==
  [][(ResolveEnds /\ faults = 0 /\ UNCHANGED faults) => \A n \in Sends :
       (send[n].result = "ok" /\ send[n].press = press) => event[n].status # "sent"]_vars

\* Everybody who was alarmed hears of the end, unless they deleted the account
\* or the handler of the end was cut off.
EndIsHeard ==
  \A n \in Sends, f \in Friends :
    (event[n].status \in Kinds /\ f \in alarmed[n]) ~>
      (f \in calmed[n] \/ f \notin accounts \/ \E k \in Kinds : closing[n][k] = "gone")
============================================================================
