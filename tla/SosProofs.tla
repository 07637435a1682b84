----------------------------- MODULE SosProofs -----------------------------
(***************************************************************************)
(* Proofs about Sos, for any number of friends, presses, sends and faults. *)
(*                                                                         *)
(* Four strengthenings: what the handler of a send has done so far (for    *)
(* the alarm and the answer), how the timer, the microphone and the        *)
(* awaiting functions of the screen fit together (for cancel), what was    *)
(* asked for about each send (for the end of an SOS and its recording),    *)
(* and how far the row of a send is (for Alarm).                           *)
(***************************************************************************)
EXTENDS Sos, TLAPS

\* TypeOK in four parts.
ScreenType ==
  /\ phase \in {"idle", "countdown", "recording", "sending", "sent"}
  /\ press \in 0 .. MaxPress
  /\ timer \in {"none", "count", "record"}
  /\ mic \in {"off", "preparing", "on"}
  /\ promise \in Sends \cup {None}
  /\ sosId \in Sends \cup {None}
  /\ banner \in BOOLEAN
  /\ faults \in 0 .. MaxFaults

SendType == send \in [Sends -> SendRecords]

ServerType ==
  /\ event \in [Sends -> [status: {"none", "sent"} \cup Kinds, to: SUBSET Friends,
                          monitoring: BOOLEAN, audio: BOOLEAN]]
  /\ closing \in [Sends -> [Kinds -> CallSteps]]
  /\ audio \in [Sends -> CallSteps]
  /\ accounts \in SUBSET Friends
  /\ alarmed \in [Sends -> SUBSET Friends]
  /\ calmed \in [Sends -> SUBSET Friends]

WaitsType ==
  /\ WaitsOk(finishing) /\ WaitsOk(cancelling) /\ WaitsOk(resolving)
  /\ promise # None => send[promise].pc # "free"
  /\ finishing.on = "answer" => audio[finishing.n] # "none"
  /\ cancelling.on = "answer" => closing[cancelling.n]["cancelled"] # "none"
  /\ resolving.on = "answer" => closing[resolving.n]["resolved"] # "none"

LEMMA TypeParts == TypeOK <=> ScreenType /\ SendType /\ ServerType /\ WaitsType
  BY DEF TypeOK, ScreenType, SendType, ServerType, WaitsType

LEMMA PrimedParts == ScreenType' /\ SendType' /\ ServerType' /\ WaitsType' => TypeOK'
  BY DEF TypeOK, ScreenType, SendType, ServerType, WaitsType

\* What was asked for stays so: no send becomes free again, no request unasked.
Onward ==
  /\ \A n \in Sends : send[n].pc # "free" => send'[n].pc # "free"
  /\ \A n \in Sends : audio[n] # "none" => audio'[n] # "none"
  /\ \A n \in Sends, k \in Kinds : closing[n][k] # "none" => closing'[n][k] # "none"

\* So a function that goes on awaiting may do so.
LEMMA WaitsStay ==
  ASSUME ScreenType, WaitsType, Onward, UNCHANGED waits, promise' \in {promise, None}
  PROVE  WaitsType'
<1>1. \A w \in {finishing, cancelling, resolving} : WaitsOk(w) => WaitsOk(w)'
  BY DEF WaitsOk, Onward, Waits, waits
<1>2. finishing.on = "answer" => finishing.n \in Sends
  BY DEF WaitsType, WaitsOk
<1>3. cancelling.on = "answer" => cancelling.n \in Sends
  BY DEF WaitsType, WaitsOk
<1>4. resolving.on = "answer" => resolving.n \in Sends
  BY DEF WaitsType, WaitsOk
<1> QED
  BY <1>1, <1>2, <1>3, <1>4 DEF WaitsType, WaitsOk, Onward, waits, Kinds, ScreenType

\* A send that is given a well-formed record.
LEMMA SendStep ==
  ASSUME SendType, NEW n \in Sends, NEW r \in SendRecords, r.pc # "free",
         send' = [send EXCEPT ![n] = r]
  PROVE  /\ SendType'
         /\ \A m \in Sends : send[m].pc # "free" => send'[m].pc # "free"
  BY DEF SendType

\* At goes on to another step of the handler.
LEMMA AtStep ==
  ASSUME SendType, NEW n \in Sends, NEW from, NEW to, At(n, from, to),
         to \in {"locating", "asked", "chosen", "inserted", "delivered", "told", "end"}
  PROVE  /\ SendType'
         /\ \A m \in Sends : send[m].pc # "free" => send'[m].pc # "free"
  BY DEF SendType, SendRecords, At

\* A counted fault stays within the bound.
LEMMA FaultType == ASSUME faults \in 0 .. MaxFaults, Fault PROVE faults' \in 0 .. MaxFaults
  BY SosAssumption DEF Fault

LEMMA SettledType ==
  ASSUME faults \in 0 .. MaxFaults, NEW step, Settled(step) PROVE faults' \in 0 .. MaxFaults
  BY FaultType DEF Settled

\* The screen that is left: its sends stay well formed.
LEMMA LeftType ==
  ASSUME SendType, NEW f \in [Sends -> {"locating", "asked", "chosen", "inserted",
                                        "delivered", "told", "end", "free"}],
         \A n \in Sends : f[n] = "free" <=> send[n].pc = "free",
         send' = [n \in Sends |-> Left(n, f[n])]
  PROVE  /\ SendType'
         /\ \A m \in Sends : send[m].pc # "free" => send'[m].pc # "free"
  BY DEF SendType, SendRecords, Left

\* A request to end an SOS moves on.
LEMMA ClosingStep ==
  ASSUME ServerType, NEW n \in Sends, NEW k \in Kinds, NEW step \in CallSteps, step # "none",
         closing' = [closing EXCEPT ![n][k] = step]
  PROVE  /\ closing' \in [Sends -> [Kinds -> CallSteps]]
         /\ \A m \in Sends, j \in Kinds : closing[m][j] # "none" => closing'[m][j] # "none"
         /\ closing'[n][k] = step
<1>1. closing[n] \in [Kinds -> CallSteps]
  BY DEF ServerType
<1>2. [closing[n] EXCEPT ![k] = step] \in [Kinds -> CallSteps]
  BY <1>1
<1>3. closing' = [closing EXCEPT ![n] = [closing[n] EXCEPT ![k] = step]]
  OBVIOUS
<1>4. closing' \in [Sends -> [Kinds -> CallSteps]]
  BY <1>2, <1>3 DEF ServerType
<1>5. closing'[n] = [closing[n] EXCEPT ![k] = step]
      /\ \A m \in Sends : m # n => closing'[m] = closing[m]
  BY <1>3 DEF ServerType
<1>6. \A j \in Kinds : j # k => closing'[n][j] = closing[n][j]
  BY <1>1, <1>5
<1>7. closing'[n][k] = step
  BY <1>1, <1>5
<1> QED
  BY <1>4, <1>5, <1>6, <1>7

EventRecords == [status: {"none", "sent"} \cup Kinds, to: SUBSET Friends,
                 monitoring: BOOLEAN, audio: BOOLEAN]

LEMMA EventStep ==
  ASSUME event \in [Sends -> EventRecords], NEW n \in Sends,
         \/ \E k \in Kinds : event' = [event EXCEPT ![n].status = k]
         \/ event' = [event EXCEPT ![n].audio = TRUE]
         \/ UNCHANGED event
  PROVE  event' \in [Sends -> EventRecords]
<1>1. event[n] \in EventRecords
  OBVIOUS
<1>2. \A k \in Kinds : [event[n] EXCEPT !.status = k] \in EventRecords
  BY <1>1 DEF EventRecords
<1>3. [event[n] EXCEPT !.audio = TRUE] \in EventRecords
  BY <1>1 DEF EventRecords
<1>4. ASSUME NEW k \in Kinds, event' = [event EXCEPT ![n].status = k]
      PROVE  event' \in [Sends -> EventRecords]
  BY <1>2, <1>4
<1>5. CASE event' = [event EXCEPT ![n].audio = TRUE]
  BY <1>3, <1>5
<1> QED
  BY <1>4, <1>5

LEMMA LeftSend ==
  ASSUME SendType, send' = [n \in Sends |-> Left(n, send[n].pc)]
  PROVE  /\ SendType'
         /\ \A m \in Sends : send[m].pc # "free" => send'[m].pc # "free"
  BY DEF SendType, SendRecords, Left

LEMMA FreshType == ASSUME ScreenType, FreshScreen, faults' \in 0 .. MaxFaults PROVE ScreenType'
  BY DEF ScreenType, FreshScreen

----------------------------------------------------------------------------

LEMMA Bounds == MaxPress \in Nat /\ MaxFaults \in Nat
  BY SosAssumption

LEMMA InitType == Init => TypeOK
<1> SUFFICES ASSUME Init PROVE TypeOK
  OBVIOUS
<1>0. press \in 0 .. MaxPress /\ faults \in 0 .. MaxFaults
  BY Bounds DEF Init
<1>1. ScreenType
  BY <1>0 DEF Init, ScreenType
<1>2. SendType
  BY SosAssumption DEF Init, SendType, SendRecords
<1>3. ServerType
  BY DEF Init, ServerType, CallSteps
<1>4. WaitsType
  BY DEF Init, WaitsType, WaitsOk, Waits, NoWait, None
<1> QED
  BY <1>1, <1>2, <1>3, <1>4, TypeParts

\* The steps of the screen keep the types.
LEMMA ScreenKeepsType ==
  ASSUME TypeOK, UserNext \/ ScreenNext \/ Killed
  PROVE  TypeOK'
<1>0. ScreenType /\ SendType /\ ServerType /\ WaitsType
  BY TypeParts
<1>a. ASSUME Start PROVE TypeOK'
  <2>0. press' \in 0 .. MaxPress
    BY <1>0, <1>a, Bounds DEF ScreenType, Start
  <2>1. ScreenType'
    BY <1>0, <1>a, <2>0 DEF ScreenType, Start
  <2>2. SendType' /\ ServerType'
    BY <1>0, <1>a DEF SendType, ServerType, Start, server
  <2>3. Onward /\ UNCHANGED <<waits, promise>>
    BY <1>a DEF Onward, Start, server
  <2> QED
    BY <1>0, <2>1, <2>2, <2>3, WaitsStay, PrimedParts
<1>b. ASSUME NEW n \in Sends, CountdownEnds(n) PROVE TypeOK'
  <2>1. ScreenType'
    BY <1>0, <1>b DEF ScreenType, CountdownEnds
  <2>2. /\ SendType'
        /\ \A m \in Sends : send[m].pc # "free" => send'[m].pc # "free"
        /\ send'[n].pc # "free"
    BY <1>0, <1>b, SendStep DEF SendType, SendRecords, CountdownEnds, SendLocation, ScreenType
  <2>3. ServerType'
    BY <1>0, <1>b DEF ServerType, CountdownEnds, server
  <2>4. Onward
    BY <1>b, <2>2 DEF Onward, CountdownEnds, server
  <2>5. WaitsType'
    <3>1. CASE UNCHANGED finishing
      BY <1>0, <1>b, <2>2, <2>4, <3>1 DEF WaitsType, WaitsOk, Onward, CountdownEnds, Kinds
    <3>2. CASE finishing' = Wait("send", n, FALSE)
      <4>1. WaitsOk(finishing)'
        BY <2>2, <3>2 DEF WaitsOk, Waits, Wait
      <4> QED
        BY <1>0, <1>b, <2>4, <3>2, <4>1 
           DEF WaitsType, WaitsOk, Onward, CountdownEnds, Wait, server, Kinds
    <3> QED
      BY <1>b, <3>1, <3>2 DEF CountdownEnds
  <2> QED
    BY <2>1, <2>2, <2>3, <2>5, PrimedParts
<1>c. ASSUME Recording PROVE TypeOK'
  <2>1. ScreenType' /\ SendType' /\ ServerType' /\ Onward /\ UNCHANGED <<waits, promise>>
    BY <1>0, <1>c DEF ScreenType, SendType, ServerType, Onward, Recording, server
  <2> QED
    BY <1>0, <2>1, WaitsStay, PrimedParts
<1>d. ASSUME RecordingEnds \/ RecordingFails PROVE TypeOK'
  <2>1. PICK n \in Sends, recorded \in BOOLEAN :
          /\ finishing' = Wait("send", n, recorded)
          /\ IF promise = None THEN SendLocation(n) ELSE n = promise /\ UNCHANGED send
    BY <1>d DEF RecordingEnds, RecordingFails, Finish
  <2>2. ScreenType'
    BY <1>0, <1>d DEF ScreenType, RecordingEnds, RecordingFails, Finish
  <2>3. /\ SendType'
        /\ \A m \in Sends : send[m].pc # "free" => send'[m].pc # "free"
    BY <1>0, <2>1, SendStep DEF SendType, SendRecords, SendLocation, ScreenType
  <2>4. ServerType'
    BY <1>0, <1>d DEF ServerType, RecordingEnds, RecordingFails, server
  <2>5. Onward
    BY <1>d, <2>3 DEF Onward, RecordingEnds, RecordingFails, server
  <2>6. send'[n].pc # "free"
    <3>1. CASE promise = None
      BY <1>0, <2>1, <3>1 DEF SendLocation, SendType
    <3>2. CASE promise # None
      BY <1>0, <2>1, <3>2 DEF WaitsType
    <3> QED
      BY <3>1, <3>2
  <2>7. WaitsOk(finishing)'
    BY <2>1, <2>6 DEF WaitsOk, Waits, Wait
  <2>8. WaitsType'
    BY <1>0, <1>d, <2>1, <2>5, <2>7 
       DEF WaitsType, WaitsOk, Onward, Wait, Kinds, RecordingEnds, RecordingFails, ScreenType
  <2> QED
    BY <2>2, <2>3, <2>4, <2>8, PrimedParts
<1>e. ASSUME FinishSent PROVE TypeOK'
  <2> DEFINE n == finishing.n
  <2>1. n \in Sends /\ finishing.on = "send"
    BY <1>0, <1>e DEF WaitsType, WaitsOk, FinishSent
  <2>2. ScreenType'
    BY <1>0, <1>e DEF ScreenType, FinishSent, AfterSend
  <2>3. SendType'
    BY <1>0, <1>e DEF SendType, FinishSent
  <2>4. audio' \in [Sends -> CallSteps] /\ \A m \in Sends : audio[m] # "none" => audio'[m] # "none"
    BY <1>0, <1>e, <2>1 DEF FinishSent, ServerType, CallSteps
  <2>5. ServerType' /\ Onward
    BY <1>0, <1>e, <2>4 DEF FinishSent, ServerType, Onward
  <2>6. CASE finishing' = NoWait
    <3>1. WaitsOk(finishing)' /\ finishing'.on = "none"
      BY <2>6 DEF WaitsOk, Waits, NoWait
    <3>2. WaitsType'
      BY <1>0, <1>e, <2>5, <3>1 DEF WaitsType, WaitsOk, Onward, FinishSent, Kinds
    <3> QED
      BY <2>2, <2>3, <2>5, <3>2, PrimedParts
  <2>7. CASE finishing' = Wait("answer", n, TRUE) /\ audio' = [audio EXCEPT ![n] = "asked"]
    <3>1. WaitsOk(finishing)' /\ audio'[finishing'.n] # "none"
      BY <1>0, <2>1, <2>7 DEF WaitsOk, Waits, Wait, ServerType
    <3>2. WaitsType'
      BY <1>0, <1>e, <2>5, <3>1 DEF WaitsType, WaitsOk, Onward, FinishSent, Kinds
    <3> QED
      BY <2>2, <2>3, <2>5, <3>2, PrimedParts
  <2> QED
    BY <1>e, <2>6, <2>7 DEF FinishSent
<1>f. ASSUME FinishAttached PROVE TypeOK'
  <2>1. faults' \in 0 .. MaxFaults
    BY <1>0, <1>f, SettledType DEF ScreenType, FinishAttached, AudioSettled
  <2>2. ScreenType' /\ SendType' /\ ServerType' /\ Onward
    BY <1>0, <1>f, <2>1 DEF ScreenType, SendType, ServerType, Onward, FinishAttached, server
  <2>3. WaitsOk(finishing)' /\ finishing'.on = "none"
    BY <1>f DEF WaitsOk, Waits, NoWait, FinishAttached
  <2>4. WaitsType'
    BY <1>0, <1>f, <2>2, <2>3 DEF WaitsType, WaitsOk, Onward, FinishAttached, server, Kinds
  <2> QED
    BY <2>2, <2>4, PrimedParts
<1>g. ASSUME Cancel PROVE TypeOK'
  <2>1. ScreenType'
    BY <1>0, <1>g DEF ScreenType, Cancel, TimerAfterCancel
  <2>2. SendType' /\ ServerType' /\ Onward
    BY <1>0, <1>g DEF SendType, ServerType, Onward, Cancel, server
  <2>3. CASE UNCHANGED cancelling
    BY <1>0, <1>g, <2>1, <2>2, <2>3, WaitsStay, PrimedParts DEF Cancel, waits
  <2>4. CASE promise # None /\ cancelling' = Wait("send", promise, FALSE)
    <3>1. WaitsOk(cancelling)' /\ cancelling'.on = "send"
      BY <1>0, <1>g, <2>4 DEF WaitsOk, Waits, Wait, WaitsType, ScreenType, Cancel
    <3>2. WaitsType'
      BY <1>0, <1>g, <2>2, <3>1 DEF WaitsType, WaitsOk, Onward, Cancel, server, Kinds
    <3> QED
      BY <2>1, <2>2, <3>2, PrimedParts
  <2> QED
    BY <1>g, <2>3, <2>4 DEF Cancel, AwaitedByCancel
<1>h. ASSUME CancelSent PROVE TypeOK'
  <2> DEFINE n == cancelling.n
  <2>1. n \in Sends /\ cancelling.on = "send"
    BY <1>0, <1>h DEF WaitsType, WaitsOk, CancelSent
  <2>2. ScreenType'
    BY <1>0, <1>h DEF ScreenType, CancelSent
  <2>3. SendType'
    BY <1>0, <1>h DEF SendType, CancelSent
  <2>4. /\ closing' \in [Sends -> [Kinds -> CallSteps]]
        /\ \A m \in Sends, k \in Kinds : closing[m][k] # "none" => closing'[m][k] # "none"
    <3>1. "cancelled" \in Kinds /\ "asked" \in CallSteps
      BY DEF Kinds, CallSteps
    <3>2. UNCHANGED closing \/ closing' = [closing EXCEPT ![n]["cancelled"] = "asked"]
      BY <1>h DEF CancelSent, AskEnd
    <3>3. CASE UNCHANGED closing
      BY <1>0, <3>3 DEF ServerType
    <3> QED
      BY <1>0, <2>1, <3>1, <3>2, <3>3, ClosingStep
  <2>5. ServerType' /\ Onward
    BY <1>0, <1>h, <2>4 DEF CancelSent, ServerType, Onward
  <2>6. CASE cancelling' = NoWait
    <3>1. WaitsOk(cancelling)' /\ cancelling'.on = "none"
      BY <2>6 DEF WaitsOk, Waits, NoWait
    <3>2. WaitsType'
      BY <1>0, <1>h, <2>5, <3>1 DEF WaitsType, WaitsOk, Onward, CancelSent, Kinds
    <3> QED
      BY <2>2, <2>3, <2>5, <3>2, PrimedParts
  <2>7. CASE cancelling' = Wait("answer", n, FALSE) /\ AskEnd(n, "cancelled")
    <3>1. WaitsOk(cancelling)' /\ closing'[cancelling'.n]["cancelled"] # "none"
      BY <1>0, <2>1, <2>7 DEF WaitsOk, Waits, Wait, AskEnd, ServerType, Kinds
    <3>2. WaitsType'
      BY <1>0, <1>h, <2>5, <3>1 DEF WaitsType, WaitsOk, Onward, CancelSent, Kinds
    <3> QED
      BY <2>2, <2>3, <2>5, <3>2, PrimedParts
  <2> QED
    BY <1>h, <2>6, <2>7 DEF CancelSent
<1>i. ASSUME CancelEnds PROVE TypeOK'
  <2>1. faults' \in 0 .. MaxFaults
    BY <1>0, <1>i, SettledType DEF ScreenType, CancelEnds
  <2>2. ScreenType' /\ SendType' /\ ServerType' /\ Onward
    BY <1>0, <1>i, <2>1 DEF ScreenType, SendType, ServerType, Onward, CancelEnds, server
  <2>3. WaitsOk(cancelling)' /\ cancelling'.on = "none"
    BY <1>i DEF WaitsOk, Waits, NoWait, CancelEnds
  <2>4. WaitsType'
    BY <1>0, <1>i, <2>2, <2>3 DEF WaitsType, WaitsOk, Onward, CancelEnds, server, Kinds
  <2> QED
    BY <2>2, <2>4, PrimedParts
<1>j. ASSUME Resolve PROVE TypeOK'
  <2>1. CASE sosId = None
    <3>1. ScreenType'
      BY <1>0, <1>j, <2>1, FreshType DEF Resolve, ScreenType
    <3>2. SendType' /\ \A m \in Sends : send[m].pc # "free" => send'[m].pc # "free"
      BY <1>0, <1>j, <2>1, LeftSend DEF Resolve
    <3>3. ServerType' /\ Onward
      BY <1>0, <1>j, <2>1, <3>2 DEF ServerType, Onward, Resolve
    <3>4. UNCHANGED waits /\ promise' \in {promise, None}
      BY <1>j, <2>1 DEF Resolve, FreshScreen, waits
    <3> QED
      BY <1>0, <3>1, <3>2, <3>3, <3>4, WaitsStay, PrimedParts
  <2>2. CASE sosId # None
    <3>1. ScreenType' /\ SendType' /\ sosId \in Sends
      BY <1>0, <1>j, <2>2 DEF ScreenType, SendType, Resolve, screen
    <3>2. /\ closing' \in [Sends -> [Kinds -> CallSteps]]
          /\ \A m \in Sends, k \in Kinds : closing[m][k] # "none" => closing'[m][k] # "none"
          /\ closing'[sosId]["resolved"] # "none"
      <4>1. "resolved" \in Kinds /\ "asked" \in CallSteps
        BY DEF Kinds, CallSteps
      <4> QED
        BY <1>0, <1>j, <2>2, <3>1, <4>1, ClosingStep DEF Resolve, AskEnd
    <3>3. ServerType' /\ Onward
      BY <1>0, <1>j, <2>2, <3>2 DEF ServerType, Onward, Resolve
    <3>a. resolving' = Wait("answer", sosId, FALSE)
      BY <1>j, <2>2 DEF Resolve
    <3>b. resolving'.n = sosId /\ resolving'.on = "answer" /\ resolving' \in Waits
      BY <3>1, <3>a DEF Waits, Wait
    <3>4. WaitsOk(resolving)' /\ closing'[resolving'.n]["resolved"] # "none"
      BY <3>1, <3>2, <3>b DEF WaitsOk
    <3>5. WaitsType'
      BY <1>0, <1>j, <2>2, <3>3, <3>4 DEF WaitsType, WaitsOk, Onward, Resolve, screen, Kinds
    <3> QED
      BY <3>1, <3>3, <3>5, PrimedParts
  <2> QED
    BY <2>1, <2>2
<1>k. ASSUME ResolveEnds PROVE TypeOK'
  <2>1. faults' \in 0 .. MaxFaults
    BY <1>0, <1>k, SettledType DEF ScreenType, ResolveEnds
  <2>2. ScreenType'
    BY <1>0, <1>k, <2>1, FreshType DEF ResolveEnds
  <2>3. SendType' /\ \A m \in Sends : send[m].pc # "free" => send'[m].pc # "free"
    BY <1>0, <1>k, LeftSend DEF ResolveEnds
  <2>4. ServerType' /\ Onward
    BY <1>0, <1>k, <2>3 DEF ServerType, Onward, ResolveEnds, server
  <2>5. WaitsOk(resolving)' /\ resolving'.on = "none"
    BY <1>k DEF WaitsOk, Waits, NoWait, ResolveEnds
  <2>6. promise' = None
    BY <1>k DEF ResolveEnds, FreshScreen
  <2>7. WaitsType'
    BY <1>0, <1>k, <2>4, <2>5, <2>6 DEF WaitsType, WaitsOk, Onward, ResolveEnds, server, Kinds
  <2> QED
    BY <2>2, <2>3, <2>4, <2>7, PrimedParts
<1>l. ASSUME Leave PROVE TypeOK'
  <2>1. ScreenType'
    BY <1>0, <1>l, FreshType DEF Leave, ScreenType
  <2>2. SendType' /\ \A m \in Sends : send[m].pc # "free" => send'[m].pc # "free"
    BY <1>0, <1>l, LeftSend DEF Leave
  <2>3. ServerType' /\ Onward
    BY <1>0, <1>l, <2>2 DEF ServerType, Onward, Leave, server
  <2>4. UNCHANGED waits /\ promise' = None
    BY <1>l DEF Leave, FreshScreen
  <2> QED
    BY <1>0, <2>1, <2>2, <2>3, <2>4, WaitsStay, PrimedParts
<1>m. ASSUME Killed PROVE TypeOK'
  <2>1. ScreenType'
    BY <1>0, <1>m, FaultType, FreshType DEF Killed, ScreenType
  <2> DEFINE f == [n \in Sends |-> IF send[n].pc = "locating" THEN "end" ELSE send[n].pc]
  <2>2. f \in [Sends -> {"locating", "asked",
                         "chosen", "inserted", "delivered", "told", "end", "free"}]
    BY <1>0 DEF SendType, SendRecords
  <2>3. \A n \in Sends : f[n] = "free" <=> send[n].pc = "free"
    BY <1>0 DEF SendType, SendRecords
  <2>4. send' = [n \in Sends |-> Left(n, f[n])]
    BY <1>m DEF Killed
  <2>5. SendType' /\ \A m \in Sends : send[m].pc # "free" => send'[m].pc # "free"
    <3> HIDE DEF f
    <3> QED
      BY <1>0, <2>2, <2>3, <2>4, LeftType
  <2>6. ServerType'
    BY <1>0, <1>m DEF ServerType, Killed, server
  <2>7. WaitsType'
    BY <1>m DEF WaitsType, WaitsOk, Waits, NoWait, Killed, FreshScreen
  <2> QED
    BY <2>1, <2>5, <2>6, <2>7, PrimedParts
<1> QED
  BY <1>a, <1>b, <1>c, <1>d, <1>e, <1>f, <1>g, <1>h, <1>i, <1>j, <1>k, <1>l, <1>m
     DEF UserNext, ScreenNext

\* The steps of the server keep the types; they leave the functions of the
\* screen alone.
LEMMA ServerKeepsType ==
  ASSUME TypeOK, NEW n \in Sends, Handle(n) \/ Failures(n)
  PROVE  TypeOK'
<1>0. ScreenType /\ SendType /\ ServerType /\ WaitsType
  BY TypeParts
<1>1. SUFFICES ASSUME UNCHANGED <<waits, promise>>
               PROVE  ScreenType' /\ SendType' /\ ServerType' /\ Onward
  <2>1. UNCHANGED <<waits, promise>>
    BY DEF Handle, Failures, Located, Choose, InsertEvent, InsertDeliveries, DeliveriesFail,
           Notify, Answer, AnswerApp, CloseRow, TellEnd, AttachAudio, TellAudio, SendLost,
           SendDies, AudioLost, CloseLost, screen
  <2> QED
    BY <1>0, <1>1, <2>1, WaitsStay, PrimedParts
<1>a. ASSUME NEW result \in {"ok", "failed", "offline"}, AnswerApp(n, result),
             send[n].pc # "free", UNCHANGED <<server, accounts>>, faults' \in 0 .. MaxFaults
      PROVE  ScreenType' /\ SendType' /\ ServerType' /\ Onward
  <2>1. SendType' /\ \A m \in Sends : send[m].pc # "free" => send'[m].pc # "free"
    BY <1>0, <1>a, SendStep DEF AnswerApp, SendType, SendRecords
  <2>2. press' \in 0 .. MaxPress
    BY <1>0, <1>a DEF AnswerApp, ScreenType
  <2>3. ScreenType'
    BY <1>0, <1>a, <2>2 DEF AnswerApp, ScreenType, KnownId
  <2> QED
    BY <1>0, <1>a, <2>1, <2>3 DEF ServerType, Onward, server
<1>b. ASSUME Located(n) \/ (\E to \in SUBSET Friends : Choose(n, to)) \/ InsertEvent(n)
             \/ InsertDeliveries(n) \/ Notify(n)
      PROVE  ScreenType' /\ SendType' /\ ServerType' /\ Onward
  <2>1. SendType' /\ \A m \in Sends : send[m].pc # "free" => send'[m].pc # "free"
    <3>1. CASE \E to \in SUBSET Friends : Choose(n, to)
      BY <1>0, <3>1, SendStep DEF Choose, SendType, SendRecords
    <3>2. CASE Located(n)
      BY <1>0, <3>2, AtStep DEF Located
    <3>3. CASE InsertEvent(n)
      BY <1>0, <3>3, AtStep DEF InsertEvent
    <3>4. CASE InsertDeliveries(n)
      BY <1>0, <3>4, AtStep DEF InsertDeliveries
    <3>5. CASE Notify(n)
      BY <1>0, <3>5, AtStep DEF Notify
    <3> QED
      BY <1>b, <3>1, <3>2, <3>3, <3>4, <3>5
  <2>2. ScreenType'
    BY <1>0, <1>b DEF ScreenType, Located, Choose, InsertEvent, InsertDeliveries, Notify, screen
  <2>3. ServerType'
    <3>1. send[n].to \in SUBSET Friends /\ ToMonitoring(n) \in BOOLEAN
      BY <1>0 DEF SendType, SendRecords, ToMonitoring
    <3>2. CASE Located(n) \/ \E to \in SUBSET Friends : Choose(n, to)
      BY <1>0, <3>2 DEF ServerType, Located, Choose, server
    <3>3. CASE InsertEvent(n)
      BY <1>0, <3>1, <3>3 DEF ServerType, InsertEvent
    <3>4. CASE InsertDeliveries(n)
      BY <1>0, <3>1, <3>4 DEF ServerType, InsertDeliveries
    <3>5. CASE Notify(n)
      BY <1>0, <3>1, <3>5 DEF ServerType, Notify
    <3> QED
      BY <1>b, <3>2, <3>3, <3>4, <3>5
  <2> QED
    BY <1>b, <2>1, <2>2, <2>3 
       DEF Onward, Located, Choose, InsertEvent, InsertDeliveries, Notify, server
<1>c. ASSUME DeliveriesFail(n) PROVE ScreenType' /\ SendType' /\ ServerType' /\ Onward
  BY <1>0, <1>a, <1>c DEF DeliveriesFail, ScreenType
<1>d. ASSUME Answer(n) PROVE ScreenType' /\ SendType' /\ ServerType' /\ Onward
  BY <1>0, <1>a, <1>d DEF Answer, Ready, ScreenType
<1>e. ASSUME SendDies(n) PROVE ScreenType' /\ SendType' /\ ServerType' /\ Onward
  <2>1. faults' \in 0 .. MaxFaults
    BY <1>0, <1>e, FaultType DEF SendDies, ScreenType
  <2> QED
    BY <1>a, <1>e, <2>1 DEF SendDies
<1>f. ASSUME SendLost(n) PROVE ScreenType' /\ SendType' /\ ServerType' /\ Onward
  <2>1. faults' \in 0 .. MaxFaults
    BY <1>0, <1>f, FaultType DEF SendLost, ScreenType
  <2>2. SendType' /\ \A m \in Sends : send[m].pc # "free" => send'[m].pc # "free"
    BY <1>0, <1>f, SendStep DEF SendLost, SendType, SendRecords
  <2>3. press' \in 0 .. MaxPress
    BY <1>0, <1>f DEF SendLost, ScreenType, screen
  <2>4. ScreenType'
    BY <1>0, <1>f, <2>1, <2>3 DEF SendLost, ScreenType, screen
  <2> QED
    BY <1>0, <1>f, <2>2, <2>4 DEF SendLost, ServerType, Onward, server
<1>g. ASSUME NEW kind \in Kinds, CloseRow(n, kind) \/ TellEnd(n, kind) \/ CloseLost(n, kind)
      PROVE  ScreenType' /\ SendType' /\ ServerType' /\ Onward
  <2>1. faults' \in 0 .. MaxFaults
    BY <1>0, <1>g, FaultType DEF CloseRow, TellEnd, CloseLost, ScreenType
  <2>2. press' \in 0 .. MaxPress
    BY <1>0, <1>g DEF CloseRow, TellEnd, CloseLost, ScreenType, screen
  <2>3. ScreenType' /\ SendType'
    BY <1>0, <1>g, <2>1, <2>2 DEF CloseRow, TellEnd, CloseLost, ScreenType, SendType, screen
  <2>4. /\ closing' \in [Sends -> [Kinds -> CallSteps]]
        /\ \A m \in Sends, k \in Kinds : closing[m][k] # "none" => closing'[m][k] # "none"
    <3>1. {"telling", "answered", "gone"} \subseteq CallSteps
      BY DEF CallSteps
    <3>2. \E step \in {"telling", "answered", "gone"} :
            closing' = [closing EXCEPT ![n][kind] = step]
      BY <1>g DEF CloseRow, TellEnd, CloseLost
    <3> QED
      BY <1>0, <3>1, <3>2, ClosingStep
  <2>5. event' \in [Sends -> [status: {"none", "sent"} \cup Kinds, to: SUBSET Friends,
                              monitoring: BOOLEAN, audio: BOOLEAN]]
    <3>1. UNCHANGED event \/ event' = [event EXCEPT ![n].status = kind]
      BY <1>g DEF CloseRow, TellEnd, CloseLost
    <3> QED
      BY <1>0, <3>1, EventStep DEF ServerType, EventRecords
  <2>6. calmed' \in [Sends -> SUBSET Friends]
    BY <1>0, <1>g DEF CloseRow, TellEnd, CloseLost, ServerType, ToldOfEnd
  <2>7. UNCHANGED <<send, audio, alarmed, accounts>>
    BY <1>g DEF CloseRow, TellEnd, CloseLost
  <2> QED
    BY <1>0, <2>3, <2>4, <2>5, <2>6, <2>7 DEF ServerType, Onward
<1>h. ASSUME AttachAudio(n) \/ TellAudio(n) \/ AudioLost(n)
      PROVE  ScreenType' /\ SendType' /\ ServerType' /\ Onward
  <2>1. faults' \in 0 .. MaxFaults
    BY <1>0, <1>h, FaultType DEF AttachAudio, TellAudio, AudioLost, ScreenType
  <2>2. press' \in 0 .. MaxPress
    BY <1>0, <1>h DEF AttachAudio, TellAudio, AudioLost, ScreenType, screen
  <2>3. ScreenType' /\ SendType'
    BY <1>0, <1>h, <2>1, <2>2 DEF AttachAudio, TellAudio, AudioLost, ScreenType, SendType, screen
  <2>4. /\ audio' \in [Sends -> CallSteps]
        /\ \A m \in Sends : audio[m] # "none" => audio'[m] # "none"
    BY <1>0, <1>h DEF AttachAudio, TellAudio, AudioLost, ServerType, CallSteps
  <2>5. event' \in [Sends -> [status: {"none", "sent"} \cup Kinds, to: SUBSET Friends,
                              monitoring: BOOLEAN, audio: BOOLEAN]]
    <3>1. UNCHANGED event \/ event' = [event EXCEPT ![n].audio = TRUE]
      BY <1>h DEF AttachAudio, TellAudio, AudioLost
    <3> QED
      BY <1>0, <3>1, EventStep DEF ServerType, EventRecords
  <2>6. UNCHANGED <<send, closing, alarmed, calmed, accounts>>
    BY <1>h DEF AttachAudio, TellAudio, AudioLost
  <2> QED
    BY <1>0, <2>3, <2>4, <2>5, <2>6 DEF ServerType, Onward
<1> QED
  BY <1>b, <1>c, <1>d, <1>e, <1>f, <1>g, <1>h DEF Handle, Failures

LEMMA WithdrawKeepsType == ASSUME TypeOK, NEW f \in Friends, Withdraw(f) PROVE TypeOK'
<1>0. ScreenType /\ SendType /\ ServerType /\ WaitsType
  BY TypeParts
<1>1. press' \in 0 .. MaxPress /\ faults' \in 0 .. MaxFaults
  BY <1>0 DEF ScreenType, Withdraw, screen
<1>2. ScreenType' /\ SendType'
  BY <1>0, <1>1 DEF ScreenType, SendType, Withdraw, screen
<1>3. ServerType'
  BY <1>0 DEF ServerType, Withdraw
<1>4. Onward /\ UNCHANGED <<waits, promise>>
  BY DEF Onward, Withdraw, screen
<1> QED
  BY <1>0, <1>2, <1>3, <1>4, WaitsStay, PrimedParts

LEMMA StepType == TypeOK /\ [Next]_vars => TypeOK'
<1> SUFFICES ASSUME TypeOK, [Next]_vars PROVE TypeOK'
  OBVIOUS
<1>1. CASE UNCHANGED vars
  <2>1. UNCHANGED <<phase, press, timer, mic, promise, sosId, banner, faults>>
        /\ UNCHANGED <<send, event, closing, audio, accounts, alarmed, calmed>>
        /\ UNCHANGED <<finishing, cancelling, resolving>>
    BY <1>1 DEF vars, screen, waits, server
  <2> QED
    BY <2>1 DEF TypeOK, WaitsOk
<1>2. CASE UserNext \/ ScreenNext \/ Killed
  BY <1>2, ScreenKeepsType
<1>3. CASE \E n \in Sends : Handle(n) \/ Failures(n)
  BY <1>3, ServerKeepsType
<1>4. CASE \E f \in Friends : Withdraw(f)
  BY <1>4, WithdrawKeepsType
<1> QED
  BY <1>1, <1>2, <1>3, <1>4 DEF Next

\* Types hold, and a function of the screen only ever awaits something that was
\* asked for.
THEOREM TypeCorrect == Spec => []TypeOK
<1>1. Init => TypeOK
  BY InitType
<1>2. TypeOK /\ [Next]_vars => TypeOK'
  BY StepType
<1> QED
  BY <1>1, <1>2, PTL DEF Spec
----------------------------------------------------------------------------
(* What the handler of a send has done so far.                             *)

SafeSend(n) ==
  /\ send[n].pc \in {"free", "locating", "asked", "chosen", "inserted"} => event[n].to = {}
  /\ send[n].pc \notin {"told", "end"} => alarmed[n] = {}
  /\ event[n].to \subseteq send[n].to
  /\ send[n].pc = "told" => alarmed[n] = send[n].to
  /\ send[n].pc = "inserted" => event[n].monitoring = (send[n].to = {})
  /\ send[n].pc \in {"delivered", "told"} => send[n].to # {}
  /\ send[n].result = "ok" =>
       /\ send[n].pc = "end"
       /\ alarmed[n] = send[n].to
       /\ send[n].to = {} => event[n].monitoring
  /\ calmed[n] \subseteq alarmed[n]
  /\ \A k \in Kinds : closing[n][k] # "none" => send[n].result = "ok"

SafeInv ==
  /\ \A n \in Sends : SafeSend(n)
  /\ sosId # None => send[sosId].result = "ok"

\* It implies both properties.
LEMMA SafeEnough == ASSUME SafeInv PROVE AlarmComesFirst /\ SentReachesSomebody
  BY DEF SafeInv, SafeSend, AlarmComesFirst, SentReachesSomebody

LEMMA SafeInit == Init => SafeInv
  BY DEF Init, SafeInv, SafeSend, Sends, None

\* A screen that is left loses no answer that came.
LEMMA SafeLeft ==
  ASSUME TypeOK, SafeInv, FreshScreen, UNCHANGED <<event, closing, alarmed, calmed>>,
         NEW f,
         \A n \in Sends : f[n] = send[n].pc \/ (send[n].pc = "locating" /\ f[n] = "end"),
         send' = [n \in Sends |-> Left(n, f[n])]
  PROVE  SafeInv'
<1>1. \A n \in Sends : /\ send'[n].pc = f[n]
                       /\ send'[n].to = send[n].to
                       /\ send[n].result = "ok" => send'[n].result = "ok"
                       /\ send'[n].result = "ok" => send[n].result = "ok"
  BY DEF Left
<1>2. ASSUME NEW n \in Sends PROVE SafeSend(n)'
  BY <1>1 DEF SafeInv, SafeSend
<1> QED
  BY <1>2 DEF SafeInv, FreshScreen

\* The steps of the screen keep it: only an SOS whose answer came is ended.
LEMMA ScreenKeepsSafe ==
  ASSUME TypeOK, SafeInv, UserNext \/ ScreenNext \/ Killed
  PROVE  SafeInv'
<1>0. /\ \A n \in Sends : SafeSend(n)
      /\ sosId # None => send[sosId].result = "ok"
      /\ sosId \in Sends \cup {None}
      /\ closing \in [Sends -> [Kinds -> CallSteps]]
      /\ send \in [Sends -> SendRecords]
  BY DEF SafeInv, TypeOK
<1>1. ASSUME UNCHANGED <<send, event, closing, alarmed, calmed, sosId>> PROVE SafeInv'
  BY <1>0, <1>1 DEF SafeInv, SafeSend
<1>2. ASSUME NEW n \in Sends, SendLocation(n), UNCHANGED <<event, closing, alarmed, calmed, sosId>>
      PROVE  SafeInv'
  <2>1. /\ send'[n].pc = "locating" /\ send'[n].to = {} /\ send'[n].result = "none"
        /\ \A m \in Sends : m # n => send'[m] = send[m]
        /\ send[n].pc = "free"
    BY <1>0, <1>2 DEF SendLocation
  <2>2. SafeSend(n)'
    BY <1>0, <1>2, <2>1 DEF SafeSend
  <2>3. \A m \in Sends : m # n => SafeSend(m)'
    BY <1>0, <1>2, <2>1 DEF SafeSend
  <2>4. sosId # n
    BY <1>0, <2>1 DEF SafeSend, Sends, None
  <2> QED
    BY <1>0, <1>2, <2>1, <2>2, <2>3, <2>4 DEF SafeInv
<1>3. ASSUME NEW n \in Sends, send[n].result = "ok",
             NEW k \in Kinds, closing' = [closing EXCEPT ![n][k] = "asked"],
             UNCHANGED <<send, event, alarmed, calmed, sosId>>
      PROVE  SafeInv'
  <2>1. \A m \in Sends, j \in Kinds : closing'[m][j] # "none" => closing[m][j] # "none" \/ m = n
    BY <1>0, <1>3
  <2> QED
    BY <1>0, <1>3, <2>1 DEF SafeInv, SafeSend
<1>4. CASE \E n \in Sends : CountdownEnds(n)
  BY <1>2, <1>4 DEF CountdownEnds, server
<1>5. CASE RecordingEnds \/ RecordingFails
  <2>1. CASE UNCHANGED send
    BY <1>1, <1>5, <2>1 DEF RecordingEnds, RecordingFails, server
  <2>2. CASE \E n \in Sends : SendLocation(n)
    BY <1>2, <1>5, <2>2 DEF RecordingEnds, RecordingFails, server
  <2> QED
    BY <1>5, <2>1, <2>2 DEF RecordingEnds, RecordingFails, Finish
<1>6. CASE Start \/ Recording \/ FinishSent \/ FinishAttached \/ Cancel \/ CancelEnds
  BY <1>1, <1>6 DEF Start, Recording, FinishSent, FinishAttached, Cancel, CancelEnds, server
<1>7. CASE CancelSent
  <2>1. cancelling.n \in Sends /\ "cancelled" \in Kinds
    BY <1>7 DEF CancelSent, TypeOK, WaitsOk, Kinds
  <2>2. CASE send[cancelling.n].result = "ok"
    BY <1>3, <1>7, <2>1, <2>2 DEF CancelSent, AskEnd
  <2>3. CASE send[cancelling.n].result # "ok"
    BY <1>1, <1>7, <2>3 DEF CancelSent
  <2> QED
    BY <2>2, <2>3
<1> DEFINE pcs == [n \in Sends |-> send[n].pc]
           killed == [n \in Sends |-> IF send[n].pc = "locating" THEN "end" ELSE send[n].pc]
<1>8. /\ \A n \in Sends : pcs[n] = send[n].pc
      /\ \A n \in Sends : killed[n] = send[n].pc \/ (send[n].pc = "locating" /\ killed[n] = "end")
  OBVIOUS
<1>9. CASE Resolve
  <2>1. CASE sosId = None
    BY <1>8, <1>9, <2>1, SafeLeft DEF Resolve
  <2>2. CASE sosId # None
    BY <1>0, <1>3, <1>9, <2>2 DEF Resolve, AskEnd, Kinds, screen
  <2> QED
    BY <2>1, <2>2
<1>10. CASE ResolveEnds \/ Leave
  BY <1>8, <1>10, SafeLeft DEF ResolveEnds, Leave, server
<1>11. CASE Killed
  BY <1>8, <1>11, SafeLeft DEF Killed, server
<1> QED
  BY <1>4, <1>5, <1>6, <1>7, <1>9, <1>10, <1>11 DEF UserNext, ScreenNext

\* A step for send n that leaves what belongs to the other sends alone.
LEMMA SafeOthers ==
  ASSUME SafeInv, sosId \in Sends \cup {None}, NEW n \in Sends, SafeSend(n)',
         \A m \in Sends : m # n =>
           /\ send'[m] = send[m] /\ event'[m] = event[m] /\ closing'[m] = closing[m]
           /\ alarmed'[m] = alarmed[m] /\ calmed'[m] = calmed[m],
         \/ sosId' = sosId /\ send'[n].result = send[n].result
         \/ sosId' = sosId /\ send[n].result # "ok"
         \/ sosId' = n /\ send'[n].result = "ok"
  PROVE  SafeInv'
<1>1. \A m \in Sends : m # n => SafeSend(m)'
  BY DEF SafeInv, SafeSend
<1> QED
  BY <1>1 DEF SafeInv, Sends, None

\* The steps of the server keep it.
LEMMA ServerKeepsSafe ==
  ASSUME TypeOK, SafeInv, NEW n \in Sends, Handle(n) \/ Failures(n)
  PROVE  SafeInv'
<1>0. /\ SafeSend(n)
      /\ sosId \in Sends \cup {None}
      /\ send \in [Sends -> SendRecords]
      /\ event \in [Sends -> EventRecords]
      /\ closing \in [Sends -> [Kinds -> CallSteps]]
      /\ alarmed \in [Sends -> SUBSET Friends]
      /\ calmed \in [Sends -> SUBSET Friends]
  BY DEF SafeInv, TypeOK, EventRecords
<1>a. ASSUME Located(n) \/ \E to \in SUBSET Friends : Choose(n, to) PROVE SafeInv'
  <2>1. /\ send[n].pc \in {"locating", "asked"} /\ send'[n].pc \in {"asked", "chosen"}
        /\ send'[n].result = send[n].result
        /\ \A m \in Sends : m # n => send'[m] = send[m]
    BY <1>0, <1>a DEF Located, Choose, At
  <2>2. UNCHANGED <<event, closing, alarmed, calmed, sosId>>
    BY <1>a DEF Located, Choose, server, screen
  <2>3. SafeSend(n)'
    BY <1>0, <2>1, <2>2 DEF SafeSend
  <2> QED
    BY <1>0, <2>1, <2>2, <2>3, SafeOthers
<1>b. ASSUME InsertEvent(n) PROVE SafeInv'
  <2>1. /\ event'[n].to = {} /\ event'[n].monitoring = (send[n].to = {})
        /\ \A m \in Sends : m # n => event'[m] = event[m]
    BY <1>0, <1>b DEF InsertEvent, ToMonitoring
  <2>2. SafeSend(n)'
    BY <1>0, <1>b, <2>1 DEF SafeSend, InsertEvent, At
  <2> QED
    BY <1>0, <1>b, <2>1, <2>2, SafeOthers DEF InsertEvent, At, screen
<1>c. ASSUME InsertDeliveries(n) PROVE SafeInv'
  <2>1. /\ event'[n].to = send[n].to
        /\ \A m \in Sends : m # n => event'[m] = event[m]
    BY <1>0, <1>c DEF InsertDeliveries, EventRecords
  <2>2. SafeSend(n)'
    BY <1>0, <1>c, <2>1 DEF SafeSend, InsertDeliveries, At
  <2> QED
    BY <1>0, <1>c, <2>1, <2>2, SafeOthers DEF InsertDeliveries, At, screen
<1>d. ASSUME Notify(n) PROVE SafeInv'
  <2>1. SafeSend(n)'
    BY <1>0, <1>d DEF SafeSend, Notify, At
  <2> QED
    BY <1>0, <1>d, <2>1, SafeOthers DEF Notify, At, screen
<1>e. ASSUME NEW result \in {"ok", "failed", "offline"}, AnswerApp(n, result),
             send[n].pc \notin {"free", "end"}, result = "ok" => Ready(n), UNCHANGED server
      PROVE  SafeInv'
  <2>1. /\ send'[n].pc = "end" /\ send'[n].to = send[n].to
        /\ send'[n].result = IF send[n].result = "none" THEN result ELSE send[n].result
        /\ \A m \in Sends : m # n => send'[m] = send[m]
    BY <1>0, <1>e DEF AnswerApp
  <2>2. SafeSend(n)'
    BY <1>0, <1>e, <2>1 DEF SafeSend, Ready, server
  <2> QED
    BY <1>0, <1>e, <2>1, <2>2, SafeOthers DEF AnswerApp, KnownId, server, SafeSend
<1>f. ASSUME DeliveriesFail(n) PROVE SafeInv'
  BY <1>e, <1>f DEF DeliveriesFail
<1>g. ASSUME Answer(n) PROVE SafeInv'
  BY <1>e, <1>g DEF Answer, Ready
<1>h. ASSUME SendDies(n) PROVE SafeInv'
  BY <1>e, <1>h DEF SendDies
<1>i. ASSUME SendLost(n) PROVE SafeInv'
  <2>1. /\ send'[n].pc \in {send[n].pc} \cup (IF send[n].pc = "asked" THEN {"end"} ELSE {})
        /\ send'[n].to = send[n].to /\ send'[n].result = "offline" /\ send[n].result = "none"
        /\ \A m \in Sends : m # n => send'[m] = send[m]
    BY <1>0, <1>i DEF SendLost
  <2>2. UNCHANGED <<event, closing, alarmed, calmed, sosId>>
    BY <1>i DEF SendLost, server, screen
  <2>3. SafeSend(n)'
    BY <1>0, <2>1, <2>2 DEF SafeSend
  <2> QED
    BY <1>0, <2>1, <2>2, <2>3, SafeOthers
<1>j. ASSUME NEW kind \in Kinds, CloseRow(n, kind) \/ CloseLost(n, kind) PROVE SafeInv'
  <2>1. /\ \A m \in Sends : m # n => event'[m] = event[m] /\ closing'[m] = closing[m]
        /\ event'[n].to = event[n].to /\ event'[n].monitoring = event[n].monitoring
        /\ \A k \in Kinds : closing'[n][k] # "none" => send[n].result = "ok"
    <3>1. \E step \in CallSteps : closing' = [closing EXCEPT ![n][kind] = step]
      BY <1>j DEF CloseRow, CloseLost, CallSteps
    <3>2. closing[n][kind] # "none"
      BY <1>j DEF CloseRow, CloseLost
    <3>3. send[n].result = "ok"
      BY <1>0, <3>2 DEF SafeSend
    <3>4. UNCHANGED event \/ event' = [event EXCEPT ![n].status = kind]
      BY <1>j DEF CloseRow, CloseLost
    <3> QED
      BY <1>0, <3>1, <3>3, <3>4 DEF EventRecords
  <2>2. UNCHANGED <<send, alarmed, calmed, sosId>>
    BY <1>j DEF CloseRow, CloseLost, screen
  <2>3. SafeSend(n)'
    BY <1>0, <2>1, <2>2 DEF SafeSend
  <2> QED
    BY <1>0, <2>1, <2>2, <2>3, SafeOthers
<1>k. ASSUME NEW kind \in Kinds, TellEnd(n, kind) PROVE SafeInv'
  <2>1. send[n].result = "ok"
    BY <1>0, <1>k DEF SafeSend, TellEnd
  <2>2. event[n].to \subseteq alarmed[n]
    BY <1>0, <2>1 DEF SafeSend
  <2>3. /\ calmed'[n] = calmed[n] \cup event[n].to
        /\ \A m \in Sends : m # n => calmed'[m] = calmed[m] /\ closing'[m] = closing[m]
    BY <1>0, <1>k DEF TellEnd, ToldOfEnd
  <2>4. UNCHANGED <<send, event, alarmed, sosId>>
    BY <1>k DEF TellEnd, screen
  <2>5. SafeSend(n)'
    BY <1>0, <2>1, <2>2, <2>3, <2>4 DEF SafeSend
  <2> QED
    BY <1>0, <2>3, <2>4, <2>5, SafeOthers
<1>l. ASSUME AttachAudio(n) \/ TellAudio(n) \/ AudioLost(n) PROVE SafeInv'
  <2>1. /\ \A m \in Sends : m # n => event'[m] = event[m]
        /\ event'[n].to = event[n].to /\ event'[n].monitoring = event[n].monitoring
    <3>1. UNCHANGED event \/ event' = [event EXCEPT ![n].audio = TRUE]
      BY <1>l DEF AttachAudio, TellAudio, AudioLost
    <3> QED
      BY <1>0, <3>1 DEF EventRecords
  <2>2. UNCHANGED <<send, closing, alarmed, calmed, sosId>>
    BY <1>l DEF AttachAudio, TellAudio, AudioLost, screen
  <2>3. SafeSend(n)'
    BY <1>0, <2>1, <2>2 DEF SafeSend
  <2> QED
    BY <1>0, <2>1, <2>2, <2>3, SafeOthers
<1> QED
  BY <1>a, <1>b, <1>c, <1>d, <1>f, <1>g, <1>h, <1>i, <1>j, <1>k, <1>l DEF Handle, Failures

LEMMA SafeStep == TypeOK /\ SafeInv /\ [Next]_vars => SafeInv'
<1> SUFFICES ASSUME TypeOK, SafeInv, [Next]_vars PROVE SafeInv'
  OBVIOUS
<1>1. CASE UNCHANGED vars
  BY <1>1 DEF vars, screen, server, SafeInv, SafeSend
<1>2. CASE UserNext \/ ScreenNext \/ Killed
  BY <1>2, ScreenKeepsSafe
<1>3. CASE \E n \in Sends : Handle(n) \/ Failures(n)
  BY <1>3, ServerKeepsSafe
<1>4. CASE \E f \in Friends : Withdraw(f)
  BY <1>4 DEF Withdraw, screen, SafeInv, SafeSend
<1> QED
  BY <1>1, <1>2, <1>3, <1>4 DEF Next

LEMMA SafeHolds == Spec => [](TypeOK /\ SafeInv)
<1>1. Init => TypeOK /\ SafeInv
  BY InitType, SafeInit
<1>2. TypeOK /\ SafeInv /\ [Next]_vars => TypeOK' /\ SafeInv'
  BY StepType, SafeStep
<1> QED
  BY <1>1, <1>2, PTL DEF Spec

\* Nobody hears of the end of an SOS before the alarm of it, whatever is lost,
\* killed or withdrawn.
THEOREM AlarmIsReliable == Spec => []AlarmComesFirst
<1>1. TypeOK /\ SafeInv => AlarmComesFirst
  BY SafeEnough
<1> QED
  BY <1>1, SafeHolds, PTL

\* An SOS that is reported as sent reached somebody, whatever is lost, killed or
\* withdrawn.
THEOREM SentIsHeard == Spec => []SentReachesSomebody
<1>1. TypeOK /\ SafeInv => SentReachesSomebody
  BY SafeEnough
<1> QED
  BY <1>1, SafeHolds, PTL
----------------------------------------------------------------------------
(* The screen and the service implement Alarm.                             *)

\* How far the row of send n is, and how far the telling of its end.
EventFits(n) ==
  /\ send[n].pc \in {"free", "locating", "asked", "chosen"} =>
       event[n].status = "none" /\ ~event[n].monitoring
  /\ send[n].pc \in {"inserted", "delivered", "told"} => event[n].status = "sent"
  /\ send[n].result = "ok" => event[n].status # "none"
  /\ event[n].status \in Kinds => send[n].result = "ok"
  /\ \A k \in Kinds : closing[n][k] = "telling" => event[n].status = k /\ calmed[n] = {}
  /\ calmed[n] # {} => event[n].status \in Kinds

AlarmInv == TypeOK /\ SafeInv /\ \A n \in Sends : EventFits(n)

\* A step that leaves the row and the telling of its end alone, and takes the send
\* no further than to its end.
LEMMA EventKept ==
  ASSUME NEW n \in Sends, EventFits(n),
         event'[n].status = event[n].status, event'[n].monitoring = event[n].monitoring,
         calmed'[n] = calmed[n],
         \A k \in Kinds : closing'[n][k] = "telling" => closing[n][k] = "telling",
         send'[n].pc = send[n].pc \/ send'[n].pc = "end" \/
           {send[n].pc, send'[n].pc} \subseteq {"free", "locating", "asked", "chosen"},
         send'[n].result = "ok" => send[n].result = "ok" \/ event[n].status # "none",
         send[n].result = "ok" => send'[n].result = "ok"
  PROVE  EventFits(n)'
  BY DEF EventFits

LEMMA ScreenKeepsEvent ==
  ASSUME AlarmInv, UserNext \/ ScreenNext \/ Killed, NEW n \in Sends
  PROVE  EventFits(n)'
<1>1. /\ send \in [Sends -> SendRecords] /\ closing \in [Sends -> [Kinds -> CallSteps]]
      /\ EventFits(n)
  BY DEF AlarmInv, TypeOK
<1>2. UNCHANGED <<event, calmed>>
  BY DEF UserNext, ScreenNext, Killed, Start, Cancel, Resolve, Leave, CountdownEnds, Recording,
         RecordingEnds, RecordingFails, FinishSent, FinishAttached, CancelSent, CancelEnds,
         ResolveEnds, server
<1>3. \A k \in Kinds : closing'[n][k] = "telling" => closing[n][k] = "telling"
  <2>1. \/ UNCHANGED closing
        \/ \E m \in Sends, k \in Kinds : closing' = [closing EXCEPT ![m][k] = "asked"]
    <3>1. CASE CancelSent
      <4>1. cancelling.n \in Sends /\ "cancelled" \in Kinds
        BY <3>1 DEF CancelSent, AlarmInv, TypeOK, WaitsOk, Kinds
      <4> QED
        BY <3>1, <4>1 DEF CancelSent, AskEnd
    <3>2. CASE Resolve
      <4>1. sosId \in Sends \cup {None} /\ "resolved" \in Kinds
        BY DEF AlarmInv, TypeOK, Kinds
      <4> QED
        BY <3>2, <4>1 DEF Resolve, AskEnd
    <3>3. ~CancelSent /\ ~Resolve => UNCHANGED closing
      BY DEF UserNext, ScreenNext, Killed, Start, Cancel, Leave, CountdownEnds, Recording,
             RecordingEnds, RecordingFails, FinishSent, FinishAttached, CancelEnds, ResolveEnds,
             server
    <3> QED
      BY <3>1, <3>2, <3>3
  <2> QED
    BY <1>1, <2>1
<1>4. \/ UNCHANGED send
      \/ \E m \in Sends : SendLocation(m)
      \/ send' = [m \in Sends |-> Left(m, send[m].pc)]
      \/ send' = [m \in Sends |-> Left(m, IF send[m].pc = "locating" THEN "end" ELSE send[m].pc)]
  BY DEF UserNext, ScreenNext, Killed, Start, Cancel, Resolve, Leave, CountdownEnds, Recording,
         RecordingEnds, RecordingFails, Finish, FinishSent, FinishAttached, CancelSent, CancelEnds,
         ResolveEnds
<1>5. CASE UNCHANGED send
  BY <1>1, <1>2, <1>3, <1>5, EventKept
<1>6. CASE \E m \in Sends : SendLocation(m)
  <2>1. \/ send'[n] = send[n]
        \/ send[n].pc = "free" /\ send'[n].pc = "locating" /\ send'[n].result = "none"
    BY <1>1, <1>6 DEF SendLocation
  <2>2. send[n].pc = "free" => send[n].result # "ok"
    BY DEF AlarmInv, SafeInv, SafeSend
  <2> QED
    BY <1>1, <1>2, <1>3, <2>1, <2>2, EventKept
<1>7. CASE send' = [m \in Sends |-> Left(m, send[m].pc)]
  BY <1>1, <1>2, <1>3, <1>7, EventKept DEF Left
<1>8. CASE send' = [m \in Sends |->
                      Left(m, IF send[m].pc = "locating" THEN "end" ELSE send[m].pc)]
  BY <1>1, <1>2, <1>3, <1>8, EventKept DEF Left
<1> QED
  BY <1>4, <1>5, <1>6, <1>7, <1>8

LEMMA ServerKeepsEvent ==
  ASSUME AlarmInv, NEW n \in Sends, Handle(n) \/ Failures(n), NEW m \in Sends
  PROVE  EventFits(m)'
<1>1. /\ send \in [Sends -> SendRecords] /\ closing \in [Sends -> [Kinds -> CallSteps]]
      /\ event \in [Sends -> EventRecords]
      /\ calmed \in [Sends -> SUBSET Friends]
      /\ EventFits(n) /\ EventFits(m) /\ SafeSend(n)
  BY DEF AlarmInv, TypeOK, SafeInv, EventRecords
<1>2. CASE m # n
  <2>1. /\ send'[m] = send[m] /\ event'[m] = event[m] /\ calmed'[m] = calmed[m]
        /\ closing'[m] = closing[m]
    BY <1>1, <1>2
    DEF Handle, Failures, Located, Choose, InsertEvent, InsertDeliveries, DeliveriesFail, Notify,
        Answer, CloseRow, TellEnd, AttachAudio, TellAudio, SendLost, SendDies, AudioLost,
        CloseLost, At, AnswerApp, server
  <2> QED
    BY <1>1, <2>1, EventKept
<1>3. CASE Located(n) \/ \E to \in SUBSET Friends : Choose(n, to)
  <2>1. /\ {send[n].pc, send'[n].pc} \subseteq {"free", "locating", "asked", "chosen"}
        /\ send'[n].result = send[n].result /\ UNCHANGED <<event, calmed, closing>>
    BY <1>1, <1>3 DEF Located, Choose, At, server
  <2> QED
    BY <1>1, <1>2, <2>1, EventKept
<1>4. CASE InsertEvent(n)
  <2>1. /\ event'[n].status = "sent" /\ send'[n].pc = "inserted"
        /\ send'[n].result = send[n].result /\ UNCHANGED <<calmed, closing>>
        /\ send[n].pc = "chosen"
    BY <1>1, <1>4 DEF InsertEvent, At
  <2> QED
    BY <1>1, <1>2, <2>1 DEF EventFits, Kinds
<1>5. CASE InsertDeliveries(n) \/ Notify(n)
  <2>1. /\ event'[n].status = event[n].status /\ event'[n].monitoring = event[n].monitoring
        /\ send[n].pc \in {"inserted", "delivered"} /\ send'[n].pc \in {"delivered", "told"}
        /\ send'[n].result = send[n].result /\ UNCHANGED <<calmed, closing>>
    BY <1>1, <1>5 DEF InsertDeliveries, Notify, At, EventRecords
  <2> QED
    BY <1>1, <1>2, <2>1 DEF EventFits
<1>6. ASSUME NEW result \in {"ok", "failed", "offline"}, AnswerApp(n, result),
             result = "ok" => Ready(n), UNCHANGED server
      PROVE  EventFits(m)'
  <2>1. /\ send'[n].pc = "end"
        /\ send'[n].result = IF send[n].result = "none" THEN result ELSE send[n].result
        /\ UNCHANGED <<event, calmed, closing>>
    BY <1>1, <1>6 DEF AnswerApp, server
  <2>2. result = "ok" => event[n].status # "none"
    BY <1>1, <1>6 DEF Ready, EventFits
  <2> QED
    BY <1>1, <1>2, <2>1, <2>2, EventKept
<1>7. CASE DeliveriesFail(n) \/ Answer(n) \/ SendDies(n)
  BY <1>6, <1>7 DEF DeliveriesFail, Answer, SendDies
<1>8. CASE SendLost(n)
  <2>1. /\ send'[n].pc = send[n].pc \/ send'[n].pc = "end"
        /\ send'[n].result = "offline" /\ send[n].result = "none"
        /\ UNCHANGED <<event, calmed, closing>>
    BY <1>1, <1>8 DEF SendLost, server
  <2> QED
    BY <1>1, <1>2, <2>1, EventKept
<1>9. ASSUME NEW kind \in Kinds, CloseRow(n, kind)
      PROVE  EventFits(m)'
  <2>1. send[n].result = "ok" /\ send[n].pc = "end"
    BY <1>1, <1>9 DEF CloseRow, SafeSend
  <2>2. UNCHANGED <<send, calmed>>
    BY <1>9 DEF CloseRow
  <2>3. CASE event[n].status = "sent"
    <3>1. /\ event'[n].status = kind
          /\ \A k \in Kinds : closing'[n][k] = IF k = kind THEN "telling" ELSE closing[n][k]
      BY <1>1, <1>9, <2>3 DEF CloseRow, EventRecords
    <3>2. \A k \in Kinds : closing[n][k] # "telling"
      BY <1>1, <2>3 DEF EventFits, Kinds
    <3>3. calmed[n] = {} /\ kind # "none"
      BY <1>1, <2>3 DEF EventFits, Kinds
    <3> QED
      BY <1>2, <2>1, <2>2, <3>1, <3>2, <3>3 DEF EventFits
  <2>4. CASE event[n].status # "sent"
    <3>1. /\ UNCHANGED event
          /\ \A k \in Kinds : closing'[n][k] = "telling" => closing[n][k] = "telling"
      BY <1>1, <1>9, <2>4 DEF CloseRow
    <3> QED
      BY <1>1, <1>2, <2>2, <3>1, EventKept
  <2> QED
    BY <2>3, <2>4
<1>10. ASSUME NEW kind \in Kinds, TellEnd(n, kind)
       PROVE  EventFits(m)'
  <2>1. /\ event[n].status = kind /\ UNCHANGED <<send, event>>
        /\ \A k \in Kinds : closing'[n][k] = "telling" => k # kind /\ closing[n][k] = "telling"
    BY <1>1, <1>10 DEF TellEnd, EventFits
  <2>2. \A k \in Kinds : closing'[n][k] # "telling"
    BY <1>1, <2>1 DEF EventFits
  <2> QED
    BY <1>1, <1>2, <2>1, <2>2 DEF EventFits
<1>11. ASSUME NEW kind \in Kinds, CloseLost(n, kind)
       PROVE  EventFits(m)'
  <2>1. /\ UNCHANGED <<send, event, calmed>>
        /\ \A k \in Kinds : closing'[n][k] = "telling" => closing[n][k] = "telling"
    BY <1>1, <1>11 DEF CloseLost
  <2> QED
    BY <1>1, <1>2, <2>1, EventKept
<1>12. CASE AttachAudio(n) \/ TellAudio(n) \/ AudioLost(n)
  <2>1. /\ UNCHANGED <<send, calmed, closing>>
        /\ event'[n].status = event[n].status /\ event'[n].monitoring = event[n].monitoring
    BY <1>1, <1>12 DEF AttachAudio, TellAudio, AudioLost, EventRecords
  <2> QED
    BY <1>1, <1>2, <2>1, EventKept
<1> QED
  BY <1>3, <1>4, <1>5, <1>7, <1>8, <1>9, <1>10, <1>11, <1>12 DEF Handle, Failures

LEMMA AlarmInvInit == Init => AlarmInv
  BY InitType, SafeInit DEF Init, AlarmInv, EventFits, Kinds

LEMMA AlarmInvStep == ASSUME AlarmInv, [Next]_vars PROVE AlarmInv'
<1>1. TypeOK' /\ SafeInv'
  BY StepType, SafeStep DEF AlarmInv
<1>2. CASE UNCHANGED vars
  BY <1>1, <1>2 DEF AlarmInv, EventFits, vars, server
<1>3. CASE UserNext \/ ScreenNext \/ Killed
  BY <1>1, <1>3, ScreenKeepsEvent DEF AlarmInv
<1>4. CASE \E n \in Sends : Handle(n) \/ Failures(n)
  BY <1>1, <1>4, ServerKeepsEvent DEF AlarmInv
<1>5. ASSUME NEW f \in Friends, Withdraw(f)
      PROVE  AlarmInv'
  <2>1. \A n \in Sends : /\ event'[n].status = event[n].status
                         /\ event'[n].monitoring = event[n].monitoring
    BY <1>5 DEF Withdraw
  <2>2. UNCHANGED <<send, closing, calmed>>
    BY <1>5 DEF Withdraw
  <2> QED
    BY <1>1, <2>1, <2>2, EventKept DEF AlarmInv
<1> QED
  BY <1>2, <1>3, <1>4, <1>5 DEF Next

\* What the recipients are shown of the state.
Outcome == [n \in Sends |-> event[n].status]
OnList == {n \in Sends : event[n].monitoring}
AllHeard == [n \in Sends |-> [f \in Friends |-> Heard(n, f)]]

\* Most steps they do not notice.
LEMMA Unnoticed ==
  ASSUME UNCHANGED <<alarmed, calmed>>,
         \A n \in Sends : /\ event'[n].status = event[n].status
                          /\ event'[n].monitoring = event[n].monitoring
  PROVE  UNCHANGED <<Outcome, OnList, AllHeard>>
  BY DEF Outcome, OnList, AllHeard, Heard

LEMMA RaiseStep ==
  ASSUME AlarmInv, NEW n \in Sends, InsertEvent(n) PROVE Received!Raise(n)
<1>1. event \in [Sends -> EventRecords] /\ EventFits(n)
  BY DEF AlarmInv, TypeOK, EventRecords
<1>2. event[n].status = "none" /\ ~event[n].monitoring
  BY <1>1 DEF InsertEvent, At, EventFits
<1>3. /\ event'[n].status = "sent"
      /\ \A m \in Sends : m # n => event'[m] = event[m]
      /\ UNCHANGED <<alarmed, calmed>>
  BY <1>1 DEF InsertEvent
<1>4. Outcome' = [Outcome EXCEPT ![n] = "sent"] /\ Outcome[n] = "none"
  BY <1>2, <1>3 DEF Outcome
<1>5. OnList' \in {OnList, OnList \cup {n}}
  BY <1>2, <1>3 DEF OnList
<1>6. UNCHANGED AllHeard
  BY <1>3 DEF AllHeard, Heard
<1> QED
  BY <1>4, <1>5, <1>6 DEF Received!Raise, Outcome, OnList, AllHeard

\* What changes when some of the friends hear something.
LEMMA HearStep ==
  ASSUME NEW n \in Sends, NEW who \in SUBSET Friends, NEW what, UNCHANGED event,
         \A m \in Sends : m # n => alarmed'[m] = alarmed[m] /\ calmed'[m] = calmed[m],
         \A f \in Friends : Heard(n, f)' = IF f \in who THEN what ELSE Heard(n, f)
  PROVE  /\ UNCHANGED <<Outcome, OnList>>
         /\ AllHeard' = [AllHeard EXCEPT ![n] =
                           [f \in Friends |-> IF f \in who THEN what ELSE AllHeard[n][f]]]
<1>1. \A m \in Sends : m # n => \A f \in Friends : Heard(m, f)' = Heard(m, f)
  BY DEF Heard
<1> QED
  BY <1>1 DEF Outcome, OnList, AllHeard

LEMMA TellStep ==
  ASSUME AlarmInv, NEW n \in Sends, Notify(n)
  PROVE  \E who \in SUBSET Friends : Received!Tell(n, who)
<1>1. /\ alarmed \in [Sends -> SUBSET Friends] /\ send \in [Sends -> SendRecords]
      /\ SafeSend(n) /\ EventFits(n)
  BY DEF AlarmInv, TypeOK, SafeInv
<1>2. alarmed[n] = {} /\ calmed[n] = {} /\ event[n].status = "sent"
  BY <1>1 DEF Notify, At, SafeSend, EventFits
<1>3. PICK who \in SUBSET Friends : who = send[n].to
  BY <1>1 DEF SendRecords
<1>4. /\ UNCHANGED <<event, calmed>> /\ alarmed'[n] = who
      /\ \A m \in Sends : m # n => alarmed'[m] = alarmed[m]
  BY <1>1, <1>3 DEF Notify
<1>5. \A f \in Friends : /\ Heard(n, f) = "nothing"
                         /\ Heard(n, f)' = IF f \in who THEN "alarm" ELSE Heard(n, f)
  BY <1>2, <1>4 DEF Heard
<1>6. /\ UNCHANGED <<Outcome, OnList>>
      /\ AllHeard' = [AllHeard EXCEPT ![n] =
                        [f \in Friends |-> IF f \in who THEN "alarm" ELSE AllHeard[n][f]]]
  BY <1>4, <1>5, HearStep
<1>7. Outcome[n] = "sent" /\ \A f \in Friends : AllHeard[n][f] = "nothing"
  BY <1>2, <1>5 DEF Outcome, AllHeard
<1>8. Received!Tell(n, who)
  BY <1>6, <1>7 DEF Received!Tell, Received!Hear, Outcome, OnList, AllHeard
<1> QED
  BY <1>8

LEMMA FinishStep ==
  ASSUME AlarmInv, NEW n \in Sends, NEW kind \in Kinds, CloseRow(n, kind)
  PROVE  Received!Finish(n, kind) \/ UNCHANGED <<Outcome, OnList, AllHeard>>
<1>1. /\ event \in [Sends -> EventRecords] /\ send \in [Sends -> SendRecords]
      /\ SafeSend(n) /\ EventFits(n)
  BY DEF AlarmInv, TypeOK, SafeInv, EventRecords
<1>2. UNCHANGED <<alarmed, calmed>>
  BY DEF CloseRow
<1>3. CASE event[n].status # "sent"
  BY <1>2, <1>3, Unnoticed DEF CloseRow
<1>4. CASE event[n].status = "sent"
  <2>1. /\ event'[n].status = kind /\ event'[n].monitoring = event[n].monitoring
        /\ \A m \in Sends : m # n => event'[m] = event[m]
    BY <1>1, <1>4 DEF CloseRow, EventRecords
  <2>2. Outcome' = [Outcome EXCEPT ![n] = kind] /\ Outcome[n] = "sent"
    BY <1>4, <2>1 DEF Outcome
  <2>3. UNCHANGED <<OnList, AllHeard>>
    BY <1>2, <2>1 DEF OnList, AllHeard, Heard
  <2>4. /\ alarmed[n] = send[n].to /\ send[n].to \subseteq Friends
        /\ send[n].to = {} => event[n].monitoring
        /\ calmed[n] = {}
    BY <1>1, <1>4 DEF CloseRow, SafeSend, SendRecords, EventFits, Kinds
  <2>5. n \in OnList \/ \E f \in Friends : AllHeard[n][f] = "alarm"
    BY <2>4 DEF OnList, AllHeard, Heard
  <2>6. Received!Finish(n, kind)
    BY <2>2, <2>3, <2>5 DEF Received!Finish, Outcome, OnList, AllHeard
  <2> QED
    BY <2>6
<1> QED
  BY <1>3, <1>4

LEMMA TellEndStep ==
  ASSUME AlarmInv, NEW n \in Sends, NEW kind \in Kinds, TellEnd(n, kind)
  PROVE  \E who \in SUBSET Friends : Received!TellEnd(n, who)
<1>1. /\ calmed \in [Sends -> SUBSET Friends] /\ event \in [Sends -> EventRecords]
      /\ SafeSend(n) /\ EventFits(n)
  BY DEF AlarmInv, TypeOK, SafeInv, EventRecords
<1>2. calmed[n] = {} /\ event[n].status = kind
  BY <1>1 DEF TellEnd, EventFits
<1>3. PICK who \in SUBSET Friends : who = event[n].to
  BY <1>1 DEF EventRecords
<1>4. who \subseteq alarmed[n]
  BY <1>1, <1>3 DEF TellEnd, SafeSend
<1>5. /\ UNCHANGED <<event, alarmed>> /\ calmed'[n] = who
      /\ \A m \in Sends : m # n => calmed'[m] = calmed[m]
  BY <1>1, <1>2, <1>3 DEF TellEnd, ToldOfEnd
<1>6. \A f \in Friends : /\ Heard(n, f) # "end"
                         /\ f \in who => Heard(n, f) = "alarm"
                         /\ Heard(n, f)' = IF f \in who THEN "end" ELSE Heard(n, f)
  BY <1>2, <1>4, <1>5 DEF Heard
<1>7. /\ UNCHANGED <<Outcome, OnList>>
      /\ AllHeard' = [AllHeard EXCEPT ![n] =
                        [f \in Friends |-> IF f \in who THEN "end" ELSE AllHeard[n][f]]]
  BY <1>5, <1>6, HearStep
<1>8. /\ Outcome[n] \in Kinds /\ \A f \in Friends : AllHeard[n][f] # "end"
      /\ \A f \in who : AllHeard[n][f] = "alarm"
  BY <1>2, <1>6 DEF Outcome, AllHeard
<1>9. Received!TellEnd(n, who)
  BY <1>7, <1>8
  DEF Received!TellEnd, Received!Hear, Received!Kinds, Kinds, Outcome, OnList, AllHeard
<1> QED
  BY <1>9

\* Every step is one of Alarm, or one nobody notices.
LEMMA ReceivedStep ==
  ASSUME AlarmInv, [Next]_vars PROVE [Received!Next]_<<Outcome, OnList, AllHeard>>
<1>1. event \in [Sends -> EventRecords]
  BY DEF AlarmInv, TypeOK, EventRecords
<1>2. CASE UNCHANGED <<event, alarmed, calmed>>
  BY <1>2, Unnoticed
<1>3. ASSUME UserNext \/ ScreenNext \/ Killed
      PROVE  UNCHANGED <<event, alarmed, calmed>>
  BY <1>3
  DEF UserNext, ScreenNext, Killed, Start, Cancel, Resolve, Leave, CountdownEnds, Recording,
      RecordingEnds, RecordingFails, FinishSent, FinishAttached, CancelSent, CancelEnds,
      ResolveEnds, server
<1>4. ASSUME NEW n \in Sends, Handle(n) \/ Failures(n)
      PROVE  [Received!Next]_<<Outcome, OnList, AllHeard>>
  <2>1. CASE InsertEvent(n)
    BY <2>1, RaiseStep DEF Received!Next
  <2>2. CASE Notify(n)
    BY <2>2, TellStep DEF Received!Next
  <2>3. CASE \E kind \in Kinds : CloseRow(n, kind)
    BY <2>3, FinishStep DEF Received!Next, Received!Kinds, Kinds
  <2>4. CASE \E kind \in Kinds : TellEnd(n, kind)
    BY <2>4, TellEndStep DEF Received!Next
  <2>5. CASE InsertDeliveries(n) \/ AttachAudio(n)
    <3>1. /\ UNCHANGED <<alarmed, calmed>>
          /\ \A m \in Sends : /\ event'[m].status = event[m].status
                              /\ event'[m].monitoring = event[m].monitoring
      BY <1>1, <2>5 DEF InsertDeliveries, AttachAudio, EventRecords
    <3> QED
      BY <3>1, Unnoticed
  <2>6. CASE \/ Located(n) \/ (\E to \in SUBSET Friends : Choose(n, to))
             \/ DeliveriesFail(n) \/ Answer(n) \/ TellAudio(n) \/ Failures(n)
    <3>1. UNCHANGED <<event, alarmed, calmed>>
      BY <2>6
      DEF Located, Choose, DeliveriesFail, Answer, TellAudio, Failures, SendLost, SendDies,
          AudioLost, CloseLost, server
    <3> QED
      BY <1>2, <3>1
  <2> QED
    BY <1>4, <2>1, <2>2, <2>3, <2>4, <2>5, <2>6 DEF Handle
<1>5. ASSUME NEW f \in Friends, Withdraw(f)
      PROVE  UNCHANGED <<Outcome, OnList, AllHeard>>
  <2>1. /\ UNCHANGED <<alarmed, calmed>>
        /\ \A n \in Sends : /\ event'[n].status = event[n].status
                            /\ event'[n].monitoring = event[n].monitoring
    BY <1>5 DEF Withdraw
  <2> QED
    BY <2>1, Unnoticed
<1> QED
  BY <1>2, <1>3, <1>4, <1>5 DEF Next, vars, server

LEMMA ReceivedInit == Init => Received!Init
<1> SUFFICES ASSUME Init
             PROVE  Received!Init
  OBVIOUS
<1>1. /\ Outcome = [n \in Sends |-> "none"] /\ OnList = {}
      /\ AllHeard = [n \in Sends |-> [f \in Friends |-> "nothing"]]
  BY DEF Init, Outcome, OnList, AllHeard, Heard
<1> QED
  BY <1>1 DEF Received!Init, Outcome, OnList, AllHeard

\* For any number of presses, friends and faults, an SOS is to those who receive it
\* what Alarm says: nobody hears of its end first or twice, none ends that reached
\* nobody, and none is open again.
THEOREM ImplementsAlarm == Spec => IsAlarm
<1>1. AlarmInv /\ [Next]_vars => AlarmInv'
  BY AlarmInvStep
<1>2. AlarmInv /\ [Next]_vars => [Received!Next]_<<Outcome, OnList, AllHeard>>
  BY ReceivedStep
<1> QED
  BY <1>1, <1>2, AlarmInvInit, ReceivedInit, PTL
  DEF Spec, IsAlarm, Received!Spec, Outcome, OnList, AllHeard
----------------------------------------------------------------------------
(* What the screen still has coming, when the microphone is prepared before *)
(* the user can cancel.                                                     *)

\* How the timer, the microphone and the awaiting functions fit together.
ScreenFits ==
  /\ timer = "count" => phase = "countdown"
  /\ timer = "record" => phase = "recording" /\ mic = "on"
  /\ mic # "off" => phase = "recording"
  /\ mic # "off" => promise # None
  /\ finishing.on # "none" => phase = "sending"
  /\ resolving.on # "none" => phase = "sent"
  /\ cancelling.on # "none" => phase = "recording" /\ timer = "none" /\ mic = "off"
  /\ finishing.on = "send" => promise = finishing.n
  /\ cancelling.on = "send" => promise = cancelling.n
  /\ finishing.on = "answer" \/ cancelling.on = "answer" => promise = None
  /\ phase \in {"idle", "countdown", "sent"} => promise = None
  /\ banner => phase = "idle"

\* Of the sends of this press, only the one that is awaited has no result.
SendsFit ==
  \A n \in Sends : send[n].pc # "free" =>
    /\ send[n].press <= press
    /\ timer = "count" => send[n].press < press
    /\ (send[n].press = press /\ send[n].result = "none") => promise = n

CalmInv == ScreenFits /\ SendsFit

LEMMA CalmEnough == ASSUME TypeOK, CalmInv PROVE CancelIsFinal
  BY DEF CalmInv, ScreenFits, SendsFit, CancelIsFinal, Sends, None

LEMMA CalmInit == Init => CalmInv
  BY DEF Init, CalmInv, ScreenFits, SendsFit, NoWait

\* A step that leaves the screen alone and gives no send a new press or takes
\* its result away.
LEMMA CalmServer ==
  ASSUME CalmInv, UNCHANGED <<phase, press, timer, mic, promise, banner, waits>>,
         \A n \in Sends : send'[n].pc # "free" =>
           /\ send[n].pc # "free" /\ send'[n].press = send[n].press
           /\ send'[n].result = "none" => send[n].result = "none"
  PROVE  CalmInv'
  BY DEF CalmInv, ScreenFits, SendsFit, waits

\* A screen that is left awaits nothing.
LEMMA CalmLeft ==
  ASSUME TypeOK, CalmInv, FreshScreen, NEW f,
         \A n \in Sends : send[n].pc = "free" => f[n] = "free",
         send' = [n \in Sends |-> Left(n, f[n])],
         finishing'.on = "none", cancelling'.on = "none", resolving'.on = "none"
  PROVE  CalmInv'
<1>1. \A n \in Sends : send'[n].pc # "free" =>
        send[n].pc # "free" /\ send'[n].press = send[n].press /\ send'[n].result # "none"
  BY DEF Left
<1> QED
  BY <1>1 DEF CalmInv, ScreenFits, SendsFit, FreshScreen

\* The steps of the screen keep it.
LEMMA ScreenKeepsCalm ==
  ASSUME ~EarlyCancel, TypeOK, CalmInv, UserNext \/ ScreenNext \/ Killed
  PROVE  CalmInv'
<1>0. /\ send \in [Sends -> SendRecords]
      /\ promise \in Sends \cup {None}
      /\ press \in Nat
      /\ \A n \in Sends : send[n].press \in Nat
      /\ ScreenType
      /\ None \notin Sends
  BY TypeParts, Bounds DEF TypeOK, CalmInv, SendRecords, Sends, None
<1>1. ASSUME Start PROVE CalmInv'
  <2>1. press' = press + 1 /\ UNCHANGED send
    BY <1>1 DEF Start
  <2>2. SendsFit'
    BY <1>0, <2>1 DEF CalmInv, SendsFit
  <2>3. ScreenFits'
    BY <1>1 DEF CalmInv, ScreenFits, Start, waits
  <2> QED
    BY <2>2, <2>3 DEF CalmInv
<1>2. ASSUME NEW n \in Sends, CountdownEnds(n) PROVE CalmInv'
  <2>1. /\ send'[n].press = press /\ send[n].pc = "free"
        /\ \A m \in Sends : m # n => send'[m] = send[m]
    BY <1>0, <1>2 DEF CountdownEnds, SendLocation
  <2>2. SendsFit'
    BY <1>0, <1>2, <2>1 DEF CalmInv, SendsFit, CountdownEnds
  <2>3. ScreenFits'
    BY <1>0, <1>2 DEF CalmInv, ScreenFits, CountdownEnds, Wait
  <2> QED
    BY <2>2, <2>3 DEF CalmInv
<1>3. ASSUME Recording PROVE CalmInv'
  <2>1. ScreenFits'
    BY <1>3 DEF CalmInv, ScreenFits, Recording, waits
  <2>2. SendsFit'
    BY <1>3 DEF CalmInv, SendsFit, Recording
  <2> QED
    BY <2>1, <2>2 DEF CalmInv
<1>4. ASSUME RecordingEnds \/ RecordingFails PROVE CalmInv'
  <2>1. promise # None /\ phase = "recording"
    BY <1>4 DEF CalmInv, ScreenFits, RecordingEnds, RecordingFails
  <2>2. UNCHANGED <<send, press, promise>> /\ timer' = "none"
    BY <1>4, <2>1 DEF RecordingEnds, RecordingFails, Finish, CalmInv, ScreenFits, TypeOK
  <2>3. finishing'.on = "send" /\ finishing'.n = promise /\ phase' = "sending" /\ mic' = "off"
    BY <1>4, <2>1 DEF RecordingEnds, RecordingFails, Finish, Wait
  <2>4. cancelling'.on = "none" /\ resolving'.on = "none" /\ banner' = FALSE
    BY <1>4, <2>1 DEF CalmInv, ScreenFits, RecordingEnds, RecordingFails, TypeOK, WaitsOk, Waits
  <2>5. ScreenFits'
    BY <2>2, <2>3, <2>4 DEF ScreenFits
  <2>6. SendsFit'
    BY <2>2 DEF CalmInv, SendsFit
  <2> QED
    BY <2>5, <2>6 DEF CalmInv
<1>5. ASSUME FinishSent PROVE CalmInv'
  <2>1. /\ phase = "sending" /\ promise = finishing.n /\ send[promise].result # "none"
        /\ finishing.n \in Sends /\ banner = FALSE
    BY <1>5 DEF CalmInv, ScreenFits, FinishSent, TypeOK, WaitsOk
  <2>2. timer # "count" /\ timer # "record" /\ mic = "off"
    BY <2>1 DEF CalmInv, ScreenFits
  <2>3. cancelling.on = "none" /\ resolving.on = "none"
    BY <2>1 DEF CalmInv, ScreenFits, TypeOK, WaitsOk, Waits
  <2>4. ScreenFits'
    BY <1>5, <2>1, <2>2, <2>3 DEF ScreenFits, FinishSent, AfterSend, Wait, NoWait
  <2>5. SendsFit'
    BY <1>0, <1>5, <2>1, <2>2 DEF CalmInv, SendsFit, FinishSent
  <2> QED
    BY <2>4, <2>5 DEF CalmInv
<1>6. ASSUME FinishAttached PROVE CalmInv'
  <2>1. phase = "sending" /\ promise = None
    BY <1>6 DEF CalmInv, ScreenFits, FinishAttached
  <2>2. ScreenFits'
    BY <1>6, <2>1 DEF CalmInv, ScreenFits, FinishAttached, NoWait, TypeOK, WaitsOk, Waits
  <2>3. SendsFit'
    BY <1>6 DEF CalmInv, SendsFit, FinishAttached
  <2> QED
    BY <2>2, <2>3 DEF CalmInv
<1>7. ASSUME Cancel PROVE CalmInv'
  <2>1. /\ phase \in {"countdown", "recording"} /\ mic # "preparing" /\ mic' = "off"
        /\ timer' = "none" /\ cancelling = NoWait
    BY <1>0, <1>7 DEF Cancel, Cancellable, TimerAfterCancel, ScreenType
  <2>2. finishing.on = "none" /\ resolving.on = "none" /\ banner = FALSE
    BY <2>1 DEF CalmInv, ScreenFits, TypeOK, WaitsOk, Waits
  <2>3. promise # None => phase = "recording"
    BY <2>1 DEF CalmInv, ScreenFits
  <2>4. ScreenFits'
    BY <1>7, <2>1, <2>2, <2>3 DEF ScreenFits, Cancel, AwaitedByCancel, Wait, NoWait
  <2>5. SendsFit'
    BY <1>7, <2>1 DEF CalmInv, SendsFit, Cancel
  <2> QED
    BY <2>4, <2>5 DEF CalmInv
<1>8. ASSUME CancelSent PROVE CalmInv'
  <2>1. /\ phase = "recording" /\ timer = "none" /\ mic = "off"
        /\ promise = cancelling.n /\ send[promise].result # "none" /\ banner = FALSE
    BY <1>8 DEF CalmInv, ScreenFits, CancelSent, TypeOK
  <2>2. finishing.on = "none" /\ resolving.on = "none"
    BY <2>1 DEF CalmInv, ScreenFits, TypeOK, WaitsOk, Waits
  <2>3. ScreenFits'
    BY <1>8, <2>1, <2>2 DEF ScreenFits, CancelSent, Wait, NoWait
  <2>4. SendsFit'
    BY <1>0, <1>8, <2>1 DEF CalmInv, SendsFit, CancelSent
  <2> QED
    BY <2>3, <2>4 DEF CalmInv
<1>9. ASSUME CancelEnds PROVE CalmInv'
  <2>1. phase = "recording" /\ timer = "none" /\ mic = "off" /\ promise = None
    BY <1>9 DEF CalmInv, ScreenFits, CancelEnds
  <2>2. finishing.on = "none" /\ resolving.on = "none"
    BY <2>1 DEF CalmInv, ScreenFits, TypeOK, WaitsOk, Waits
  <2>3. ScreenFits'
    BY <1>9, <2>1, <2>2 DEF ScreenFits, CancelEnds, NoWait
  <2>4. SendsFit'
    BY <1>9 DEF CalmInv, SendsFit, CancelEnds
  <2> QED
    BY <2>3, <2>4 DEF CalmInv
<1> DEFINE pcs == [n \in Sends |-> send[n].pc]
           killed == [n \in Sends |-> IF send[n].pc = "locating" THEN "end" ELSE send[n].pc]
<1>10. \A n \in Sends : send[n].pc = "free" => pcs[n] = "free" /\ killed[n] = "free"
  OBVIOUS
<1>11. ASSUME Resolve PROVE CalmInv'
  <2>1. phase = "sent" /\ resolving = NoWait
    BY <1>11 DEF Resolve
  <2>2. finishing.on = "none" /\ cancelling.on = "none"
    BY <2>1 DEF CalmInv, ScreenFits, TypeOK, WaitsOk, Waits
  <2>3. CASE sosId = None
    <3>1. FreshScreen /\ send' = [n \in Sends |-> Left(n, pcs[n])]
      BY <1>11, <2>3 DEF Resolve
    <3>2. finishing'.on = "none" /\ cancelling'.on = "none" /\ resolving'.on = "none"
      BY <1>11, <2>1, <2>2, <2>3 DEF Resolve, NoWait
    <3> QED
      BY <1>10, <3>1, <3>2, CalmLeft
  <2>4. CASE sosId # None
    <3>1. ScreenFits'
      BY <1>11, <2>1, <2>2, <2>4 DEF CalmInv, ScreenFits, Resolve, screen, Wait
    <3>2. SendsFit'
      BY <1>11, <2>4 DEF CalmInv, SendsFit, Resolve, screen
    <3> QED
      BY <3>1, <3>2 DEF CalmInv
  <2> QED
    BY <2>3, <2>4
<1>12. ASSUME ResolveEnds PROVE CalmInv'
  <2>1. finishing.on = "none" /\ cancelling.on = "none"
    BY <1>12 DEF ResolveEnds, CalmInv, ScreenFits, TypeOK, WaitsOk, Waits
  <2> QED
    BY <1>10, <1>12, <2>1, CalmLeft DEF ResolveEnds, NoWait
<1>13. ASSUME Leave PROVE CalmInv'
  BY <1>10, <1>13, CalmLeft DEF Leave, NoWait, waits
<1>14. ASSUME Killed PROVE CalmInv'
  BY <1>10, <1>14, CalmLeft DEF Killed, NoWait
<1> QED
  BY <1>1, <1>2, <1>3, <1>4, <1>5, <1>6, <1>7, <1>8, <1>9, <1>11, <1>12, <1>13, <1>14
     DEF UserNext, ScreenNext

LEMMA ServerKeepsCalm ==
  ASSUME TypeOK, CalmInv,
         \/ \E n \in Sends : Handle(n) \/ Failures(n)
         \/ \E f \in Friends : Withdraw(f)
  PROVE  CalmInv'
<1>1. send \in [Sends -> SendRecords]
  BY DEF TypeOK
<1>2. UNCHANGED <<phase, press, timer, mic, promise, banner, waits>>
  BY DEF Handle, Failures, Located, Choose, InsertEvent, InsertDeliveries, DeliveriesFail,
         Notify, Answer, AnswerApp, CloseRow, TellEnd, AttachAudio, TellAudio, SendLost,
         SendDies, AudioLost, CloseLost, Withdraw, screen
<1>3. ASSUME NEW n \in Sends, NEW r, send' = [send EXCEPT ![n] = r],
             send[n].pc # "free", r.press = send[n].press,
             r.result = "none" => send[n].result = "none"
      PROVE  CalmInv'
  BY <1>1, <1>2, <1>3, CalmServer
<1>4. ASSUME UNCHANGED send PROVE CalmInv'
  BY <1>2, <1>4, CalmServer
<1>5. ASSUME NEW n \in Sends, NEW from, NEW to, At(n, from, to), from # "free" PROVE CalmInv'
  BY <1>3, <1>5 DEF At
<1>6. ASSUME NEW n \in Sends, NEW result, AnswerApp(n, result), result # "none",
             send[n].pc # "free"
      PROVE  CalmInv'
  BY <1>3, <1>6 DEF AnswerApp
<1>7. ASSUME NEW n \in Sends, Handle(n) PROVE CalmInv'
  <2>1. CASE Located(n) \/ InsertEvent(n) \/ InsertDeliveries(n) \/ Notify(n)
    BY <1>5, <2>1 DEF Located, InsertEvent, InsertDeliveries, Notify
  <2>2. CASE \E to \in SUBSET Friends : Choose(n, to)
    BY <1>3, <2>2 DEF Choose
  <2>3. CASE DeliveriesFail(n) \/ Answer(n)
    BY <1>6, <2>3 DEF DeliveriesFail, Answer, Ready
  <2>4. CASE \/ \E kind \in Kinds : CloseRow(n, kind) \/ TellEnd(n, kind)
             \/ AttachAudio(n) \/ TellAudio(n)
    BY <1>4, <2>4 DEF CloseRow, TellEnd, AttachAudio, TellAudio
  <2> QED
    BY <1>7, <2>1, <2>2, <2>3, <2>4 DEF Handle
<1>8. ASSUME NEW n \in Sends, Failures(n) PROVE CalmInv'
  <2>1. CASE SendDies(n)
    BY <1>6, <2>1 DEF SendDies
  <2>2. CASE SendLost(n)
    BY <1>3, <2>2 DEF SendLost
  <2>3. CASE AudioLost(n) \/ \E kind \in Kinds : CloseLost(n, kind)
    BY <1>4, <2>3 DEF AudioLost, CloseLost
  <2> QED
    BY <1>8, <2>1, <2>2, <2>3 DEF Failures
<1>9. ASSUME NEW f \in Friends, Withdraw(f) PROVE CalmInv'
  BY <1>4, <1>9 DEF Withdraw
<1> QED
  BY <1>7, <1>8, <1>9

LEMMA CalmStep ==
  ASSUME ~EarlyCancel PROVE TypeOK /\ CalmInv /\ [Next]_vars => CalmInv'
<1> SUFFICES ASSUME TypeOK, CalmInv, [Next]_vars PROVE CalmInv'
  OBVIOUS
<1>1. CASE UNCHANGED vars
  BY <1>1, CalmServer DEF vars, screen, waits
<1>2. CASE UserNext \/ ScreenNext \/ Killed
  BY <1>2, ScreenKeepsCalm
<1>3. CASE \/ \E n \in Sends : Handle(n) \/ Failures(n)
           \/ \E f \in Friends : Withdraw(f)
  BY <1>3, ServerKeepsCalm
<1> QED
  BY <1>1, <1>2, <1>3 DEF Next

\* "Cancelled" is final, provided nobody cancels while the microphone is being
\* prepared.
THEOREM CancelHolds == ASSUME ~EarlyCancel PROVE Spec => []CancelIsFinal
<1>1. Init => TypeOK /\ CalmInv
  BY InitType, CalmInit
<1>2. TypeOK /\ CalmInv /\ [Next]_vars => TypeOK' /\ CalmInv'
  BY StepType, CalmStep
<1>3. TypeOK /\ CalmInv => CancelIsFinal
  BY CalmEnough
<1> QED
  BY <1>1, <1>2, <1>3, PTL DEF Spec
----------------------------------------------------------------------------
(* How an SOS ends, when the microphone is prepared before the user can      *)
(* cancel.                                                                   *)

\* What was asked for about send n, and what came of it: the recording is never
\* attached to an SOS whose user asks to cancel it.
EndSend(n) ==
  /\ (send[n].pc # "free" /\ send[n].result = "none") => promise = n
  /\ audio[n] # "none" => send[n].result = "ok" /\ closing[n]["cancelled"] = "none"
  /\ event[n].status = "cancelled" => closing[n]["cancelled"] # "none"
  /\ event[n].audio => audio[n] # "none"
  /\ calmed[n] # {} => \E k \in Kinds : closing[n][k] # "none"
  /\ audio[n] = "gone" => faults # 0
  /\ \A k \in Kinds :
       /\ closing[n][k] \in {"telling", "answered"} => event[n].status # "sent"
       /\ closing[n][k] = "gone" => faults # 0
  /\ promise = n => /\ audio[n] = "none"
                    /\ \A k \in Kinds : closing[n][k] = "none"
                    /\ send[n].result = "ok" => sosId = n

\* Where the screen is with send n, as long as nothing was lost: an SOS of this
\* press that went out is in the hands of finish or cancel, can be ended with "I
\* am safe", was left to itself, or is over; and "I am safe" waits for the
\* recording.
EndWait(n) ==
  /\ (send[n].result = "ok" /\ send[n].press = press) =>
       \/ promise = n
       \/ finishing.on = "answer" /\ finishing.n = n
       \/ cancelling.on = "answer" /\ cancelling.n = n
       \/ phase = "sent" /\ sosId = n
       \/ phase = "idle" /\ ~banner
       \/ event[n].status # "sent"
  /\ audio[n] \in {"asked", "telling"} => finishing.on = "answer" /\ finishing.n = n
  /\ closing[n]["resolved"] # "none" => audio[n] \in {"none", "answered"}

EndInv ==
  /\ \A n \in Sends : EndSend(n)
  /\ faults = 0 => \A n \in Sends : EndWait(n)
  /\ finishing.on = "answer" => sosId = finishing.n
  /\ resolving.on = "answer" => sosId = resolving.n

\* It implies three properties.
LEMMA EndEnough ==
  ASSUME TypeOK, SafeInv, CalmInv, EndInv PROVE CancelReaches /\ NoNewsAfterEnd
<1>1. ASSUME NEW n \in Sends, banner, faults = 0, send[n].result = "ok", send[n].press = press
      PROVE  event[n].status # "sent"
  <2>1. EndWait(n)
    BY <1>1 DEF EndInv
  <2>2. phase = "idle" /\ promise = None /\ finishing.on = "none" /\ cancelling.on = "none"
    BY <1>1 DEF CalmInv, ScreenFits, TypeOK, WaitsOk, Waits
  <2>3. None # n
    BY DEF Sends, None
  <2> QED
    BY <1>1, <2>1, <2>2, <2>3 DEF EndWait
<1>2. ASSUME NEW n \in Sends, event[n].status = "cancelled" PROVE ~event[n].audio
  BY <1>2 DEF EndInv, EndSend
<1>3. ASSUME NEW n \in Sends, audio[n] = "telling", faults = 0 PROVE calmed[n] = {}
  <2>1. closing[n]["cancelled"] = "none" /\ closing[n]["resolved"] = "none"
    BY <1>3 DEF EndInv, EndSend, EndWait
  <2> QED
    BY <1>3, <2>1 DEF EndInv, EndSend, Kinds
<1> QED
  BY <1>1, <1>2, <1>3 DEF CancelReaches, NoNewsAfterEnd

LEMMA EndCloses ==
  ASSUME TypeOK, SafeInv, CalmInv, EndInv, ResolveEnds, faults = 0, UNCHANGED faults,
         NEW n \in Sends, send[n].result = "ok", send[n].press = press
  PROVE  event[n].status # "sent"
<1>1. /\ phase = "sent" /\ promise = None /\ finishing.on = "none" /\ cancelling.on = "none"
      /\ resolving.n \in Sends
  BY DEF CalmInv, ScreenFits, ResolveEnds, TypeOK, WaitsOk, Waits
<1>2. None # n
  BY DEF Sends, None
<1>3. sosId = n \/ event[n].status # "sent"
  BY <1>1, <1>2 DEF EndInv, EndWait
<1>4. closing[resolving.n]["resolved"] \in {"answered", "gone"}
  BY DEF ResolveEnds, Settled, Fault, TypeOK
<1>5. event[resolving.n].status # "sent"
  BY <1>1, <1>4 DEF EndInv, EndSend, Kinds
<1> QED
  BY <1>3, <1>5 DEF EndInv, ResolveEnds

LEMMA EndInit == Init => EndInv
  BY DEF Init, EndInv, EndSend, EndWait, Sends, None, NoWait, Kinds

\* A step for send n that leaves what belongs to the other sends alone, and the
\* screen too, which only learns the id of the send it awaits.
LEMMA EndOthers ==
  ASSUME TypeOK, CalmInv, EndInv, UNCHANGED <<phase, press, promise, banner, waits>>,
         NEW n \in Sends, EndSend(n)', faults' = 0 => EndWait(n)',
         \A m \in Sends : m # n =>
           /\ send'[m] = send[m] /\ event'[m] = event[m] /\ closing'[m] = closing[m]
           /\ audio'[m] = audio[m] /\ calmed'[m] = calmed[m],
         sosId' = sosId \/ (sosId' = n /\ promise = n),
         faults' = 0 => faults = 0
  PROVE  EndInv'
<1>0. None # n
  BY DEF Sends, None
<1>1. promise = n => phase # "sent" /\ finishing.on # "answer" /\ resolving.on # "answer"
  BY <1>0 DEF CalmInv, ScreenFits
<1>2. ASSUME NEW m \in Sends, m # n PROVE EndSend(m)'
  BY <1>2 DEF EndInv, EndSend
<1>3. ASSUME NEW m \in Sends, m # n, faults' = 0 PROVE EndWait(m)'
  BY <1>1, <1>3 DEF EndInv, EndWait, waits
<1> QED
  BY <1>1, <1>2, <1>3 DEF EndInv, waits

\* A fault is counted, or there is none.
LEMMA FaultCounts ==
  ASSUME faults \in Nat, Fault PROVE faults' # 0
  BY DEF Fault

\* The steps of the server keep it.
LEMMA ServerKeepsEnd ==
  ASSUME TypeOK, SafeInv, CalmInv, EndInv, NEW n \in Sends, Handle(n) \/ Failures(n)
  PROVE  EndInv'
<1>0. /\ SafeSend(n) /\ EndSend(n)
      /\ faults = 0 => EndWait(n)
      /\ faults \in Nat
      /\ send \in [Sends -> SendRecords]
      /\ event \in [Sends -> EventRecords]
      /\ closing \in [Sends -> [Kinds -> CallSteps]]
      /\ audio \in [Sends -> CallSteps]
      /\ calmed \in [Sends -> SUBSET Friends]
  BY Bounds DEF SafeInv, EndInv, TypeOK, EventRecords
<1>s. UNCHANGED <<phase, press, promise, banner, waits>>
  BY DEF Handle, Failures, Located, Choose, InsertEvent, InsertDeliveries, DeliveriesFail,
         Notify, Answer, AnswerApp, CloseRow, TellEnd, AttachAudio, TellAudio, SendLost,
         SendDies, AudioLost, CloseLost, screen
<1>f. faults' = 0 => faults = 0
  <2>1. UNCHANGED faults \/ Fault
    BY DEF Handle, Failures, Located, Choose, InsertEvent, InsertDeliveries, DeliveriesFail,
           Notify, Answer, CloseRow, TellEnd, AttachAudio, TellAudio, SendLost,
           SendDies, AudioLost, CloseLost
  <2> QED
    BY <1>0, <2>1 DEF Fault
<1>a. ASSUME Located(n) \/ (\E to \in SUBSET Friends : Choose(n, to)) \/ SendLost(n)
      PROVE  EndInv'
  <2>1. /\ send[n].pc # "free"
        /\ send'[n].press = send[n].press
        /\ \/ send'[n].result = send[n].result
           \/ send[n].result = "none" /\ send'[n].result = "offline"
        /\ \A m \in Sends : m # n => send'[m] = send[m]
    BY <1>0, <1>a DEF Located, Choose, At, SendLost
  <2>2. UNCHANGED <<event, closing, audio, calmed, sosId>>
    BY <1>a DEF Located, Choose, SendLost, server, screen
  <2>3. EndSend(n)'
    BY <1>0, <1>s, <1>f, <2>1, <2>2 DEF EndSend
  <2>4. faults' = 0 => EndWait(n)'
    BY <1>0, <1>s, <1>f, <2>1, <2>2 DEF EndWait, waits
  <2> QED
    BY <1>s, <1>f, <2>1, <2>2, <2>3, <2>4, EndOthers
<1>b. ASSUME InsertEvent(n) \/ InsertDeliveries(n) \/ Notify(n) PROVE EndInv'
  <2>1. /\ send[n].pc \in {"chosen", "inserted", "delivered"}
        /\ send'[n].press = send[n].press /\ send'[n].result = send[n].result
        /\ \A m \in Sends : m # n => send'[m] = send[m]
    BY <1>0, <1>b DEF InsertEvent, InsertDeliveries, Notify, At
  <2>2. UNCHANGED <<closing, audio, calmed, sosId>>
    BY <1>b DEF InsertEvent, InsertDeliveries, Notify, screen
  <2>3. send[n].result # "ok" /\ audio[n] = "none" /\ \A k \in Kinds : closing[n][k] = "none"
    BY <1>0, <2>1 DEF SafeSend, EndSend
  <2>4. /\ event'[n].status \in {"sent", event[n].status}
        /\ event'[n].audio => event[n].audio
        /\ \A m \in Sends : m # n => event'[m] = event[m]
    <3>1. CASE InsertEvent(n)
      BY <1>0, <3>1 DEF InsertEvent
    <3>2. CASE InsertDeliveries(n)
      BY <1>0, <3>2 DEF InsertDeliveries, EventRecords
    <3>3. CASE Notify(n)
      BY <1>0, <3>3 DEF Notify
    <3> QED
      BY <1>b, <3>1, <3>2, <3>3
  <2>5. EndSend(n)'
    BY <1>0, <1>s, <1>f, <2>1, <2>2, <2>3, <2>4 DEF EndSend
  <2>6. EndWait(n)'
    BY <2>1, <2>2, <2>3 DEF EndWait, Kinds
  <2> QED
    BY <1>s, <1>f, <2>1, <2>2, <2>4, <2>5, <2>6, EndOthers
<1>c. ASSUME NEW result \in {"ok", "failed", "offline"}, AnswerApp(n, result),
             send[n].pc \notin {"free", "end"}, UNCHANGED server
      PROVE  EndInv'
  <2>1. /\ send'[n].press = send[n].press
        /\ send'[n].result = IF send[n].result = "none" THEN result ELSE send[n].result
        /\ \A m \in Sends : m # n => send'[m] = send[m]
    BY <1>0, <1>c DEF AnswerApp
  <2>2. UNCHANGED <<event, closing, audio, calmed>>
    BY <1>c DEF server
  <2>3. send[n].result # "ok" /\ audio[n] = "none" /\ \A k \in Kinds : closing[n][k] = "none"
    BY <1>0, <1>c DEF SafeSend, EndSend
  <2>4. IF send'[n].result = "ok" THEN sosId' = n /\ promise = n ELSE sosId' = sosId
    BY <1>0, <1>c, <2>1, <2>3 DEF AnswerApp, KnownId, EndSend
  <2>5. EndSend(n)'
    BY <1>0, <1>s, <1>f, <2>1, <2>2, <2>3, <2>4 DEF EndSend
  <2>6. EndWait(n)'
    BY <1>s, <2>1, <2>2, <2>3, <2>4 DEF EndWait, Kinds
  <2> QED
    BY <1>s, <1>f, <2>1, <2>2, <2>4, <2>5, <2>6, EndOthers
<1>d. ASSUME DeliveriesFail(n) \/ Answer(n) \/ SendDies(n) PROVE EndInv'
  BY <1>c, <1>d DEF DeliveriesFail, Answer, Ready, SendDies
<1>e. ASSUME NEW kind \in Kinds, CloseRow(n, kind) \/ TellEnd(n, kind) \/ CloseLost(n, kind)
      PROVE  EndInv'
  <2>1. /\ closing[n][kind] \in {"asked", "telling"}
        /\ \E step \in {"telling", "answered", "gone"} :
             closing' = [closing EXCEPT ![n][kind] = step]
    BY <1>e DEF CloseRow, TellEnd, CloseLost
  <2>2. /\ \A m \in Sends : m # n => closing'[m] = closing[m]
        /\ \A k \in Kinds : closing'[n][k] = "none" <=> closing[n][k] = "none"
        /\ \A k \in Kinds : k # kind => closing'[n][k] = closing[n][k]
    BY <1>0, <2>1
  <2>3. UNCHANGED <<send, audio, sosId>>
    BY <1>e DEF CloseRow, TellEnd, CloseLost, screen
  <2>4. /\ \A m \in Sends : m # n => event'[m] = event[m] /\ calmed'[m] = calmed[m]
        /\ event'[n].audio = event[n].audio
        /\ event[n].status # "sent" => event'[n].status = event[n].status
        /\ event'[n].status \in {event[n].status, kind}
    BY <1>0, <1>e DEF CloseRow, TellEnd, CloseLost, EventRecords
  <2>5. /\ closing'[n][kind] \in {"telling", "answered"} => event'[n].status # "sent"
        /\ closing'[n][kind] = "gone" => faults' # 0
    <3>1. CASE CloseRow(n, kind)
      BY <1>0, <3>1 DEF CloseRow, EventRecords, Kinds
    <3>2. CASE TellEnd(n, kind)
      BY <1>0, <3>2 DEF TellEnd, EndSend
    <3>3. CASE CloseLost(n, kind)
      BY <1>0, <3>3, FaultCounts DEF CloseLost
    <3> QED
      BY <1>e, <3>1, <3>2, <3>3
  <2>6. promise # n /\ closing[n][kind] # "none"
    BY <1>0, <2>1 DEF EndSend
  <2>7. "cancelled" \in Kinds /\ "resolved" \in Kinds /\ "sent" \notin Kinds
    BY DEF Kinds
  <2>8. EndSend(n)'
    BY <1>0, <1>s, <1>f, <2>2, <2>3, <2>4, <2>5, <2>6, <2>7 DEF EndSend
  <2>9. faults' = 0 => EndWait(n)'
    BY <1>0, <1>s, <1>f, <2>2, <2>3, <2>4, <2>7 DEF EndWait, waits
  <2> QED
    BY <1>s, <1>f, <2>2, <2>3, <2>4, <2>8, <2>9, EndOthers
<1>g. ASSUME AttachAudio(n) \/ TellAudio(n) \/ AudioLost(n) PROVE EndInv'
  <2>1. /\ audio[n] \in {"asked", "telling"}
        /\ audio'[n] \in {"telling", "answered", "gone"}
        /\ audio'[n] = "gone" => faults' # 0
        /\ \A m \in Sends : m # n => audio'[m] = audio[m]
    BY <1>0, <1>g, FaultCounts DEF AttachAudio, TellAudio, AudioLost
  <2>2. UNCHANGED <<send, closing, calmed, sosId>>
    BY <1>g DEF AttachAudio, TellAudio, AudioLost, screen
  <2>3. /\ \A m \in Sends : m # n => event'[m] = event[m]
        /\ event'[n].status = event[n].status
    BY <1>0, <1>g DEF AttachAudio, TellAudio, AudioLost, EventRecords
  <2>4. promise # n
    BY <1>0, <2>1 DEF EndSend
  <2>5. EndSend(n)'
    BY <1>0, <1>s, <1>f, <2>1, <2>2, <2>3, <2>4 DEF EndSend
  <2>6. faults' = 0 => EndWait(n)'
    BY <1>0, <1>s, <1>f, <2>1, <2>2, <2>3 DEF EndWait, waits
  <2> QED
    BY <1>s, <1>f, <2>1, <2>2, <2>3, <2>5, <2>6, EndOthers
<1> QED
  BY <1>a, <1>b, <1>d, <1>e, <1>g DEF Handle, Failures

\* A send that was not begun has left no trace.
LEMMA Untouched ==
  ASSUME TypeOK, SafeInv, EndInv, NEW n \in Sends, send[n].pc = "free"
  PROVE  audio[n] = "none" /\ send[n].result # "ok" /\ \A k \in Kinds : closing[n][k] = "none"
  BY DEF SafeInv, SafeSend, EndInv, EndSend, TypeOK

\* A screen that is left: what it waited for no longer matters.
LEMMA EndLeft ==
  ASSUME TypeOK, SafeInv, EndInv, FreshScreen, UNCHANGED server, NEW f,
         \A n \in Sends : f[n] = "free" <=> send[n].pc = "free",
         send' = [n \in Sends |-> Left(n, f[n])],
         finishing'.on = "none", resolving'.on = "none",
         faults' = 0 => faults = 0,
         faults' = 0 => \A n \in Sends : audio[n] \notin {"asked", "telling"}
  PROVE  EndInv'
<1>1. ASSUME NEW n \in Sends
      PROVE  /\ send'[n].pc # "free" => send'[n].result # "none"
             /\ send'[n].result = "ok" <=> send[n].result = "ok"
             /\ promise' # n
  BY DEF Left, FreshScreen, Sends, None
<1>2. ASSUME NEW n \in Sends PROVE EndSend(n)'
  BY <1>1 DEF EndInv, EndSend, server
<1>3. ASSUME faults' = 0, NEW n \in Sends PROVE EndWait(n)'
  <2>1. phase' = "idle" /\ ~banner'
    BY DEF FreshScreen
  <2>2. EndWait(n)
    BY <1>3 DEF EndInv
  <2> QED
    BY <1>3, <2>1, <2>2 DEF EndWait, server
<1> QED
  BY <1>2, <1>3 DEF EndInv

\* The steps of the screen keep it.
LEMMA ScreenKeepsEnd ==
  ASSUME ~EarlyCancel, TypeOK, SafeInv, CalmInv, EndInv, UserNext \/ ScreenNext \/ Killed
  PROVE  EndInv'
<1>0. /\ \A n \in Sends : EndSend(n)
      /\ faults = 0 => \A n \in Sends : EndWait(n)
      /\ None \notin Sends
      /\ \A n \in Sends : send[n].pc = "free" =>
           audio[n] = "none" /\ send[n].result # "ok" /\ \A k \in Kinds : closing[n][k] = "none"
      /\ send \in [Sends -> SendRecords]
      /\ closing \in [Sends -> [Kinds -> CallSteps]]
      /\ audio \in [Sends -> CallSteps]
      /\ faults \in Nat /\ press \in Nat
  BY Untouched, Bounds DEF EndInv, TypeOK, Sends, None
<1>1. ASSUME Start PROVE EndInv'
  <2>1. ASSUME NEW n \in Sends PROVE EndSend(n)'
    BY <1>0, <1>1 DEF EndSend, Start, server
  <2>2. ASSUME NEW n \in Sends, faults' = 0 PROVE EndWait(n)'
    <3>1. send[n].result = "ok" => send[n].press <= press
      BY <1>0 DEF CalmInv, SendsFit
    <3>2. ~(send'[n].result = "ok" /\ send'[n].press = press')
      BY <1>0, <1>1, <3>1 DEF Start, SendRecords
    <3> QED
      BY <1>0, <1>1, <2>2, <3>2 DEF EndWait, Start, server, waits
  <2> QED
    BY <1>1, <2>1, <2>2 DEF EndInv, Start, waits
<1>2. ASSUME NEW n \in Sends, CountdownEnds(n) PROVE EndInv'
  <2>1. /\ send'[n].result = "none" /\ send[n].pc = "free"
        /\ \A m \in Sends : m # n => send'[m] = send[m]
        /\ promise' = n
    BY <1>0, <1>2 DEF CountdownEnds, SendLocation
  <2>2. /\ promise = None /\ phase = "countdown"
        /\ finishing.on = "none" /\ cancelling.on = "none" /\ resolving.on = "none"
    BY <1>2 DEF CountdownEnds, CalmInv, ScreenFits, TypeOK, WaitsOk, Waits
  <2>3. /\ UNCHANGED <<server, sosId, faults, press, resolving, cancelling>>
        /\ finishing'.on # "answer" /\ resolving'.on = "none" /\ phase' # "idle"
    BY <1>2, <2>2 DEF CountdownEnds, Wait
  <2>4. ASSUME NEW m \in Sends PROVE EndSend(m)'
    BY <1>0, <2>1, <2>2, <2>3 DEF EndSend, server
  <2>5. ASSUME NEW m \in Sends, faults' = 0 PROVE EndWait(m)'
    BY <1>0, <2>1, <2>2, <2>3, <2>5 DEF EndWait, server
  <2> QED
    BY <2>3, <2>4, <2>5 DEF EndInv
<1>3. ASSUME Recording PROVE EndInv'
  <2>1. ASSUME NEW n \in Sends PROVE EndSend(n)'
    BY <1>0, <1>3 DEF EndSend, Recording, server
  <2>2. ASSUME NEW n \in Sends, faults' = 0 PROVE EndWait(n)'
    BY <1>0, <1>3, <2>2 DEF EndWait, Recording, server, waits
  <2> QED
    BY <1>3, <2>1, <2>2 DEF EndInv, Recording, waits
<1>4. ASSUME RecordingEnds \/ RecordingFails PROVE EndInv'
  <2>1. promise # None /\ phase = "recording" /\ finishing.on = "none" /\ resolving.on = "none"
    BY <1>4 DEF CalmInv, ScreenFits, RecordingEnds, RecordingFails, TypeOK, WaitsOk, Waits
  <2>2. /\ UNCHANGED <<send, server, sosId, faults, press, promise, cancelling, resolving>>
        /\ finishing'.on = "send"
    BY <1>4, <2>1 DEF RecordingEnds, RecordingFails, Finish, Wait
  <2>3. ASSUME NEW n \in Sends PROVE EndSend(n)'
    BY <1>0, <2>2 DEF EndSend, server
  <2>4. ASSUME NEW n \in Sends, faults' = 0 PROVE EndWait(n)'
    BY <1>0, <2>1, <2>2, <2>4 DEF EndWait, server
  <2> QED
    BY <2>1, <2>2, <2>3, <2>4 DEF EndInv
<1>5. ASSUME FinishSent PROVE EndInv'
  <2>1. /\ phase = "sending" /\ promise = finishing.n /\ send[promise].result # "none"
        /\ promise \in Sends /\ finishing.on = "send" /\ ~banner
        /\ cancelling.on = "none" /\ resolving.on = "none"
    BY <1>5 DEF CalmInv, ScreenFits, FinishSent, TypeOK, WaitsOk, Waits
  <2>2. /\ UNCHANGED <<press, sosId, banner, cancelling, resolving, send, event, closing,
                       calmed, faults>>
        /\ promise' = None
    BY <1>5 DEF FinishSent
  <2>3. CASE /\ send[promise].result = "ok"
             /\ finishing' = Wait("answer", promise, TRUE)
             /\ audio' = [audio EXCEPT ![promise] = "asked"]
             /\ UNCHANGED phase
    <3>1. /\ audio'[promise] = "asked" /\ sosId = promise
          /\ \A m \in Sends : m # promise => audio'[m] = audio[m]
          /\ \A k \in Kinds : closing[promise][k] = "none"
      BY <1>0, <2>1, <2>3 DEF EndSend
    <3>2. finishing'.on = "answer" /\ finishing'.n = promise
      BY <2>3 DEF Wait
    <3>3. ASSUME NEW n \in Sends PROVE EndSend(n)'
      BY <1>0, <2>1, <2>2, <2>3, <3>1 DEF EndSend, Kinds
    <3>4. ASSUME NEW n \in Sends, faults' = 0 PROVE EndWait(n)'
      BY <1>0, <2>1, <2>2, <2>3, <3>1, <3>2, <3>4 DEF EndWait, Kinds
    <3> QED
      BY <2>1, <2>2, <3>1, <3>2, <3>3, <3>4 DEF EndInv
  <2>4. CASE /\ finishing' = NoWait
             /\ phase' = AfterSend(promise)
             /\ UNCHANGED audio
    <3>1. finishing'.on = "none"
      BY <2>4 DEF NoWait
    <3>2. ASSUME NEW n \in Sends PROVE EndSend(n)'
      BY <1>0, <2>1, <2>2, <2>4 DEF EndSend
    <3>3. ASSUME NEW n \in Sends, faults' = 0 PROVE EndWait(n)'
      <4>1. EndSend(n) /\ EndWait(n)
        BY <1>0, <2>2, <3>3
      <4>2. CASE n = promise
        BY <1>0, <2>1, <2>2, <2>4, <4>1, <4>2 DEF EndSend, EndWait, AfterSend
      <4>3. CASE n # promise
        BY <1>0, <2>1, <2>2, <2>4, <4>1, <4>3 DEF EndWait, AfterSend
      <4> QED
        BY <4>2, <4>3
    <3> QED
      BY <2>1, <2>2, <3>1, <3>2, <3>3 DEF EndInv
  <2> QED
    BY <1>5, <2>1, <2>3, <2>4 DEF FinishSent
<1>6. ASSUME FinishAttached PROVE EndInv'
  <2>1. /\ phase = "sending" /\ promise = None /\ sosId = finishing.n /\ finishing.on = "answer"
        /\ finishing.n \in Sends
        /\ cancelling.on = "none" /\ resolving.on = "none"
    BY <1>6 DEF CalmInv, ScreenFits, EndInv, FinishAttached, TypeOK, WaitsOk, Waits
  <2>2. /\ UNCHANGED <<press, promise, sosId, banner, cancelling, resolving, send, server>>
        /\ phase' = "sent" /\ finishing'.on = "none"
    BY <1>6 DEF FinishAttached, NoWait
  <2>3. faults' = 0 => faults = 0 /\ audio[finishing.n] \in {"answered", "gone"}
    BY <1>0, <1>6 DEF FinishAttached, AudioSettled, Settled, Fault
  <2>4. ASSUME NEW n \in Sends PROVE EndSend(n)'
    BY <1>0, <2>2, <2>3 DEF EndSend, server
  <2>5. ASSUME NEW n \in Sends, faults' = 0 PROVE EndWait(n)'
    BY <1>0, <2>1, <2>2, <2>3, <2>5 DEF EndWait, server
  <2> QED
    BY <2>1, <2>2, <2>4, <2>5 DEF EndInv
<1>7. ASSUME Cancel PROVE EndInv'
  <2>1. /\ phase \in {"countdown", "recording"} /\ cancelling = NoWait
        /\ finishing.on = "none" /\ resolving.on = "none"
    BY <1>7 DEF Cancel, Cancellable, CalmInv, ScreenFits, TypeOK, WaitsOk, Waits
  <2>2. /\ UNCHANGED <<press, promise, sosId, finishing, resolving, send, server, faults>>
        /\ cancelling'.on # "answer"
        /\ promise # None => UNCHANGED <<phase, banner>>
    BY <1>7, <2>1 DEF Cancel, AwaitedByCancel, Wait, NoWait
  <2>3. ASSUME NEW n \in Sends PROVE EndSend(n)'
    BY <1>0, <2>2 DEF EndSend, server
  <2>4. ASSUME NEW n \in Sends, faults' = 0 PROVE EndWait(n)'
    <3>1. EndWait(n) /\ cancelling.on = "none"
      BY <1>0, <2>1, <2>2, <2>4 DEF NoWait
    <3> QED
      BY <1>0, <2>1, <2>2, <3>1 DEF EndWait, server
  <2> QED
    BY <2>1, <2>2, <2>3, <2>4 DEF EndInv
<1>8. ASSUME CancelSent PROVE EndInv'
  <2>1. /\ phase = "recording" /\ promise = cancelling.n /\ send[promise].result # "none"
        /\ promise \in Sends /\ cancelling.on = "send"
        /\ finishing.on = "none" /\ resolving.on = "none"
    BY <1>8 DEF CalmInv, ScreenFits, CancelSent, TypeOK, WaitsOk, Waits
  <2>2. /\ UNCHANGED <<press, sosId, finishing, resolving, send, event, audio, calmed, faults>>
        /\ promise' = None
    BY <1>8 DEF CancelSent
  <2>3. CASE send[promise].result = "ok"
    <3>1. /\ cancelling' = Wait("answer", promise, FALSE)
          /\ closing' = [closing EXCEPT ![promise]["cancelled"] = "asked"]
          /\ UNCHANGED <<phase, banner>>
      BY <1>8, <2>1, <2>3 DEF CancelSent, AskEnd
    <3>2. /\ audio[promise] = "none"
          /\ closing'[promise]["cancelled"] = "asked"
          /\ closing'[promise]["resolved"] = "none"
          /\ \A m \in Sends : m # promise => closing'[m] = closing[m]
      BY <1>0, <2>1, <3>1 DEF EndSend, Kinds
    <3>3. cancelling'.on = "answer" /\ cancelling'.n = promise
      BY <3>1 DEF Wait
    <3>4. ASSUME NEW n \in Sends PROVE EndSend(n)'
      <4>1. CASE n = promise
        BY <1>0, <2>1, <2>2, <3>2, <4>1 DEF EndSend, Kinds
      <4>2. CASE n # promise
        BY <1>0, <2>1, <2>2, <3>2, <4>2 DEF EndSend
      <4> QED
        BY <4>1, <4>2
    <3>5. ASSUME NEW n \in Sends, faults' = 0 PROVE EndWait(n)'
      BY <1>0, <2>1, <2>2, <3>1, <3>2, <3>3, <3>5 DEF EndWait
    <3> QED
      BY <2>1, <2>2, <3>4, <3>5 DEF EndInv
  <2>4. CASE send[promise].result # "ok"
    <3>1. UNCHANGED closing /\ cancelling'.on = "none"
      BY <1>8, <2>1, <2>4 DEF CancelSent, NoWait
    <3>2. ASSUME NEW n \in Sends PROVE EndSend(n)'
      BY <1>0, <2>1, <2>2, <3>1 DEF EndSend
    <3>3. ASSUME NEW n \in Sends, faults' = 0 PROVE EndWait(n)'
      <4>1. EndWait(n)
        BY <1>0, <2>2, <3>3
      <4> QED
        BY <1>0, <2>1, <2>2, <2>4, <3>1, <4>1 DEF EndWait
    <3> QED
      BY <2>1, <2>2, <3>2, <3>3 DEF EndInv
  <2> QED
    BY <2>3, <2>4
<1>9. ASSUME CancelEnds PROVE EndInv'
  <2>1. /\ phase = "recording" /\ promise = None /\ cancelling.on = "answer"
        /\ cancelling.n \in Sends /\ finishing.on = "none" /\ resolving.on = "none"
    BY <1>9 DEF CalmInv, ScreenFits, CancelEnds, TypeOK, WaitsOk, Waits
  <2>2. /\ UNCHANGED <<press, promise, sosId, finishing, resolving, send, server>>
        /\ phase' = "idle" /\ banner' = TRUE /\ cancelling'.on = "none"
    BY <1>9 DEF CancelEnds, NoWait
  <2>3. faults' = 0 => faults = 0 /\ closing[cancelling.n]["cancelled"] \in {"answered", "gone"}
    BY <1>0, <1>9 DEF CancelEnds, Settled, Fault
  <2>4. ASSUME NEW n \in Sends PROVE EndSend(n)'
    BY <1>0, <2>2, <2>3 DEF EndSend, server
  <2>5. ASSUME NEW n \in Sends, faults' = 0 PROVE EndWait(n)'
    <3>1. EndWait(n)
      BY <1>0, <2>3, <2>5
    <3>2. n = cancelling.n => event[n].status # "sent"
      BY <1>0, <2>3, <2>5 DEF EndSend, Kinds
    <3> QED
      BY <1>0, <2>1, <2>2, <3>1, <3>2 DEF EndWait, server
  <2> QED
    BY <2>1, <2>2, <2>4, <2>5 DEF EndInv
<1> DEFINE pcs == [n \in Sends |-> send[n].pc]
           killed == [n \in Sends |-> IF send[n].pc = "locating" THEN "end" ELSE send[n].pc]
<1>10. \A n \in Sends : (pcs[n] = "free" <=> send[n].pc = "free")
                        /\ (killed[n] = "free" <=> send[n].pc = "free")
  OBVIOUS
<1>11. ASSUME finishing.on # "answer", faults = 0, NEW n \in Sends
       PROVE  audio[n] \notin {"asked", "telling"}
  BY <1>0, <1>11 DEF EndWait
<1>12. ASSUME Resolve PROVE EndInv'
  <2>1. /\ phase = "sent" /\ resolving = NoWait /\ promise = None
        /\ finishing.on = "none" /\ cancelling.on = "none"
        /\ UNCHANGED <<finishing, cancelling, event, audio, alarmed, calmed, accounts, faults>>
    BY <1>12 DEF Resolve, CalmInv, ScreenFits, TypeOK, WaitsOk, Waits
  <2>2. CASE sosId = None
    <3>1. /\ FreshScreen /\ send' = [n \in Sends |-> Left(n, pcs[n])]
          /\ UNCHANGED <<resolving, closing>>
      BY <1>12, <2>2 DEF Resolve
    <3>2. finishing'.on = "none" /\ resolving'.on = "none"
      BY <2>1, <3>1 DEF NoWait
    <3>3. faults' = 0 => \A n \in Sends : audio[n] \notin {"asked", "telling"}
      BY <1>11, <2>1
    <3>4. UNCHANGED server
      BY <2>1, <3>1 DEF server
    <3> QED
      BY <1>10, <2>1, <3>1, <3>2, <3>3, <3>4, EndLeft
  <2>3. CASE sosId # None
    <3>1. /\ resolving' = Wait("answer", sosId, FALSE)
          /\ closing' = [closing EXCEPT ![sosId]["resolved"] = "asked"]
          /\ UNCHANGED <<screen, send>>
      BY <1>12, <2>3 DEF Resolve, AskEnd
    <3>2. sosId \in Sends /\ send[sosId].result = "ok"
      BY <2>3 DEF TypeOK, SafeInv
    <3>3. /\ closing'[sosId]["resolved"] = "asked"
          /\ closing'[sosId]["cancelled"] = closing[sosId]["cancelled"]
          /\ \A m \in Sends : m # sosId => closing'[m] = closing[m]
      BY <1>0, <3>1, <3>2 DEF Kinds
    <3>4. ASSUME NEW n \in Sends PROVE EndSend(n)'
      <4>1. UNCHANGED <<promise, sosId>>
        BY <3>1 DEF screen
      <4>2. CASE n = sosId
        BY <1>0, <2>1, <3>1, <3>2, <3>3, <4>1, <4>2 DEF EndSend, Kinds
      <4>3. CASE n # sosId
        BY <1>0, <2>1, <3>1, <3>3, <4>1, <4>3 DEF EndSend
      <4> QED
        BY <4>2, <4>3
    <3>5. ASSUME NEW n \in Sends, faults' = 0 PROVE EndWait(n)'
      <4>1. EndWait(n) /\ EndSend(n)
        BY <1>0, <2>1, <3>5
      <4>2. audio[n] \in {"none", "answered"}
        BY <1>0, <2>1, <3>5, <4>1 DEF EndWait, EndSend, CallSteps
      <4> QED
        BY <2>1, <3>1, <3>3, <4>1, <4>2 DEF EndWait, screen
    <3>6. resolving'.n = sosId /\ sosId' = sosId
      BY <3>1 DEF Wait, screen
    <3> QED
      BY <2>1, <3>4, <3>5, <3>6 DEF EndInv
  <2> QED
    BY <2>2, <2>3
<1>13. ASSUME ResolveEnds PROVE EndInv'
  <2>1. finishing.on = "none" /\ UNCHANGED finishing /\ resolving'.on = "none"
    BY <1>13 DEF ResolveEnds, CalmInv, ScreenFits, TypeOK, WaitsOk, Waits, NoWait
  <2>2. faults' = 0 => faults = 0
    BY <1>0, <1>13 DEF ResolveEnds, Settled, Fault
  <2> QED
    BY <1>10, <1>11, <1>13, <2>1, <2>2, EndLeft DEF ResolveEnds
<1>14. ASSUME Leave PROVE EndInv'
  <2>1. finishing'.on = "none" /\ resolving'.on = "none" /\ finishing.on = "none"
    BY <1>14 DEF Leave, NoWait, waits
  <2> QED
    BY <1>10, <1>11, <1>14, <2>1, EndLeft DEF Leave
<1>15. ASSUME Killed PROVE EndInv'
  <2>1. faults' # 0 /\ finishing'.on = "none" /\ resolving'.on = "none"
    BY <1>0, <1>15, FaultCounts DEF Killed, NoWait
  <2> QED
    BY <1>10, <1>15, <2>1, EndLeft DEF Killed
<1> QED
  BY <1>1, <1>2, <1>3, <1>4, <1>5, <1>6, <1>7, <1>8, <1>9, <1>12, <1>13, <1>14, <1>15
     DEF UserNext, ScreenNext

LEMMA EndStep ==
  ASSUME ~EarlyCancel PROVE TypeOK /\ SafeInv /\ CalmInv /\ EndInv /\ [Next]_vars => EndInv'
<1> SUFFICES ASSUME TypeOK, SafeInv, CalmInv, EndInv, [Next]_vars PROVE EndInv'
  OBVIOUS
<1>1. CASE UNCHANGED vars
  <2>1. UNCHANGED <<phase, press, promise, banner, sosId, send, event, closing, audio, calmed,
                    finishing, cancelling, resolving, faults>>
    BY <1>1 DEF vars, screen, server, waits
  <2> QED
    BY <2>1 DEF EndInv, EndSend, EndWait
<1>2. CASE UserNext \/ ScreenNext \/ Killed
  BY <1>2, ScreenKeepsEnd
<1>3. CASE \E n \in Sends : Handle(n) \/ Failures(n)
  BY <1>3, ServerKeepsEnd
<1>4. ASSUME NEW f \in Friends, Withdraw(f) PROVE EndInv'
  <2>1. UNCHANGED <<phase, press, promise, banner, sosId, send, closing, audio, calmed,
                    finishing, cancelling, resolving, faults>>
    BY <1>4 DEF Withdraw, screen, waits
  <2>2. \A n \in Sends : event'[n].status = event[n].status /\ event'[n].audio = event[n].audio
    BY <1>4 DEF Withdraw
  <2> QED
    BY <2>1, <2>2 DEF EndInv, EndSend, EndWait
<1> QED
  BY <1>1, <1>2, <1>3, <1>4 DEF Next

\* Together they are inductive.
LEMMA EndHolds ==
  ASSUME ~EarlyCancel PROVE Spec => [](TypeOK /\ SafeInv /\ CalmInv /\ EndInv)
<1>1. Init => TypeOK /\ SafeInv /\ CalmInv /\ EndInv
  BY InitType, SafeInit, CalmInit, EndInit
<1>2. TypeOK /\ SafeInv /\ CalmInv /\ EndInv /\ [Next]_vars
        => TypeOK' /\ SafeInv' /\ CalmInv' /\ EndInv'
  BY StepType, SafeStep, CalmStep, EndStep
<1> QED
  BY <1>1, <1>2, PTL DEF Spec

\* A cancelled SOS that went out is closed on the server once the screen says so,
\* as long as nothing was lost, and its recording is never handed out.
THEOREM CancelIsHeard == ASSUME ~EarlyCancel PROVE Spec => []CancelReaches
<1>1. TypeOK /\ SafeInv /\ CalmInv /\ EndInv => CancelReaches
  BY EndEnough
<1> QED
  BY <1>1, EndHolds, PTL

\* The recording never reaches the recipients after the end of the SOS, as long
\* as the app gave up on nothing.
THEOREM NoLateNews == ASSUME ~EarlyCancel PROVE Spec => []NoNewsAfterEnd
<1>1. TypeOK /\ SafeInv /\ CalmInv /\ EndInv => NoNewsAfterEnd
  BY EndEnough
<1> QED
  BY <1>1, EndHolds, PTL

\* "I am safe" ends the SOS of this press, as long as nothing was lost.
THEOREM SafeMeansClosed == ASSUME ~EarlyCancel PROVE Spec => ResolveCloses
<1>1. TypeOK /\ SafeInv /\ CalmInv /\ EndInv
        => ((ResolveEnds /\ faults = 0 /\ UNCHANGED faults) => \A n \in Sends :
              (send[n].result = "ok" /\ send[n].press = press) => event[n].status # "sent")
  BY EndCloses
<1> QED
  BY <1>1, EndHolds, PTL DEF ResolveCloses
============================================================================
