-------------------------------- MODULE SosSms --------------------------------
(***************************************************************************)
(* Text messages of an SOS to contacts without the app                     *)
(* (ramupin-server/src/sos/sos-sms.service.ts): a row for every contact is *)
(* written first, the messages go out one by one behind the answer, and    *)
(* the user may send one again that the result screen shows as failed.     *)
(***************************************************************************)
EXTENDS Naturals, FiniteSets

CONSTANTS
  Contacts,  \* how many contacts there are; they are numbered by age
  MaxTexted, \* the smaller of sosSmsMaxPerEvent and the capacity left
  SmsCalls,  \* calls under way: the start and those that send again
  MaxResent, \* bound: messages sent again
  MaxLost    \* bound: updates lost and servers dying

ASSUME SosSmsAssumption == {Contacts, MaxTexted, MaxResent, MaxLost} \subseteq Nat

VARIABLES
  delivery, \* delivery[n]: the status of the row of the contact n
  accepted, \* accepted[n]: messages to n the provider took (history)
  texting,  \* texting[c]: how far the call c is, and the rows it still has to send
  resent,   \* messages sent again so far
  lost      \* updates lost and servers dead so far

sosSmsVars == <<delivery, accepted, texting, resent, lost>>

ContactNos == 1 .. Contacts

NotTexting == [pc |-> "idle", rows |-> {}]

SosSmsInit ==
  /\ delivery = [n \in ContactNos |-> "none"]
  /\ accepted = [n \in ContactNos |-> 0]
  /\ texting = [c \in SmsCalls |-> NotTexting]
  /\ resent = 0
  /\ lost = 0

----------------------------------------------------------------------------
(* The rows and the loop over them.                                        *)

\* Who gets a message: nobody if messages are off or the plan has none, else the oldest
\* contacts up to the limit.
Texted(allowed) == {n \in ContactNos : allowed /\ n <= MaxTexted}

\* The loop goes through the rows in their order.
At(c) == CHOOSE n \in texting[c].rows : \A m \in texting[c].rows : n <= m

Sending(rows) == IF rows = {} THEN NotTexting ELSE [pc |-> "send", rows |-> rows]

StartForSos(c, allowed) ==
  /\ \A n \in ContactNos : delivery[n] = "none"
  /\ texting[c] = NotTexting
  /\ delivery' = [n \in ContactNos |-> IF n \in Texted(allowed) THEN "sending" ELSE "skipped"]
  /\ texting' = [texting EXCEPT ![c] = Sending(Texted(allowed))]
  /\ UNCHANGED <<accepted, resent, lost>>

\* The provider takes the message or not, and its answer may not come.
SendSms(c, taken, heard) ==
  /\ texting[c].pc = "send"
  /\ accepted' = IF taken THEN [accepted EXCEPT ![At(c)] = @ + 1] ELSE accepted
  /\ texting' = [texting EXCEPT ![c].pc = IF taken /\ heard THEN "sent" ELSE "failed"]
  /\ UNCHANGED <<delivery, resent, lost>>

\* Mutation: a failure ends the loop.
RowsLeftNone(c) == IF texting[c].pc = "sent" THEN texting[c].rows \ {At(c)} ELSE {}

\* A failure is caught inside the loop, which goes on.
RowsLeft(c) == texting[c].rows \ {At(c)}

NoteOutcome(c) ==
  /\ texting[c].pc \in {"sent", "failed"}
  /\ delivery' = [delivery EXCEPT ![At(c)] = texting[c].pc]
  /\ texting' = [texting EXCEPT ![c] = Sending(RowsLeft(c))]
  /\ UNCHANGED <<accepted, resent, lost>>

\* The update fails: 'sent' becomes 'failed', and 'failed' is given up.
UpdateFails(c) ==
  /\ texting[c].pc \in {"sent", "failed"}
  /\ lost < MaxLost
  /\ lost' = lost + 1
  /\ texting' = [texting EXCEPT ![c] =
                   IF @.pc = "sent" THEN [@ EXCEPT !.pc = "failed"] ELSE Sending(RowsLeft(c))]
  /\ UNCHANGED <<delivery, accepted, resent>>

\* resend: only what failed ...
Resend(c, n) ==
  /\ texting[c] = NotTexting
  /\ delivery[n] = "failed"
  /\ resent < MaxResent
  /\ resent' = resent + 1
  /\ texting' = [texting EXCEPT ![c] = [pc |-> "mark", rows |-> {n}]]
  /\ UNCHANGED <<delivery, accepted, lost>>

\* ... whatever it is by now.
MarkSending(c) ==
  /\ texting[c].pc = "mark"
  /\ delivery' = [delivery EXCEPT ![At(c)] = "sending"]
  /\ texting' = [texting EXCEPT ![c].pc = "send"]
  /\ UNCHANGED <<accepted, resent, lost>>

\* The server dies with what it had to send.
TextingDies(c) ==
  /\ texting[c] # NotTexting
  /\ lost < MaxLost
  /\ lost' = lost + 1
  /\ texting' = [texting EXCEPT ![c] = NotTexting]
  /\ UNCHANGED <<delivery, accepted, resent>>

SosSmsNext ==
  \E c \in SmsCalls :
    \/ \E allowed \in BOOLEAN : StartForSos(c, allowed)
    \/ \E taken \in BOOLEAN, heard \in BOOLEAN : SendSms(c, taken, heard)
    \/ \E n \in ContactNos : Resend(c, n)
    \/ NoteOutcome(c) \/ UpdateFails(c) \/ MarkSending(c) \/ TextingDies(c)

SosSmsSpec == SosSmsInit /\ [][SosSmsNext]_sosSmsVars

----------------------------------------------------------------------------
(* Properties.                                                             *)

\* Types of the variables.
SosSmsTypeOK ==
  /\ delivery \in [ContactNos -> {"none", "skipped", "sending", "sent", "failed"}]
  /\ accepted \in [ContactNos -> Nat]
  /\ texting \in [SmsCalls -> [pc: {"idle", "send", "sent", "failed", "mark"},
                              rows: SUBSET ContactNos]]
  /\ resent \in 0 .. MaxResent /\ lost \in 0 .. MaxLost

\* The result screen can be believed, although a message may be sent again twice at once:
\* 'sent' was taken by the provider, 'skipped' was never sent, no more contacts than the
\* limit are texted, and unless a server died or an update was lost, 'sending' is really
\* on its way, so that every failure can be tried again (sos-sms.service.ts, startForSos,
\* sendAll and resend).
ScreenIsRight ==
  /\ \A n \in ContactNos :
       /\ delivery[n] = "sent" => accepted[n] > 0
       /\ delivery[n] = "skipped" => accepted[n] = 0
       /\ delivery[n] = "sending" /\ lost = 0 => \E c \in SmsCalls : n \in texting[c].rows
  /\ Cardinality({n \in ContactNos : accepted[n] > 0}) <= MaxTexted
=============================================================================
