-------------------------------- MODULE Alarm --------------------------------
(***************************************************************************)
(* What an SOS is to those who receive it, whatever becomes of the screen, *)
(* of requests and of servers: it is raised once, they are alarmed once    *)
(* while it is open, it ends once, in one way, and only if somebody knows  *)
(* of it, and its end is told to those who were alarmed.  Sos implements   *)
(* it.                                                                     *)
(***************************************************************************)
CONSTANTS
  Sends,  \* the SOS that may be raised
  Friends \* those who may receive them

VARIABLES
  status,  \* status[n]: "none", "sent", or how the SOS ended
  company, \* those SOS the company has on its list
  heard    \* heard[n][f]: the last thing f heard of it

Kinds == {"cancelled", "resolved"}

Init ==
  /\ status = [n \in Sends |-> "none"]
  /\ company = {}
  /\ heard = [n \in Sends |-> [f \in Friends |-> "nothing"]]

\* Everybody in who hears something of n.
Hear(n, who, what) ==
  heard' = [heard EXCEPT ![n] = [f \in Friends |-> IF f \in who THEN what ELSE heard[n][f]]]

----------------------------------------------------------------------------

Raise(n) ==
  /\ status[n] = "none"
  /\ status' = [status EXCEPT ![n] = "sent"]
  /\ company' \in {company, company \cup {n}}
  /\ UNCHANGED heard

Tell(n, who) ==
  /\ status[n] = "sent"
  /\ \A f \in Friends : heard[n][f] = "nothing"
  /\ Hear(n, who, "alarm")
  /\ UNCHANGED <<status, company>>

Finish(n, kind) ==
  /\ status[n] = "sent"
  /\ n \in company \/ \E f \in Friends : heard[n][f] = "alarm"
  /\ status' = [status EXCEPT ![n] = kind]
  /\ UNCHANGED <<company, heard>>

TellEnd(n, who) ==
  /\ status[n] \in Kinds
  /\ \A f \in Friends : heard[n][f] # "end"
  /\ \A f \in who : heard[n][f] = "alarm"
  /\ Hear(n, who, "end")
  /\ UNCHANGED <<status, company>>

Next ==
  \E n \in Sends :
    \/ Raise(n)
    \/ \E who \in SUBSET Friends : Tell(n, who) \/ TellEnd(n, who)
    \/ \E kind \in Kinds : Finish(n, kind)

Spec == Init /\ [][Next]_<<status, company, heard>>
=============================================================================
