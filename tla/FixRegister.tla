----------------------------- MODULE FixRegister -----------------------------
(***************************************************************************)
(* What the location pipeline promises of every fix, whatever happens to   *)
(* requests, servers and workers: it goes from the phone to the server and *)
(* from there into the database, one hop at a time, and leaves this way    *)
(* only by being given up on purpose.  LocationPipeline implements it.     *)
(***************************************************************************)
EXTENDS Naturals

CONSTANT MaxFix \* fixes the phone measures

VARIABLE place \* place[f]: how far the fix has come

Fixes == 1 .. MaxFix

Places == {"unmeasured", "phone", "server", "saved", "given up"}

Init == place = [f \in Fixes |-> "unmeasured"]

----------------------------------------------------------------------------
(* The hops of one fix.                                                    *)

\* The phone measures, one fix after the other.
Measured(f) ==
  /\ place[f] = "unmeasured"
  /\ \A g \in 1 .. f - 1 : place[g] # "unmeasured"
  /\ place'[f] = "phone"

\* The server takes it on; also when the phone has given it up with the request
\* still under way.
TakenOn(f) ==
  /\ place[f] \in {"phone", "given up"}
  /\ place'[f] = "server"

\* It is in the database; also when the stream has dropped it while a worker had
\* it in hand.
Saved(f) ==
  /\ place[f] \in {"server", "given up"}
  /\ place'[f] = "saved"

\* Evicted, refused, trimmed, or thrown away by the logout.
GivenUp(f) ==
  /\ place[f] \in {"phone", "server"}
  /\ place'[f] = "given up"

----------------------------------------------------------------------------

\* A step may move several fixes: a batch, or one that makes others fall out.
Next ==
  /\ place' \in [Fixes -> Places]
  /\ \A f \in Fixes :
       \/ Measured(f) \/ TakenOn(f) \/ Saved(f) \/ GivenUp(f)
       \/ place'[f] = place[f]

Spec == Init /\ [][Next]_place
=============================================================================
