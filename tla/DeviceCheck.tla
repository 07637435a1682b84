------------------------------ MODULE DeviceCheck ------------------------------
(***************************************************************************)
(* A login on a new device waits for a code                                *)
(* (ramupin-server/src/auth/device-verification.service.ts).  A challenge  *)
(* lives in Redis; each call reads it as a whole, may wait for the text    *)
(* message, and writes it back as a whole if it is still there.  A right   *)
(* code deletes it, and whoever deletes it logs in.  Within one day.       *)
(***************************************************************************)
EXTENDS Naturals, FiniteSets

CONSTANTS
  Challenges,      \* logins of one user that wait for a code
  NoChallenge,     \* none of them
  CheckCalls,      \* calls under way at the same time
  MaxSends,        \* MAX_SENDS_PER_CHALLENGE
  MaxDaily,        \* MAX_SENDS_PER_DAY
  MaxAttempts,     \* MAX_ATTEMPTS
  MaxChecks        \* bound: calls in all

ASSUME DeviceCheckAssumption ==
  /\ NoChallenge \notin Challenges
  /\ IsFiniteSet(CheckCalls)
  /\ {MaxSends, MaxDaily, MaxAttempts, MaxChecks} \subseteq Nat

VARIABLES
  challenge, \* challenge[h]: what Redis holds
  daily,     \* the counter of the day
  texted,    \* text messages sent
  textAge,   \* textAge[n]: half a minute, three minutes of the text n are over
  checking,  \* checking[c]: how far the call c is, and what it read
  checks,    \* calls so far
  logins     \* logins[h]: logins the challenge h led to

deviceCheckVars == <<challenge, daily, texted, textAge, checking, checks, logins>>

Texts == 1 .. MaxChecks

\* code: the text message sent last, whose code is waited for.
NewChallenge == [there |-> TRUE, code |-> 0, sends |-> 0, attempts |-> 0]

ChallengeStates == [there: BOOLEAN, code: {0} \cup Texts, sends: Nat, attempts: Nat]

Checking(pc, h, read) == [pc |-> pc, of |-> h, read |-> read]

NotChecking == Checking("idle", NoChallenge, NewChallenge)

DeviceCheckInit ==
  /\ challenge = [h \in Challenges |-> NewChallenge]
  /\ daily = 0
  /\ texted = 0
  /\ textAge = [n \in Texts |-> "new"]
  /\ checking = [c \in CheckCalls |-> NotChecking]
  /\ checks = 0
  /\ logins = [h \in Challenges |-> 0]

----------------------------------------------------------------------------
(* Operations.                                                             *)

StartsCheck(c, pc, h, read) ==
  /\ checks < MaxChecks
  /\ checks' = checks + 1
  /\ checking[c] = NotChecking
  /\ challenge[h].there
  /\ checking' = [checking EXCEPT ![c] = Checking(pc, h, read)]

EndsCheck(c) == checking' = [checking EXCEPT ![c] = NotChecking]

\* sendCode reads the challenge; too soon, or too often, is refused.
SendCode(c, h) ==
  /\ challenge[h].code # 0 => textAge[challenge[h].code] # "new"
  /\ challenge[h].sends < MaxSends
  /\ StartsCheck(c, "count", h, challenge[h])
  /\ UNCHANGED <<textAge, challenge, daily, texted, logins>>

\* It counts itself, refused or not, ...
CountText(c) ==
  /\ checking[c].pc = "count"
  /\ daily' = daily + 1
  /\ IF daily' > MaxDaily
     THEN EndsCheck(c)
     ELSE checking' = [checking EXCEPT ![c].pc = "text"]
  /\ UNCHANGED <<textAge, challenge, texted, checks, logins>>

\* The challenge with the text n sent.
WithText(read, n) ==
  [there |-> read.there, code |-> n, sends |-> read.sends + 1, attempts |-> 0]

\* ... and sends the code.
SendText(c) ==
  /\ checking[c].pc = "text"
  /\ texted' = texted + 1
  /\ checking' = [checking EXCEPT ![c] =
                    Checking("save", @.of, WithText(@.read, texted'))]
  /\ UNCHANGED <<textAge, challenge, daily, checks, logins>>

\* Mutation: the challenge is written whether it is still there or not.
SavedAnyway(now, read) == read

\* SET ... XX: only over one that is there.
SavedChallenge(now, read) == IF now.there THEN read ELSE now

SaveChallenge(c) ==
  /\ checking[c].pc = "save"
  /\ challenge' = [challenge EXCEPT ![checking[c].of] = SavedChallenge(@, checking[c].read)]
  /\ EndsCheck(c)
  /\ UNCHANGED <<textAge, daily, texted, checks, logins>>

Awaits(h) == challenge[h].code # 0 /\ textAge[challenge[h].code] # "expired"

\* verify: a wrong code is counted; the last attempt deletes the challenge.
VerifyWrong(c, h) ==
  /\ Awaits(h)
  /\ LET read == [challenge[h] EXCEPT !.attempts = @ + 1]
     IN  StartsCheck(c, IF read.attempts >= MaxAttempts THEN "delete" ELSE "save", h, read)
  /\ UNCHANGED <<textAge, challenge, daily, texted, logins>>

\* The right one deletes it ...
VerifyRight(c, h) ==
  /\ Awaits(h)
  /\ StartsCheck(c, "right", h, NewChallenge)
  /\ UNCHANGED <<textAge, challenge, daily, texted, logins>>

\* ... and logs in if it was there to delete.
DeleteChallenge(c) ==
  LET h == checking[c].of
  IN  /\ checking[c].pc \in {"delete", "right"}
      /\ challenge' = [challenge EXCEPT ![h].there = FALSE]
      /\ logins' = [logins EXCEPT ![h] =
                      IF checking[c].pc = "right" /\ challenge[h].there THEN @ + 1 ELSE @]
      /\ EndsCheck(c)
      /\ UNCHANGED <<textAge, daily, texted, checks>>

\* Half a minute, then three minutes after a text are over.
TextAges(n) ==
  /\ n <= texted /\ textAge[n] # "expired"
  /\ textAge' = [textAge EXCEPT ![n] = IF @ = "new" THEN "rested" ELSE "expired"]
  /\ UNCHANGED <<challenge, daily, texted, checking, checks, logins>>

\* Ten minutes after the login are over.
ChallengeExpires(h) ==
  /\ challenge[h].there
  /\ challenge' = [challenge EXCEPT ![h].there = FALSE]
  /\ UNCHANGED <<textAge, daily, texted, checking, checks, logins>>

\* The text cannot be sent, Redis fails, or the server dies.
CheckFails(c) ==
  /\ checking[c] # NotChecking
  /\ EndsCheck(c)
  /\ UNCHANGED <<textAge, challenge, daily, texted, checks, logins>>

DeviceCheckNext ==
  \/ \E c \in CheckCalls :
       \/ \E h \in Challenges : SendCode(c, h) \/ VerifyWrong(c, h) \/ VerifyRight(c, h)
       \/ CountText(c) \/ SendText(c) \/ SaveChallenge(c) \/ DeleteChallenge(c)
       \/ CheckFails(c)
  \/ \E n \in Texts : TextAges(n)
  \/ \E h \in Challenges : ChallengeExpires(h)

DeviceCheckSpec == DeviceCheckInit /\ [][DeviceCheckNext]_deviceCheckVars

----------------------------------------------------------------------------
(* Properties.                                                             *)

\* Types of the variables.
DeviceCheckTypeOK ==
  /\ challenge \in [Challenges -> ChallengeStates]
  /\ daily \in Nat /\ texted \in Nat
  /\ textAge \in [Texts -> {"new", "rested", "expired"}]
  /\ checking \in [CheckCalls ->
       [pc: {"idle", "count", "text", "save", "delete", "right"},
        of: Challenges \cup {NoChallenge}, read: ChallengeStates]]
  /\ checks \in 0 .. MaxChecks
  /\ logins \in [Challenges -> Nat]

\* A login that waits for a code is let in once, although right codes may be entered
\* at the same time and a call that read the challenge before may write it afterwards;
\* and no more texts go out than a day allows, however many logins ask at once
\* (device-verification.service.ts, verify, save and the counter of sendCode).
OneLoginEach ==
  /\ \A h \in Challenges : logins[h] <= 1 /\ (logins[h] = 1 => ~challenge[h].there)
  /\ texted <= MaxDaily
=============================================================================
