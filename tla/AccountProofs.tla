---------------------------- MODULE AccountProofs ----------------------------
(***************************************************************************)
(* Proofs about the way to an account and into it: SignUp, Guardian and    *)
(* DeviceCheck, for any number of calls, phones, challenges and texts.     *)
(* Each part has an inductive invariant of its own: who holds which row    *)
(* lock (Guardian), what the states that calls carry around may say        *)
(* (SignUp), and what the texts on their way have counted (DeviceCheck).   *)
(***************************************************************************)
EXTENDS SignUp, Guardian, DeviceCheck, FiniteSetTheorems, TLAPS

----------------------------------------------------------------------------
(* Guardian.                                                               *)

HoldsChild(c) == consenting[c] \in {"settle", "cascade", "purged"}

\* One at a time holds the row of the consent, one the row of the account.
LocksExclude ==
  \A c, d \in Consenters :
    /\ HoldsConsent(c) /\ HoldsConsent(d) => c = d
    /\ HoldsChild(c) /\ HoldsChild(d) => c = d

\* What the holders of the locks know of the rows.
HoldersKnow ==
  \A c \in Consenters :
    /\ consenting[c] \in {"note", "activate", "settle"} => child # "deleted" /\ ~consent.noted
    /\ consenting[c] \in {"cascade", "purged"} => child = "pending_guardian"

\* The rows agree.
RowsAgree ==
  /\ consent.noted <=> child = "active"
  /\ consent.linked = IF consent.noted THEN 1 ELSE 0
  /\ assured => consent.noted

GuardianInv == GuardianTypeOK /\ LocksExclude /\ HoldersKnow /\ RowsAgree

\* The initial state satisfies the invariant.
LEMMA GuardianInitInv == GuardianInit => GuardianInv
<1> SUFFICES ASSUME GuardianInit PROVE GuardianInv
  OBVIOUS
<1> DEFINE row == [noted |-> FALSE, expired |-> FALSE, resent |-> 0, linked |-> 0]
<1>0. row \in [noted: BOOLEAN, expired: BOOLEAN, resent: 0 .. MaxResend, linked: Nat]
  BY GuardianAssumption
<1>00. consenting \in [Consenters -> GuardianPcs]
  BY DEF GuardianInit, GuardianPcs
<1>1. GuardianTypeOK
  BY <1>0, <1>00, Zenon DEF GuardianInit, GuardianTypeOK
<1>2. LocksExclude /\ HoldersKnow
  BY DEF GuardianInit, LocksExclude, HoldersKnow, HoldsConsent, HoldsChild
<1>3. RowsAgree
  BY DEF GuardianInit, RowsAgree
<1> QED
  BY <1>1, <1>2, <1>3 DEF GuardianInv

\* Every step keeps it.
LEMMA GuardianStep == GuardianInv /\ [GuardianNext]_guardianVars => GuardianInv'
<1> SUFFICES ASSUME GuardianInv, [GuardianNext]_guardianVars PROVE GuardianInv'
  OBVIOUS
<1> USE DEF GuardianInv, GuardianTypeOK, LocksExclude, HoldersKnow, RowsAgree,
            HoldsConsent, HoldsChild, ConsentFree, ChildFree, Moves, GuardianPcs
<1>1. ASSUME NEW c \in Consenters, Consent(c) PROVE GuardianInv'
  BY <1>1 DEF Consent
<1>2. ASSUME NEW c \in Consenters, LockConsent(c) PROVE GuardianInv'
  <2> DEFINE known == child # "deleted" /\ consent.noted
  <2>1. assured' = (assured \/ known) /\ UNCHANGED <<child, consent>>
    BY <1>2 DEF LockConsent
  <2>2. RowsAgree'
    BY <2>1
  <2>3. GuardianTypeOK'
    BY <1>2, <2>1 DEF LockConsent
  <2>4. LocksExclude' /\ HoldersKnow'
    BY <1>2 DEF LockConsent
  <2> QED
    BY <2>2, <2>3, <2>4
<1>3. ASSUME NEW c \in Consenters, NoteConsent(c) PROVE GuardianInv'
  BY <1>3 DEF NoteConsent
<1>4. ASSUME NEW c \in Consenters, Activate(c) PROVE GuardianInv'
  BY <1>4 DEF Activate
<1>5. ASSUME NEW c \in Consenters, SettleConsent(c) PROVE GuardianInv'
  <2>1. child = "pending_guardian" /\ ~consent.noted /\ consent.linked = 0
    BY <1>5 DEF SettleConsent
  <2>2. child' = "active" /\ assured' = TRUE
    BY <1>5, <2>1 DEF SettleConsent
  <2>3. consent' = [consent EXCEPT !.noted = TRUE, !.linked = 1]
    BY <1>5, <2>1 DEF SettleConsent
  <2>4. /\ consent' \in [noted: BOOLEAN, expired: BOOLEAN, resent: 0 .. MaxResend, linked: Nat]
        /\ consent'.noted = TRUE /\ consent'.linked = 1
    BY <2>3
  <2>5. consenting' = [consenting EXCEPT ![c] = "idle"] /\ consenting[c] = "settle"
    BY <1>5 DEF SettleConsent
  <2>6. GuardianTypeOK'
    BY <2>2, <2>4, <2>5
  <2>7. LocksExclude' /\ HoldersKnow'
    BY <2>2, <2>4, <2>5
  <2>8. RowsAgree'
    BY <2>2, <2>4
  <2> QED
    BY <2>6, <2>7, <2>8
<1>6. ASSUME NEW c \in Consenters, PurgeExpired(c) PROVE GuardianInv'
  BY <1>6 DEF PurgeExpired
<1>7. ASSUME NEW c \in Consenters, DeleteChild(c) PROVE GuardianInv'
  BY <1>7 DEF DeleteChild
<1>8. ASSUME NEW c \in Consenters, Cascade(c) PROVE GuardianInv'
  BY <1>8 DEF Cascade
<1>9. ASSUME NEW c \in Consenters, CommitPurge(c) PROVE GuardianInv'
  BY <1>9 DEF CommitPurge
<1>10. ASSUME NEW c \in Consenters, GuardianFails(c) PROVE GuardianInv'
  BY <1>10 DEF GuardianFails
<1>11. CASE ResendConsent
  BY <1>11, GuardianAssumption DEF ResendConsent
<1>12. CASE ConsentExpires
  BY <1>12 DEF ConsentExpires
<1>13. CASE UNCHANGED guardianVars
  BY <1>13 DEF guardianVars
<1> QED
  BY <1>1, <1>2, <1>3, <1>4, <1>5, <1>6, <1>7, <1>8, <1>9, <1>10, <1>11, <1>12, <1>13
  DEF GuardianNext

\* For any number of consents and deletions at the same time, a guardian who was told
\* that the consent is noted has an active account left behind, linked once
\* (guardian.service.ts, consent and purgeExpired).
THEOREM ConsentIsKept == GuardianSpec => []ConsentKept
<1>1. GuardianInv => ConsentKept
  BY DEF GuardianInv, RowsAgree, ConsentKept
<1> QED
  BY <1>1, GuardianInitInv, GuardianStep, PTL DEF GuardianSpec

----------------------------------------------------------------------------
(* SignUp.                                                                 *)

\* States of a sign-up that claim no phone whose code was not entered.
HonestForms ==
  [there: BOOLEAN, text: Nat, last: Nat, sends: Nat, attempts: Nat,
   verified: proven \cup {NoPhone}]

\* Redis and all calls hold such states; a call that signs up carries a proven phone.
HonestCalls ==
  /\ form \in HonestForms
  /\ signing \in [SignUpCalls ->
                   [pc: SignUpPcs, phone: Phones \cup proven \cup {NoPhone}, form: HonestForms]]
  /\ \A c \in SignUpCalls :
       /\ signing[c].pc \in {"check", "insert"} => signing[c].phone \in proven
       /\ signing[c].pc = "text" => signing[c].phone \in Phones

SignUpInv ==
  /\ HonestCalls
  /\ texts \in Seq(Phones)
  /\ NoPhone \notin theirs
  /\ AccountIsProven

\* A state that claims nothing is honest, and so is one with a phone just proven.
LEMMA NewFormHonest == NewForm \in HonestForms
  BY DEF NewForm, HonestForms

\* Nor does a state in which only a text was noted.
LEMMA CodeSentHonest ==
  ASSUME NEW read \in HonestForms, NEW n \in Nat
  PROVE  CodeSent(read, n) \in HonestForms
  BY DEF CodeSent, HonestForms

\* The initial state satisfies the invariant.
LEMMA SignUpInitInv == SignUpInit => SignUpInv
<1> SUFFICES ASSUME SignUpInit PROVE SignUpInv
  OBVIOUS
<1>1. form \in HonestForms /\ Done \in
        [pc: SignUpPcs, phone: Phones \cup proven \cup {NoPhone}, form: HonestForms]
  BY NewFormHonest DEF SignUpInit, Done, Signing, SignUpPcs
<1>2. HonestCalls
  BY <1>1 DEF SignUpInit, HonestCalls, Done, Signing
<1> QED
  BY <1>2, SignUpAssumption DEF SignUpInit, SignUpInv, AccountIsProven

\* A call that takes up a job with an honest state leaves the calls honest.
LEMMA CallHonest ==
  ASSUME HonestCalls, NEW c \in SignUpCalls, NEW j,
         j \in [pc: SignUpPcs, phone: Phones \cup proven \cup {NoPhone}, form: HonestForms],
         j.pc \in {"check", "insert"} => j.phone \in proven,
         j.pc = "text" => j.phone \in Phones,
         signing' = [signing EXCEPT ![c] = j],
         form' \in HonestForms, UNCHANGED proven
  PROVE  HonestCalls'
<1>1. HonestForms' = HonestForms
  BY DEF HonestForms
<1> QED
  BY <1>1 DEF HonestCalls

\* Every step keeps it.
LEMMA SignUpStep == SignUpInv /\ [SignUpNext]_signUpVars => SignUpInv'
<1> SUFFICES ASSUME SignUpInv, [SignUpNext]_signUpVars PROVE SignUpInv'
  OBVIOUS
<1> DEFINE Jobs == [pc: SignUpPcs, phone: Phones \cup proven \cup {NoPhone}, form: HonestForms]
<1>0. /\ form \in HonestForms
      /\ \A c \in SignUpCalls : signing[c] \in Jobs
  BY DEF SignUpInv, HonestCalls
<1>00. Done \in Jobs /\ Done.pc = "idle"
  BY NewFormHonest DEF Done, Signing, SignUpPcs
<1>1. ASSUME NEW c \in SignUpCalls, NEW phone \in Phones, SendPhoneCode(c, phone)
      PROVE  SignUpInv'
  <2>1. Signing("text", phone, form) \in Jobs
    BY <1>0 DEF Signing, SignUpPcs
  <2>2. HonestCalls'
    BY <1>0, <1>1, <2>1, CallHonest DEF SendPhoneCode, Enters, Signing, SignUpInv
  <2> QED
    BY <1>1, <2>2 DEF SendPhoneCode, SignUpInv, AccountIsProven
<1>2. ASSUME NEW c \in SignUpCalls, SendVerificationCode(c) PROVE SignUpInv'
  <2>1. signing[c].pc = "text" /\ signing[c].phone \in Phones
    BY <1>2 DEF SendVerificationCode, SignUpInv, HonestCalls
  <2>2. CASE ~Registered(signing[c].phone)
    <3> DEFINE f == CodeSent(signing[c].form, Len(texts'))
               j == Signing("save", NoPhone, f)
    <3>1. texts' \in Seq(Phones)
      BY <1>2, <2>1, <2>2 DEF SendVerificationCode, SignUpInv
    <3>2. f \in HonestForms
      <4>1. signing[c].form \in HonestForms /\ Len(texts') \in Nat
        BY <1>0, <3>1
      <4> QED
        BY <4>1, CodeSentHonest
    <3>3. j \in Jobs /\ j.pc = "save"
      BY <3>2 DEF Signing, SignUpPcs
    <3>4. signing' = [signing EXCEPT ![c] = j]
      BY <1>2, <2>2 DEF SendVerificationCode
    <3>5. form' \in HonestForms /\ proven' = proven
      BY <1>0, <1>2, <2>2 DEF SendVerificationCode
    <3>6. HonestCalls'
      <4> HIDE DEF j
      <4>1. HonestCalls
        BY DEF SignUpInv
      <4> QED
        BY <3>3, <3>4, <3>5, <4>1, CallHonest
    <3> QED
      BY <1>2, <3>1, <3>6 DEF SendVerificationCode, SignUpInv, AccountIsProven
  <2>3. CASE Registered(signing[c].phone)
    <3>1. HonestCalls'
      BY <1>0, <1>00, <1>2, <2>3, CallHonest DEF SendVerificationCode, Ends, SignUpInv
    <3> QED
      BY <1>2, <2>3, <3>1 DEF SendVerificationCode, SignUpInv, AccountIsProven
  <2> QED
    BY <2>2, <2>3
<1>3. ASSUME NEW c \in SignUpCalls, VerifyPhoneCode(c) PROVE SignUpInv'
  <2> DEFINE f == [form EXCEPT !.verified = texts[form.text], !.text = 0]
  <2>1. proven' = proven \cup {texts[form.text]}
    BY <1>3 DEF VerifyPhoneCode
  <2>2. f \in HonestForms' /\ HonestForms \subseteq HonestForms'
    BY <1>0, <2>1 DEF HonestForms
  <2>3. form' = form /\ signing' = [signing EXCEPT ![c] = Signing("save", NoPhone, f)]
    BY <1>3 DEF VerifyPhoneCode, Enters
  <2>4. Signing("save", NoPhone, f) \in Jobs'
    BY <2>2 DEF Signing, SignUpPcs
  <2>5. Signing("save", NoPhone, f).pc = "save"
    BY DEF Signing
  <2>6. HonestCalls'
    <3> HIDE DEF f
    <3>1. signing' \in [SignUpCalls -> Jobs']
      BY <1>0, <2>1, <2>2, <2>3, <2>4 DEF SignUpInv, HonestCalls
    <3>2. form' \in HonestForms'
      BY <1>0, <2>2, <2>3
    <3>3. ASSUME NEW d \in SignUpCalls
          PROVE  /\ signing'[d].pc \in {"check", "insert"} => signing'[d].phone \in proven'
                 /\ signing'[d].pc = "text" => signing'[d].phone \in Phones
      BY <2>1, <2>3, <2>5 DEF SignUpInv, HonestCalls
    <3> QED
      BY <3>1, <3>2, <3>3 DEF HonestCalls
  <2> QED
    BY <1>3, <2>1, <2>6 DEF VerifyPhoneCode, SignUpInv, AccountIsProven
<1>4. ASSUME NEW c \in SignUpCalls, MistypePhoneCode(c) PROVE SignUpInv'
  <2>1. [form EXCEPT !.attempts = @ + 1] \in HonestForms
    BY <1>0 DEF HonestForms
  <2>2. Signing("wrong", NoPhone, [form EXCEPT !.attempts = @ + 1]) \in Jobs
    BY <2>1 DEF Signing, SignUpPcs
  <2>3. HonestCalls'
    BY <1>0, <1>4, <2>2, CallHonest DEF MistypePhoneCode, Enters, Signing, SignUpInv
  <2> QED
    BY <1>4, <2>3 DEF MistypePhoneCode, SignUpInv, AccountIsProven
<1>5. ASSUME NEW c \in SignUpCalls, SaveForm(c) PROVE SignUpInv'
  <2>1. form' \in HonestForms /\ proven' = proven
    BY <1>0, <1>5 DEF SaveForm, SavedForm
  <2>2. Signing("delete", NoPhone, NewForm) \in Jobs
    BY NewFormHonest DEF Signing, SignUpPcs
  <2>3. \/ signing' = [signing EXCEPT ![c] = Signing("delete", NoPhone, NewForm)]
        \/ signing' = [signing EXCEPT ![c] = Done]
    BY <1>5 DEF SaveForm, Ends
  <2>4. HonestCalls'
    BY <1>00, <2>1, <2>2, <2>3, CallHonest DEF Signing, SignUpInv
  <2> QED
    BY <1>5, <2>4 DEF SaveForm, SignUpInv, AccountIsProven
<1>6. ASSUME NEW c \in SignUpCalls, DeleteForm(c) PROVE SignUpInv'
  <2>1. form' \in HonestForms
    BY <1>0, <1>6 DEF DeleteForm, HonestForms
  <2>2. HonestCalls'
    BY <1>00, <1>6, <2>1, CallHonest DEF DeleteForm, Ends, SignUpInv
  <2> QED
    BY <1>6, <2>2 DEF DeleteForm, SignUpInv, AccountIsProven
<1>7. ASSUME NEW c \in SignUpCalls, Complete(c) PROVE SignUpInv'
  <2>1. form.verified \in proven
    BY <1>0, <1>7 DEF Complete, HonestForms
  <2>2. Signing("check", form.verified, NewForm) \in Jobs
    BY <2>1, NewFormHonest DEF Signing, SignUpPcs
  <2>3. HonestCalls'
    BY <1>0, <1>7, <2>1, <2>2, CallHonest DEF Complete, Enters, Signing, SignUpInv
  <2> QED
    BY <1>7, <2>3 DEF Complete, SignUpInv, AccountIsProven
<1>8. ASSUME NEW c \in SignUpCalls, CheckPhone(c) PROVE SignUpInv'
  <2> DEFINE j == [signing[c] EXCEPT !.pc = "insert"]
  <2>1. signing[c].phone \in proven
    BY <1>8 DEF CheckPhone, SignUpInv, HonestCalls
  <2>2. j \in Jobs /\ j.pc = "insert" /\ j.phone = signing[c].phone
    BY <1>0 DEF SignUpPcs
  <2>3. signing' = [signing EXCEPT ![c] = j] \/ signing' = [signing EXCEPT ![c] = Done]
    BY <1>8 DEF CheckPhone, Ends, Goes
  <2>4. HonestCalls'
    <3> HIDE DEF j
    <3> QED
      BY <1>0, <1>00, <1>8, <2>1, <2>2, <2>3, CallHonest DEF CheckPhone, SignUpInv
  <2> QED
    BY <1>8, <2>4 DEF CheckPhone, SignUpInv, AccountIsProven
<1>9. ASSUME NEW c \in SignUpCalls, InsertAccount(c) PROVE SignUpInv'
  <2> DEFINE j == [signing[c] EXCEPT !.pc = "forget"]
  <2>1. signing[c].phone \in proven
    BY <1>9 DEF InsertAccount, SignUpInv, HonestCalls
  <2>2. j \in Jobs /\ j.pc = "forget"
    BY <1>0 DEF SignUpPcs
  <2>3. signing' = [signing EXCEPT ![c] = j] \/ signing' = [signing EXCEPT ![c] = Done]
    BY <1>9 DEF InsertAccount, Ends, Goes
  <2>4. HonestCalls'
    <3> HIDE DEF j
    <3> QED
      BY <1>0, <1>00, <1>9, <2>2, <2>3, CallHonest DEF InsertAccount, SignUpInv
  <2>5. AccountIsProven'
    BY <1>9, <2>1 DEF InsertAccount, Registered, SignUpInv, AccountIsProven
  <2> QED
    BY <1>9, <2>4, <2>5 DEF InsertAccount, SignUpInv
<1>10. ASSUME NEW c \in SignUpCalls, SignUpFails(c) PROVE SignUpInv'
  <2>1. HonestCalls'
    BY <1>0, <1>00, <1>10, CallHonest DEF SignUpFails, Ends, SignUpInv
  <2> QED
    BY <1>10, <2>1 DEF SignUpFails, SignUpInv, AccountIsProven
<1>11. ASSUME NEW n \in Codes, Ages(n) PROVE SignUpInv'
  BY <1>11 DEF Ages, SignUpInv, HonestCalls, HonestForms, AccountIsProven
<1>12. ASSUME NEW phone \in Phones, OthersSignUp(phone) PROVE SignUpInv'
  BY <1>12, SignUpAssumption
  DEF OthersSignUp, Registered, SignUpInv, HonestCalls, HonestForms, AccountIsProven
<1>13. CASE Lapse
  <2>1. form' \in HonestForms' /\ HonestForms' = HonestForms
    BY <1>0, <1>13 DEF Lapse, HonestForms
  <2> QED
    BY <1>13, <2>1 DEF Lapse, SignUpInv, HonestCalls, AccountIsProven
<1>14. CASE UNCHANGED signUpVars
  BY <1>14 DEF signUpVars, SignUpInv, HonestCalls, HonestForms, AccountIsProven
<1> QED
  BY <1>1, <1>2, <1>3, <1>4, <1>5, <1>6, <1>7, <1>8, <1>9, <1>10, <1>11, <1>12, <1>13, <1>14
  DEF SignUpNext

\* For any number of phones, codes and calls, an account has a phone a code of which was
\* entered and that nobody else has (sign-up.service.ts, verifyPhoneCode and complete).
THEOREM PhonesAreProven == SignUpSpec => []AccountIsProven
<1>1. SignUpInv => AccountIsProven
  BY DEF SignUpInv
<1> QED
  BY <1>1, SignUpInitInv, SignUpStep, PTL DEF SignUpSpec

----------------------------------------------------------------------------
(* DeviceCheck.                                                            *)

ChallengeRows == [there: BOOLEAN, code: Nat, sends: Nat, attempts: Nat]

CheckJobs ==
  [pc: {"idle", "count", "text", "save", "delete", "right"},
   of: Challenges \cup {NoChallenge}, read: ChallengeRows]

\* Whoever logged in is no longer waited for, and a job is about a challenge.
OnceIn ==
  /\ challenge \in [Challenges -> ChallengeRows]
  /\ checking \in [CheckCalls -> CheckJobs]
  /\ \A c \in CheckCalls : checking[c].pc # "idle" => checking[c].of \in Challenges
  /\ logins \in [Challenges -> {0, 1}]
  /\ \A h \in Challenges : logins[h] = 1 => ~challenge[h].there

\* Calls that were counted and have not sent their text.
Counted == {c \in CheckCalls : checking[c].pc = "text"}

\* What went out or will has been counted, and within the limit.
WithinDay ==
  /\ daily \in Nat /\ texted \in Nat
  /\ texted + Cardinality(Counted) <= daily
  /\ texted + Cardinality(Counted) <= MaxDaily

DeviceCheckInv == OnceIn /\ WithinDay

\* Every call counted is counted once: the numbers behind the limit of a day.
LEMMA CountedFinite ==
  /\ IsFiniteSet(Counted) /\ Cardinality(Counted) \in Nat
  /\ IsFiniteSet(Counted') /\ Cardinality(Counted') \in Nat
<1>1. IsFiniteSet(Counted) /\ IsFiniteSet(Counted')
  <2>1. Counted \subseteq CheckCalls /\ Counted' \subseteq CheckCalls
    BY DEF Counted
  <2> QED
    BY <2>1, DeviceCheckAssumption, FS_Subset DEF DeviceCheckAssumption
<1> QED
  BY <1>1, FS_CardinalityType

\* A set of counted calls that shrinks leaves the limit kept.
LEMMA FewerCounted ==
  ASSUME WithinDay, Counted' \subseteq Counted, texted' = texted, daily' = daily
  PROVE  WithinDay'
<1>1. Cardinality(Counted') <= Cardinality(Counted)
  BY CountedFinite, FS_Subset
<1> QED
  BY <1>1, CountedFinite, DeviceCheckAssumption DEF WithinDay, DeviceCheckAssumption

\* The initial state satisfies the invariant.
LEMMA DeviceCheckInitInv == DeviceCheckInit => DeviceCheckInv
<1> SUFFICES ASSUME DeviceCheckInit PROVE DeviceCheckInv
  OBVIOUS
<1>1. NewChallenge \in ChallengeRows
  BY DEF NewChallenge, ChallengeRows
<1>2. NotChecking \in CheckJobs /\ NotChecking.pc = "idle"
  BY <1>1 DEF NotChecking, Checking, CheckJobs
<1>3. OnceIn
  BY <1>1, <1>2 DEF DeviceCheckInit, OnceIn
<1>4. Counted = {}
  BY <1>2 DEF DeviceCheckInit, Counted
<1>5. WithinDay
  BY <1>4, FS_EmptySet, DeviceCheckAssumption DEF DeviceCheckInit, WithinDay
<1> QED
  BY <1>3, <1>5 DEF DeviceCheckInv

\* A call that takes up a job, or puts it down, lets nobody in.
LEMMA JobTaken ==
  ASSUME OnceIn, NEW c \in CheckCalls, NEW j \in CheckJobs,
         j.pc # "idle" => j.of \in Challenges,
         checking' = [checking EXCEPT ![c] = j]
  PROVE  /\ UNCHANGED <<challenge, logins>> => OnceIn'
         /\ j.pc # "text" => Counted' \subseteq Counted
<1>1. \A d \in CheckCalls : checking'[d] = IF d = c THEN j ELSE checking[d]
  BY DEF OnceIn
<1>2. ASSUME UNCHANGED <<challenge, logins>> PROVE OnceIn'
  BY <1>1, <1>2 DEF OnceIn
<1>3. ASSUME j.pc # "text" PROVE Counted' \subseteq Counted
  BY <1>1, <1>3 DEF Counted
<1> QED
  BY <1>2, <1>3

\* Every step keeps it.
LEMMA DeviceCheckStep == DeviceCheckInv /\ [DeviceCheckNext]_deviceCheckVars => DeviceCheckInv'
<1> SUFFICES ASSUME DeviceCheckInv, [DeviceCheckNext]_deviceCheckVars PROVE DeviceCheckInv'
  OBVIOUS
<1>0. OnceIn /\ WithinDay
  BY DEF DeviceCheckInv
<1>00. NewChallenge \in ChallengeRows /\ NotChecking \in CheckJobs /\ NotChecking.pc = "idle"
  BY DEF NewChallenge, ChallengeRows, NotChecking, Checking, CheckJobs
<1>1. ASSUME NEW c \in CheckCalls, NEW h \in Challenges, NEW pc, NEW read \in ChallengeRows,
             pc \in {"count", "save", "delete", "right"},
             StartsCheck(c, pc, h, read), UNCHANGED <<challenge, logins, daily, texted>>
      PROVE  DeviceCheckInv'
  <2>1. /\ Checking(pc, h, read) \in CheckJobs
        /\ Checking(pc, h, read).pc # "text" /\ Checking(pc, h, read).of \in Challenges
    BY <1>1 DEF Checking, CheckJobs
  <2>2. checking' = [checking EXCEPT ![c] = Checking(pc, h, read)]
    BY <1>1 DEF StartsCheck
  <2>3. OnceIn' /\ Counted' \subseteq Counted
    BY <1>0, <1>1, <2>1, <2>2, JobTaken
  <2> QED
    BY <1>0, <1>1, <2>3, FewerCounted DEF DeviceCheckInv
<1>2. ASSUME NEW c \in CheckCalls, NEW h \in Challenges, SendCode(c, h) PROVE DeviceCheckInv'
  <2>1. challenge[h] \in ChallengeRows
    BY <1>0 DEF OnceIn
  <2> QED
    BY <1>1, <1>2, <2>1 DEF SendCode
<1>3. ASSUME NEW c \in CheckCalls, NEW h \in Challenges, VerifyWrong(c, h)
      PROVE  DeviceCheckInv'
  <2> DEFINE read == [challenge[h] EXCEPT !.attempts = @ + 1]
             pc == IF read.attempts >= MaxAttempts THEN "delete" ELSE "save"
  <2>1. read \in ChallengeRows
    BY <1>0 DEF OnceIn, ChallengeRows
  <2>2. pc \in {"count", "save", "delete", "right"}
    OBVIOUS
  <2>3. StartsCheck(c, pc, h, read) /\ UNCHANGED <<challenge, logins, daily, texted>>
    BY <1>3 DEF VerifyWrong
  <2> HIDE DEF read, pc
  <2> QED
    BY <1>1, <2>1, <2>2, <2>3
<1>4. ASSUME NEW c \in CheckCalls, NEW h \in Challenges, VerifyRight(c, h)
      PROVE  DeviceCheckInv'
  BY <1>00, <1>1, <1>4 DEF VerifyRight
<1>5. ASSUME NEW c \in CheckCalls, EndsCheck(c), UNCHANGED texted,
             daily' = daily \/ daily' = daily + 1,
             UNCHANGED <<challenge, logins>>
      PROVE  DeviceCheckInv'
  <2>1. OnceIn' /\ Counted' \subseteq Counted
    BY <1>0, <1>00, <1>5, JobTaken DEF EndsCheck
  <2>2. Cardinality(Counted') <= Cardinality(Counted)
    BY <2>1, CountedFinite, FS_Subset
  <2>3. WithinDay'
    BY <1>0, <1>5, <2>2, CountedFinite, DeviceCheckAssumption
    DEF WithinDay, DeviceCheckAssumption
  <2> QED
    BY <2>1, <2>3 DEF DeviceCheckInv
<1>6. ASSUME NEW c \in CheckCalls, CountText(c) PROVE DeviceCheckInv'
  <2>1. CASE daily' > MaxDaily
    BY <1>5, <1>6, <2>1 DEF CountText
  <2>2. CASE ~(daily' > MaxDaily)
    <3> DEFINE j == [checking[c] EXCEPT !.pc = "text"]
    <3>1. j \in CheckJobs /\ j.pc = "text" /\ j.of \in Challenges
      BY <1>0, <1>6 DEF OnceIn, CheckJobs, CountText
    <3>2. checking' = [checking EXCEPT ![c] = j]
      BY <1>6, <2>2 DEF CountText
    <3>3. UNCHANGED <<challenge, logins, texted>> /\ daily' = daily + 1
      BY <1>6 DEF CountText
    <3>4. OnceIn'
      <4> HIDE DEF j
      <4> QED
        BY <1>0, <3>1, <3>2, <3>3, JobTaken
    <3>5. Counted' = Counted \cup {c}
      <4> HIDE DEF j
      <4> QED
        BY <1>0, <3>1, <3>2 DEF Counted, OnceIn
    <3>6. c \notin Counted
      BY <1>6 DEF CountText, Counted
    <3>7. Cardinality(Counted') = Cardinality(Counted) + 1
      BY <3>5, <3>6, CountedFinite, FS_AddElement
    <3>8. WithinDay'
      BY <1>0, <2>2, <3>3, <3>7, CountedFinite, DeviceCheckAssumption
      DEF WithinDay, DeviceCheckAssumption
    <3> QED
      BY <3>4, <3>8 DEF DeviceCheckInv
  <2> QED
    BY <2>1, <2>2
<1>7. ASSUME NEW c \in CheckCalls, SendText(c) PROVE DeviceCheckInv'
  <2> DEFINE read == WithText(checking[c].read, texted')
             j == Checking("save", checking[c].of, read)
  <2>1. checking[c] \in CheckJobs /\ checking[c].pc = "text" /\ checking[c].of \in Challenges
    BY <1>0, <1>7 DEF OnceIn, SendText
  <2>2. texted' = texted + 1 /\ texted' \in Nat /\ UNCHANGED <<challenge, logins, daily>>
    BY <1>0, <1>7 DEF SendText, WithinDay
  <2>3. read \in ChallengeRows
    BY <2>1, <2>2 DEF CheckJobs, ChallengeRows, WithText
  <2>4. j \in CheckJobs /\ j.pc = "save" /\ j.of \in Challenges
    BY <2>1, <2>3 DEF CheckJobs, Checking
  <2>5. checking' = [checking EXCEPT ![c] = j]
    BY <1>7 DEF SendText
  <2>6. OnceIn'
    <3> HIDE DEF j
    <3> QED
      BY <1>0, <2>2, <2>4, <2>5, JobTaken
  <2>7. Counted' = Counted \ {c} /\ c \in Counted
    <3> HIDE DEF j
    <3> QED
      BY <1>0, <2>1, <2>4, <2>5 DEF Counted, OnceIn
  <2>8. Cardinality(Counted') = Cardinality(Counted) - 1
    BY <2>7, CountedFinite, FS_RemoveElement
  <2>9. WithinDay'
    BY <1>0, <2>2, <2>8, CountedFinite, DeviceCheckAssumption
    DEF WithinDay, DeviceCheckAssumption
  <2> QED
    BY <2>6, <2>9 DEF DeviceCheckInv
<1>8. ASSUME NEW c \in CheckCalls, SaveChallenge(c) PROVE DeviceCheckInv'
  <2> DEFINE h == checking[c].of
             row == SavedChallenge(challenge[h], checking[c].read)
  <2>1. h \in Challenges /\ row \in ChallengeRows /\ (row.there => challenge[h].there)
    BY <1>0, <1>8 DEF OnceIn, CheckJobs, SaveChallenge, SavedChallenge
  <2>2. challenge' = [challenge EXCEPT ![h] = row] /\ UNCHANGED <<logins, daily, texted>>
    BY <1>8 DEF SaveChallenge
  <2>3. checking' = [checking EXCEPT ![c] = NotChecking]
    BY <1>8 DEF SaveChallenge, EndsCheck
  <2>4. Counted' \subseteq Counted
    BY <1>0, <1>00, <2>3, JobTaken
  <2>5. OnceIn'
    <3> HIDE DEF row, h
    <3> QED
      BY <1>0, <1>00, <2>1, <2>2, <2>3 DEF OnceIn
  <2> QED
    BY <1>0, <2>2, <2>4, <2>5, FewerCounted DEF DeviceCheckInv
<1>9. ASSUME NEW c \in CheckCalls, DeleteChallenge(c) PROVE DeviceCheckInv'
  <2> DEFINE h == checking[c].of
             row == [challenge[h] EXCEPT !.there = FALSE]
             n == IF checking[c].pc = "right" /\ challenge[h].there
                  THEN logins[h] + 1 ELSE logins[h]
  <2>1. h \in Challenges
    BY <1>0, <1>9 DEF OnceIn, DeleteChallenge
  <2>2. row \in ChallengeRows /\ ~row.there
    BY <1>0, <2>1 DEF OnceIn, ChallengeRows
  <2>3. n \in {0, 1}
    BY <1>0, <2>1 DEF OnceIn
  <2>4. /\ challenge' = [challenge EXCEPT ![h] = row]
        /\ logins' = [logins EXCEPT ![h] = n]
        /\ checking' = [checking EXCEPT ![c] = NotChecking]
        /\ UNCHANGED <<daily, texted>>
    BY <1>9 DEF DeleteChallenge, EndsCheck
  <2>5. Counted' \subseteq Counted
    BY <1>0, <1>00, <2>4, JobTaken
  <2>6. OnceIn'
    <3> HIDE DEF row, h, n
    <3> QED
      BY <1>0, <1>00, <2>1, <2>2, <2>3, <2>4 DEF OnceIn
  <2> QED
    BY <1>0, <2>4, <2>5, <2>6, FewerCounted DEF DeviceCheckInv
<1>10. ASSUME NEW c \in CheckCalls, CheckFails(c) PROVE DeviceCheckInv'
  BY <1>5, <1>10 DEF CheckFails
<1>11. ASSUME NEW h \in Challenges, ChallengeExpires(h) PROVE DeviceCheckInv'
  <2> DEFINE row == [challenge[h] EXCEPT !.there = FALSE]
  <2>1. row \in ChallengeRows /\ ~row.there
    BY <1>0 DEF OnceIn, ChallengeRows
  <2>2. /\ challenge' = [challenge EXCEPT ![h] = row]
        /\ UNCHANGED <<logins, checking, daily, texted>>
    BY <1>11 DEF ChallengeExpires
  <2>3. OnceIn'
    <3> HIDE DEF row
    <3> QED
      BY <1>0, <2>1, <2>2 DEF OnceIn
  <2> QED
    BY <1>0, <2>2, <2>3 DEF DeviceCheckInv, WithinDay, Counted
<1>12. ASSUME NEW n \in Texts, TextAges(n) PROVE DeviceCheckInv'
  BY <1>0, <1>12 DEF TextAges, DeviceCheckInv, OnceIn, WithinDay, Counted
<1>13. CASE UNCHANGED deviceCheckVars
  BY <1>0, <1>13 DEF deviceCheckVars, DeviceCheckInv, OnceIn, WithinDay, Counted
<1> QED
  BY <1>2, <1>3, <1>4, <1>6, <1>7, <1>8, <1>9, <1>10, <1>11, <1>12, <1>13
  DEF DeviceCheckNext

\* For any number of challenges, calls and texts, a login that waits for a code is let in
\* once, and no more texts go out than a day allows (device-verification.service.ts,
\* verify, save and the counter of sendCode).
THEOREM LetInOnce == DeviceCheckSpec => []OneLoginEach
<1>1. DeviceCheckInv => OneLoginEach
  <2> SUFFICES ASSUME DeviceCheckInv PROVE OneLoginEach
    OBVIOUS
  <2>1. \A h \in Challenges : logins[h] <= 1 /\ (logins[h] = 1 => ~challenge[h].there)
    BY DEF DeviceCheckInv, OnceIn
  <2>2. texted <= MaxDaily
    BY CountedFinite, DeviceCheckAssumption DEF DeviceCheckInv, WithinDay, DeviceCheckAssumption
  <2> QED
    BY <2>1, <2>2 DEF OneLoginEach
<1> QED
  BY <1>1, DeviceCheckInitInv, DeviceCheckStep, PTL DEF DeviceCheckSpec
=============================================================================
