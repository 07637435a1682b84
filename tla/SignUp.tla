-------------------------------- MODULE SignUp --------------------------------
(***************************************************************************)
(* Signing up (ramupin-server/src/auth): the state of one sign-up token in *)
(* Redis, which every call reads as a whole and writes back as a whole;    *)
(* the text messages with codes; and the account that comes of it.         *)
(* Nicknames are checked and indexed as phones are, and left out.          *)
(***************************************************************************)
EXTENDS Naturals, Sequences

CONSTANTS
  Phones,         \* phone numbers the person tries
  NoPhone,        \* none of them
  SignUpCalls,    \* calls under way at the same time
  SignUpSends,    \* MAX_SENDS
  SignUpAttempts, \* MAX_ATTEMPTS
  MaxTexts,       \* bound: codes sent in all
  MaxAsked        \* bound: calls in all

ASSUME SignUpAssumption ==
  /\ NoPhone \notin Phones
  /\ {SignUpSends, SignUpAttempts, MaxTexts, MaxAsked} \subseteq Nat

VARIABLES
  form,      \* the state in Redis
  texts,     \* texts[n]: the phone the code n went to
  codeAge,   \* codeAge[n]: 30 seconds, 3 minutes of the code n are over
  signing,   \* signing[c]: the call c is running
  formCalls, \* calls so far
  account,   \* the phone of the account made, NoPhone: none yet
  theirs,    \* phones of other people's accounts
  proven     \* phones a code of which was entered (history)

signUpVars == <<form, texts, codeAge, signing, formCalls, account, theirs, proven>>

Codes == 1 .. MaxTexts

\* text: the code it waits for, last: the one sent last (its phone is pending).
Forms ==
  [there: BOOLEAN, text: 0 .. MaxTexts, last: 0 .. MaxTexts, sends: 0 .. SignUpSends,
   attempts: Nat, verified: Phones \cup {NoPhone}]

SignUpPcs ==
  {"idle", "text", "save", "wrong", "delete", "check", "insert", "forget"}

NewForm ==
  [there |-> TRUE, text |-> 0, last |-> 0, sends |-> 0, attempts |-> 0, verified |-> NoPhone]

Signing(pc, phone, read) == [pc |-> pc, phone |-> phone, form |-> read]

Done == Signing("idle", NoPhone, NewForm)

SignUpInit ==
  /\ form = NewForm
  /\ texts = <<>>
  /\ codeAge = [n \in Codes |-> "new"]
  /\ signing = [c \in SignUpCalls |-> Done]
  /\ formCalls = 0
  /\ account = NoPhone
  /\ theirs = {}
  /\ proven = {}

----------------------------------------------------------------------------
(* The code in a text message.                                             *)

Goes(c, pc) == signing' = [signing EXCEPT ![c].pc = pc]

Ends(c) == signing' = [signing EXCEPT ![c] = Done]

Enters(c, j) ==
  /\ formCalls < MaxAsked
  /\ formCalls' = formCalls + 1
  /\ signing[c].pc = "idle"
  /\ signing' = [signing EXCEPT ![c] = j]

\* isRegistered: the phone has an account, perhaps the one made here.
Registered(phone) == phone \in theirs \cup {account}

\* sendPhoneCode reads the state; too soon, or too often, is refused.
SendPhoneCode(c, phone) ==
  /\ form.there
  /\ form.last # 0 => codeAge[form.last] # "new"
  /\ form.sends < SignUpSends
  /\ Enters(c, Signing("text", phone, form))
  /\ UNCHANGED <<form, texts, codeAge, account, theirs, proven>>

\* The state with the code n sent.
CodeSent(read, n) ==
  [there |-> read.there, text |-> n, last |-> n, sends |-> read.sends + 1, attempts |-> 0,
   verified |-> read.verified]

\* The code is sent, if the phone is free, and noted in the state as it was read.
SendVerificationCode(c) ==
  /\ signing[c].pc = "text"
  /\ Len(texts) < MaxTexts
  /\ IF ~Registered(signing[c].phone)
     THEN /\ texts' = Append(texts, signing[c].phone)
          /\ signing' = [signing EXCEPT ![c] =
                           Signing("save", NoPhone, CodeSent(@.form, Len(texts')))]
     ELSE /\ Ends(c)
          /\ UNCHANGED texts
  /\ UNCHANGED <<formCalls, form, codeAge, account, theirs, proven>>

Waiting == form.there /\ form.text # 0 /\ codeAge[form.text] # "expired"

\* verifyPhoneCode: the right code.
VerifyPhoneCode(c) ==
  /\ Waiting
  /\ Enters(c, Signing("save", NoPhone, [form EXCEPT !.verified = texts[form.text], !.text = 0]))
  /\ proven' = proven \cup {texts[form.text]}
  /\ UNCHANGED <<form, texts, codeAge, account, theirs>>

\* A wrong one, or that of another text.
MistypePhoneCode(c) ==
  /\ Waiting
  /\ Enters(c, Signing("wrong", NoPhone, [form EXCEPT !.attempts = @ + 1]))
  /\ UNCHANGED <<form, texts, codeAge, account, theirs, proven>>

\* Mutation: a call writes its own fields into the state as it is by now.
SavedMixed(read) ==
  IF read.verified = NoPhone \/ form.last = 0
  THEN read ELSE [form EXCEPT !.verified = texts[form.last], !.text = 0]

\* What is saved is the state that was read, with its changes.
SavedForm(read) == read

\* The state is written over whatever it is by now, unless it is gone (XX).
SaveForm(c) ==
  /\ signing[c].pc \in {"save", "wrong"}
  /\ form' = IF form.there THEN SavedForm(signing[c].form) ELSE form
  /\ IF signing[c].pc = "wrong" /\ signing[c].form.attempts >= SignUpAttempts
     THEN signing' = [signing EXCEPT ![c] = Signing("delete", NoPhone, NewForm)]
     ELSE Ends(c)
  /\ UNCHANGED <<formCalls, texts, codeAge, account, theirs, proven>>

\* After too many attempts, and after the sign-up, the state is deleted.
DeleteForm(c) ==
  /\ signing[c].pc \in {"delete", "forget"}
  /\ form' = [form EXCEPT !.there = FALSE]
  /\ Ends(c)
  /\ UNCHANGED <<formCalls, texts, codeAge, account, theirs, proven>>

\* Time passes: for a code, for the token.
Ages(n) ==
  /\ n <= Len(texts)
  /\ codeAge[n] # "expired"
  /\ codeAge' = [codeAge EXCEPT ![n] = IF @ = "new" THEN "rested" ELSE "expired"]
  /\ UNCHANGED <<formCalls, form, texts, signing, account, theirs, proven>>

Lapse ==
  /\ form.there
  /\ form' = [form EXCEPT !.there = FALSE]
  /\ UNCHANGED <<formCalls, texts, codeAge, signing, account, theirs, proven>>

----------------------------------------------------------------------------
(* The account.                                                            *)

\* complete: with a verified phone that nobody has by now.
Complete(c) ==
  /\ form.there
  /\ form.verified # NoPhone
  /\ Enters(c, Signing("check", form.verified, NewForm))
  /\ UNCHANGED <<form, texts, codeAge, account, theirs, proven>>

CheckPhone(c) ==
  /\ signing[c].pc = "check"
  /\ IF Registered(signing[c].phone) THEN Ends(c) ELSE Goes(c, "insert")
  /\ UNCHANGED <<formCalls, form, texts, codeAge, account, theirs, proven>>

\* The account with its phone, unless an index forbids it: somebody else has the
\* phone by now, or the social account has signed up.
InsertAccount(c) ==
  /\ signing[c].pc = "insert"
  /\ IF Registered(signing[c].phone) \/ account # NoPhone
     THEN /\ Ends(c)
          /\ UNCHANGED account
     ELSE /\ account' = signing[c].phone
          /\ Goes(c, "forget")
  /\ UNCHANGED <<formCalls, form, texts, codeAge, theirs, proven>>

\* Somebody else signs up with one of the phones.
OthersSignUp(phone) ==
  /\ ~Registered(phone)
  /\ theirs' = theirs \cup {phone}
  /\ UNCHANGED <<formCalls, form, texts, codeAge, signing, account, proven>>

\* A text cannot be sent, a statement fails, or the server dies.
SignUpFails(c) ==
  /\ signing[c].pc # "idle"
  /\ Ends(c)
  /\ UNCHANGED <<formCalls, form, texts, codeAge, account, theirs, proven>>

SignUpNext ==
  \/ \E c \in SignUpCalls :
       \/ \E phone \in Phones : SendPhoneCode(c, phone)
       \/ SendVerificationCode(c)
       \/ VerifyPhoneCode(c) \/ MistypePhoneCode(c) \/ SaveForm(c) \/ DeleteForm(c)
       \/ Complete(c) \/ CheckPhone(c) \/ InsertAccount(c) \/ SignUpFails(c)
  \/ \E n \in Codes : Ages(n)
  \/ \E phone \in Phones : OthersSignUp(phone)
  \/ Lapse

SignUpSpec == SignUpInit /\ [][SignUpNext]_signUpVars

----------------------------------------------------------------------------
(* Properties.                                                             *)

\* Types of the variables.
SignUpTypeOK ==
  /\ form \in Forms
  /\ texts \in Seq(Phones) /\ Len(texts) <= MaxTexts
  /\ codeAge \in [Codes -> {"new", "rested", "expired"}]
  /\ signing \in [SignUpCalls ->
                   [pc: SignUpPcs, phone: Phones \cup {NoPhone}, form: Forms]]
  /\ formCalls \in 0 .. MaxAsked
  /\ account \in Phones \cup {NoPhone}
  /\ theirs \subseteq Phones /\ proven \subseteq Phones

\* An account has a phone a code of which was entered, and nobody else has it,
\* although the calls write back what they read and a second code may be on its
\* way to another phone (sign-up.service.ts, verifyPhoneCode and complete).
AccountIsProven == account # NoPhone => account \in proven \ theirs
=============================================================================
