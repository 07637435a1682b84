------------------------------- MODULE Guardian -------------------------------
(***************************************************************************)
(* The consent of the guardian of a child                                  *)
(* (ramupin-server/src/auth/guardian.service.ts): the account waits for it *)
(* a day, then an hourly job of every server deletes it with all rows that *)
(* refer to it.  Transactions take locks on the rows of the consent and of *)
(* the account; the consent starts with its row, the deletion with the     *)
(* account, so that they may wait for each other and one is a victim.      *)
(***************************************************************************)
EXTENDS Naturals

CONSTANTS
  Consenters, \* consents and deletions under way at the same time
  MaxResend   \* MAX_RESEND

ASSUME GuardianAssumption == MaxResend \in Nat

VARIABLES
  child,      \* the account: waiting, active or deleted
  consent,    \* the row of the consent; linked: contacts made of the guardian
  consenting, \* consenting[c]: how far c is
  assured     \* somebody was told that the consent is noted (history)

guardianVars == <<child, consent, consenting, assured>>

GuardianPcs ==
  {"idle", "lock", "note", "activate", "settle", "purge", "cascade", "purged"}

GuardianInit ==
  /\ child = "pending_guardian"
  /\ consent = [noted |-> FALSE, expired |-> FALSE, resent |-> 0, linked |-> 0]
  /\ consenting = [c \in Consenters |-> "idle"]
  /\ assured = FALSE

----------------------------------------------------------------------------
(* Locks and steps.                                                        *)

\* Mutation: the row of the consent is read without FOR UPDATE.
HoldsUnlocked(c) == consenting[c] \in {"activate", "settle", "purged"}

\* Who holds the row of the consent: from its SELECT ... FOR UPDATE to the commit, or
\* having deleted it with its account.
HoldsConsent(c) == consenting[c] \in {"note", "activate", "settle", "purged"}

ConsentFree(c) == \A d \in Consenters \ {c} : ~HoldsConsent(d)

\* Who holds the row of the account, having changed or deleted it.
ChildFree(c) ==
  \A d \in Consenters \ {c} : consenting[d] \notin {"settle", "cascade", "purged"}

Moves(c, from, to) ==
  /\ consenting[c] = from
  /\ consenting' = [consenting EXCEPT ![c] = to]

----------------------------------------------------------------------------
(* The guardian follows the link, perhaps twice, perhaps after the day.    *)

Consent(c) ==
  /\ Moves(c, "idle", "lock")
  /\ UNCHANGED <<child, consent, assured>>

\* Missing, noted already, too late, or to be noted.
LockConsent(c) ==
  /\ ConsentFree(c)
  /\ Moves(c, "lock",
           IF child = "deleted" \/ consent.noted \/ consent.expired THEN "idle" ELSE "note")
  /\ assured' = (assured \/ (child # "deleted" /\ consent.noted))
  /\ UNCHANGED <<child, consent>>

NoteConsent(c) ==
  /\ ConsentFree(c)
  /\ Moves(c, "note", "activate")
  /\ UNCHANGED <<child, consent, assured>>

Activate(c) ==
  /\ ChildFree(c)
  /\ Moves(c, "activate", "settle")
  /\ UNCHANGED <<child, consent, assured>>

\* The contact is inserted and all of it commits.
SettleConsent(c) ==
  /\ Moves(c, "settle", "idle")
  /\ consent' = [consent EXCEPT !.noted = TRUE, !.linked = @ + 1]
  /\ child' = IF child = "pending_guardian" THEN "active" ELSE child
  /\ assured' = TRUE

\* One guarded update of the row.
ResendConsent ==
  /\ child # "deleted" /\ ~consent.noted /\ ~consent.expired
  /\ \A c \in Consenters : ~HoldsConsent(c)
  /\ consent.resent < MaxResend
  /\ consent' = [consent EXCEPT !.resent = @ + 1]
  /\ UNCHANGED <<child, consenting, assured>>

\* The day is over.
ConsentExpires ==
  /\ ~consent.expired
  /\ consent' = [consent EXCEPT !.expired = TRUE]
  /\ UNCHANGED <<child, consenting, assured>>

----------------------------------------------------------------------------
(* purgeExpired.                                                           *)

\* The delete finds the account by what is committed when it starts ...
PurgeExpired(c) ==
  /\ child = "pending_guardian" /\ ~consent.noted /\ consent.expired
  /\ Moves(c, "idle", "purge")
  /\ UNCHANGED <<child, consent, assured>>

\* ... looks at its status again if somebody held it ...
DeleteChild(c) ==
  /\ ChildFree(c)
  /\ Moves(c, "purge", IF child = "pending_guardian" THEN "cascade" ELSE "idle")
  /\ UNCHANGED <<child, consent, assured>>

\* ... and takes the row of the consent with it.
Cascade(c) ==
  /\ ConsentFree(c)
  /\ Moves(c, "cascade", "purged")
  /\ UNCHANGED <<child, consent, assured>>

CommitPurge(c) ==
  /\ Moves(c, "purged", "idle")
  /\ child' = "deleted"
  /\ UNCHANGED <<consent, assured>>

\* A statement fails, the transaction is the victim of a deadlock, the server dies:
\* nothing of it stays.
GuardianFails(c) ==
  /\ consenting[c] # "idle"
  /\ consenting' = [consenting EXCEPT ![c] = "idle"]
  /\ UNCHANGED <<child, consent, assured>>

GuardianNext ==
  \/ \E c \in Consenters :
       \/ Consent(c) \/ LockConsent(c) \/ NoteConsent(c) \/ Activate(c) \/ SettleConsent(c)
       \/ PurgeExpired(c) \/ DeleteChild(c) \/ Cascade(c) \/ CommitPurge(c)
       \/ GuardianFails(c)
  \/ ResendConsent \/ ConsentExpires

GuardianSpec == GuardianInit /\ [][GuardianNext]_guardianVars

----------------------------------------------------------------------------
(* Properties.                                                             *)

\* Types of the variables.
GuardianTypeOK ==
  /\ child \in {"pending_guardian", "active", "deleted"}
  /\ consent \in [noted: BOOLEAN, expired: BOOLEAN, resent: 0 .. MaxResend, linked: Nat]
  /\ consenting \in [Consenters -> GuardianPcs]
  /\ assured \in BOOLEAN

\* Once a guardian was told that the consent is noted, the account is active and stays,
\* and the guardian is its contact once: neither a second tap on the link, nor a consent
\* at the last moment, nor the hourly deletion changes that (guardian.service.ts,
\* consent and purgeExpired).
ConsentKept == assured => child = "active" /\ consent.noted /\ consent.linked = 1
=============================================================================
