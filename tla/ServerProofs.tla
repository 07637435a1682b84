----------------------------- MODULE ServerProofs -----------------------------
(***************************************************************************)
(* Proofs about single services: of the server, the text messages of an    *)
(* SOS (SosSms), the files of a user (Gallery), the places of a person     *)
(* (Zones), the sweeps over the status of a user (Anomaly), the sockets    *)
(* that look at a person (Watch) and the members of a group (Groups); of   *)
(* the app, the collection of positions (Tracking) and the screen of a     *)
(* room (Chat); and about the day as the server tells it (Journey); for    *)
(* any number of contacts, files, workers, servers, sockets, resumptions,  *)
(* messages, calls and fixes of a day.                                     *)
(***************************************************************************)
EXTENDS SosSms, Gallery, Zones, Anomaly, Watch, Groups, Tracking, Chat,
        Journey, FiniteSetTheorems, WellFoundedInduction, TLAPS

----------------------------------------------------------------------------
(* Lists.                                                                  *)

\* Some numbers have a least one.
LEMMA LeastNumber ==
  ASSUME NEW B \in SUBSET Nat, B # {}
  PROVE  \E k \in B : \A l \in B : k <= l
<1>1. PICK k \in B : \A l \in B : <<l, k>> \notin OpToRel(<, Nat)
  BY NatLessThanWellFounded, WFMin
<1>2. ASSUME NEW l \in B PROVE k <= l
  <2>1. <<l, k>> \notin OpToRel(<, Nat)
    BY <1>1
  <2>2. l \in Nat /\ k \in Nat
    OBVIOUS
  <2>3. ~(l < k)
    BY <2>1, <2>2, Zenon DEF OpToRel
  <2> QED
    BY <2>2, <2>3
<1> QED
  BY <1>2

\* How many numbers of S are no greater than k.
Rank(S, k) == Cardinality({j \in S : j <= k})

\* The ranks of a finite set go up with its numbers.
LEMMA RankIsPlace ==
  ASSUME NEW S \in SUBSET Nat, IsFiniteSet(S), NEW k \in S
  PROVE  /\ Rank(S, k) \in 1 .. Cardinality(S)
         /\ \A l \in S : k < l => Rank(S, k) < Rank(S, l)
<1>1. Cardinality(S) \in Nat
  BY FS_CardinalityType
<1>2. ASSUME NEW a \in S
      PROVE  /\ IsFiniteSet({j \in S : j <= a})
             /\ Rank(S, a) <= Cardinality(S)
             /\ Rank(S, a) \in Nat /\ Rank(S, a) # 0
  <2> DEFINE A == {j \in S : j <= a}
  <2>1. A \in SUBSET S /\ a \in A
    OBVIOUS
  <2>2. IsFiniteSet(A) /\ Cardinality(A) <= Cardinality(S)
    BY <2>1, FS_Subset
  <2>3. Cardinality(A) \in Nat
    BY <2>2, FS_CardinalityType
  <2>4. Cardinality(A) # 0
    BY <2>1, <2>2, FS_EmptySet
  <2> QED
    BY <2>2, <2>3, <2>4 DEF Rank
<1>3. ASSUME NEW b \in S, k < b PROVE Rank(S, k) < Rank(S, b)
  <2> DEFINE A == {j \in S : j <= k}
             B == {j \in S : j <= b}
  <2>1. k \in Nat /\ b \in Nat /\ \A j \in S : j \in Nat
    OBVIOUS
  <2>2. b <= b /\ ~(b <= k) /\ \A j \in S : j <= k => j <= b
    BY <1>3, <2>1
  <2>3. A \in SUBSET B /\ A # B
    BY <2>2
  <2>4. IsFiniteSet(B)
    BY <1>2
  <2>5. Cardinality(A) <= Cardinality(B) /\ Cardinality(A) # Cardinality(B)
    BY <2>3, <2>4, FS_Subset
  <2>6. Cardinality(A) \in Nat /\ Cardinality(B) \in Nat
    BY <1>2 DEF Rank
  <2> QED
    BY <2>5, <2>6 DEF Rank
<1>4. Rank(S, k) \in 1 .. Cardinality(S)
  <2>1. /\ Rank(S, k) <= Cardinality(S)
        /\ Rank(S, k) \in Nat /\ Rank(S, k) # 0
    BY <1>2
  <2> QED
    BY <1>1, <2>1
<1> QED
  BY <1>3, <1>4

\* No two numbers have one rank.
LEMMA RankOfOne ==
  ASSUME NEW S \in SUBSET Nat, IsFiniteSet(S), NEW k \in S, NEW l \in S,
         Rank(S, k) = Rank(S, l)
  PROVE  k = l
<1>1. k \in Nat /\ l \in Nat /\ (k < l \/ l < k \/ k = l)
  OBVIOUS
<1>2. Rank(S, k) \in 1 .. Cardinality(S) /\ Rank(S, l) \in 1 .. Cardinality(S)
  BY RankIsPlace
<1>3. (k < l => Rank(S, k) < Rank(S, l)) /\ (l < k => Rank(S, l) < Rank(S, k))
  BY RankIsPlace
<1>4. Rank(S, k) \in Nat /\ Rank(S, l) \in Nat
  BY <1>2, FS_CardinalityType
<1> QED
  BY <1>1, <1>3, <1>4

\* So every place is that of a number.
LEMMA PlaceIsRank ==
  ASSUME NEW S \in SUBSET Nat, IsFiniteSet(S), NEW i \in 1 .. Cardinality(S)
  PROVE  \E k \in S : Rank(S, k) = i
<1> DEFINE n == Cardinality(S)
           f == [k \in S |-> Rank(S, k)]
<1>1. n \in Nat
  BY FS_CardinalityType
<1>2. f \in Injection(S, 1 .. n)
  <2>1. f \in [S -> 1 .. n]
    BY RankIsPlace
  <2>2. \A a, b \in DOMAIN f : f[a] = f[b] => a = b
    BY RankOfOne
  <2> HIDE DEF f, n
  <2> QED
    BY <2>1, <2>2 DEF Injection, IsInjective
<1>3. IsFiniteSet(1 .. n) /\ Cardinality(1 .. n) = n
  BY <1>1, FS_Interval
<1>4. f \in Surjection(S, 1 .. n)
  <2> HIDE DEF f
  <2> QED
    BY <1>2, <1>3, FS_Injection
<1>5. \E k \in S : f[k] = i
  <2> HIDE DEF f
  <2> QED
    BY <1>4 DEF Surjection
<1> QED
  BY <1>5

\* Put in order, all numbers of the set are there, and go up.
LEMMA InOrderGrows ==
  ASSUME NEW S \in SUBSET Nat, IsFiniteSet(S)
  PROVE  /\ InOrder(S) \in Seq(S)
         /\ \A i, j \in DOMAIN InOrder(S) : i < j => InOrder(S)[i] < InOrder(S)[j]
         /\ \A k \in S : \E i \in DOMAIN InOrder(S) : InOrder(S)[i] = k
<1> DEFINE n == Cardinality(S)
           s == InOrder(S)
<1>1. n \in Nat
  BY FS_CardinalityType
<1>2. s = [i \in 1 .. n |-> CHOOSE k \in S : Rank(S, k) = i]
  BY DEF InOrder, Rank
<1>3. ASSUME NEW i \in 1 .. n PROVE s[i] \in S /\ Rank(S, s[i]) = i
  <2>1. \E k \in S : Rank(S, k) = i
    BY PlaceIsRank
  <2>2. s[i] = CHOOSE k \in S : Rank(S, k) = i
    BY <1>2
  <2> QED
    BY <2>1, <2>2
<1>4. DOMAIN s = 1 .. n /\ s \in [1 .. n -> S]
  BY <1>2, <1>3
<1>5. ASSUME NEW k \in S PROVE \E i \in DOMAIN s : s[i] = k
  <2>1. Rank(S, k) \in 1 .. n
    BY RankIsPlace
  <2> DEFINE l == s[Rank(S, k)]
  <2>2. l \in S /\ Rank(S, l) = Rank(S, k)
    BY <1>3, <2>1
  <2>3. l = k
    <3> HIDE DEF l
    <3> QED
      BY <2>2, RankOfOne
  <2> QED
    BY <1>4, <2>1, <2>3
<1>6. ASSUME NEW i \in DOMAIN s, NEW j \in DOMAIN s, i < j PROVE s[i] < s[j]
  <2>1. /\ s[i] \in S /\ Rank(S, s[i]) = i /\ s[j] \in S /\ Rank(S, s[j]) = j
        /\ i \in Nat /\ j \in Nat
    BY <1>3, <1>4
  <2>2. s[j] < s[i] => Rank(S, s[j]) < Rank(S, s[i])
    BY <2>1, RankIsPlace
  <2>3. s[i] # s[j] /\ ~(s[j] < s[i])
    BY <1>6, <2>1, <2>2
  <2>4. s[i] \in Nat /\ s[j] \in Nat
    BY <2>1
  <2> QED
    BY <2>3, <2>4
<1> HIDE DEF s, n
<1>7. s \in Seq(S)
  BY <1>1, <1>4
<1> QED
  BY <1>5, <1>6, <1>7 DEF s

\* What is picked out of a list comes from it, in its order.
LEMMA PickedFrom ==
  ASSUME NEW T, NEW list \in Seq(T), NEW S \in SUBSET DOMAIN list
  PROVE  /\ Picked(list, S) \in Seq(T)
         /\ DOMAIN Picked(list, S) = DOMAIN InOrder(S)
         /\ InOrder(S) \in Seq(S)
         /\ \A i \in DOMAIN Picked(list, S) :
              InOrder(S)[i] \in S /\ Picked(list, S)[i] = list[InOrder(S)[i]]
         /\ \A i, j \in DOMAIN Picked(list, S) : i < j => InOrder(S)[i] < InOrder(S)[j]
<1> DEFINE places == InOrder(S)
           w == Picked(list, S)
<1>1. Len(list) \in Nat /\ DOMAIN list = 1 .. Len(list) /\ \A i \in DOMAIN list : list[i] \in T
  OBVIOUS
<1>2. S \in SUBSET Nat /\ IsFiniteSet(S)
  <2>1. IsFiniteSet(1 .. Len(list))
    BY <1>1, FS_Interval
  <2>2. S \in SUBSET (1 .. Len(list))
    BY <1>1
  <2>3. IsFiniteSet(S)
    BY <2>1, <2>2, FS_Subset
  <2> QED
    BY <2>2, <2>3
<1>3. places \in Seq(S) /\ \A i, j \in DOMAIN places : i < j => places[i] < places[j]
  BY <1>2, InOrderGrows
<1>4. w = [i \in DOMAIN places |-> list[places[i]]]
  BY DEF Picked
<1> HIDE DEF places, w
<1>5. /\ \A i \in DOMAIN places : places[i] \in S
      /\ Len(places) \in Nat /\ DOMAIN places = 1 .. Len(places)
  BY <1>3
<1>6. w \in [1 .. Len(places) -> T]
  BY <1>1, <1>4, <1>5
<1>7. w \in Seq(T)
  BY <1>5, <1>6
<1> QED
  BY <1>3, <1>4, <1>5, <1>7 DEF w, places

----------------------------------------------------------------------------
(* SosSms.                                                                 *)

SmsTypes ==
  /\ delivery \in [ContactNos -> {"none", "skipped", "sending", "sent", "failed"}]
  /\ accepted \in [ContactNos -> Nat]
  /\ texting \in [SmsCalls -> [pc: {"idle", "send", "sent", "failed", "mark"},
                              rows: SUBSET ContactNos]]
  /\ lost \in Nat

\* The rows a call still has are rows of this SOS, and it has some unless it is over.
RowsOfTheSos ==
  \A c \in SmsCalls :
    /\ texting[c].pc = "idle" <=> texting[c].rows = {}
    /\ \A n \in texting[c].rows : delivery[n] \in {"sending", "sent", "failed"}

\* Only the contacts within the limit are texted.
WithinLimit ==
  \A n \in ContactNos :
    /\ delivery[n] \in {"sending", "sent", "failed"} => n <= MaxTexted
    /\ accepted[n] > 0 => delivery[n] \in {"sending", "sent", "failed"}

\* What is noted as sent, or about to be, was taken.
SentWasTaken ==
  /\ \A n \in ContactNos : delivery[n] = "sent" => accepted[n] > 0
  /\ \A c \in SmsCalls : texting[c].pc = "sent" => accepted[At(c)] > 0

\* Nothing waits for nobody unless something was lost.
SendingIsOnItsWay ==
  lost = 0 => \A n \in ContactNos :
    delivery[n] = "sending" => \E c \in SmsCalls : n \in texting[c].rows

SmsInv == SmsTypes /\ RowsOfTheSos /\ WithinLimit /\ SentWasTaken /\ SendingIsOnItsWay

\* The loop is at one of its rows.
LEMMA AtIsRow ==
  ASSUME NEW c \in SmsCalls, SmsTypes, texting[c].rows # {}
  PROVE  At(c) \in texting[c].rows /\ At(c) \in ContactNos
<1>1. texting[c].rows \subseteq ContactNos
  BY DEF SmsTypes
<1>2. texting[c].rows \in SUBSET Nat /\ ContactNos \subseteq Nat
  BY <1>1, SosSmsAssumption DEF SosSmsAssumption, ContactNos
<1>3. \E n \in texting[c].rows : \A m \in texting[c].rows : n <= m
  BY <1>2, LeastNumber
<1> QED
  BY <1>1, <1>3 DEF At

\* The initial state satisfies the invariant.
LEMMA SmsInitInv == SosSmsInit => SmsInv
<1> SUFFICES ASSUME SosSmsInit PROVE SmsInv
  OBVIOUS
<1>1. SmsTypes
  BY SosSmsAssumption DEF SosSmsInit, SmsTypes, NotTexting, ContactNos, SosSmsAssumption
<1>2. RowsOfTheSos /\ WithinLimit /\ SentWasTaken /\ SendingIsOnItsWay
  BY DEF SosSmsInit, NotTexting, RowsOfTheSos, WithinLimit, SentWasTaken, SendingIsOnItsWay
<1> QED
  BY <1>1, <1>2 DEF SmsInv

\* Every step keeps it.
LEMMA SmsStep == SmsInv /\ [SosSmsNext]_sosSmsVars => SmsInv'
<1> SUFFICES ASSUME SmsInv, [SosSmsNext]_sosSmsVars PROVE SmsInv'
  OBVIOUS
<1> DEFINE Texting == [pc: {"idle", "send", "sent", "failed", "mark"}, rows: SUBSET ContactNos]
<1>0. SmsTypes /\ RowsOfTheSos /\ WithinLimit /\ SentWasTaken /\ SendingIsOnItsWay
  BY DEF SmsInv
<1>00. NotTexting \in Texting /\ NotTexting.pc = "idle" /\ NotTexting.rows = {}
  BY DEF NotTexting
<1>000. \A rows \in SUBSET ContactNos :
          /\ Sending(rows) \in Texting /\ Sending(rows).rows = rows
          /\ Sending(rows).pc = IF rows = {} THEN "idle" ELSE "send"
  BY DEF Sending, NotTexting
<1>1. ASSUME NEW c \in SmsCalls, NEW allowed \in BOOLEAN, StartForSos(c, allowed)
      PROVE  SmsInv'
  <2>1. Texted(allowed) \in SUBSET ContactNos
    BY DEF Texted
  <2>2. \A d \in SmsCalls : texting[d].rows = {} /\ texting[d].pc = "idle"
    BY <1>0, <1>1 DEF StartForSos, RowsOfTheSos, SmsTypes
  <2>3. \A n \in ContactNos : accepted[n] = 0
    BY <1>0, <1>1 DEF StartForSos, WithinLimit, SmsTypes
  <2>4. /\ texting' = [texting EXCEPT ![c] = Sending(Texted(allowed))]
        /\ delivery' = [n \in ContactNos |->
                          IF n \in Texted(allowed) THEN "sending" ELSE "skipped"]
        /\ UNCHANGED <<accepted, lost>>
    BY <1>1 DEF StartForSos
  <2>5. SmsTypes'
    BY <1>0, <1>000, <2>1, <2>4 DEF SmsTypes
  <2>6. \A d \in SmsCalls : /\ texting'[d].rows = IF d = c THEN Texted(allowed) ELSE {}
                            /\ texting'[d].pc \in {"idle", "send"}
                            /\ texting'[d].pc = "idle" <=> texting'[d].rows = {}
    BY <1>0, <1>000, <2>1, <2>2, <2>4 DEF SmsTypes
  <2>7. RowsOfTheSos'
    BY <2>1, <2>4, <2>6 DEF RowsOfTheSos
  <2>8. WithinLimit'
    BY <2>3, <2>4 DEF WithinLimit, Texted
  <2>9. SentWasTaken'
    BY <2>4, <2>6 DEF SentWasTaken
  <2>10. SendingIsOnItsWay'
    BY <2>4, <2>6 DEF SendingIsOnItsWay
  <2> QED
    BY <2>5, <2>7, <2>8, <2>9, <2>10 DEF SmsInv
<1>2. ASSUME NEW c \in SmsCalls, NEW taken \in BOOLEAN, NEW heard \in BOOLEAN,
             SendSms(c, taken, heard)
      PROVE  SmsInv'
  <2> DEFINE pc == IF taken /\ heard THEN "sent" ELSE "failed"
             n == At(c)
  <2>1. texting[c].rows # {} /\ n \in texting[c].rows /\ n \in ContactNos
    BY <1>0, <1>2, AtIsRow DEF SendSms, RowsOfTheSos
  <2>2. /\ UNCHANGED <<delivery, lost>> /\ texting' = [texting EXCEPT ![c].pc = pc]
        /\ accepted' = IF taken THEN [accepted EXCEPT ![n] = @ + 1] ELSE accepted
    BY <1>2 DEF SendSms
  <2>3. \A d \in SmsCalls : /\ texting'[d].rows = texting[d].rows
                            /\ texting'[d].pc = IF d = c THEN pc ELSE texting[d].pc
    BY <1>0, <2>2 DEF SmsTypes
  <2>4. \A m \in ContactNos : /\ accepted'[m] \in Nat /\ accepted'[m] >= accepted[m]
                              /\ accepted'[m] > accepted[m] => m = n
                              /\ taken /\ m = n => accepted'[m] > 0
    BY <1>0, <2>1, <2>2 DEF SmsTypes
  <2>5. SmsTypes'
    <3>1. accepted' \in [ContactNos -> Nat]
      BY <1>0, <2>1, <2>2 DEF SmsTypes
    <3>2. texting' \in [SmsCalls -> Texting]
      BY <1>0, <2>2 DEF SmsTypes
    <3> QED
      BY <1>0, <2>2, <3>1, <3>2 DEF SmsTypes
  <2>6. RowsOfTheSos'
    BY <1>0, <2>1, <2>2, <2>3 DEF RowsOfTheSos
  <2>7. WithinLimit'
    <3>1. delivery[n] \in {"sending", "sent", "failed"}
      BY <1>0, <2>1 DEF RowsOfTheSos
    <3>2. ASSUME NEW m \in ContactNos, accepted'[m] > 0
          PROVE  delivery[m] \in {"sending", "sent", "failed"}
      <4>1. m = n \/ accepted[m] > 0
        BY <1>0, <2>4, <3>2 DEF SmsTypes
      <4> QED
        BY <1>0, <3>1, <4>1 DEF WithinLimit
    <3> QED
      BY <1>0, <2>2, <3>2 DEF WithinLimit
  <2>8. SentWasTaken'
    <3>1. ASSUME NEW m \in ContactNos, accepted[m] > 0 PROVE accepted'[m] > 0
      BY <1>0, <2>4, <3>1 DEF SmsTypes
    <3>2. ASSUME NEW d \in SmsCalls, texting'[d].pc = "sent" PROVE accepted'[At(d)'] > 0
      <4>1. At(d)' = At(d)
        BY <2>3 DEF At
      <4>2. CASE d = c
        BY <2>1, <2>3, <2>4, <3>2, <4>1, <4>2
      <4>3. CASE d # c
        <5>1. texting[d].pc = "sent"
          BY <2>3, <3>2, <4>3
        <5>2. At(d) \in ContactNos
          BY <1>0, <5>1, AtIsRow DEF RowsOfTheSos
        <5> QED
          BY <1>0, <3>1, <4>1, <5>1, <5>2 DEF SentWasTaken
      <4> QED
        BY <4>2, <4>3
    <3> QED
      BY <1>0, <2>2, <3>1, <3>2 DEF SentWasTaken
  <2>9. SendingIsOnItsWay'
    BY <1>0, <2>2, <2>3 DEF SendingIsOnItsWay
  <2> QED
    BY <2>5, <2>6, <2>7, <2>8, <2>9 DEF SmsInv
\* Calls that take up rows or put them down, without a message.
<1>3. ASSUME NEW c \in SmsCalls, NEW j \in Texting, texting' = [texting EXCEPT ![c] = j],
             j.pc # "sent", j.pc = "idle" <=> j.rows = {}, UNCHANGED accepted,
             lost' \in Nat, lost' = 0 => lost = 0,
             delivery' \in [ContactNos -> {"none", "skipped", "sending", "sent", "failed"}],
             \A n \in ContactNos : delivery'[n] \in {"sending", "sent", "failed"} <=>
                                   delivery[n] \in {"sending", "sent", "failed"},
             \A n \in j.rows : delivery[n] \in {"sending", "sent", "failed"},
             \A n \in ContactNos : delivery'[n] = "sent" => accepted[n] > 0,
             lost' = 0 => \A n \in ContactNos : delivery'[n] = "sending" =>
               n \in j.rows \/ (delivery[n] = "sending" /\ n \notin texting[c].rows)
      PROVE  SmsInv'
  <2>1. SmsTypes'
    BY <1>0, <1>3 DEF SmsTypes
  <2>2. \A d \in SmsCalls : texting'[d] = IF d = c THEN j ELSE texting[d]
    BY <1>0, <1>3 DEF SmsTypes
  <2>3. RowsOfTheSos'
    <3>1. ASSUME NEW d \in SmsCalls
          PROVE  /\ texting'[d].pc = "idle" <=> texting'[d].rows = {}
                 /\ \A n \in texting'[d].rows : delivery'[n] \in {"sending", "sent", "failed"}
      <4>1. texting'[d].pc = "idle" <=> texting'[d].rows = {}
        BY <1>0, <1>3, <2>2 DEF RowsOfTheSos
      <4>2. texting'[d].rows \subseteq ContactNos
        BY <2>1 DEF SmsTypes
      <4>3. \A n \in texting'[d].rows : delivery[n] \in {"sending", "sent", "failed"}
        BY <1>0, <1>3, <2>2 DEF RowsOfTheSos
      <4> QED
        BY <1>3, <4>1, <4>2, <4>3
    <3> QED
      BY <3>1 DEF RowsOfTheSos
  <2>4. WithinLimit'
    BY <1>0, <1>3 DEF WithinLimit
  <2>5. SentWasTaken'
    <3>1. ASSUME NEW d \in SmsCalls, texting'[d].pc = "sent" PROVE accepted'[At(d)'] > 0
      <4>1. d # c /\ texting'[d] = texting[d]
        BY <1>3, <2>2, <3>1
      <4>2. At(d)' = At(d)
        BY <4>1 DEF At
      <4> QED
        BY <1>0, <1>3, <3>1, <4>1, <4>2 DEF SentWasTaken
    <3> QED
      BY <1>3, <3>1 DEF SentWasTaken
  <2>6. SendingIsOnItsWay'
    <3> SUFFICES ASSUME lost' = 0, NEW n \in ContactNos, delivery'[n] = "sending"
                 PROVE  \E d \in SmsCalls : n \in texting'[d].rows
      BY DEF SendingIsOnItsWay
    <3>1. CASE n \in j.rows
      BY <2>2, <3>1
    <3>2. CASE n \notin j.rows
      <4>1. delivery[n] = "sending" /\ n \notin texting[c].rows
        BY <1>3, <3>2
      <4>2. PICK d \in SmsCalls : n \in texting[d].rows
        BY <1>0, <1>3, <4>1 DEF SendingIsOnItsWay
      <4> QED
        BY <2>2, <4>1, <4>2
    <3> QED
      BY <3>1, <3>2
  <2> QED
    BY <2>1, <2>3, <2>4, <2>5, <2>6 DEF SmsInv
<1>4. ASSUME NEW c \in SmsCalls, NoteOutcome(c) PROVE SmsInv'
  <2> DEFINE n == At(c)
             j == Sending(texting[c].rows \ {n})
  <2>1. texting[c].rows # {} /\ n \in texting[c].rows /\ n \in ContactNos
    BY <1>0, <1>4, AtIsRow DEF NoteOutcome, RowsOfTheSos
  <2>2. texting[c].rows \in SUBSET ContactNos /\ texting[c].pc \in {"sent", "failed"}
    BY <1>0, <1>4 DEF NoteOutcome, SmsTypes
  <2>3. /\ j \in Texting /\ j.pc # "sent" /\ (j.pc = "idle" <=> j.rows = {})
        /\ j.rows = texting[c].rows \ {n}
    BY <1>000, <2>2
  <2>4. /\ texting' = [texting EXCEPT ![c] = j]
        /\ delivery' = [delivery EXCEPT ![n] = texting[c].pc]
        /\ UNCHANGED <<accepted, lost>>
    BY <1>4 DEF NoteOutcome, RowsLeft
  <2>5. /\ delivery' \in [ContactNos -> {"none", "skipped", "sending", "sent", "failed"}]
        /\ \A m \in ContactNos : delivery'[m] = IF m = n THEN texting[c].pc ELSE delivery[m]
    BY <1>0, <2>1, <2>2, <2>4 DEF SmsTypes
  <2>6. delivery[n] \in {"sending", "sent", "failed"} /\ \A m \in j.rows :
          delivery[m] \in {"sending", "sent", "failed"}
    BY <1>0, <2>1, <2>3 DEF RowsOfTheSos
  <2>7. \A m \in ContactNos : delivery'[m] = "sent" => accepted[m] > 0
    BY <1>0, <2>5 DEF SentWasTaken
  <2>8. lost' = lost /\ lost \in Nat
    BY <1>0, <2>4 DEF SmsTypes
  <2>9. \A m \in ContactNos : delivery'[m] \in {"sending", "sent", "failed"} <=>
                              delivery[m] \in {"sending", "sent", "failed"}
    BY <2>2, <2>5, <2>6
  <2>10. \A m \in ContactNos : delivery'[m] = "sending" =>
           m \in j.rows \/ (delivery[m] = "sending" /\ m \notin texting[c].rows)
    BY <2>2, <2>3, <2>5
  <2> HIDE DEF n, j
  <2> QED
    BY <1>3, <2>3, <2>4, <2>5, <2>6, <2>7, <2>8, <2>9, <2>10
<1>5. ASSUME NEW c \in SmsCalls, NEW j \in Texting, texting' = [texting EXCEPT ![c] = j],
             j.pc # "sent", j.pc = "idle" <=> j.rows = {}, UNCHANGED <<accepted, delivery>>,
             lost' \in Nat, lost' = 0 => lost = 0,
             \A n \in j.rows : delivery[n] \in {"sending", "sent", "failed"},
             lost' = 0 => texting[c].rows \subseteq j.rows
      PROVE  SmsInv'
  <2>1. /\ delivery' \in [ContactNos -> {"none", "skipped", "sending", "sent", "failed"}]
        /\ delivery' = delivery
    BY <1>0, <1>5 DEF SmsTypes
  <2>2. \A n \in ContactNos : delivery'[n] = "sent" => accepted[n] > 0
    BY <1>0, <2>1 DEF SentWasTaken
  <2>3. lost' = 0 => \A n \in ContactNos : delivery'[n] = "sending" =>
          n \in j.rows \/ (delivery[n] = "sending" /\ n \notin texting[c].rows)
    BY <1>5, <2>1
  <2> QED
    BY <1>3, <1>5, <2>1, <2>2, <2>3
<1>6. ASSUME NEW c \in SmsCalls, UpdateFails(c) PROVE SmsInv'
  <2>1. lost \in Nat /\ lost' = lost + 1 /\ lost' \in Nat /\ lost' # 0
    BY <1>0, <1>6 DEF UpdateFails, SmsTypes
  <2>2. texting[c] \in Texting /\ texting[c].pc # "idle" /\ UNCHANGED <<accepted, delivery>>
    BY <1>0, <1>6 DEF UpdateFails, SmsTypes
  <2>3. \A n \in texting[c].rows : delivery[n] \in {"sending", "sent", "failed"}
    BY <1>0 DEF RowsOfTheSos
  <2>4. CASE texting[c].pc = "sent"
    <3> DEFINE j == [texting[c] EXCEPT !.pc = "failed"]
    <3>1. j \in Texting /\ j.pc = "failed" /\ j.rows = texting[c].rows /\ j.rows # {}
      BY <1>0, <2>2 DEF RowsOfTheSos
    <3>2. texting' = [texting EXCEPT ![c] = j]
      BY <1>6, <2>4 DEF UpdateFails
    <3> HIDE DEF j
    <3> QED
      BY <1>5, <2>1, <2>2, <2>3, <3>1, <3>2
  <2>5. CASE texting[c].pc # "sent"
    <3> DEFINE j == Sending(RowsLeft(c))
    <3>1. RowsLeft(c) \subseteq texting[c].rows /\ RowsLeft(c) \in SUBSET ContactNos
      BY <2>2 DEF RowsLeft
    <3>2. /\ j \in Texting /\ j.pc # "sent" /\ (j.pc = "idle" <=> j.rows = {})
          /\ j.rows \subseteq texting[c].rows
      BY <1>000, <3>1
    <3>3. texting' = [texting EXCEPT ![c] = j]
      BY <1>6, <2>5 DEF UpdateFails
    <3> HIDE DEF j
    <3> QED
      BY <1>5, <2>1, <2>2, <2>3, <3>2, <3>3
  <2> QED
    BY <2>4, <2>5
<1>7. ASSUME NEW c \in SmsCalls, NEW n \in ContactNos, Resend(c, n) PROVE SmsInv'
  <2> DEFINE j == [pc |-> "mark", rows |-> {n}]
  <2>1. j \in Texting /\ j.pc = "mark" /\ j.rows = {n} /\ texting[c].rows = {}
    BY <1>7 DEF Resend, NotTexting
  <2>2. /\ texting' = [texting EXCEPT ![c] = j] /\ UNCHANGED <<delivery, accepted, lost>>
        /\ delivery[n] = "failed" /\ lost \in Nat
    BY <1>0, <1>7 DEF Resend, SmsTypes
  <2> HIDE DEF j
  <2> QED
    BY <1>5, <2>1, <2>2
<1>8. ASSUME NEW c \in SmsCalls, MarkSending(c) PROVE SmsInv'
  <2> DEFINE n == At(c)
             j == [texting[c] EXCEPT !.pc = "send"]
  <2>1. texting[c].rows # {} /\ n \in texting[c].rows /\ n \in ContactNos
    BY <1>0, <1>8, AtIsRow DEF MarkSending, RowsOfTheSos
  <2>2. j \in Texting /\ j.pc = "send" /\ j.rows = texting[c].rows
    BY <1>0 DEF SmsTypes
  <2>3. /\ texting' = [texting EXCEPT ![c] = j]
        /\ delivery' = [delivery EXCEPT ![n] = "sending"]
        /\ UNCHANGED <<accepted, lost>>
    BY <1>8 DEF MarkSending
  <2>4. /\ delivery' \in [ContactNos -> {"none", "skipped", "sending", "sent", "failed"}]
        /\ \A m \in ContactNos : delivery'[m] = IF m = n THEN "sending" ELSE delivery[m]
    BY <1>0, <2>1, <2>3 DEF SmsTypes
  <2>5. delivery[n] \in {"sending", "sent", "failed"} /\ \A m \in j.rows :
          delivery[m] \in {"sending", "sent", "failed"}
    BY <1>0, <2>1, <2>2 DEF RowsOfTheSos
  <2>6. lost' = lost /\ lost \in Nat
    BY <1>0, <2>3 DEF SmsTypes
  <2>7. \A m \in ContactNos : delivery'[m] = "sent" => accepted[m] > 0
    BY <1>0, <2>4 DEF SentWasTaken
  <2>8. \A m \in ContactNos : delivery'[m] \in {"sending", "sent", "failed"} <=>
                              delivery[m] \in {"sending", "sent", "failed"}
    BY <2>4, <2>5
  <2>9. \A m \in ContactNos : delivery'[m] = "sending" =>
          m \in j.rows \/ (delivery[m] = "sending" /\ m \notin texting[c].rows)
    BY <2>1, <2>2, <2>4
  <2>10. j.rows # {}
    BY <2>1, <2>2
  <2> HIDE DEF n, j
  <2> QED
    BY <1>3, <2>2, <2>3, <2>4, <2>5, <2>6, <2>7, <2>8, <2>9, <2>10
<1>9. ASSUME NEW c \in SmsCalls, TextingDies(c) PROVE SmsInv'
  <2>1. lost \in Nat /\ lost' = lost + 1 /\ lost' \in Nat /\ lost' # 0
    BY <1>0, <1>9 DEF TextingDies, SmsTypes
  <2>2. texting' = [texting EXCEPT ![c] = NotTexting] /\ UNCHANGED <<accepted, delivery>>
    BY <1>9 DEF TextingDies
  <2> QED
    BY <1>00, <1>5, <2>1, <2>2
<1>10. CASE UNCHANGED sosSmsVars
  BY <1>0, <1>10 DEF sosSmsVars, SmsInv, SmsTypes, RowsOfTheSos, WithinLimit, SentWasTaken,
                     SendingIsOnItsWay, At
<1> QED
  BY <1>1, <1>2, <1>4, <1>6, <1>7, <1>8, <1>9, <1>10 DEF SosSmsNext

\* For any number of contacts, calls and repetitions, the result screen can be believed,
\* and no more contacts are texted than the limit allows (sos-sms.service.ts, startForSos,
\* sendAll and resend).
THEOREM ScreenHolds == SosSmsSpec => []ScreenIsRight
<1>1. SmsInv => ScreenIsRight
  <2> SUFFICES ASSUME SmsInv PROVE ScreenIsRight
    OBVIOUS
  <2> DEFINE all == {n \in ContactNos : accepted[n] > 0}
  <2>1. all \subseteq 1 .. MaxTexted
    BY DEF SmsInv, WithinLimit, ContactNos
  <2>2. IsFiniteSet(1 .. MaxTexted) /\ Cardinality(1 .. MaxTexted) = MaxTexted
    <3>1. MaxTexted \in Nat
      BY SosSmsAssumption DEF SosSmsAssumption
    <3>2. Cardinality(1 .. MaxTexted) = IF 1 > MaxTexted THEN 0 ELSE MaxTexted - 1 + 1
      BY <3>1, FS_Interval
    <3> QED
      BY <3>1, <3>2, FS_Interval
  <2>3. Cardinality(all) <= MaxTexted
    BY <2>1, <2>2, FS_Subset
  <2>4. \A n \in ContactNos :
          /\ delivery[n] = "sent" => accepted[n] > 0
          /\ delivery[n] = "skipped" => accepted[n] = 0
          /\ delivery[n] = "sending" /\ lost = 0 => \E c \in SmsCalls : n \in texting[c].rows
    BY DEF SmsInv, SmsTypes, WithinLimit, SentWasTaken, SendingIsOnItsWay
  <2> QED
    BY <2>3, <2>4 DEF ScreenIsRight
<1> QED
  BY <1>1, SmsInitInv, SmsStep, PTL DEF SosSmsSpec

----------------------------------------------------------------------------
(* Gallery.                                                                *)

HandlingRows ==
  [pc: GalleryPcs, files: SUBSET Files, read: SUBSET Files, rooms: SUBSET Rooms]

GalleryTypes ==
  /\ asset \in [Files -> {"none", "pending", "uploaded", "gone"}]
  /\ handling \in [GalleryCalls -> HandlingRows]
  /\ ready \subseteq SUBSET Files
  /\ \A p \in posts : p = Post(p.room, p.of, p.shown)

\* A file belongs to one call, or to one set of addresses the app holds.
Exclusive ==
  /\ \A c, d \in GalleryCalls : c # d => Thy(c) \cap Thy(d) = {}
  /\ \A f \in ready : \A c \in GalleryCalls : f \cap Thy(c) = {}
  /\ \A f, g \in ready : f = g \/ f \cap g = {}
  /\ \A f \in ready : \A a \in f : asset[a] # "none"

\* What a call h may rely on: its addresses are new, what it clears away was deleted
\* before, what it read as pending did not become part of a post or message, and what it
\* found in the store is still there unless its row was deleted.
KnowsOf(h, rows, held) ==
  /\ h.pc \in {"sweep", "quota", "insert"} => \A a \in h.files : rows[a] = "none"
  /\ h.pc = "sweep" => \A a \in h.read : rows[a] = "gone"
  /\ h.pc \in {"verify", "check", "refuse"} =>
       h.read \subseteq h.files /\ \A a \in h.read : rows[a] \in {"pending", "gone"}
  /\ h.pc \in {"check", "refuse", "update", "post", "show", "mark", "send"} =>
       \A a \in h.files : a \in held \/ rows[a] = "gone"

AllKnow == \A c \in GalleryCalls : KnowsOf(handling[c], asset, inStore)

\* What is shown is marked as uploaded and in the store.
ShownInStore == \A a \in Shown : a \in Files /\ asset[a] = "uploaded" /\ a \in inStore

GalleryInv == GalleryTypes /\ Exclusive /\ AllKnow /\ ShownInStore

\* The initial state satisfies the invariant.
LEMMA GalleryInitInv == GalleryInit => GalleryInv
<1> SUFFICES ASSUME GalleryInit PROVE GalleryInv
  OBVIOUS
<1>1. NotHandling \in HandlingRows /\ NotHandling.pc = "idle" /\ NotHandling.files = {}
  BY DEF NotHandling, Handling, HandlingRows, GalleryPcs
<1>2. \A c \in GalleryCalls : handling[c] = NotHandling
  BY DEF GalleryInit
<1>3. GalleryTypes
  BY <1>1 DEF GalleryInit, GalleryTypes
<1>4. Exclusive
  BY <1>1, <1>2 DEF GalleryInit, Exclusive, Thy
<1>5. AllKnow
  BY <1>1, <1>2 DEF AllKnow, KnowsOf
<1>6. ShownInStore
  BY DEF GalleryInit, ShownInStore, Shown
<1> QED
  BY <1>3, <1>4, <1>5, <1>6 DEF GalleryInv

\* A step that writes the rows T: others are deleted at most, for good, and a file leaves
\* the store only after its row.
Writes(T) ==
  /\ \A a \in Files : asset[a] = "gone" => asset'[a] = "gone"
  /\ \A a \in Files \ T :
       asset'[a] = asset[a] \/ (asset[a] \notin {"none", "gone"} /\ asset'[a] = "gone")
  /\ \A a \in Files : a \in inStore => a \in inStore' \/ asset'[a] = "gone"

\* It changes nothing for a call with other files.
LEMMA OthersKnow ==
  ASSUME NEW T, NEW h \in HandlingRows, KnowsOf(h, asset, inStore), h.files \cap T = {}, Writes(T)
  PROVE  KnowsOf(h, asset', inStore')
<1>1. h.files \subseteq Files /\ h.read \subseteq Files
  BY DEF HandlingRows
<1>2. h.pc \in {"sweep", "quota", "insert"} => \A a \in h.files : asset'[a] = "none"
  BY <1>1 DEF KnowsOf, Writes
<1>3. h.pc = "sweep" => \A a \in h.read : asset'[a] = "gone"
  BY <1>1 DEF KnowsOf, Writes
<1>4. h.pc \in {"verify", "check", "refuse"} =>
        h.read \subseteq h.files /\ \A a \in h.read : asset'[a] \in {"pending", "gone"}
  BY <1>1 DEF KnowsOf, Writes
<1>5. h.pc \in {"check", "refuse", "update", "post", "show", "mark", "send"} =>
        \A a \in h.files : a \in inStore' \/ asset'[a] = "gone"
  BY <1>1 DEF KnowsOf, Writes
<1> QED
  BY <1>2, <1>3, <1>4, <1>5 DEF KnowsOf

\* The call c goes on with the record h; what the others know stays so.
LEMMA CallGoesOn ==
  ASSUME GalleryInv, NEW c \in GalleryCalls, NEW h \in HandlingRows,
         handling' = [handling EXCEPT ![c] = h], Writes(Thy(c)), KnowsOf(h, asset', inStore')
  PROVE  /\ AllKnow'
         /\ handling' \in [GalleryCalls -> HandlingRows]
         /\ \A d \in GalleryCalls : handling'[d] = IF d = c THEN h ELSE handling[d]
<1>1. handling' \in [GalleryCalls -> HandlingRows]
  BY DEF GalleryInv, GalleryTypes
<1>2. \A d \in GalleryCalls : handling'[d] = IF d = c THEN h ELSE handling[d]
  BY DEF GalleryInv, GalleryTypes
<1>3. ASSUME NEW d \in GalleryCalls PROVE KnowsOf(handling'[d], asset', inStore')
  <2>1. CASE d = c
    BY <1>2, <2>1
  <2>2. CASE d # c
    <3>1. handling[d] \in HandlingRows /\ KnowsOf(handling[d], asset, inStore)
      BY DEF GalleryInv, GalleryTypes, AllKnow
    <3>2. handling[d].files \cap Thy(c) = {}
      BY <2>2 DEF GalleryInv, Exclusive, Thy
    <3>3. KnowsOf(handling[d], asset', inStore')
      BY <3>1, <3>2, OthersKnow
    <3> QED
      BY <1>2, <2>2, <3>3
  <2> QED
    BY <2>1, <2>2
<1> QED
  BY <1>1, <1>2, <1>3 DEF AllKnow

\* What a call with the files it had, or fewer, leaves to others.
LEMMA FilesStay ==
  ASSUME GalleryInv, NEW c \in GalleryCalls, NEW h, h.files \subseteq Thy(c), Writes(Thy(c)),
         \A d \in GalleryCalls : handling'[d] = IF d = c THEN h ELSE handling[d],
         ready' = ready
  PROVE  Exclusive'
<1>1. ready \subseteq SUBSET Files /\ \A d \in GalleryCalls : Thy(d)' \subseteq Thy(d)
  BY DEF GalleryInv, GalleryTypes, Thy
<1>2. \A d, e \in GalleryCalls : d # e => Thy(d)' \cap Thy(e)' = {}
  BY <1>1 DEF GalleryInv, Exclusive
<1>3. \A f \in ready : \A d \in GalleryCalls : f \cap Thy(d)' = {}
  BY <1>1 DEF GalleryInv, Exclusive
<1>4. ASSUME NEW f \in ready, NEW a \in f PROVE asset'[a] # "none"
  <2>1. a \in Files \ Thy(c) /\ asset[a] # "none"
    BY <1>1 DEF GalleryInv, Exclusive
  <2> QED
    BY <2>1 DEF Writes
<1> QED
  BY <1>2, <1>3, <1>4 DEF GalleryInv, Exclusive

\* Nothing is lost from the screen.
Keeps ==
  /\ messages \subseteq messages'
  /\ \A p \in posts : posts' = posts \ {p} \/ \E q \in posts' :
       q.room = p.room /\ q.of = p.of /\ q.shown \in {p.shown, p.of}

\* A call that only goes on, or ends.
LEMMA QuietStep ==
  ASSUME GalleryInv, NEW c \in GalleryCalls, NEW h \in HandlingRows,
         handling' = [handling EXCEPT ![c] = h], h.files \subseteq Thy(c),
         KnowsOf(h, asset, inStore), UNCHANGED <<asset, inStore, ready, posts, messages>>
  PROVE  GalleryInv' /\ Keeps
<1>1. Writes(Thy(c)) /\ KnowsOf(h, asset', inStore')
  BY DEF Writes
<1>2. /\ AllKnow'
      /\ handling' \in [GalleryCalls -> HandlingRows]
      /\ \A d \in GalleryCalls : handling'[d] = IF d = c THEN h ELSE handling[d]
  BY <1>1, CallGoesOn
<1>3. Exclusive'
  BY <1>1, <1>2, FilesStay
<1>4. GalleryTypes' /\ ShownInStore'
  BY <1>2 DEF GalleryInv, GalleryTypes, ShownInStore, Shown
<1> QED
  BY <1>2, <1>3, <1>4 DEF GalleryInv, Keeps

\* Rows that nothing shows are deleted without a trace.
LEMMA RowsDeleted ==
  ASSUME GalleryInv, NEW G, G \subseteq Files, \A a \in G : asset[a] \in {"pending", "gone"},
         DeleteRows(G)
  PROVE  /\ UNCHANGED <<posts, messages>>
         /\ asset' \in [Files -> {"none", "pending", "uploaded", "gone"}]
         /\ \A a \in Files : asset'[a] = IF a \in G THEN "gone" ELSE asset[a]
         /\ ShownInStore' <=> \A a \in Shown : a \in inStore'
<1>1. G \cap Shown = {}
  BY DEF GalleryInv, ShownInStore
<1>2. messages' = messages
  BY <1>1 DEF DeleteRows, Shown
<1>3. ASSUME NEW p \in posts PROVE [p EXCEPT !.shown = @ \ G] = p
  <2>1. p.shown \ G = p.shown
    BY <1>1 DEF Shown
  <2>2. p = Post(p.room, p.of, p.shown)
    BY DEF GalleryInv, GalleryTypes
  <2> QED
    BY <2>1, <2>2 DEF Post
<1>4. posts' = posts
  <2> DEFINE F(p) == [p EXCEPT !.shown = @ \ G]
  <2>1. posts' = {F(p) : p \in posts}
    BY DEF DeleteRows
  <2>2. \A p \in posts : F(p) = p
    BY <1>3
  <2> HIDE DEF F
  <2> QED
    BY <2>1, <2>2
<1>5. /\ asset' \in [Files -> {"none", "pending", "uploaded", "gone"}]
      /\ \A a \in Files : asset'[a] = IF a \in G THEN "gone" ELSE asset[a]
  BY DEF DeleteRows, GalleryInv, GalleryTypes
<1>6. Shown' = Shown
  BY <1>2, <1>4 DEF Shown
<1>7. ShownInStore' <=> \A a \in Shown : a \in inStore'
  BY <1>1, <1>5, <1>6 DEF GalleryInv, ShownInStore
<1> QED
  BY <1>2, <1>4, <1>5, <1>7

\* Every step keeps the invariant and what is shown.
LEMMA GalleryStep ==
  GalleryInv /\ [GalleryNext]_galleryVars => GalleryInv' /\ (Keeps \/ UNCHANGED galleryVars)
<1> SUFFICES ASSUME GalleryInv, [GalleryNext]_galleryVars
             PROVE  GalleryInv' /\ (Keeps \/ UNCHANGED galleryVars)
  OBVIOUS
<1>0. GalleryTypes /\ Exclusive /\ AllKnow /\ ShownInStore
  BY DEF GalleryInv
<1>00. /\ NotHandling \in HandlingRows /\ NotHandling.pc = "idle" /\ NotHandling.files = {}
       /\ \A rows, held : KnowsOf(NotHandling, rows, held)
  BY DEF NotHandling, Handling, HandlingRows, GalleryPcs, KnowsOf
<1>000. \A c \in GalleryCalls : /\ handling[c] \in HandlingRows
                                /\ KnowsOf(handling[c], asset, inStore)
  BY <1>0 DEF GalleryTypes, AllKnow
<1>1. ASSUME NEW c \in GalleryCalls, NEW files \in SUBSET Files, UploadTargets(c, files)
      PROVE  GalleryInv' /\ Keeps
  <2> DEFINE G == {a \in Files : Stale(a)}
             h == Handling("sweep", files, G, {})
  <2>1. /\ DeleteRows(G) /\ G \subseteq Files /\ \A a \in G : asset[a] = "pending"
        /\ \A a \in files : asset[a] = "none"
        /\ \A d \in GalleryCalls : files \cap Thy(d) = {}
        /\ handling' = [handling EXCEPT ![c] = h] /\ handling[c] = NotHandling
        /\ UNCHANGED <<inStore, ready>>
    BY <1>1 DEF UploadTargets, StartsHandling, Stale, Thy
  <2>2. h \in HandlingRows /\ h.pc = "sweep" /\ h.files = files /\ h.read = G
    BY <2>1 DEF Handling, HandlingRows, GalleryPcs
  <2> HIDE DEF G, h
  <2>3. /\ UNCHANGED <<posts, messages>>
        /\ asset' \in [Files -> {"none", "pending", "uploaded", "gone"}]
        /\ \A a \in Files : asset'[a] = IF a \in G THEN "gone" ELSE asset[a]
        /\ ShownInStore' <=> \A a \in Shown : a \in inStore'
    BY <2>1, RowsDeleted
  <2>4. Writes(Thy(c)) /\ KnowsOf(h, asset', inStore')
    <3>1. Writes(Thy(c))
      BY <2>1, <2>3 DEF Writes
    <3>2. \A a \in h.files : asset'[a] = "none"
      BY <2>1, <2>2, <2>3
    <3>3. \A a \in h.read : asset'[a] = "gone"
      BY <2>1, <2>2, <2>3
    <3> QED
      BY <2>2, <3>1, <3>2, <3>3 DEF KnowsOf
  <2>5. /\ AllKnow'
        /\ handling' \in [GalleryCalls -> HandlingRows]
        /\ \A d \in GalleryCalls : handling'[d] = IF d = c THEN h ELSE handling[d]
    BY <2>1, <2>2, <2>4, CallGoesOn
  <2>6. GalleryTypes' /\ ShownInStore'
    <3>1. GalleryTypes'
      BY <1>0, <2>1, <2>3, <2>5 DEF GalleryTypes
    <3>2. ShownInStore'
      BY <1>0, <2>1, <2>3 DEF ShownInStore
    <3> QED
      BY <3>1, <3>2
  <2>7. Exclusive'
    <3>1. \A d, e \in GalleryCalls : d # e => Thy(d)' \cap Thy(e)' = {}
      BY <1>0, <2>1, <2>2, <2>5 DEF Exclusive, Thy
    <3>2. \A f \in ready : \A d \in GalleryCalls : f \cap Thy(d)' = {}
      BY <1>0, <2>1, <2>2, <2>5 DEF Exclusive, Thy
    <3>3. \A f \in ready : \A a \in f : asset'[a] # "none"
      BY <1>0, <2>3 DEF Exclusive, GalleryTypes
    <3> QED
      BY <1>0, <2>1, <3>1, <3>2, <3>3 DEF Exclusive
  <2> QED
    BY <2>3, <2>5, <2>6, <2>7 DEF GalleryInv, Keeps
<1>2. ASSUME NEW c \in GalleryCalls, RemoveStale(c) PROVE GalleryInv' /\ Keeps
  <2> DEFINE h == [handling[c] EXCEPT !.pc = "quota"]
  <2>1. /\ handling' = [handling EXCEPT ![c] = h] /\ handling[c].pc = "sweep"
        /\ inStore' = inStore \ handling[c].read
        /\ UNCHANGED <<asset, ready, posts, messages>>
    BY <1>2 DEF RemoveStale, Turns
  <2>2. h \in HandlingRows /\ h.pc = "quota" /\ h.files = Thy(c)
    BY <1>000 DEF HandlingRows, GalleryPcs, Thy
  <2>3. \A a \in handling[c].read : asset[a] = "gone"
    BY <1>000, <2>1 DEF KnowsOf
  <2>4. \A a \in h.files : asset'[a] = "none"
    BY <1>000, <2>1, <2>2 DEF KnowsOf, Thy
  <2> HIDE DEF h
  <2>5. Writes(Thy(c)) /\ KnowsOf(h, asset', inStore')
    BY <2>1, <2>2, <2>3, <2>4 DEF Writes, KnowsOf
  <2>6. /\ AllKnow'
        /\ handling' \in [GalleryCalls -> HandlingRows]
        /\ \A d \in GalleryCalls : handling'[d] = IF d = c THEN h ELSE handling[d]
    BY <2>1, <2>2, <2>5, CallGoesOn
  <2>7. Exclusive'
    BY <2>1, <2>2, <2>5, <2>6, FilesStay
  <2>8. GalleryTypes' /\ ShownInStore'
    BY <1>0, <2>1, <2>3, <2>6 DEF GalleryTypes, ShownInStore, Shown
  <2> QED
    BY <2>1, <2>6, <2>7, <2>8 DEF GalleryInv, Keeps
<1>3. ASSUME NEW c \in GalleryCalls, CheckDeclared(c) PROVE GalleryInv' /\ Keeps
  <2> DEFINE h == Handling("insert", Thy(c), {}, {})
  <2>1. h \in HandlingRows /\ h.pc = "insert" /\ h.files = Thy(c)
    BY <1>000 DEF Handling, HandlingRows, GalleryPcs, Thy
  <2>2. \A a \in Thy(c) : asset[a] = "none"
    BY <1>3, <1>000 DEF CheckDeclared, KnowsOf, Thy
  <2>3. /\ \/ handling' = [handling EXCEPT ![c] = h]
           \/ handling' = [handling EXCEPT ![c] = NotHandling]
        /\ UNCHANGED <<asset, inStore, ready, posts, messages>>
    BY <1>3 DEF CheckDeclared
  <2> HIDE DEF h
  <2>4. KnowsOf(h, asset, inStore)
    BY <2>1, <2>2 DEF KnowsOf
  <2>5. NotHandling.files \subseteq Thy(c) /\ h.files \subseteq Thy(c)
    BY <1>00, <2>1
  <2> QED
    BY <1>00, <2>1, <2>3, <2>4, <2>5, QuietStep
<1>4. ASSUME NEW c \in GalleryCalls, InsertTargets(c) PROVE GalleryInv' /\ Keeps
  <2>1. /\ handling' = [handling EXCEPT ![c] = NotHandling] /\ handling[c].pc = "insert"
        /\ asset' = [a \in Files |-> IF a \in Thy(c) THEN "pending" ELSE asset[a]]
        /\ ready' = ready \cup {Thy(c)}
        /\ UNCHANGED <<inStore, posts, messages>>
    BY <1>4 DEF InsertTargets, Finishes
  <2>2. Thy(c) \subseteq Files /\ \A a \in Thy(c) : asset[a] = "none"
    BY <1>000, <2>1 DEF KnowsOf, Thy, HandlingRows
  <2>3. /\ asset' \in [Files -> {"none", "pending", "uploaded", "gone"}]
        /\ \A a \in Files : asset'[a] = IF a \in Thy(c) THEN "pending" ELSE asset[a]
    BY <1>0, <2>1 DEF GalleryTypes
  <2>4. Writes(Thy(c))
    BY <2>1, <2>2, <2>3 DEF Writes
  <2>5. /\ AllKnow'
        /\ handling' \in [GalleryCalls -> HandlingRows]
        /\ \A d \in GalleryCalls : handling'[d] = IF d = c THEN NotHandling ELSE handling[d]
    BY <1>00, <2>1, <2>4, CallGoesOn
  <2>6. GalleryTypes' /\ ShownInStore'
    BY <1>0, <2>1, <2>2, <2>3, <2>5 DEF GalleryTypes, ShownInStore, Shown
  <2>7. Exclusive'
    <3>1. \A d \in GalleryCalls : Thy(d)' = IF d = c THEN {} ELSE Thy(d)
      BY <1>00, <2>5 DEF Thy
    <3>2. \A d, e \in GalleryCalls : d # e => Thy(d)' \cap Thy(e)' = {}
      BY <1>0, <3>1 DEF Exclusive
    <3>3. \A f \in ready' : \A d \in GalleryCalls : f \cap Thy(d)' = {}
      BY <1>0, <2>1, <3>1 DEF Exclusive
    <3>4. \A f, g \in ready' : f = g \/ f \cap g = {}
      BY <1>0, <2>1 DEF Exclusive
    <3>5. \A f \in ready' : \A a \in f : asset'[a] # "none"
      BY <1>0, <2>1, <2>2, <2>3 DEF Exclusive, GalleryTypes
    <3> QED
      BY <3>2, <3>3, <3>4, <3>5 DEF Exclusive
  <2> QED
    BY <2>1, <2>5, <2>6, <2>7 DEF GalleryInv, Keeps
<1>5. ASSUME NEW c \in GalleryCalls, NEW files, Uses(files),
             NEW h \in HandlingRows, h.files = files, KnowsOf(h, asset, inStore),
             handling' = [handling EXCEPT ![c] = h],
             UNCHANGED <<asset, inStore, posts, messages>>
      PROVE  GalleryInv' /\ Keeps
  <2>1. files \in ready /\ ready' = ready \ {files} /\ files \subseteq Files
    BY <1>0, <1>5 DEF Uses, GalleryTypes
  <2>2. Writes(Thy(c)) /\ KnowsOf(h, asset', inStore')
    BY <1>5 DEF Writes
  <2>3. /\ AllKnow'
        /\ handling' \in [GalleryCalls -> HandlingRows]
        /\ \A d \in GalleryCalls : handling'[d] = IF d = c THEN h ELSE handling[d]
    BY <1>5, <2>2, CallGoesOn
  <2>4. GalleryTypes' /\ ShownInStore'
    BY <1>0, <1>5, <2>1, <2>3 DEF GalleryTypes, ShownInStore, Shown
  <2>5. Exclusive'
    <3>1. \A d \in GalleryCalls : Thy(d)' = IF d = c THEN files ELSE Thy(d)
      BY <1>5, <2>3 DEF Thy
    <3>2. \A d, e \in GalleryCalls : d # e => Thy(d)' \cap Thy(e)' = {}
      BY <1>0, <2>1, <3>1 DEF Exclusive
    <3>3. \A f \in ready' : \A d \in GalleryCalls : f \cap Thy(d)' = {}
      BY <1>0, <2>1, <3>1 DEF Exclusive
    <3> QED
      BY <1>0, <1>5, <2>1, <3>2, <3>3 DEF Exclusive
  <2> QED
    BY <1>5, <2>3, <2>4, <2>5 DEF GalleryInv, Keeps
<1>6. ASSUME NEW c \in GalleryCalls, NEW files \in SUBSET Files, NEW rooms \in SUBSET Rooms,
             CreatePost(c, files, rooms)
      PROVE  GalleryInv' /\ Keeps
  <2> DEFINE new == {a \in files : asset[a] = "pending"}
             h == Handling("verify", files, new, rooms)
  <2>1. h \in HandlingRows /\ h.pc = "verify" /\ h.files = files /\ h.read = new
    BY DEF Handling, HandlingRows, GalleryPcs
  <2>2. new \subseteq files /\ \A a \in new : asset[a] = "pending"
    OBVIOUS
  <2>3. /\ handling' = [handling EXCEPT ![c] = h] /\ Uses(files)
        /\ UNCHANGED <<asset, inStore, posts, messages>>
    BY <1>6 DEF CreatePost, StartsHandling
  <2> HIDE DEF h, new
  <2>4. KnowsOf(h, asset, inStore)
    BY <2>1, <2>2 DEF KnowsOf
  <2> QED
    BY <1>5, <2>1, <2>3, <2>4
<1>7. ASSUME NEW c \in GalleryCalls, NEW a \in Files, SendPhoto(c, a)
      PROVE  GalleryInv' /\ Keeps
  <2> DEFINE h == Handling("mark", {a}, {}, {})
  <2>1. h \in HandlingRows /\ h.pc = "mark" /\ h.files = {a}
    BY DEF Handling, HandlingRows, GalleryPcs
  <2>2. /\ handling' = [handling EXCEPT ![c] = h] /\ Uses({a}) /\ a \in inStore
        /\ UNCHANGED <<asset, inStore, posts, messages>>
    BY <1>7 DEF SendPhoto, StartsHandling
  <2> HIDE DEF h
  <2>3. KnowsOf(h, asset, inStore)
    BY <2>1, <2>2 DEF KnowsOf
  <2> QED
    BY <1>5, <2>1, <2>2, <2>3
<1>8. ASSUME NEW c \in GalleryCalls, NEW a \in Files, AttachAudio(c, a)
      PROVE  GalleryInv' /\ Keeps
  <2> DEFINE h == Handling("refer", {a}, {}, {})
  <2>1. h \in HandlingRows /\ h.pc = "refer" /\ h.files = {a}
    BY DEF Handling, HandlingRows, GalleryPcs
  <2>2. /\ handling' = [handling EXCEPT ![c] = h] /\ Uses({a})
        /\ UNCHANGED <<asset, inStore, posts, messages>>
    BY <1>8 DEF AttachAudio, StartsHandling
  <2> HIDE DEF h
  <2>3. KnowsOf(h, asset, inStore)
    BY <2>1 DEF KnowsOf
  <2> QED
    BY <1>5, <2>1, <2>2, <2>3
<1>9. ASSUME NEW c \in GalleryCalls, VerifyUploads(c) PROVE GalleryInv' /\ Keeps
  <2> DEFINE h == [handling[c] EXCEPT !.pc = "check"]
  <2>1. /\ h \in HandlingRows /\ h.pc = "check" /\ h.files = Thy(c)
        /\ h.read = handling[c].read
    BY <1>000 DEF HandlingRows, GalleryPcs, Thy
  <2>2. /\ \/ handling' = [handling EXCEPT ![c] = h] /\ Thy(c) \subseteq inStore
           \/ handling' = [handling EXCEPT ![c] = NotHandling]
        /\ handling[c].pc = "verify" /\ UNCHANGED <<asset, inStore, ready, posts, messages>>
    BY <1>9 DEF VerifyUploads
  <2> HIDE DEF h
  <2>3. Thy(c) \subseteq inStore => KnowsOf(h, asset, inStore)
    BY <1>000, <2>1, <2>2 DEF KnowsOf, Thy
  <2>4. NotHandling.files \subseteq Thy(c) /\ h.files \subseteq Thy(c)
    BY <1>00, <2>1
  <2> QED
    BY <1>00, <2>1, <2>2, <2>3, <2>4, QuietStep
<1>10. ASSUME NEW c \in GalleryCalls, CheckReal(c) PROVE GalleryInv' /\ Keeps
  <2> DEFINE h(pc) == [handling[c] EXCEPT !.pc = pc]
  <2>1. PICK pc \in {"refuse", "update"} : handling' = [handling EXCEPT ![c] = h(pc)]
    BY <1>10 DEF CheckReal, Turns
  <2>2. /\ h(pc) \in HandlingRows /\ h(pc).pc = pc /\ h(pc).files = Thy(c)
        /\ h(pc).read = handling[c].read
    BY <1>000 DEF HandlingRows, GalleryPcs, Thy
  <2>3. handling[c].pc = "check" /\ UNCHANGED <<asset, inStore, ready, posts, messages>>
    BY <1>10 DEF CheckReal, Turns
  <2> HIDE DEF h
  <2>4. KnowsOf(h(pc), asset, inStore)
    BY <1>000, <2>2, <2>3 DEF KnowsOf, Thy
  <2>5. h(pc).files \subseteq Thy(c)
    BY <2>2
  <2> QED
    BY <2>1, <2>2, <2>3, <2>4, <2>5, QuietStep
<1>11. ASSUME NEW c \in GalleryCalls, RefusePost(c) PROVE GalleryInv' /\ Keeps
  <2> DEFINE G == handling[c].read
  <2>1. /\ handling' = [handling EXCEPT ![c] = NotHandling] /\ handling[c].pc = "refuse"
        /\ DeleteRows(G) /\ inStore' = inStore \ G /\ ready' = ready
    BY <1>11 DEF RefusePost, Finishes
  <2>2. G \subseteq Files /\ \A a \in G : asset[a] \in {"pending", "gone"}
    BY <1>000, <2>1 DEF KnowsOf, HandlingRows
  <2> HIDE DEF G
  <2>3. /\ UNCHANGED <<posts, messages>>
        /\ asset' \in [Files -> {"none", "pending", "uploaded", "gone"}]
        /\ \A a \in Files : asset'[a] = IF a \in G THEN "gone" ELSE asset[a]
        /\ ShownInStore' <=> \A a \in Shown : a \in inStore'
    BY <2>1, <2>2, RowsDeleted
  <2>4. Writes(Thy(c))
    BY <2>1, <2>2, <2>3 DEF Writes
  <2>5. /\ AllKnow'
        /\ handling' \in [GalleryCalls -> HandlingRows]
        /\ \A d \in GalleryCalls : handling'[d] = IF d = c THEN NotHandling ELSE handling[d]
    BY <1>00, <2>1, <2>4, CallGoesOn
  <2>6. GalleryTypes' /\ ShownInStore'
    <3>1. GalleryTypes'
      BY <1>0, <2>1, <2>3, <2>5 DEF GalleryTypes
    <3>2. \A a \in Shown : a \in inStore'
      BY <1>0, <2>1, <2>2 DEF ShownInStore
    <3> QED
      BY <2>3, <3>1, <3>2
  <2>7. Exclusive'
    <3>1. NotHandling.files \subseteq Thy(c)
      BY <1>00
    <3> QED
      BY <2>1, <2>4, <2>5, <3>1, FilesStay
  <2> QED
    BY <2>3, <2>5, <2>6, <2>7 DEF GalleryInv, Keeps
<1>12. ASSUME NEW c \in GalleryCalls, NEW from \in {"update", "mark"},
              NEW to \in {"post", "send"}, Turns(c, from, to), asset' = Marked(Thy(c)),
              UNCHANGED <<inStore, ready, posts, messages>>
       PROVE  GalleryInv' /\ Keeps
  <2> DEFINE h == [handling[c] EXCEPT !.pc = to]
  <2>1. handling' = [handling EXCEPT ![c] = h] /\ handling[c].pc = from
    BY <1>12 DEF Turns
  <2>2. h \in HandlingRows /\ h.pc = to /\ h.files = Thy(c)
    BY <1>000 DEF HandlingRows, GalleryPcs, Thy
  <2>3. /\ asset' \in [Files -> {"none", "pending", "uploaded", "gone"}]
        /\ \A a \in Files : asset'[a] = IF a \in Thy(c) /\ asset[a] = "pending"
                                        THEN "uploaded" ELSE asset[a]
    BY <1>0, <1>12 DEF Marked, GalleryTypes
  <2> HIDE DEF h
  <2>4. Writes(Thy(c))
    BY <1>12, <2>3 DEF Writes
  <2>5. KnowsOf(h, asset', inStore')
    <3>1. \A a \in h.files : a \in inStore \/ asset[a] = "gone"
      BY <1>000, <2>1, <2>2 DEF KnowsOf, Thy
    <3>2. h.files \subseteq Files
      BY <2>2 DEF HandlingRows
    <3>3. \A a \in h.files : a \in inStore' \/ asset'[a] = "gone"
      BY <1>12, <2>3, <3>1, <3>2
    <3> QED
      BY <2>2, <3>3 DEF KnowsOf
  <2>6. /\ AllKnow'
        /\ handling' \in [GalleryCalls -> HandlingRows]
        /\ \A d \in GalleryCalls : handling'[d] = IF d = c THEN h ELSE handling[d]
    BY <2>1, <2>2, <2>4, <2>5, CallGoesOn
  <2>7. GalleryTypes' /\ ShownInStore'
    BY <1>0, <1>12, <2>3, <2>6 DEF GalleryTypes, ShownInStore, Shown
  <2>8. Exclusive'
    BY <1>12, <2>2, <2>4, <2>6, FilesStay
  <2> QED
    BY <1>12, <2>6, <2>7, <2>8 DEF GalleryInv, Keeps
<1>13. ASSUME NEW c \in GalleryCalls, NEW h \in HandlingRows,
              handling' = [handling EXCEPT ![c] = h], h.files \subseteq Thy(c),
              KnowsOf(h, asset, inStore), UNCHANGED <<asset, inStore, ready>>,
              \A p \in posts' : p = Post(p.room, p.of, p.shown), ShownInStore', Keeps
       PROVE  GalleryInv' /\ Keeps
  <2>1. Writes(Thy(c)) /\ KnowsOf(h, asset', inStore')
    BY <1>13 DEF Writes
  <2>2. /\ AllKnow'
        /\ handling' \in [GalleryCalls -> HandlingRows]
        /\ \A d \in GalleryCalls : handling'[d] = IF d = c THEN h ELSE handling[d]
    BY <1>13, <2>1, CallGoesOn
  <2>3. Exclusive'
    BY <1>13, <2>1, <2>2, FilesStay
  <2>4. GalleryTypes'
    BY <1>0, <1>13, <2>2 DEF GalleryTypes
  <2> QED
    BY <1>13, <2>2, <2>3, <2>4 DEF GalleryInv
<1>14. ASSUME NEW c \in GalleryCalls, InsertPost(c) PROVE GalleryInv' /\ Keeps
  <2> DEFINE h == [handling[c] EXCEPT !.pc = "show"]
             new == Post(NextRoom(c), Thy(c), {})
  <2>1. /\ handling' = [handling EXCEPT ![c] = h] /\ handling[c].pc = "post"
        /\ posts' = posts \cup {new} /\ UNCHANGED <<asset, inStore, ready, messages>>
    BY <1>14 DEF InsertPost, Turns
  <2>2. h \in HandlingRows /\ h.pc = "show" /\ h.files = Thy(c)
    BY <1>000 DEF HandlingRows, GalleryPcs, Thy
  <2>3. new.shown = {} /\ new = Post(new.room, new.of, new.shown)
    BY DEF Post
  <2> HIDE DEF h, new
  <2>4. KnowsOf(h, asset, inStore)
    BY <1>000, <2>1, <2>2 DEF KnowsOf, Thy
  <2>5. \A p \in posts' : p = Post(p.room, p.of, p.shown)
    BY <1>0, <2>1, <2>3 DEF GalleryTypes
  <2>6. ShownInStore' /\ Keeps
    <3>1. Shown' = Shown
      BY <2>1, <2>3 DEF Shown
    <3> QED
      BY <1>0, <2>1, <3>1 DEF ShownInStore, Keeps
  <2> QED
    BY <1>13, <2>1, <2>2, <2>4, <2>5, <2>6
<1>15. ASSUME NEW c \in GalleryCalls, ShowPhotos(c) PROVE GalleryInv' /\ Keeps
  <2> DEFINE there == \A a \in Thy(c) : asset[a] = "uploaded"
             left == handling[c].rooms \ {NextRoom(c)}
             h == IF there /\ left # {} THEN Handling("post", Thy(c), {}, left) ELSE NotHandling
             hit(p) == p.room = NextRoom(c) /\ p.of = Thy(c) /\ there
             F(p) == IF hit(p) THEN [p EXCEPT !.shown = Thy(c)] ELSE p
  <2>1. /\ handling' = [handling EXCEPT ![c] = h] /\ handling[c].pc = "show"
        /\ posts' = {F(p) : p \in posts} /\ UNCHANGED <<asset, inStore, ready, messages>>
    BY <1>15 DEF ShowPhotos
  <2>2. Thy(c) \subseteq Files /\ \A a \in Thy(c) : a \in inStore \/ asset[a] = "gone"
    BY <1>000, <2>1 DEF KnowsOf, Thy, HandlingRows
  <2>3. h \in HandlingRows /\ h.files \subseteq Thy(c) /\ KnowsOf(h, asset, inStore)
    <3>1. Handling("post", Thy(c), {}, left) \in HandlingRows
      BY <1>000, <2>2 DEF Handling, HandlingRows, GalleryPcs
    <3>2. KnowsOf(Handling("post", Thy(c), {}, left), asset, inStore)
      BY <2>2 DEF Handling, KnowsOf
    <3>3. Handling("post", Thy(c), {}, left).files = Thy(c)
      BY DEF Handling
    <3> QED
      BY <1>00, <3>1, <3>2, <3>3
  <2>4. \A p \in posts : /\ F(p) = Post(F(p).room, F(p).of, F(p).shown)
                         /\ F(p).room = p.room /\ F(p).of = p.of
                         /\ F(p).shown = IF hit(p) THEN Thy(c) ELSE p.shown
    <3>1. ASSUME NEW p \in posts
          PROVE  /\ F(p) = Post(F(p).room, F(p).of, F(p).shown)
                 /\ F(p).room = p.room /\ F(p).of = p.of
                 /\ F(p).shown = IF hit(p) THEN Thy(c) ELSE p.shown
      <4>1. p = Post(p.room, p.of, p.shown)
        BY <1>0 DEF GalleryTypes
      <4>2. CASE hit(p)
        <5>1. F(p) = Post(p.room, p.of, Thy(c))
          BY <4>1, <4>2 DEF Post
        <5> QED
          BY <4>2, <5>1 DEF Post
      <4>3. CASE ~hit(p)
        BY <4>1, <4>3
      <4> QED
        BY <4>2, <4>3
    <3> QED
      BY <3>1
  <2>5. \A p \in posts : hit(p) => there /\ p.of = Thy(c)
    OBVIOUS
  <2>6. there => \A a \in Thy(c) : a \in Files /\ asset[a] = "uploaded" /\ a \in inStore
    BY <2>2
  <2> HIDE DEF h, F, hit, there
  <2>7. \A q \in posts' : q = Post(q.room, q.of, q.shown)
    BY <2>1, <2>4
  <2>8. ShownInStore'
    <3>1. \A a \in Shown' : a \in Shown \/ (there /\ a \in Thy(c))
      BY <2>1, <2>4, <2>5 DEF Shown
    <3> QED
      BY <1>0, <2>1, <2>6, <3>1 DEF ShownInStore
  <2>9. Keeps
    <3>1. \A p \in posts : \E q \in posts' :
            q.room = p.room /\ q.of = p.of /\ q.shown \in {p.shown, p.of}
      BY <2>1, <2>4, <2>5
    <3> QED
      BY <2>1, <3>1 DEF Keeps
  <2> QED
    BY <1>13, <2>1, <2>3, <2>7, <2>8, <2>9
<1>16. ASSUME NEW c \in GalleryCalls, InsertMessage(c) PROVE GalleryInv' /\ Keeps
  <2>1. /\ handling' = [handling EXCEPT ![c] = NotHandling] /\ handling[c].pc = "send"
        /\ messages' = messages \cup {a \in Thy(c) : asset[a] = "uploaded"}
        /\ UNCHANGED <<asset, inStore, ready, posts>>
    BY <1>16 DEF InsertMessage, Finishes
  <2>2. Thy(c) \subseteq Files /\ \A a \in Thy(c) : a \in inStore \/ asset[a] = "gone"
    BY <1>000, <2>1 DEF KnowsOf, Thy, HandlingRows
  <2>3. ShownInStore' /\ Keeps
    BY <1>0, <2>1, <2>2 DEF ShownInStore, Shown, Keeps
  <2>4. NotHandling.files \subseteq Thy(c) /\ \A p \in posts' : p = Post(p.room, p.of, p.shown)
    BY <1>0, <1>00, <2>1 DEF GalleryTypes
  <2> QED
    BY <1>00, <1>13, <2>1, <2>3, <2>4
<1>17. ASSUME NEW c \in GalleryCalls, ReferRecording(c) \/ HandlingFails(c)
       PROVE  GalleryInv' /\ Keeps
  <2>1. /\ handling' = [handling EXCEPT ![c] = NotHandling]
        /\ UNCHANGED <<asset, inStore, ready, posts, messages>>
    BY <1>17 DEF ReferRecording, HandlingFails, Finishes
  <2>2. NotHandling.files \subseteq Thy(c)
    BY <1>00
  <2> QED
    BY <1>00, <2>1, <2>2, QuietStep
<1>18. ASSUME inStore \subseteq inStore', posts' \subseteq posts, posts' = posts \/
                \E p \in posts : posts' = posts \ {p},
              UNCHANGED <<asset, ready, messages, handling>>
       PROVE  GalleryInv' /\ Keeps
  <2>1. \A c \in GalleryCalls : KnowsOf(handling[c], asset', inStore')
    BY <1>000, <1>18 DEF KnowsOf
  <2>2. AllKnow'
    BY <1>18, <2>1 DEF AllKnow
  <2>3. GalleryTypes' /\ ShownInStore'
    BY <1>0, <1>18 DEF GalleryTypes, ShownInStore, Shown
  <2>4. Exclusive'
    BY <1>0, <1>18 DEF Exclusive, Thy
  <2>5. Keeps
    BY <1>18 DEF Keeps
  <2> QED
    BY <2>2, <2>3, <2>4, <2>5 DEF GalleryInv
<1>19. ASSUME NEW a \in Files, PutFile(a) \/ FileAges(a) PROVE GalleryInv' /\ Keeps
  BY <1>18, <1>19 DEF PutFile, FileAges
<1>20. ASSUME NEW p \in posts, RemovePost(p) PROVE GalleryInv' /\ Keeps
  BY <1>18, <1>20 DEF RemovePost
<1>21. ASSUME NEW c \in GalleryCalls, MarkUploaded(c) PROVE GalleryInv' /\ Keeps
  BY <1>12, <1>21 DEF MarkUploaded
<1>22. ASSUME NEW c \in GalleryCalls, MarkPhoto(c) PROVE GalleryInv' /\ Keeps
  BY <1>12, <1>22 DEF MarkPhoto
<1>23. CASE UNCHANGED galleryVars
  <2>1. UNCHANGED <<asset, inStore, ready, posts, messages, handling>>
    BY <1>23 DEF galleryVars
  <2> QED
    BY <1>18, <1>23, <2>1
<1> QED
  BY <1>1, <1>2, <1>3, <1>4, <1>6, <1>7, <1>8, <1>9, <1>10, <1>11, <1>14, <1>15, <1>16, <1>17,
     <1>19, <1>20, <1>21, <1>22, <1>23
  DEF GalleryNext

\* For any number of files, rooms and calls, what a post or a message shows stays, in the
\* store as well, and a post shows all of its photos or none (media.module.ts,
\* dropStalePending, assertQuotaForRealSize and createPost).
THEOREM PhotosStay == GallerySpec => ShownStays
<1>1. GalleryInv /\ [GalleryNext]_galleryVars =>
        [/\ messages \subseteq messages'
         /\ \A p \in posts : posts' = posts \ {p} \/ \E q \in posts' :
              q.room = p.room /\ q.of = p.of /\ q.shown \in {p.shown, p.of}
         /\ Shown' \subseteq inStore']_galleryVars
  BY GalleryStep DEF Keeps, GalleryInv, ShownInStore
<1>2. GalleryInv /\ [GalleryNext]_galleryVars => GalleryInv'
  BY GalleryStep
<1> QED
  BY <1>1, <1>2, GalleryInitInv, PTL DEF GallerySpec, ShownStays

----------------------------------------------------------------------------
(* Zones.                                                                  *)

ZoneTypes ==
  /\ zone \in [ZoneRows -> RowStates]
  /\ judge \in [ZoneWorkers -> Judges]
  /\ judged \in [ZoneRows -> SUBSET Times]
  /\ orderly \in BOOLEAN
  /\ \A w \in ZoneWorkers : judge[w].pc # "idle" => judge[w].t \in Times

\* Where a person lies for a crossing of that kind.
SideOf(kind) == IF kind = "enter" THEN "in" ELSE "out"

\* As long as nothing is known of a person, no crossing waits.
UnknownIdle ==
  /\ \A r \in ZoneRows : zone[r].inside = "unknown" => zone[r].kind = "none"
  /\ \A w \in ZoneWorkers : judge[w].row.inside = "unknown" => judge[w].row.kind = "none"

\* What was judged was measured, and is not measured again.
JudgedSeen ==
  /\ \A r \in ZoneRows : \A s \in judged[r] : seen[s] # "unmeasured"
  /\ \A w \in ZoneWorkers : judge[w].pc # "idle" => seen[judge[w].t] # "unmeasured"

\* One worker judges, nothing later has been judged, and the row is as it read it unless
\* the watcher has named the person again.
InTurn ==
  \A w \in ZoneWorkers : judge[w].pc # "idle" =>
    /\ \A v \in ZoneWorkers : judge[v].pc # "idle" => v = w
    /\ \A r \in ZoneRows : \A s \in judged[r] : s <= judge[w].t
    /\ judge[w].pc = "act" =>
         zone[judge[w].r] = judge[w].row \/ zone[judge[w].r] = Unknown

\* Since a crossing waits, every position judged lay on its side; the one being judged is
\* still to be looked at.
WaitsOnOneSide ==
  \A r \in ZoneRows : \A s \in judged[r] :
    \/ zone[r].kind # "none" /\ s >= zone[r].since => seen[s] = SideOf(zone[r].kind)
    \/ \E w \in ZoneWorkers : judge[w].pc = "act" /\ judge[w].r = r /\ judge[w].t = s

ZoneInv ==
  ZoneTypes /\ UnknownIdle /\ JudgedSeen /\ (orderly => InTurn /\ WaitsOnOneSide)

\* The initial state satisfies the invariant.
LEMMA ZoneInitInv == ZoneInit => ZoneInv
<1> SUFFICES ASSUME ZoneInit PROVE ZoneInv
  OBVIOUS
<1>1. Away \in RowStates /\ Unknown \in RowStates
  BY ZoneAssumption DEF Away, Unknown, Row, RowStates, ZoneAssumption
<1>2. NoJudge \in Judges /\ NoJudge.pc = "idle" /\ NoJudge.row = Away
  BY <1>1, ZoneAssumption DEF NoJudge, Judges, ZoneRows, ZoneAssumption
<1>3. Away.kind = "none" /\ Unknown.kind = "none"
  BY DEF Away, Unknown, Row
<1>4. ZoneTypes
  BY <1>1, <1>2 DEF ZoneInit, ZoneTypes, Watching
<1>5. UnknownIdle /\ JudgedSeen
  BY <1>2, <1>3 DEF ZoneInit, UnknownIdle, JudgedSeen, Watching
<1>6. InTurn /\ WaitsOnOneSide
  BY <1>2 DEF ZoneInit, InTurn, WaitsOnOneSide
<1> QED
  BY <1>4, <1>5, <1>6 DEF ZoneInv

\* A worker goes from the place to its watcher's row, or has finished.
LEMMA Proceeds ==
  ASSUME ZoneTypes, NEW w \in ZoneWorkers, judge[w].pc # "idle", Proceed(w)
  PROVE  /\ judge' \in [ZoneWorkers -> Judges]
         /\ \A v \in ZoneWorkers \ {w} : judge'[v] = judge[v]
         /\ judge'[w].pc \in {"idle", "read"}
         /\ judge'[w].pc # "idle" => judge'[w].t = judge[w].t
         /\ judge'[w].row = Away
<1>1. Away \in RowStates
  BY ZoneAssumption DEF Away, Row, RowStates, ZoneAssumption
<1>2. judge \in [ZoneWorkers -> Judges] /\ judge[w].t \in Times
  BY DEF ZoneTypes
<1> DEFINE on == [NoJudge EXCEPT !.pc = "read", !.t = judge[w].t, !.r = "watched"]
<1>3. NoJudge \in Judges /\ NoJudge.pc = "idle" /\ NoJudge.row = Away
  BY <1>1, ZoneAssumption DEF NoJudge, Judges, ZoneRows, ZoneAssumption
<1>4. /\ on \in Judges /\ on.pc = "read" /\ on.row = Away
      /\ on.t = judge[w].t
  BY <1>1, <1>2 DEF NoJudge, Judges, ZoneRows, Times
<1> HIDE DEF on
<1>5. judge' = [judge EXCEPT ![w] = IF judge[w].r = "own" THEN on ELSE NoJudge]
  BY DEF Proceed, on
<1> QED
  BY <1>2, <1>3, <1>4, <1>5

\* A step that leaves the rows and the history alone, and no worker judging that was not,
\* keeps the invariant: the workers that stop, or go on to the next row, do so.
LEMMA WorkerMoves ==
  ASSUME ZoneInv, ZoneTypes', NEW w \in ZoneWorkers,
         judge[w].pc # "idle",
         \A v \in ZoneWorkers \ {w} : judge'[v] = judge[v],
         judge'[w].pc \in {"idle", "read"},
         judge'[w].pc # "idle" => judge'[w].t = judge[w].t,
         judge'[w].row = Away,
         \A r \in ZoneRows : zone'[r].inside = "unknown" => zone'[r].kind = "none",
         UNCHANGED <<seen, orderly, judged>>,
         orderly /\ judge[w].pc = "act" =>
           \A s \in judged[judge[w].r] :
             zone'[judge[w].r].kind # "none" /\ s >= zone'[judge[w].r].since =>
               seen[s] = SideOf(zone'[judge[w].r].kind),
         \A r \in ZoneRows :
           zone'[r] = zone[r] \/ (judge[w].pc = "act" /\ r = judge[w].r)
  PROVE  ZoneInv'
<1>1. Away.inside = "out"
  BY DEF Away, Row
<1>2. UnknownIdle'
  BY <1>1 DEF ZoneInv, UnknownIdle
<1>3. JudgedSeen'
  <2>1. JudgedSeen
    BY DEF ZoneInv
  <2>2. \A v \in ZoneWorkers : judge'[v].pc # "idle" =>
          judge[v].pc # "idle" /\ judge'[v].t = judge[v].t
    OBVIOUS
  <2> QED
    BY <2>1, <2>2 DEF JudgedSeen
<1>4. ASSUME orderly' PROVE InTurn'
  <2> SUFFICES ASSUME NEW v \in ZoneWorkers, judge'[v].pc # "idle"
               PROVE  /\ \A u \in ZoneWorkers : judge'[u].pc # "idle" => u = v
                      /\ \A r \in ZoneRows : \A s \in judged'[r] : s <= judge'[v].t
                      /\ judge'[v].pc = "act" =>
                           zone'[judge'[v].r] = judge'[v].row \/ zone'[judge'[v].r] = Unknown
    BY DEF InTurn
  <2>1. InTurn
    BY <1>4 DEF ZoneInv
  <2>2. v = w
    BY <2>1 DEF InTurn
  <2>3. judge'[v].pc = "read" /\ judge'[v].t = judge[w].t
    BY <2>2
  <2>4. \A r \in ZoneRows : \A s \in judged'[r] : s <= judge'[v].t
    BY <2>1, <2>3 DEF InTurn
  <2>5. \A u \in ZoneWorkers : judge'[u].pc # "idle" => u = v
    BY <2>1, <2>2 DEF InTurn
  <2> QED
    BY <2>3, <2>4, <2>5
<1>5. ASSUME orderly' PROVE WaitsOnOneSide'
  <2> SUFFICES ASSUME NEW r \in ZoneRows, NEW s \in judged[r],
                      zone'[r].kind # "none", s >= zone'[r].since
               PROVE  seen[s] = SideOf(zone'[r].kind)
    BY DEF WaitsOnOneSide, SideOf
  <2>1. InTurn /\ WaitsOnOneSide /\ orderly
    BY <1>5 DEF ZoneInv
  <2>2. CASE judge[w].pc = "act" /\ r = judge[w].r
    BY <2>1, <2>2
  <2>3. CASE ~ (judge[w].pc = "act" /\ r = judge[w].r)
    <3>1. zone'[r] = zone[r]
      BY <2>3
    <3>2. ~ \E u \in ZoneWorkers : judge[u].pc = "act" /\ judge[u].r = r /\ judge[u].t = s
      BY <2>1, <2>3 DEF InTurn
    <3> QED
      BY <2>1, <3>1, <3>2 DEF WaitsOnOneSide
  <2> QED
    BY <2>2, <2>3
<1> QED
  BY <1>2, <1>3, <1>4, <1>5 DEF ZoneInv

\* The steps of a worker that writes the row it read, if it still is as it was: the row
\* is told apart from one the watcher has named again.
LEMMA RowWasRead ==
  ASSUME ZoneInv, orderly, NEW w \in ZoneWorkers, judge[w].pc = "act"
  PROVE  /\ judge[w].row.inside = "unknown" => zone[judge[w].r].kind = "none"
         /\ zone[judge[w].r].kind # "none" => zone[judge[w].r] = judge[w].row
         /\ judge[w].row.inside # "unknown" /\ Same(judge[w].r, judge[w].row) =>
              zone[judge[w].r] = judge[w].row
         /\ \A s \in judged[judge[w].r] : s <= judge[w].t
         /\ \A s \in judged[judge[w].r] :
              \/ s = judge[w].t
              \/ zone[judge[w].r].kind # "none" /\ s >= zone[judge[w].r].since =>
                   seen[s] = SideOf(zone[judge[w].r].kind)
<1>1. InTurn /\ WaitsOnOneSide /\ UnknownIdle /\ ZoneTypes
  BY DEF ZoneInv
<1>2. judge[w].r \in ZoneRows
  BY <1>1 DEF ZoneTypes, Judges
<1>3. zone[judge[w].r] = judge[w].row \/ zone[judge[w].r] = Unknown
  BY <1>1 DEF InTurn
<1>4. Unknown.kind = "none" /\ Unknown.inside = "unknown"
  BY DEF Unknown, Row
<1>5. judge[w].row.inside = "unknown" => judge[w].row.kind = "none"
  BY <1>1 DEF UnknownIdle
<1>6. \A v \in ZoneWorkers : judge[v].pc = "act" => v = w
  BY <1>1 DEF InTurn
<1>7. \A s \in judged[judge[w].r] : s <= judge[w].t
  BY <1>1, <1>2 DEF InTurn
<1>8. \A s \in judged[judge[w].r] :
        \/ s = judge[w].t
        \/ zone[judge[w].r].kind # "none" /\ s >= zone[judge[w].r].since =>
             seen[s] = SideOf(zone[judge[w].r].kind)
  BY <1>1, <1>2, <1>6 DEF WaitsOnOneSide
<1> QED
  BY <1>3, <1>4, <1>5, <1>7, <1>8 DEF Same

\* Every step keeps the types.
LEMMA ZoneTypesStep ==
  ASSUME ZoneTypes, ZoneNext
  PROVE  ZoneTypes'
<1>0. Away \in RowStates /\ Unknown \in RowStates
  BY ZoneAssumption DEF Away, Unknown, Row, RowStates, ZoneAssumption
<1>1. NoJudge \in Judges /\ NoJudge.pc = "idle"
  BY <1>0, ZoneAssumption DEF NoJudge, Judges, ZoneRows, ZoneAssumption
<1>2. /\ \A r \in ZoneRows : zone[r] \in RowStates
      /\ \A w \in ZoneWorkers : judge[w] \in Judges /\ judge[w].r \in ZoneRows
      /\ Times \subseteq 0 .. MaxTime
  BY DEF ZoneTypes, Judges, Times
<1>3. ASSUME NEW place \in Places, Measured(place) PROVE ZoneTypes'
  BY <1>3 DEF Measured, ZoneTypes
<1>4. ASSUME NEW w \in ZoneWorkers, NEW t \in Times, Judge(w, t) PROVE ZoneTypes'
  <2> DEFINE begun == [NoJudge EXCEPT !.pc = "read", !.t = t]
  <2>1. begun \in Judges /\ begun.t = t
    BY <1>0, <1>2 DEF NoJudge, Judges, ZoneRows
  <2> HIDE DEF begun
  <2>2. judge' = [judge EXCEPT ![w] = begun]
    BY <1>4 DEF Judge, begun
  <2>3. orderly' \in BOOLEAN
    BY <1>4 DEF Judge
  <2>4. judged' \in [ZoneRows -> SUBSET Times]
    BY <1>4 DEF Judge, ZoneTypes
  <2>5. zone' = zone
    BY <1>4 DEF Judge
  <2> QED
    BY <2>1, <2>2, <2>3, <2>4, <2>5 DEF ZoneTypes
<1>5. ASSUME NEW w \in ZoneWorkers, ReadRow(w) PROVE ZoneTypes'
  <2>1. judge[w].pc = "read" /\ judge[w].t \in Times
    BY <1>5 DEF ReadRow, ZoneTypes
  <2> DEFINE act == [judge[w] EXCEPT !.pc = "act", !.row = zone[judge[w].r]]
  <2>2. act \in Judges /\ act.t = judge[w].t
    BY <1>2 DEF Judges
  <2>3. judge' = [judge EXCEPT ![w] = act]
    BY <1>5 DEF ReadRow, ZoneTypes
  <2> HIDE DEF act
  <2>4. judged' \in [ZoneRows -> SUBSET Times]
    BY <1>5, <2>1 DEF ReadRow, ZoneTypes
  <2>5. zone' = zone /\ orderly' = orderly
    BY <1>5 DEF ReadRow
  <2> QED
    BY <2>1, <2>2, <2>3, <2>4, <2>5 DEF ZoneTypes
<1>6. ASSUME NEW w \in ZoneWorkers, Hidden(w) PROVE ZoneTypes'
  BY <1>1, <1>6 DEF Hidden, ZoneTypes
<1>7. ASSUME NEW w \in ZoneWorkers, FirstSight(w) PROVE ZoneTypes'
  <2>1. zone' \in [ZoneRows -> RowStates]
    <3> DEFINE in == [zone[judge[w].r] EXCEPT !.inside = "in"]
               out == [zone[judge[w].r] EXCEPT !.inside = "out"]
    <3>1. in \in RowStates /\ out \in RowStates
      BY <1>2 DEF RowStates
    <3>2. \/ zone' = zone
          \/ zone' = [zone EXCEPT ![judge[w].r] = in]
          \/ zone' = [zone EXCEPT ![judge[w].r] = out]
      BY <1>7 DEF FirstSight
    <3> HIDE DEF in, out
    <3> QED
      BY <3>1, <3>2 DEF ZoneTypes
  <2> QED
    BY <1>7, <2>1, Proceeds DEF FirstSight, ZoneTypes
<1>8. ASSUME NEW w \in ZoneWorkers, Wait(w) PROVE ZoneTypes'
  <2> DEFINE j == judge[w]
             candidate == Crossing(j.row.inside, seen[j.t])
             next == [none |-> zone[j.r], pend |-> Row(j.row.inside, candidate, j.t),
                      clear |-> Row(j.row.inside, "none", 0)]
  <2>1. candidate \in Kinds \cup {"none"}
    BY DEF Crossing, Kinds
  <2>2. j.row.inside \in {"in", "out", "unknown"} /\ j.t \in 0 .. MaxTime /\ 0 \in 0 .. MaxTime
    BY <1>2, ZoneAssumption DEF Judges, RowStates, ZoneAssumption
  <2>3. next.none \in RowStates /\ next.pend \in RowStates /\ next.clear \in RowStates
    BY <1>2, <2>1, <2>2 DEF Row, RowStates
  <2>4. Outcome(w) \in {"none", "pend", "clear"}
    BY <1>8 DEF Wait, Outcome, Settle
  <2>5. \/ zone' = zone
        \/ zone' = [zone EXCEPT ![j.r] = next.none]
        \/ zone' = [zone EXCEPT ![j.r] = next.pend]
        \/ zone' = [zone EXCEPT ![j.r] = next.clear]
    BY <1>8, <2>4 DEF Wait
  <2> HIDE DEF next
  <2>6. zone' \in [ZoneRows -> RowStates]
    BY <2>3, <2>5 DEF ZoneTypes
  <2> QED
    BY <1>8, <2>6, Proceeds DEF Wait, ZoneTypes
<1>9. ASSUME NEW w \in ZoneWorkers, Confirm(w) PROVE ZoneTypes'
  <2>1. UNCHANGED <<orderly, judged>> /\ judge[w].pc = "act"
    BY <1>9 DEF Confirm
  <2>2. CASE Same(judge[w].r, judge[w].row)
    <3> DEFINE across == Row(IF seen[judge[w].t] = "in" THEN "in" ELSE "out", "none", 0)
               recording == [judge[w] EXCEPT !.pc = "record"]
    <3>1. across \in RowStates
      BY ZoneAssumption DEF Row, RowStates, ZoneAssumption
    <3>2. recording \in Judges /\ recording.t = judge[w].t
      BY <1>2 DEF Judges
    <3>3. /\ zone' = [zone EXCEPT ![judge[w].r] = across]
          /\ judge' = [judge EXCEPT ![w] = recording]
      BY <1>9, <2>2 DEF Confirm, ZoneTypes
    <3> HIDE DEF across, recording
    <3> QED
      BY <2>1, <3>1, <3>2, <3>3 DEF ZoneTypes
  <2>3. CASE ~ Same(judge[w].r, judge[w].row)
    BY <1>9, <2>1, <2>3, Proceeds DEF Confirm, ZoneTypes
  <2> QED
    BY <2>2, <2>3
<1>10. ASSUME NEW w \in ZoneWorkers, Record(w) PROVE ZoneTypes'
  BY <1>10, Proceeds DEF Record, ZoneTypes
<1>11. ASSUME NEW w \in ZoneWorkers, JudgeFails(w) PROVE ZoneTypes'
  BY <1>1, <1>11 DEF JudgeFails, ZoneTypes
<1>12. ASSUME NEW r \in ZoneRows, Rename(r) PROVE ZoneTypes'
  BY <1>0, <1>12 DEF Rename, ZoneTypes, Watching
<1> QED
  BY <1>3, <1>4, <1>5, <1>6, <1>7, <1>8, <1>9, <1>10, <1>11, <1>12 DEF ZoneNext

\* Every step keeps the invariant.
LEMMA ZoneStep == ZoneInv /\ [ZoneNext]_zoneVars => ZoneInv'
<1> SUFFICES ASSUME ZoneInv, [ZoneNext]_zoneVars PROVE ZoneInv'
  OBVIOUS
<1>0. /\ ZoneTypes /\ UnknownIdle /\ JudgedSeen
      /\ orderly => InTurn /\ WaitsOnOneSide
  BY DEF ZoneInv
<1>1. ZoneTypes'
  <2>1. CASE ZoneNext
    BY <1>0, <2>1, ZoneTypesStep
  <2>2. CASE UNCHANGED zoneVars
    BY <1>0, <2>2 DEF zoneVars, ZoneTypes
  <2> QED
    BY <2>1, <2>2
<1>2. /\ Away.inside = "out" /\ Away.kind = "none"
      /\ Unknown.inside = "unknown" /\ Unknown.kind = "none"
  BY DEF Away, Unknown, Row
<1>3. NoJudge.pc = "idle" /\ NoJudge.row = Away
  BY DEF NoJudge
<1>4. ASSUME NEW place \in Places, Measured(place) PROVE ZoneInv'
  <2>1. /\ \A t \in Times : seen[t] # "unmeasured" => seen'[t] = seen[t]
        /\ UNCHANGED <<zone, judge, orderly, judged>>
    BY <1>4 DEF Measured
  <2>2. place # "unmeasured"
    BY DEF Places
  <2>3. JudgedSeen' /\ UnknownIdle'
    BY <1>0, <2>1 DEF JudgedSeen, UnknownIdle, ZoneTypes
  <2>4. orderly' => InTurn'
    BY <1>0, <2>1 DEF InTurn
  <2>5. \A r \in ZoneRows : \A s \in judged[r] : seen'[s] = seen[s]
    BY <1>0, <2>1 DEF JudgedSeen, ZoneTypes
  <2>6. orderly' => WaitsOnOneSide'
    BY <1>0, <2>1, <2>5 DEF WaitsOnOneSide
  <2> QED
    BY <1>1, <2>3, <2>4, <2>6 DEF ZoneInv
<1>5. ASSUME NEW w \in ZoneWorkers, NEW t \in Times, Judge(w, t) PROVE ZoneInv'
  <2> DEFINE begun == [NoJudge EXCEPT !.pc = "read", !.t = t]
  <2>1. begun.pc = "read" /\ begun.t = t /\ begun.row = Away
    BY DEF NoJudge
  <2>2. judge'[w] = begun /\ \A v \in ZoneWorkers \ {w} : judge'[v] = judge[v]
    BY <1>0, <1>5 DEF Judge, begun, ZoneTypes
  <2> HIDE DEF begun
  <2>3. UNCHANGED <<seen, zone>> /\ seen[t] # "unmeasured"
    BY <1>5 DEF Judge
  <2>4. \A r \in ZoneRows : judged'[r] \subseteq judged[r]
    BY <1>5 DEF Judge
  <2>5. UnknownIdle'
    <3>1. \A v \in ZoneWorkers : judge'[v].row = judge[v].row \/ judge'[v].row = Away
      BY <2>1, <2>2
    <3> QED
      BY <1>0, <1>2, <2>3, <3>1 DEF UnknownIdle
  <2>6. JudgedSeen'
    <3>1. \A v \in ZoneWorkers : judge'[v].pc # "idle" =>
            judge'[v].t = t \/ (judge[v].pc # "idle" /\ judge'[v].t = judge[v].t)
      BY <2>1, <2>2
    <3> QED
      BY <1>0, <2>3, <2>4, <3>1 DEF JudgedSeen
  <2>7. ASSUME orderly' PROVE InTurn' /\ WaitsOnOneSide'
    <3>1. /\ orderly /\ judged' = judged
          /\ \A r \in ZoneRows : \A s \in judged[r] : s < t
          /\ \A v \in ZoneWorkers : judge[v].pc = "idle"
      BY <1>5, <2>7 DEF Judge
    <3>2. \A v \in ZoneWorkers : judge'[v].pc # "idle" =>
            v = w /\ judge'[v].t = t /\ judge'[v].pc = "read"
      BY <2>1, <2>2, <3>1
    <3>3. \A r \in ZoneRows : \A s \in judged'[r] : s <= t
      BY <1>0, <3>1 DEF ZoneTypes, Times
    <3>4. InTurn'
      BY <3>2, <3>3 DEF InTurn
    <3>5. ~ \E v \in ZoneWorkers : judge[v].pc = "act"
      BY <3>1
    <3>6. WaitsOnOneSide'
      BY <1>0, <2>3, <3>1, <3>5 DEF WaitsOnOneSide
    <3> QED
      BY <3>4, <3>6
  <2> QED
    BY <1>1, <2>5, <2>6, <2>7 DEF ZoneInv
<1>6. ASSUME NEW w \in ZoneWorkers, ReadRow(w) PROVE ZoneInv'
  <2>1. /\ judge[w].pc = "read" /\ judge[w] \in Judges /\ judge[w].r \in ZoneRows
        /\ UNCHANGED <<seen, zone, orderly>>
    BY <1>0, <1>6 DEF ReadRow, ZoneTypes, Judges
  <2>2. /\ judge'[w].pc = "act" /\ judge'[w].row = zone[judge[w].r]
        /\ judge'[w].r = judge[w].r /\ judge'[w].t = judge[w].t
        /\ \A v \in ZoneWorkers \ {w} : judge'[v] = judge[v]
    BY <1>0, <1>6, <2>1 DEF ReadRow, ZoneTypes, Judges
  <2>3. \A r \in ZoneRows : \A s \in judged'[r] :
          s \in judged[r] \/ (s = judge[w].t /\ r = judge[w].r)
    BY <1>0, <1>6, <2>1 DEF ReadRow, ZoneTypes
  <2>4. UnknownIdle'
    <3>1. \A v \in ZoneWorkers :
            judge'[v].row = judge[v].row \/ judge'[v].row = zone[judge[w].r]
      BY <2>2
    <3> QED
      BY <1>0, <2>1, <3>1 DEF UnknownIdle
  <2>5. JudgedSeen'
    <3>1. \A v \in ZoneWorkers : judge'[v].pc # "idle" =>
            judge[v].pc # "idle" /\ judge'[v].t = judge[v].t
      BY <2>1, <2>2
    <3> QED
      BY <1>0, <2>1, <2>3, <3>1 DEF JudgedSeen
  <2>6. ASSUME orderly' PROVE InTurn' /\ WaitsOnOneSide'
    <3>1. orderly /\ InTurn /\ WaitsOnOneSide
      BY <1>0, <2>1, <2>6
    <3>2. \A v \in ZoneWorkers : judge'[v].pc # "idle" => v = w
      BY <2>1, <2>2, <3>1 DEF InTurn
    <3>3. \A r \in ZoneRows : \A s \in judged[r] : s <= judge[w].t
      BY <2>1, <3>1 DEF InTurn
    <3>4. judge[w].t <= judge[w].t
      BY <2>1 DEF Judges
    <3>5. \A r \in ZoneRows : \A s \in judged'[r] : s <= judge'[w].t
      BY <2>2, <2>3, <3>3, <3>4
    <3>6. InTurn'
      BY <2>1, <2>2, <3>2, <3>5 DEF InTurn
    <3>7. ~ \E v \in ZoneWorkers : judge[v].pc = "act"
      BY <2>1, <3>1 DEF InTurn
    <3>8. WaitsOnOneSide'
      <4> SUFFICES ASSUME NEW r \in ZoneRows, NEW s \in judged'[r]
                   PROVE  \/ zone'[r].kind # "none" /\ s >= zone'[r].since =>
                               seen'[s] = SideOf(zone'[r].kind)
                          \/ judge'[w].pc = "act" /\ judge'[w].r = r /\ judge'[w].t = s
        BY DEF WaitsOnOneSide
      <4>1. CASE s \in judged[r]
        BY <2>1, <3>1, <3>7, <4>1 DEF WaitsOnOneSide
      <4>2. CASE s = judge[w].t /\ r = judge[w].r
        BY <2>2, <4>2
      <4> QED
        BY <2>3, <4>1, <4>2
    <3> QED
      BY <3>6, <3>8
  <2> QED
    BY <1>1, <2>4, <2>5, <2>6 DEF ZoneInv
<1>7. ASSUME NEW w \in ZoneWorkers, Hidden(w) PROVE ZoneInv'
  <2>1. /\ judge[w].pc = "read" /\ judge'[w] = NoJudge
        /\ \A v \in ZoneWorkers \ {w} : judge'[v] = judge[v]
        /\ UNCHANGED <<seen, zone, orderly, judged>>
    BY <1>0, <1>7 DEF Hidden, ZoneTypes
  <2>2. \A r \in ZoneRows : zone'[r].inside = "unknown" => zone'[r].kind = "none"
    BY <1>0, <2>1 DEF UnknownIdle
  <2> QED
    BY <1>1, <1>3, <2>1, <2>2, WorkerMoves
<1>8. ASSUME NEW w \in ZoneWorkers, FirstSight(w) PROVE ZoneInv'
  <2>1. /\ judge[w].pc = "act" /\ judge[w].row.inside = "unknown"
        /\ Proceed(w) /\ UNCHANGED <<seen, orderly, judged>>
    BY <1>8 DEF FirstSight
  <2>2. \A r \in ZoneRows :
          /\ zone'[r].kind = zone[r].kind
          /\ zone'[r].inside = "unknown" => zone[r].inside = "unknown"
          /\ zone'[r] = zone[r] \/ r = judge[w].r
    BY <1>0, <1>8 DEF FirstSight, ZoneTypes, RowStates
  <2>3. \A r \in ZoneRows : zone'[r].inside = "unknown" => zone'[r].kind = "none"
    BY <1>0, <2>2 DEF UnknownIdle
  <2>4. judge[w].r \in ZoneRows
    BY <1>0 DEF ZoneTypes, Judges
  <2>5. orderly => zone'[judge[w].r].kind = "none"
    BY <2>1, <2>2, <2>4, RowWasRead
  <2>6. /\ \A v \in ZoneWorkers \ {w} : judge'[v] = judge[v]
        /\ judge'[w].pc \in {"idle", "read"}
        /\ judge'[w].pc # "idle" => judge'[w].t = judge[w].t
        /\ judge'[w].row = Away
    BY <1>0, <2>1, Proceeds
  <2> QED
    BY <1>1, <2>1, <2>2, <2>3, <2>5, <2>6, WorkerMoves
<1>9. ASSUME NEW w \in ZoneWorkers, Wait(w) PROVE ZoneInv'
  <2> DEFINE j == judge[w]
             candidate == Crossing(j.row.inside, seen[j.t])
             pend == Row(j.row.inside, candidate, j.t)
             clear == Row(j.row.inside, "none", 0)
  <2>1. /\ j.pc = "act" /\ j.row.inside # "unknown" /\ Outcome(w) # "confirm"
        /\ Proceed(w) /\ UNCHANGED <<seen, orderly, judged>>
    BY <1>9 DEF Wait
  <2>2. j \in Judges /\ j.r \in ZoneRows /\ j.t \in Times
    BY <1>0, <2>1 DEF ZoneTypes, Judges
  <2>3. candidate # "none" => seen[j.t] = SideOf(candidate)
    BY DEF Crossing, SideOf
  <2>4. /\ pend.kind = candidate /\ pend.since = j.t /\ pend.inside = j.row.inside
        /\ clear.kind = "none" /\ clear.inside = j.row.inside
    BY DEF Row
  <2>5. \/ zone' = zone /\ ~ Same(j.r, j.row)
        \/ zone' = [zone EXCEPT ![j.r] = zone[j.r]] /\ Outcome(w) = "none"
        \/ zone' = [zone EXCEPT ![j.r] = pend]
        \/ zone' = [zone EXCEPT ![j.r] = clear]
    <3>1. Outcome(w) \in {"none", "pend", "clear"}
      BY <2>1 DEF Outcome, Settle
    <3>2. CASE ~ Same(j.r, j.row)
      BY <1>9, <3>2 DEF Wait
    <3>3. CASE Same(j.r, j.row) /\ Outcome(w) = "none"
      BY <1>9, <3>3 DEF Wait
    <3>4. CASE Same(j.r, j.row) /\ Outcome(w) = "pend"
      BY <1>9, <3>4 DEF Wait
    <3>5. CASE Same(j.r, j.row) /\ Outcome(w) = "clear"
      BY <1>9, <3>5 DEF Wait
    <3> QED
      BY <3>1, <3>2, <3>3, <3>4, <3>5
  <2> HIDE DEF pend, clear
  <2>6. \/ zone'[j.r] = zone[j.r] /\ ~ Same(j.r, j.row)
        \/ zone'[j.r] = zone[j.r] /\ Outcome(w) = "none"
        \/ zone'[j.r] = pend
        \/ zone'[j.r] = clear
    BY <1>0, <2>2, <2>5 DEF ZoneTypes
  <2>7. \A r \in ZoneRows : zone'[r] = zone[r] \/ r = j.r
    BY <1>0, <2>5 DEF ZoneTypes
  <2>8. \A r \in ZoneRows : zone'[r].inside = "unknown" => zone'[r].kind = "none"
    BY <1>0, <2>1, <2>4, <2>6, <2>7 DEF UnknownIdle
  <2>9. ASSUME orderly
        PROVE  \A s \in judged[j.r] : zone'[j.r].kind # "none" /\ s >= zone'[j.r].since =>
                 seen[s] = SideOf(zone'[j.r].kind)
    <3> SUFFICES ASSUME NEW s \in judged[j.r],
                        zone'[j.r].kind # "none", s >= zone'[j.r].since
                 PROVE  seen[s] = SideOf(zone'[j.r].kind)
      OBVIOUS
    <3>1. /\ s \in Nat /\ j.t \in Nat
      BY <1>0, <2>2 DEF ZoneTypes, Times
    <3>2. /\ zone[j.r].kind # "none" => zone[j.r] = j.row
          /\ j.row.inside # "unknown" /\ Same(j.r, j.row) => zone[j.r] = j.row
          /\ s <= j.t
          /\ \/ s = j.t
             \/ zone[j.r].kind # "none" /\ s >= zone[j.r].since =>
                  seen[s] = SideOf(zone[j.r].kind)
      BY <2>1, <2>9, RowWasRead
    <3>3. CASE zone'[j.r] = zone[j.r] /\ ~ Same(j.r, j.row)
      BY <3>2, <3>3 DEF Same
    <3>4. CASE zone'[j.r] = zone[j.r] /\ Outcome(w) = "none"
      <4>1. zone[j.r] = j.row
        BY <3>2, <3>4
      <4>2. candidate = j.row.kind
        BY <3>4, <4>1 DEF Outcome, Settle
      <4> QED
        BY <2>3, <3>2, <3>4, <4>1, <4>2
    <3>5. CASE zone'[j.r] = pend
      <4>1. s = j.t
        BY <2>4, <3>1, <3>2, <3>5
      <4> QED
        BY <2>3, <2>4, <3>5, <4>1
    <3>6. CASE zone'[j.r] = clear
      BY <2>4, <3>6
    <3> QED
      BY <2>6, <3>3, <3>4, <3>5, <3>6
  <2>10. /\ \A v \in ZoneWorkers \ {w} : judge'[v] = judge[v]
         /\ judge'[w].pc \in {"idle", "read"}
         /\ judge'[w].pc # "idle" => judge'[w].t = judge[w].t
         /\ judge'[w].row = Away
    BY <1>0, <2>1, Proceeds
  <2> QED
    BY <1>1, <2>1, <2>7, <2>8, <2>9, <2>10, WorkerMoves
<1>10. ASSUME NEW w \in ZoneWorkers, Confirm(w) PROVE ZoneInv'
  <2>1. /\ judge[w].pc = "act" /\ judge[w].row.inside # "unknown"
        /\ UNCHANGED <<seen, orderly, judged>>
    BY <1>10 DEF Confirm
  <2>2. judge[w] \in Judges /\ judge[w].r \in ZoneRows
    BY <1>0 DEF ZoneTypes, Judges
  <2>3. CASE Same(judge[w].r, judge[w].row)
    <3> DEFINE across == Row(IF seen[judge[w].t] = "in" THEN "in" ELSE "out", "none", 0)
    <3>1. across.kind = "none" /\ across.inside # "unknown"
      BY DEF Row
    <3>2. zone' = [zone EXCEPT ![judge[w].r] = across]
      BY <1>10, <2>3 DEF Confirm
    <3> HIDE DEF across
    <3>3. /\ judge'[w].pc = "record" /\ judge'[w].t = judge[w].t
          /\ judge'[w].r = judge[w].r /\ judge'[w].row = judge[w].row
          /\ \A v \in ZoneWorkers \ {w} : judge'[v] = judge[v]
      BY <1>0, <1>10, <2>2, <2>3 DEF Confirm, ZoneTypes, Judges
    <3>4. \A r \in ZoneRows :
            \/ zone'[r] = zone[r] /\ r # judge[w].r
            \/ zone'[r] = across
      BY <1>0, <2>2, <3>2 DEF ZoneTypes
    <3>5. UnknownIdle'
      <4>1. \A v \in ZoneWorkers : judge'[v].row = judge[v].row
        BY <3>3
      <4> QED
        BY <1>0, <3>1, <3>4, <4>1 DEF UnknownIdle
    <3>6. JudgedSeen'
      <4>1. \A v \in ZoneWorkers : judge'[v].pc # "idle" =>
              judge[v].pc # "idle" /\ judge'[v].t = judge[v].t
        BY <2>1, <3>3
      <4> QED
        BY <1>0, <2>1, <4>1 DEF JudgedSeen
    <3>7. ASSUME orderly' PROVE InTurn' /\ WaitsOnOneSide'
      <4>1. InTurn /\ WaitsOnOneSide
        BY <1>0, <2>1, <3>7
      <4>2. \A v \in ZoneWorkers : judge'[v].pc # "idle" => v = w
        BY <2>1, <3>3, <4>1 DEF InTurn
      <4>3. \A r \in ZoneRows : \A s \in judged[r] : s <= judge[w].t
        BY <2>1, <4>1 DEF InTurn
      <4>4. InTurn'
        BY <2>1, <3>3, <4>2, <4>3 DEF InTurn
      <4>5. \A v \in ZoneWorkers : judge[v].pc = "act" => v = w
        BY <2>1, <4>1 DEF InTurn
      <4>6. WaitsOnOneSide'
        <5> SUFFICES ASSUME NEW r \in ZoneRows, NEW s \in judged[r],
                            zone'[r].kind # "none", s >= zone'[r].since
                     PROVE  seen[s] = SideOf(zone'[r].kind)
          BY <2>1 DEF WaitsOnOneSide
        <5>1. zone'[r] = zone[r] /\ r # judge[w].r
          BY <3>1, <3>4
        <5>2. ~ \E v \in ZoneWorkers : judge[v].pc = "act" /\ judge[v].r = r
          BY <4>5, <5>1
        <5> QED
          BY <4>1, <5>1, <5>2 DEF WaitsOnOneSide
      <4> QED
        BY <4>4, <4>6
    <3> QED
      BY <1>1, <3>5, <3>6, <3>7 DEF ZoneInv
  <2>4. CASE ~ Same(judge[w].r, judge[w].row)
    <3>1. Proceed(w) /\ zone' = zone
      BY <1>10, <2>4 DEF Confirm
    <3>2. /\ \A v \in ZoneWorkers \ {w} : judge'[v] = judge[v]
          /\ judge'[w].pc \in {"idle", "read"}
          /\ judge'[w].pc # "idle" => judge'[w].t = judge[w].t
          /\ judge'[w].row = Away
      BY <1>0, <2>1, <3>1, Proceeds
    <3>3. orderly => zone[judge[w].r].kind = "none"
      BY <2>1, <2>4, RowWasRead DEF Same
    <3>4. \A r \in ZoneRows : zone'[r].inside = "unknown" => zone'[r].kind = "none"
      BY <1>0, <3>1 DEF UnknownIdle
    <3> QED
      BY <1>1, <2>1, <3>1, <3>2, <3>3, <3>4, WorkerMoves
  <2> QED
    BY <2>3, <2>4
<1>11. ASSUME NEW w \in ZoneWorkers, Record(w) PROVE ZoneInv'
  <2>1. judge[w].pc = "record" /\ Proceed(w) /\ UNCHANGED <<seen, zone, orderly, judged>>
    BY <1>11 DEF Record
  <2>2. /\ \A v \in ZoneWorkers \ {w} : judge'[v] = judge[v]
        /\ judge'[w].pc \in {"idle", "read"}
        /\ judge'[w].pc # "idle" => judge'[w].t = judge[w].t
        /\ judge'[w].row = Away
    BY <1>0, <2>1, Proceeds
  <2>3. \A r \in ZoneRows : zone'[r].inside = "unknown" => zone'[r].kind = "none"
    BY <1>0, <2>1 DEF UnknownIdle
  <2> QED
    BY <1>1, <2>1, <2>2, <2>3, WorkerMoves
<1>12. ASSUME NEW w \in ZoneWorkers, JudgeFails(w) PROVE ZoneInv'
  <2>1. /\ ~ orderly' /\ zone' = zone /\ seen' = seen
        /\ \A r \in ZoneRows : judged'[r] = {}
        /\ \A v \in ZoneWorkers : judge'[v] = judge[v] \/ judge'[v] = NoJudge
    BY <1>0, <1>12 DEF JudgeFails, ZoneTypes
  <2>2. UnknownIdle'
    BY <1>0, <1>2, <1>3, <2>1 DEF UnknownIdle
  <2>3. JudgedSeen'
    <3>1. \A v \in ZoneWorkers : judge'[v].pc # "idle" => judge'[v] = judge[v]
      BY <1>3, <2>1
    <3> QED
      BY <1>0, <2>1, <3>1 DEF JudgedSeen
  <2> QED
    BY <1>1, <2>1, <2>2, <2>3 DEF ZoneInv
<1>13. ASSUME NEW r \in ZoneRows, Rename(r) PROVE ZoneInv'
  <2>1. /\ UNCHANGED <<seen, judge, orderly, judged>>
        /\ \A q \in ZoneRows : zone'[q] = zone[q] \/ zone'[q] = Unknown
    BY <1>0, <1>13 DEF Rename, Watching, ZoneTypes
  <2>2. UnknownIdle' /\ JudgedSeen'
    BY <1>0, <1>2, <2>1 DEF UnknownIdle, JudgedSeen
  <2>3. ASSUME orderly' PROVE InTurn' /\ WaitsOnOneSide'
    <3>1. InTurn /\ WaitsOnOneSide
      BY <1>0, <2>1, <2>3
    <3>2. \A w \in ZoneWorkers : judge[w].r \in ZoneRows
      BY <1>0 DEF ZoneTypes, Judges
    <3>3. InTurn'
      BY <2>1, <3>1, <3>2 DEF InTurn
    <3>4. WaitsOnOneSide'
      BY <1>2, <2>1, <3>1 DEF WaitsOnOneSide
    <3> QED
      BY <3>3, <3>4
  <2> QED
    BY <1>1, <2>2, <2>3 DEF ZoneInv
<1>14. ASSUME UNCHANGED zoneVars PROVE ZoneInv'
  BY <1>14, <1>0, <1>1 DEF zoneVars, ZoneInv, UnknownIdle, JudgedSeen, InTurn, WaitsOnOneSide
<1> QED
  BY <1>4, <1>5, <1>6, <1>7, <1>8, <1>9, <1>10, <1>11, <1>12, <1>13, <1>14 DEF ZoneNext

\* A worker that goes on to record a crossing has taken the row across itself; in turn, all
\* the positions judged in the last Dwell before it lay on the other side.
LEMMA CrossingStep ==
  ZoneInv /\ [ZoneNext]_zoneVars =>
    [\A w \in ZoneWorkers : judge[w].pc # "record" /\ judge'[w].pc = "record" =>
       /\ zone'[judge[w].r].inside # zone[judge[w].r].inside
       /\ orderly =>
            \A t \in judged[judge[w].r] :
              t + Dwell >= judge[w].t => seen[t] = seen[judge[w].t]]_zoneVars
<1> SUFFICES ASSUME ZoneInv, ZoneNext, NEW w \in ZoneWorkers,
                    judge[w].pc # "record", judge'[w].pc = "record"
             PROVE  /\ zone'[judge[w].r].inside # zone[judge[w].r].inside
                    /\ orderly =>
                         \A t \in judged[judge[w].r] :
                           t + Dwell >= judge[w].t => seen[t] = seen[judge[w].t]
  BY DEF zoneVars
<1>1. ZoneTypes
  BY DEF ZoneInv
<1>2. judge[w] \in Judges /\ judge[w].r \in ZoneRows
  BY <1>1 DEF ZoneTypes, Judges
<1>3. Confirm(w) /\ Same(judge[w].r, judge[w].row)
  <2>1. NoJudge.pc = "idle"
    BY DEF NoJudge
  <2>2. ASSUME NEW v \in ZoneWorkers, judge[v].pc # "idle", Proceed(v) PROVE FALSE
    <3>1. judge'[v].pc \in {"idle", "read"} /\ \A u \in ZoneWorkers \ {v} : judge'[u] = judge[u]
      BY <1>1, <2>2, Proceeds
    <3> QED
      BY <3>1
  <2>3. CASE \E place \in Places : Measured(place)
    BY <2>3 DEF Measured
  <2>4. ASSUME NEW v \in ZoneWorkers, NEW t \in Times, Judge(v, t) PROVE FALSE
    <3> DEFINE begun == [NoJudge EXCEPT !.pc = "read", !.t = t]
    <3>1. begun.pc = "read"
      BY DEF NoJudge
    <3>2. judge' = [judge EXCEPT ![v] = begun]
      BY <2>4 DEF Judge
    <3> HIDE DEF begun
    <3> QED
      BY <1>1, <3>1, <3>2 DEF ZoneTypes
  <2>5. ASSUME NEW v \in ZoneWorkers, ReadRow(v) PROVE FALSE
    BY <1>1, <2>5 DEF ReadRow, ZoneTypes, Judges
  <2>6. ASSUME NEW v \in ZoneWorkers, Hidden(v) PROVE FALSE
    BY <1>1, <2>1, <2>6 DEF Hidden, ZoneTypes
  <2>7. ASSUME NEW v \in ZoneWorkers, FirstSight(v) PROVE FALSE
    BY <2>2, <2>7 DEF FirstSight
  <2>8. ASSUME NEW v \in ZoneWorkers, Wait(v) PROVE FALSE
    BY <2>2, <2>8 DEF Wait
  <2>9. ASSUME NEW v \in ZoneWorkers, Record(v) PROVE FALSE
    BY <2>2, <2>9 DEF Record
  <2>10. ASSUME NEW v \in ZoneWorkers, JudgeFails(v) PROVE FALSE
    BY <1>1, <2>1, <2>10 DEF JudgeFails, ZoneTypes
  <2>11. CASE \E r \in ZoneRows : Rename(r)
    BY <2>11 DEF Rename
  <2>12. ASSUME NEW v \in ZoneWorkers, Confirm(v)
         PROVE  Confirm(w) /\ Same(judge[w].r, judge[w].row)
    <3>1. judge[v].pc = "act"
      BY <2>12 DEF Confirm
    <3>2. Same(judge[v].r, judge[v].row)
      BY <2>2, <2>12, <3>1 DEF Confirm
    <3>3. \A u \in ZoneWorkers \ {v} : judge'[u] = judge[u]
      BY <1>1, <2>12, <3>2 DEF Confirm, ZoneTypes
    <3> QED
      BY <2>12, <3>2, <3>3
  <2> QED
    BY <2>3, <2>4, <2>5, <2>6, <2>7, <2>8, <2>9, <2>10, <2>11, <2>12 DEF ZoneNext
<1> DEFINE j == judge[w]
           candidate == Crossing(j.row.inside, seen[j.t])
<1>4. Outcome(w) = "confirm" /\ j.pc = "act" /\ j.row.inside # "unknown"
  BY <1>3 DEF Confirm
<1>5. candidate # "none" /\ j.row.kind = candidate /\ ~ (j.t < j.row.since + Dwell)
  BY <1>4 DEF Outcome, Settle
<1>6. \/ candidate = "enter" /\ j.row.inside = "out" /\ seen[j.t] = "in"
      \/ candidate = "leave" /\ j.row.inside = "in" /\ seen[j.t] = "out"
  BY <1>5 DEF Crossing
<1>7. zone'[j.r].inside # zone[j.r].inside
  <2>1. zone'[j.r].inside = IF seen[j.t] = "in" THEN "in" ELSE "out"
    BY <1>1, <1>2, <1>3 DEF Confirm, ZoneTypes, Row
  <2>2. zone[j.r].inside = j.row.inside
    BY <1>3 DEF Same
  <2> QED
    BY <1>6, <2>1, <2>2
<1>8. ASSUME orderly, NEW t \in judged[j.r], t + Dwell >= j.t PROVE seen[t] = seen[j.t]
  <2>1. /\ zone[j.r] = j.row
        /\ \/ t = j.t
           \/ zone[j.r].kind # "none" /\ t >= zone[j.r].since =>
                seen[t] = SideOf(zone[j.r].kind)
    BY <1>3, <1>4, <1>8, RowWasRead
  <2>2. t \in Nat /\ j.t \in Nat /\ j.row.since \in Nat /\ Dwell \in Nat
    BY <1>1, <1>2, ZoneAssumption
       DEF ZoneTypes, Times, Judges, RowStates, ZoneAssumption
  <2>3. t >= j.row.since
    BY <1>5, <1>8, <2>2
  <2>4. seen[j.t] = SideOf(candidate)
    BY <1>6 DEF SideOf
  <2> QED
    BY <1>5, <2>1, <2>3, <2>4
<1> QED
  BY <1>7, <1>8

\* Nobody is told twice of a crossing, or of somebody passing by (check, settleCrossing), for
\* any number of workers, any dwell and any number of positions.
THEOREM CrossingsToldOnce == ZoneSpec => RealCrossingsToldOnce
<1>1. ZoneSpec => []ZoneInv
  BY ZoneInitInv, ZoneStep, PTL DEF ZoneSpec
<1>2. ZoneInv /\ [ZoneNext]_zoneVars =>
        [\A w \in ZoneWorkers : judge[w].pc # "record" /\ judge'[w].pc = "record" =>
           /\ zone'[judge[w].r].inside # zone[judge[w].r].inside
           /\ orderly =>
                \A t \in judged[judge[w].r] :
                  t + Dwell >= judge[w].t => seen[t] = seen[judge[w].t]]_zoneVars
  BY CrossingStep
<1> QED
  BY <1>1, <1>2, PTL DEF ZoneSpec, RealCrossingsToldOnce

----------------------------------------------------------------------------
(* Anomaly.                                                                *)

\* An open event has a number.
OpenCounts == \A d \in Detections : events[d].open => events[d].count > 0

\* A sweep has something to tell only while it tells.
FoundToTell == \A s \in Sweepers : sweep[s].pc # "tell" => sweep[s].found = {}

\* What a sweep is about to tell of has not been told of in its place yet.
TellsNew ==
  \A s \in Sweepers, d \in Detections :
    /\ told[s][d] <= events[d].count
    /\ \/ sweep[s].pc = "fetch" /\ sweep[s].open[d] = 0
       \/ sweep[s].pc = "tell" /\ d \in sweep[s].found
       => (events[d].open => told[s][d] < events[d].count)

\* A sweep that works on what is so has found what is wrong while the signal is
\* lost, and keeps it.
SweepSeesLoss(s) ==
  LET w == sweep[s] IN
  w.pc \in {"tell", "clear"} /\ w.sees =>
    Silent(status) \subseteq w.keep /\ w.found \subseteq Silent(status)

\* Then the event of the lost signal is open, or will be before the sweep clears
\* the others.
LossOpened(s) ==
  LET w == sweep[s] IN
  w.sees =>
    \A d \in Silent(status) :
      \/ w.pc = "fetch" /\ w.open[d] # 0
      \/ w.pc = "tell" /\ d \notin w.found
      \/ w.pc = "clear"
      => events[d].open

LossListed == Lost(status) => \A s \in Sweepers : SweepSeesLoss(s) /\ LossOpened(s)

AnomalyInv == AnomalyTypeOK /\ OpenCounts /\ FoundToTell /\ TellsNew /\ LossListed

\* A set of naturals with an upper bound has a last one.
LEMMA LastStage ==
  ASSUME NEW stages \in SUBSET Nat, NEW age \in Nat, NEW a0 \in stages, a0 <= age
  PROVE  \E a \in stages : StageFor(stages, age) = {a}
<1> DEFINE LeftOver == {n \in Nat : \E a \in stages : a + n = age}
<1>1. age - a0 \in LeftOver
  <2>1. a0 \in Nat /\ age - a0 \in Nat /\ a0 + (age - a0) = age
    OBVIOUS
  <2> QED
    BY <2>1
<1>2. \E n \in LeftOver : \A m \in LeftOver : <<m, n>> \notin OpToRel(<, Nat)
  BY <1>1, NatLessThanWellFounded, WFMin
<1>3. PICK n \in LeftOver : \A m \in LeftOver : <<m, n>> \notin OpToRel(<, Nat)
  BY <1>2
<1>4. PICK a \in stages : a + n = age
  BY <1>3
<1>5. a \in Nat /\ n \in Nat /\ a + n = age /\ a <= age
  <2>1. a \in Nat
    BY <1>4
  <2>2. n \in Nat
    BY <1>3
  <2> QED
    BY <2>1, <2>2, <1>4
<1>6. ASSUME NEW b \in stages, b <= age PROVE b <= a
  <2>1. b \in Nat /\ age - b \in Nat /\ b + (age - b) = age
    BY <1>6
  <2>2. age - b \in LeftOver
    BY <2>1
  <2>3. <<age - b, n>> \notin OpToRel(<, Nat)
    BY <2>2, <1>3
  <2>4. ~(age - b < n)
    BY <2>1, <2>3, <1>5, Zenon DEF OpToRel
  <2> QED
    BY <2>1, <2>4, <1>5
<1>7. ASSUME NEW b \in StageFor(stages, age) PROVE b = a
  <2>1. b \in stages /\ b \in Nat /\ b <= age /\ a <= b
    BY <1>5, <1>7 DEF StageFor
  <2>2. b <= a
    BY <1>6, <2>1
  <2> QED
    BY <1>5, <2>1, <2>2
<1>8. a \in StageFor(stages, age)
  BY <1>5, <1>6 DEF StageFor
<1> QED
  BY <1>7, <1>8

\* While the signal is lost, exactly one thing is wrong: the signal or the battery.
LEMMA SilentIsOne ==
  ASSUME AnomalyTypeOK, Lost(status)
  PROVE  \E d \in Detections : Silent(status) = {d}
<1>1. status.age \in Nat /\ SignalStages \in SUBSET Nat /\ BatteryStages \in SUBSET Nat
  BY AnomalyAssumption DEF AnomalyAssumption, AnomalyTypeOK, Snapshots
<1>2. CASE status.level >= OldLevel
  <2>1. PICK a0 \in SignalStages : a0 <= status.age
    BY DEF Lost, StageFor
  <2>2. PICK a \in SignalStages : StageFor(SignalStages, status.age) = {a}
    BY <1>1, <2>1, LastStage
  <2>3. Silent(status) = {Track("no_signal", a)}
    BY <1>2, <2>2 DEF Silent, Tracks
  <2> QED
    BY <2>3 DEF Detections
<1>3. CASE ~(status.level >= OldLevel)
  <2>1. 0 \in BatteryStages /\ 0 <= status.age
    BY <1>1, AnomalyAssumption DEF AnomalyAssumption
  <2>2. PICK a \in BatteryStages : StageFor(BatteryStages, status.age) = {a}
    BY <1>1, <2>1, LastStage
  <2>3. Silent(status) = {Track("battery", a)}
    BY <1>3, <2>2 DEF Silent, Tracks
  <2> QED
    BY <2>3 DEF Detections
<1> QED
  BY <1>2, <1>3

\* What is looked up while the signal is lost.
LEMMA WrongWhenLost ==
  ASSUME Lost(status)
  PROVE  Wrong(status, home) = Silent(status)
<1>1. \A d \in Silent(status) : d.track \in {"no_signal", "battery"}
  BY DEF Silent, Tracks, Track
<1> QED
  BY <1>1 DEF Wrong, Detect

LEMMA WrongIsDetection ==
  ASSUME NEW st, NEW athome
  PROVE  Wrong(st, athome) \subseteq Detections
<1>1. \A stages, age : StageFor(stages, age) \subseteq stages
  BY DEF StageFor
<1>2. Silent(st) \subseteq Detections
  BY <1>1 DEF Silent, Tracks, Detections
<1>3. Alive(st) \subseteq Detections
  BY <1>1 DEF Alive, Tracks, Detections
<1> QED
  BY <1>2, <1>3 DEF Wrong, Detect

\* A sweep that is misled is the same but for what it sees.
LEMMA MisledType ==
  ASSUME NEW w \in Sweeps
  PROVE  /\ Misled(w) \in Sweeps
         /\ Misled(w).pc = w.pc /\ Misled(w).open = w.open
         /\ Misled(w).found = w.found /\ Misled(w).keep = w.keep
         /\ Misled(w).pc # "idle" => ~Misled(w).sees
BY DEF Misled, Sweeps

\* One sweep clears, and the others are what they were or misled.
LEMMA ClearOthers ==
  ASSUME AnomalyTypeOK, NEW s \in Sweepers, Clear(s)
  PROVE  /\ sweep' \in [Sweepers -> Sweeps]
         /\ sweep[s].pc = "clear" /\ sweep'[s] = Resting
         /\ \A t \in Sweepers \ {s} :
              sweep'[t] = sweep[t] \/ (~sweep[s].sees /\ sweep'[t] = Misled(sweep[t]))
         /\ \A t \in Sweepers \ {s} :
              ~sweep[s].sees =>
                sweep'[t] = Misled(sweep[t]) \/ (sweep'[t] = sweep[t] /\ events' = events)
<1>1. Resting \in Sweeps
  <2>1. [d \in Detections |-> 0] \in [Detections -> 0 .. MaxEvents]
    BY AnomalyAssumption DEF AnomalyAssumption
  <2> QED
    BY <2>1 DEF Resting, Sweeps
<1>2. /\ sweep \in [Sweepers -> Sweeps] /\ sweep[s].pc = "clear"
      /\ sweep' = [t \in Sweepers |->
                     IF t = s THEN Resting
                     ELSE IF sweep[s].sees \/ events' = events THEN sweep[t]
                     ELSE Misled(sweep[t])]
  BY DEF Clear, AnomalyTypeOK
<1>3. \A t \in Sweepers : sweep[t] \in Sweeps /\ Misled(sweep[t]) \in Sweeps
  BY <1>2, MisledType
<1>4. sweep' \in [Sweepers -> Sweeps]
  BY <1>1, <1>2, <1>3
<1> QED
  BY <1>2, <1>4

\* The values of the variables stay in their sets.
LEMMA AnomalyTypesStep ==
  ASSUME AnomalyTypeOK, [AnomalyNext]_anomalyVars
  PROVE  AnomalyTypeOK'
<1> USE AnomalyAssumption DEF AnomalyAssumption, AnomalyTypeOK
<1>1. ASSUME NEW level \in Levels \cup {NoLevel}, NEW charging \in BOOLEAN,
             NEW moved \in BOOLEAN, Reports(level, charging, moved)
      PROVE  AnomalyTypeOK'
  BY <1>1 DEF Reports, Changed, Snapshots, Never
<1>2. ASSUME Tick PROVE AnomalyTypeOK'
  <2>1. \A a \in 0 .. MaxAge : Older(a) \in 0 .. MaxAge
    BY DEF Older, Never
  <2>2. \A a \in -1 .. MaxAge : Older(a) \in -1 .. MaxAge
    BY DEF Older, Never
  <2>3. status' \in Snapshots
    BY <1>2, <2>1, <2>2 DEF Tick, Snapshots
  <2>4. sweep' \in [Sweepers -> Sweeps]
    BY <1>2, MisledType DEF Tick
  <2> QED
    BY <1>2, <2>3, <2>4 DEF Tick, Changed
<1>3. ASSUME Settles PROVE AnomalyTypeOK'
  <2>1. watched' \in BOOLEAN /\ home' \in BOOLEAN
    BY <1>3 DEF Settles
  <2> QED
    BY <1>3, <2>1 DEF Settles, Changed
<1>4. ASSUME NEW s \in Sweepers, ReadOpen(s) PROVE AnomalyTypeOK'
  <2>1. OpenNow \in [Detections -> 0 .. MaxEvents]
    BY DEF OpenNow
  <2>2. [Resting EXCEPT !.pc = "fetch", !.open = OpenNow] \in Sweeps
    BY <2>1 DEF Resting, Sweeps
  <2> QED
    BY <1>4, <2>2 DEF ReadOpen
<1>5. Resting \in Sweeps
  BY DEF Resting, Sweeps
<1>6. ASSUME NEW s \in Sweepers, Fetch(s) PROVE AnomalyTypeOK'
  <2>1. Wrong(status, home) \subseteq Detections
    BY WrongIsDetection
  <2>2. \A open : Kept(status, open) \subseteq Detections
    BY DEF Kept, Detections
  <2>3. \A found, open : NewOf(found, open) \subseteq found
    BY DEF NewOf
  <2> DEFINE found == IF watched THEN Wrong(status, home) ELSE {}
  <2> DEFINE next == [pc |-> "tell", open |-> sweep[s].open, sees |-> sweep[s].sees /\ watched,
                      found |-> NewOf(found, sweep[s].open),
                      keep |-> found \cup (IF watched THEN Kept(status, sweep[s].open) ELSE {})]
  <2>4. next \in Sweeps
    BY <1>6, <2>1, <2>2, <2>3 DEF Sweeps
  <2>5. sweep' = [sweep EXCEPT ![s] = IF Fetched(status, sweep[s].open) THEN next ELSE Resting]
    BY <1>6 DEF Fetch
  <2> HIDE DEF next
  <2>6. sweep' \in [Sweepers -> Sweeps]
    BY <1>5, <2>4, <2>5
  <2> QED
    BY <1>6, <2>6 DEF Fetch
<1>7. ASSUME NEW s \in Sweepers, NEW d \in Detections, Opened(d)
      PROVE  events' \in [Detections -> [count: 0 .. MaxEvents, open: BOOLEAN]]
  BY <1>7 DEF Opened
<1>8. ASSUME NEW s \in Sweepers, NEW d \in Detections, Tell(s, d) PROVE AnomalyTypeOK'
  BY <1>7, <1>8 DEF Tell, Sweeps
<1>9. ASSUME NEW s \in Sweepers, NEW d \in Detections, OpenFails(s, d) PROVE AnomalyTypeOK'
  BY <1>5, <1>7, <1>9 DEF OpenFails
<1>10. ASSUME NEW s \in Sweepers, AllTold(s) PROVE AnomalyTypeOK'
  BY <1>10 DEF AllTold, Sweeps
<1>11. ASSUME NEW s \in Sweepers, Clear(s) PROVE AnomalyTypeOK'
  <2>1. events' \in [Detections -> [count: 0 .. MaxEvents, open: BOOLEAN]]
    BY <1>11 DEF Clear
  <2>2. sweep' \in [Sweepers -> Sweeps]
    BY <1>11, ClearOthers
  <2> QED
    BY <1>11, <2>1, <2>2 DEF Clear
<1>12. ASSUME NEW s \in Sweepers, SweepFails(s) PROVE AnomalyTypeOK'
  BY <1>5, <1>12 DEF SweepFails
<1>13. CASE UNCHANGED anomalyVars
  BY <1>13 DEF anomalyVars
<1> QED
  BY <1>1, <1>2, <1>3, <1>4, <1>6, <1>8, <1>9, <1>10, <1>11, <1>12, <1>13 DEF AnomalyNext

\* An event is opened with a new number, and stays open under it until it is cleared.
LEMMA OpenCountsStep ==
  ASSUME AnomalyTypeOK, OpenCounts, [AnomalyNext]_anomalyVars
  PROVE  OpenCounts'
<1> USE DEF OpenCounts
<1>1. ASSUME NEW d \in Detections, Opened(d) PROVE OpenCounts'
  BY <1>1 DEF Opened, AnomalyTypeOK
<1>2. ASSUME NEW s \in Sweepers, Clear(s) PROVE OpenCounts'
  BY <1>2 DEF Clear, AnomalyTypeOK
<1>3. CASE UNCHANGED events
  BY <1>3
<1> QED
  BY <1>1, <1>2, <1>3
  DEF AnomalyNext, anomalyVars, Reports, Tick, Settles, ReadOpen, Fetch, Tell, OpenFails,
      AllTold, SweepFails

\* An event another server opens has a number this one has not told of.
LEMMA TellsNewStep ==
  ASSUME AnomalyTypeOK, OpenCounts, TellsNew, [AnomalyNext]_anomalyVars
  PROVE  TellsNew'
<1>1. CASE UNCHANGED <<events, told>>
           /\ \A t \in Sweepers : sweep'[t] \in {sweep[t], Misled(sweep[t])}
  BY <1>1, MisledType DEF TellsNew, AnomalyTypeOK
<1>2. ASSUME NEW s \in Sweepers, ReadOpen(s) PROVE TellsNew'
  <2>1. \A d \in Detections : OpenNow[d] = 0 => ~events[d].open
    BY DEF OpenNow, OpenCounts, AnomalyTypeOK
  <2>2. \A t \in Sweepers : t # s => sweep'[t] = sweep[t]
    BY <1>2 DEF ReadOpen, AnomalyTypeOK
  <2>3. sweep'[s].pc = "fetch" /\ sweep'[s].open = OpenNow
    BY <1>2 DEF ReadOpen, AnomalyTypeOK, Resting
  <2> QED
    BY <1>2, <2>1, <2>2, <2>3 DEF ReadOpen, TellsNew
<1>3. ASSUME NEW s \in Sweepers, Fetch(s) PROVE TellsNew'
  <2>1. \A t \in Sweepers : t # s => sweep'[t] = sweep[t]
    BY <1>3 DEF Fetch, AnomalyTypeOK
  <2>2. sweep[s].pc = "fetch"
    BY <1>3 DEF Fetch
  <2>3. \/ sweep'[s].pc = "idle"
        \/ sweep'[s].pc = "tell" /\ \A d \in sweep'[s].found : sweep[s].open[d] = 0
    BY <1>3 DEF Fetch, AnomalyTypeOK, Resting, NewOf
  <2> QED
    BY <1>3, <2>1, <2>2, <2>3 DEF Fetch, TellsNew
<1>4. ASSUME NEW s \in Sweepers, NEW d \in Detections, Tell(s, d) PROVE TellsNew'
  <2>1. \A t \in Sweepers : t # s => sweep'[t] = sweep[t] /\ told'[t] = told[t]
    BY <1>4 DEF Tell, AnomalyTypeOK
  <2>2. \A e \in Detections : e # d => events'[e] = events[e] /\ told'[s][e] = told[s][e]
    BY <1>4 DEF Tell, Opened, AnomalyTypeOK
  <2>3. /\ events[d].open => events'[d].count = events[d].count
        /\ ~events[d].open => events'[d].count = events[d].count + 1
    BY <1>4 DEF Tell, Opened, AnomalyTypeOK
  <2>4. /\ sweep[s].pc = "tell" /\ sweep'[s].pc = "tell"
        /\ sweep'[s].found = sweep[s].found \ {d} /\ told'[s][d] = events'[d].count
    BY <1>4 DEF Tell, AnomalyTypeOK, Sweeps
  <2>5. \A t \in Sweepers, e \in Detections : told[t][e] \in Nat /\ events[e].count \in Nat
    BY AnomalyAssumption DEF AnomalyAssumption, AnomalyTypeOK
  <2> QED
    BY <2>1, <2>2, <2>3, <2>4, <2>5 DEF TellsNew
<1>5. ASSUME NEW s \in Sweepers, NEW d \in Detections, OpenFails(s, d) PROVE TellsNew'
  <2>1. \A t \in Sweepers : t # s => sweep'[t] = sweep[t]
    BY <1>5 DEF OpenFails, AnomalyTypeOK
  <2>2. \A e \in Detections : e # d => events'[e] = events[e]
    BY <1>5 DEF OpenFails, Opened, AnomalyTypeOK
  <2>3. /\ events[d].open => events'[d].count = events[d].count
        /\ ~events[d].open => events'[d].count = events[d].count + 1
    BY <1>5 DEF OpenFails, Opened, AnomalyTypeOK
  <2>4. sweep'[s].pc = "idle" /\ told' = told
    BY <1>5 DEF OpenFails, AnomalyTypeOK, Resting
  <2>5. \A t \in Sweepers, e \in Detections : told[t][e] \in Nat /\ events[e].count \in Nat
    BY AnomalyAssumption DEF AnomalyAssumption, AnomalyTypeOK
  <2> QED
    BY <2>1, <2>2, <2>3, <2>4, <2>5 DEF TellsNew
<1>6. ASSUME NEW s \in Sweepers, AllTold(s) \/ SweepFails(s) PROVE TellsNew'
  <2>1. \A t \in Sweepers : t # s => sweep'[t] = sweep[t]
    BY <1>6 DEF AllTold, SweepFails, AnomalyTypeOK
  <2>2. sweep'[s].pc \in {"idle", "clear"} /\ UNCHANGED <<events, told>>
    BY <1>6 DEF AllTold, SweepFails, AnomalyTypeOK, Resting, Sweeps
  <2> QED
    BY <2>1, <2>2 DEF TellsNew
<1>7. ASSUME NEW s \in Sweepers, Clear(s) PROVE TellsNew'
  <2>1. \A t \in Sweepers : t # s => sweep'[t].pc = sweep[t].pc
               /\ sweep'[t].open = sweep[t].open /\ sweep'[t].found = sweep[t].found
    BY <1>7, ClearOthers, MisledType DEF AnomalyTypeOK
  <2>2. sweep'[s].pc = "idle" /\ told' = told
    BY <1>7, ClearOthers DEF Clear, Resting
  <2>3. \A d \in Detections :
          events'[d].count = events[d].count /\ (events'[d].open => events[d].open)
    BY <1>7 DEF Clear, AnomalyTypeOK
  <2> QED
    BY <2>1, <2>2, <2>3 DEF TellsNew
<1> QED
  <2>1. CASE Tick
    BY <1>1, <2>1 DEF Tick, AnomalyTypeOK
  <2>2. CASE ~Tick
    BY <1>1, <1>2, <1>3, <1>4, <1>5, <1>6, <1>7, <2>2
    DEF AnomalyNext, anomalyVars, Reports, Settles
  <2> QED
    BY <2>1, <2>2

\* While the signal is lost every sweep under way works on its account.
LEMMA LossListedStep ==
  ASSUME AnomalyTypeOK, OpenCounts, LossListed, [AnomalyNext]_anomalyVars
  PROVE  LossListed'
<1> SUFFICES ASSUME Lost(status)' PROVE \A t \in Sweepers : (SweepSeesLoss(t) /\ LossOpened(t))'
  BY DEF LossListed
<1>1. ASSUME NEW level \in Levels \cup {NoLevel}, NEW charging \in BOOLEAN,
             NEW moved \in BOOLEAN, Reports(level, charging, moved)
      PROVE  FALSE
  <2>1. status'.age = 0
    BY <1>1 DEF Reports
  <2>2. StageFor(SignalStages, 0) = {}
    <3>1. \A a \in SignalStages : ~(a <= 0)
      BY AnomalyAssumption DEF AnomalyAssumption
    <3> QED
      BY <3>1 DEF StageFor
  <2> QED
    BY <2>1, <2>2 DEF Lost
<1>2. ASSUME NEW t \in Sweepers, sweep'[t] = Misled(sweep[t])
      PROVE  (SweepSeesLoss(t) /\ LossOpened(t))'
  BY <1>2, MisledType DEF SweepSeesLoss, LossOpened, AnomalyTypeOK
<1>3. CASE UNCHANGED <<status, events, sweep>>
  BY <1>3 DEF LossListed, Lost, SweepSeesLoss, LossOpened
<1> DEFINE S == Silent(status)
<1>4. ASSUME UNCHANGED status
      PROVE  /\ Lost(status) /\ S' = S
             /\ \E d \in Detections : S = {d}
             /\ \A t \in Sweepers : SweepSeesLoss(t) /\ LossOpened(t)
  BY <1>4, SilentIsOne DEF LossListed, Lost
<1>5. ASSUME NEW t \in Sweepers, UNCHANGED status, sweep'[t] = sweep[t],
             \A d \in S : events[d].open => events'[d].open
      PROVE  (SweepSeesLoss(t) /\ LossOpened(t))'
  BY <1>4, <1>5 DEF SweepSeesLoss, LossOpened
<1>6. ASSUME NEW s \in Sweepers, ReadOpen(s), NEW t \in Sweepers
      PROVE  (SweepSeesLoss(t) /\ LossOpened(t))'
  <2>1. CASE t # s
    BY <1>5, <1>6, <2>1 DEF ReadOpen, AnomalyTypeOK
  <2>2. CASE t = s
    <3>1. sweep'[s].pc = "fetch" /\ sweep'[s].open = OpenNow /\ UNCHANGED <<status, events>>
      BY <1>6 DEF ReadOpen, AnomalyTypeOK, Resting
    <3>2. SweepSeesLoss(s)'
      BY <1>4, <3>1 DEF SweepSeesLoss, OpenNow
    <3>3. \A d \in Detections : OpenNow[d] # 0 => events[d].open
      BY DEF OpenNow
    <3>4. LossOpened(s)'
      BY <1>4, <3>1, <3>3 DEF LossOpened
    <3> QED
      BY <2>2, <3>2, <3>4
  <2> QED
    BY <2>1, <2>2
<1>7. ASSUME NEW s \in Sweepers, Fetch(s), NEW t \in Sweepers
      PROVE  (SweepSeesLoss(t) /\ LossOpened(t))'
  <2>1. CASE t # s
    BY <1>5, <1>7, <2>1 DEF Fetch, AnomalyTypeOK
  <2>2. CASE t = s
    <3>1. UNCHANGED <<status, events>> /\ sweep[s].pc = "fetch"
      BY <1>7 DEF Fetch
    <3>2. Wrong(status, home) = S
      BY <1>4, <3>1, WrongWhenLost
    <3>3. CASE sweep'[s].pc = "idle"
      BY <2>2, <3>3 DEF SweepSeesLoss, LossOpened
    <3>4. CASE sweep'[s].pc # "idle"
      <4>1. /\ sweep'[s].pc = "tell" /\ sweep'[s].open = sweep[s].open
            /\ sweep'[s].sees = (sweep[s].sees /\ watched)
            /\ sweep'[s].found = NewOf(IF watched THEN S ELSE {}, sweep[s].open)
            /\ sweep'[s].keep = (IF watched THEN S ELSE {})
                 \cup (IF watched THEN Kept(status, sweep[s].open) ELSE {})
        BY <1>7, <3>2, <3>4 DEF Fetch, AnomalyTypeOK, Resting
      <4>2. SweepSeesLoss(s)'
        BY <1>4, <3>1, <4>1 DEF SweepSeesLoss, NewOf
      <4>3. LossOpened(s)'
        BY <1>4, <3>1, <4>1 DEF LossOpened, NewOf
      <4> QED
        BY <2>2, <4>2, <4>3
    <3> QED
      BY <3>3, <3>4
  <2> QED
    BY <2>1, <2>2
<1>8. ASSUME NEW s \in Sweepers, NEW d \in Detections, Opened(d)
      PROVE  events'[d].open /\ \A e \in Detections : e # d => events'[e] = events[e]
  BY <1>8 DEF Opened, AnomalyTypeOK
<1>9. ASSUME NEW s \in Sweepers, NEW d \in Detections, Tell(s, d), NEW t \in Sweepers
      PROVE  (SweepSeesLoss(t) /\ LossOpened(t))'
  <2>1. /\ events'[d].open /\ UNCHANGED status
        /\ \A e \in Detections : e # d => events'[e] = events[e]
    BY <1>8, <1>9 DEF Tell
  <2>2. CASE t # s
    BY <1>4, <1>5, <1>9, <2>1, <2>2 DEF Tell, AnomalyTypeOK
  <2>3. CASE t = s
    <3>1. /\ sweep[s].pc = "tell" /\ sweep'[s].pc = "tell"
          /\ sweep'[s].found = sweep[s].found \ {d}
          /\ sweep'[s].sees = sweep[s].sees /\ sweep'[s].open = sweep[s].open
          /\ sweep'[s].keep = sweep[s].keep
      BY <1>9 DEF Tell, AnomalyTypeOK, Sweeps
    <3>2. SweepSeesLoss(s)'
      BY <1>4, <2>1, <3>1 DEF SweepSeesLoss
    <3>3. LossOpened(s)'
      BY <1>4, <2>1, <3>1 DEF LossOpened
    <3> QED
      BY <2>3, <3>2, <3>3
  <2> QED
    BY <2>2, <2>3
<1>10. ASSUME NEW s \in Sweepers, NEW d \in Detections, OpenFails(s, d), NEW t \in Sweepers
       PROVE  (SweepSeesLoss(t) /\ LossOpened(t))'
  <2>1. /\ events'[d].open /\ UNCHANGED status
        /\ \A e \in Detections : e # d => events'[e] = events[e]
    BY <1>8, <1>10 DEF OpenFails
  <2>2. CASE t # s
    BY <1>4, <1>5, <1>10, <2>1, <2>2 DEF OpenFails, AnomalyTypeOK
  <2>3. CASE t = s
    <3>1. sweep'[s].pc = "idle"
      BY <1>10 DEF OpenFails, AnomalyTypeOK, Resting
    <3> QED
      BY <2>3, <3>1 DEF SweepSeesLoss, LossOpened
  <2> QED
    BY <2>2, <2>3
<1>11. ASSUME NEW s \in Sweepers, AllTold(s), NEW t \in Sweepers
       PROVE  (SweepSeesLoss(t) /\ LossOpened(t))'
  <2>1. CASE t # s
    BY <1>5, <1>11, <2>1 DEF AllTold, AnomalyTypeOK
  <2>2. CASE t = s
    <3>1. /\ sweep[s].pc = "tell" /\ sweep'[s].pc = "clear" /\ sweep[s].found = {}
          /\ sweep'[s].found = {} /\ sweep'[s].open = sweep[s].open
          /\ sweep'[s].sees = sweep[s].sees /\ sweep'[s].keep = sweep[s].keep
          /\ UNCHANGED <<status, events>>
      BY <1>11 DEF AllTold, AnomalyTypeOK, Sweeps
    <3>2. SweepSeesLoss(s)'
      BY <1>4, <3>1 DEF SweepSeesLoss
    <3>3. LossOpened(s)'
      BY <1>4, <3>1 DEF LossOpened
    <3> QED
      BY <2>2, <3>2, <3>3
  <2> QED
    BY <2>1, <2>2
<1>12. ASSUME NEW s \in Sweepers, Clear(s), NEW t \in Sweepers
       PROVE  (SweepSeesLoss(t) /\ LossOpened(t))'
  <2>1. /\ sweep[s].pc = "clear" /\ UNCHANGED status
        /\ \A d \in Detections : events[d].open /\ ~events'[d].open => d \notin sweep[s].keep
    BY <1>12 DEF Clear, AnomalyTypeOK
  <2>2. CASE t # s /\ sweep[s].sees
    <3>1. \A d \in S : events[d].open => events'[d].open
      BY <1>4, <2>1, <2>2 DEF SweepSeesLoss
    <3> QED
      BY <1>5, <1>12, <2>1, <2>2, <3>1, ClearOthers
  <2>3. CASE t # s /\ ~sweep[s].sees
    <3>1. sweep'[t] = Misled(sweep[t]) \/ (sweep'[t] = sweep[t] /\ events' = events)
      BY <1>12, <2>3, ClearOthers
    <3> QED
      BY <1>2, <1>5, <2>1, <3>1
  <2>4. CASE t = s
    <3>1. sweep'[s].pc = "idle"
      BY <1>12, ClearOthers DEF Resting
    <3> QED
      BY <2>4, <3>1 DEF SweepSeesLoss, LossOpened
  <2> QED
    BY <2>2, <2>3, <2>4
<1>13. ASSUME NEW s \in Sweepers, SweepFails(s), NEW t \in Sweepers
       PROVE  (SweepSeesLoss(t) /\ LossOpened(t))'
  <2>1. CASE t # s
    BY <1>5, <1>13, <2>1 DEF SweepFails, AnomalyTypeOK
  <2>2. CASE t = s
    <3>1. sweep'[s].pc = "idle"
      BY <1>13 DEF SweepFails, AnomalyTypeOK, Resting
    <3> QED
      BY <2>2, <3>1 DEF SweepSeesLoss, LossOpened
  <2> QED
    BY <2>1, <2>2
<1>14. CASE Tick
  BY <1>2, <1>14 DEF Tick
<1> QED
  BY <1>1, <1>3, <1>6, <1>7, <1>9, <1>10, <1>11, <1>12, <1>13, <1>14
  DEF AnomalyNext, anomalyVars, Settles

\* What is found is told before the sweep goes on.
LEMMA FoundToTellStep ==
  ASSUME AnomalyTypeOK, FoundToTell, [AnomalyNext]_anomalyVars
  PROVE  FoundToTell'
<1>1. CASE \A t \in Sweepers : sweep'[t] \in {sweep[t], Misled(sweep[t])}
  BY <1>1, MisledType DEF FoundToTell, AnomalyTypeOK
<1>2. ASSUME NEW s \in Sweepers,
             ReadOpen(s) \/ AllTold(s) \/ SweepFails(s)
               \/ \E d \in Detections : OpenFails(s, d)
      PROVE  FoundToTell'
  <2>1. sweep'[s].found = {}
    <3>1. CASE AllTold(s)
      BY <3>1 DEF AllTold, AnomalyTypeOK, Sweeps
    <3>2. CASE ReadOpen(s)
      BY <3>2 DEF ReadOpen, AnomalyTypeOK, Resting
    <3> QED
      BY <1>2, <3>1, <3>2 DEF SweepFails, OpenFails, AnomalyTypeOK, Resting
  <2>2. \A t \in Sweepers : t # s => sweep'[t] = sweep[t]
    BY <1>2 DEF ReadOpen, AllTold, SweepFails, OpenFails, AnomalyTypeOK
  <2> QED
    BY <2>1, <2>2 DEF FoundToTell
<1>3. ASSUME NEW s \in Sweepers, Fetch(s) PROVE FoundToTell'
  BY <1>3 DEF FoundToTell, Fetch, Resting, AnomalyTypeOK
<1>4. ASSUME NEW s \in Sweepers, NEW d \in Detections, Tell(s, d) PROVE FoundToTell'
  BY <1>4 DEF FoundToTell, Tell, AnomalyTypeOK, Sweeps
<1>5. ASSUME NEW s \in Sweepers, Clear(s) PROVE FoundToTell'
  <2>1. sweep'[s].found = {}
    BY <1>5, ClearOthers DEF Resting
  <2>2. ASSUME NEW t \in Sweepers \ {s}
        PROVE  sweep'[t].pc = sweep[t].pc /\ sweep'[t].found = sweep[t].found
    <3>1. sweep[t] \in Sweeps
      BY DEF AnomalyTypeOK
    <3>2. sweep'[t] = sweep[t] \/ sweep'[t] = Misled(sweep[t])
      BY <1>5, ClearOthers
    <3> QED
      BY <3>1, <3>2, MisledType
  <2> QED
    BY <2>1, <2>2 DEF FoundToTell
<1>6. CASE Tick \/ UNCHANGED sweep
  BY <1>1, <1>6 DEF Tick
<1> QED
  BY <1>2, <1>3, <1>4, <1>5, <1>6 DEF AnomalyNext, anomalyVars, Reports, Settles

LEMMA AnomalyStep == AnomalyInv /\ [AnomalyNext]_anomalyVars => AnomalyInv'
BY AnomalyTypesStep, OpenCountsStep, FoundToTellStep, TellsNewStep, LossListedStep
DEF AnomalyInv

LEMMA AnomalyInitInv == AnomalyInit => AnomalyInv
<1> SUFFICES ASSUME AnomalyInit PROVE AnomalyInv
  OBVIOUS
<1>1. Resting \in Sweeps /\ \A level \in Levels \cup {NoLevel} : Fresh(level) \in Snapshots
  BY AnomalyAssumption DEF AnomalyAssumption, Resting, Sweeps, Fresh, Snapshots, Never
<1>2. AnomalyTypeOK
  <2>1. 0 \in 0 .. MaxEvents /\ 0 \in 0 .. MaxChanges
    BY AnomalyAssumption DEF AnomalyAssumption
  <2>2. events \in [Detections -> [count: 0 .. MaxEvents, open: BOOLEAN]]
    BY <2>1 DEF AnomalyInit
  <2>3. told \in [Sweepers -> [Detections -> 0 .. MaxEvents]]
    BY <2>1 DEF AnomalyInit
  <2> QED
    BY <1>1, <2>1, <2>2, <2>3 DEF AnomalyInit, AnomalyTypeOK
<1>3. \A s \in Sweepers : sweep[s].pc = "idle"
  BY DEF AnomalyInit, Resting
<1>4. OpenCounts /\ FoundToTell /\ TellsNew
  BY <1>3 DEF AnomalyInit, Resting, OpenCounts, FoundToTell, TellsNew
<1>5. LossListed
  BY <1>3 DEF LossListed, SweepSeesLoss, LossOpened
<1> QED
  BY <1>2, <1>4, <1>5 DEF AnomalyInv

\* Only the step that tells takes something off what is to be told.
LEMMA TellingStep ==
  ASSUME AnomalyInv, AnomalyNext, NEW s \in Sweepers, NEW d \in Detections,
         d \in sweep[s].found, d \notin sweep'[s].found, sweep'[s].pc = "tell"
  PROVE  told[s][d] # told'[s][d]
<1> USE DEF AnomalyInv
<1>1. sweep[s].pc = "tell"
  BY DEF FoundToTell
<1>2. ASSUME NEW t \in Sweepers,
             ReadOpen(t) \/ Fetch(t) \/ AllTold(t) \/ SweepFails(t)
               \/ \E e \in Detections : OpenFails(t, e)
      PROVE  FALSE
  <2>1. CASE t # s
    BY <1>2, <2>1
    DEF ReadOpen, Fetch, AllTold, SweepFails, OpenFails, AnomalyTypeOK
  <2>2. CASE t = s
    BY <1>1, <1>2, <2>2
    DEF ReadOpen, Fetch, AllTold, SweepFails, OpenFails, Resting, AnomalyTypeOK
  <2> QED
    BY <2>1, <2>2
<1>3. ASSUME NEW t \in Sweepers, NEW e \in Detections, Tell(t, e)
      PROVE  told[s][d] # told'[s][d]
  <2>1. t = s /\ e = d
    BY <1>3 DEF Tell, AnomalyTypeOK, Sweeps
  <2>2. told'[s][d] = events'[d].count
    BY <1>3, <2>1 DEF Tell, AnomalyTypeOK
  <2>3. /\ events[d].open => events'[d].count = events[d].count
        /\ ~events[d].open => events'[d].count = events[d].count + 1
    BY <1>3, <2>1 DEF Tell, Opened, AnomalyTypeOK
  <2>4. told[s][d] \in Nat /\ events[d].count \in Nat
    BY AnomalyAssumption DEF AnomalyAssumption, AnomalyTypeOK
  <2>5. /\ told[s][d] <= events[d].count
        /\ events[d].open => told[s][d] < events[d].count
    BY <1>1 DEF TellsNew
  <2> QED
    BY <2>2, <2>3, <2>4, <2>5
<1>4. ASSUME NEW t \in Sweepers, Clear(t) PROVE FALSE
  BY <1>4, <1>1, ClearOthers, MisledType DEF Resting, AnomalyTypeOK
<1>5. ~Tick
  BY MisledType DEF Tick, AnomalyTypeOK
<1> QED
  BY <1>2, <1>3, <1>4, <1>5 DEF AnomalyNext, Reports, Settles

\* What clears everything else leaves the event of the lost signal.
LEMMA ListedStep ==
  ASSUME AnomalyInv, AnomalyNext, Lost(status), NEW d \in Detections, events[d].open,
         \A s \in Sweepers :
           sweep[s].pc = "clear" /\ sweep'[s].pc # "clear" => sweep[s].sees
  PROVE  \E e \in Detections : events'[e].open
<1> USE DEF AnomalyInv
<1>1. ASSUME NEW e \in Detections, Opened(e) PROVE events'[e].open
  BY <1>1 DEF Opened, AnomalyTypeOK
<1>2. ASSUME NEW s \in Sweepers, Clear(s) PROVE \E e \in Detections : events'[e].open
  <2>1. PICK e \in Detections : Silent(status) = {e}
    BY SilentIsOne
  <2>2. sweep[s].pc = "clear" /\ sweep[s].sees
    BY <1>2, ClearOthers DEF Resting
  <2>3. events[e].open
    BY <2>1, <2>2 DEF LossListed, LossOpened
  <2>4. e \in sweep[s].keep
    BY <2>1, <2>2 DEF LossListed, SweepSeesLoss
  <2>5. events'[e].open
    BY <1>2, <2>3, <2>4 DEF Clear, AnomalyTypeOK
  <2> QED
    BY <2>5
<1>3. CASE UNCHANGED events
  BY <1>3
<1> QED
  BY <1>1, <1>2, <1>3
  DEF AnomalyNext, Reports, Tick, Settles, ReadOpen, Fetch, Tell, OpenFails, AllTold,
      SweepFails

\* Of an event friends hear once from each of the sweeps under way at one time, and a
\* watched user whose signal is lost stays on the list of open events as long as sweeps clear
\* by what they read in the same half hour (AnomalyService.sweep, open), for any number of
\* sweeps at once, any stages, levels and times.
THEOREM ToldOnceWhileListed == AnomalySpec => ToldOnceAndListed
<1>1. AnomalySpec => []AnomalyInv
  BY AnomalyInitInv, AnomalyStep, PTL DEF AnomalySpec
<1>2. AnomalyInv /\ [AnomalyNext]_anomalyVars =>
        [/\ \A s \in Sweepers, d \in Detections :
              d \in sweep[s].found /\ d \notin sweep'[s].found /\ sweep'[s].pc = "tell" =>
                told[s][d] # told'[s][d]
         /\ Lost(status) /\ (\E d \in Detections : events[d].open)
              /\ (\A s \in Sweepers :
                    sweep[s].pc = "clear" /\ sweep'[s].pc # "clear" => sweep[s].sees) =>
                \E d \in Detections : events'[d].open]_anomalyVars
  BY TellingStep, ListedStep
<1> QED
  BY <1>1, <1>2, PTL DEF AnomalySpec, ToldOnceAndListed

----------------------------------------------------------------------------
(* Watch.                                                                  *)

\* Whoever looks is in the registry, and renewed there in every minute.
LookersListed ==
  \A k \in Sockets : Looking(k) =>
    /\ quiet = 0
    /\ registry[k] >= WatchTTL - 1
    /\ beat[socket[k].server] # "due" => registry[k] = WatchTTL

\* What a handler knows of its socket while it awaits an answer.
HandlersKnow ==
  \A k \in Sockets :
    /\ handler[k]["watch"] = "friends" /\ ~socket[k].open => ~socket[k].watching
    /\ handler[k]["watch"] = "remove" => ~socket[k].watching

\* Who is about to speak of somebody has looked in this minute.
SpeakersLooked ==
  /\ \A k \in Sockets, h \in Handlers :
       handler[k][h] \in {"remove", "count", "on", "off"} => quiet = 0
  /\ \A s \in Gateways : beat[s] = "touched" => quiet = 0

\* What has been noted of a look lasts from that look on.
NotedFades ==
  /\ phone + quiet <= WatchTTL
  /\ \A k \in Sockets : registry[k] + quiet <= WatchTTL

\* Once somebody has looked for a minute, no handler calls it off.
NobodyCallsOff ==
  (\E k \in Sockets : Looking(k) /\ socket[k].since >= 1) =>
    \A j \in Sockets, h \in Handlers : handler[j][h] # "off"

\* Then the heartbeat of that minute reaches the phone ...
BeatArrives ==
  \A k \in Sockets :
    Looking(k) /\ socket[k].since >= 1 /\ linked >= 2 /\ beat[socket[k].server] = "sent" =>
      phone = WatchTTL

\* ... and keeps it in watch mode for the next.
PhoneKeeps ==
  (\E k \in Sockets : Looking(k) /\ socket[k].since >= 2) /\ linked = Long =>
    phone >= WatchTTL - 1

WatchInv ==
  /\ WatchTypeOK /\ LookersListed /\ HandlersKnow /\ SpeakersLooked /\ NotedFades
  /\ NobodyCallsOff /\ BeatArrives /\ PhoneKeeps

\* The values of the variables stay in their sets.
LEMMA WatchTypesStep ==
  ASSUME WatchTypeOK, [WatchNext]_watchVars
  PROVE  WatchTypeOK'
<1>1. ASSUME NEW k \in Sockets, NEW s \in Gateways, Connect(k, s) PROVE WatchTypeOK'
  BY <1>1 DEF Connect, WatchTypeOK, SocketStates, Long
<1>2. ASSUME NEW k \in Sockets, WatchFriends(k) PROVE WatchTypeOK'
  BY <1>2, WatchAssumption
  DEF WatchFriends, WatchAssumption, WatchTypeOK, HandlerStates, Handlers
<1>3. ASSUME NEW k \in Sockets, Drop(k) PROVE WatchTypeOK'
  BY <1>3, WatchAssumption DEF Drop, WatchAssumption, WatchTypeOK, HandlerStates, Handlers
<1>4. ASSUME NEW k \in Sockets, NEW among \in BOOLEAN, Friends(k, among) PROVE WatchTypeOK'
  <2>1. socket' \in [Sockets -> SocketStates]
    <3> DEFINE n == IF among /\ socket[k].watching THEN socket[k].since ELSE 0
    <3>1. n \in 0 .. Long
      BY DEF WatchTypeOK, SocketStates, Long
    <3>2. socket' = [socket EXCEPT ![k].watching = among, ![k].since = n]
      BY <1>4 DEF Friends, WatchTypeOK, SocketStates
    <3> HIDE DEF n
    <3> QED
      BY <3>1, <3>2 DEF WatchTypeOK, SocketStates
  <2>2. handler' \in [Sockets -> [Handlers -> HandlerStates]]
    <3>1. PICK st \in HandlerStates : handler' = [handler EXCEPT ![k]["watch"] = st]
      BY <1>4 DEF Friends, HandlerStates
    <3> QED
      BY <3>1 DEF WatchTypeOK
  <2>3. registry' \in [Sockets -> 0 .. WatchTTL] /\ quiet' \in 0 .. WatchTTL
    BY <1>4, WatchAssumption DEF Friends, WatchTypeOK, WatchAssumption
  <2> QED
    BY <1>4, <2>1, <2>2, <2>3 DEF Friends, WatchTypeOK
<1>5. ASSUME NEW k \in Sockets, NEW stays \in BOOLEAN, Stop(k, stays) PROVE WatchTypeOK'
  <2>1. socket' \in [Sockets -> SocketStates]
    <3>1. 0 \in 0 .. Long
      BY DEF Long
    <3> QED
      BY <1>5, <3>1 DEF Stop, WatchTypeOK, SocketStates
  <2>2. handler' \in [Sockets -> [Handlers -> HandlerStates]]
    <3>1. PICK st \in HandlerStates : handler' = [handler EXCEPT ![k]["stop"] = st]
      BY <1>5 DEF Stop, HandlerStates
    <3> QED
      BY <3>1 DEF WatchTypeOK
  <2>3. registry' \in [Sockets -> 0 .. WatchTTL]
    BY <1>5, WatchAssumption DEF Stop, WatchTypeOK, WatchAssumption
  <2> QED
    BY <1>5, <2>1, <2>2, <2>3 DEF Stop, WatchTypeOK
<1>6. ASSUME NEW k \in Sockets, NEW h \in Handlers, CountWatchers(k, h) PROVE WatchTypeOK'
  BY <1>6 DEF CountWatchers, WatchTypeOK, HandlerStates
<1>7. ASSUME NEW k \in Sockets, NEW h \in Handlers, Sync(k, h) PROVE WatchTypeOK'
  BY <1>7, WatchAssumption
  DEF Sync, Hears, WatchAssumption, WatchTypeOK, SocketStates, HandlerStates
<1>8. ASSUME NEW s \in Gateways, Beat(s) PROVE WatchTypeOK'
  BY <1>8, WatchAssumption DEF Beat, Renewed, WatchAssumption, WatchTypeOK
<1>9. ASSUME NEW s \in Gateways, Emit(s) PROVE WatchTypeOK'
  BY <1>9 DEF Emit, Hears, WatchTypeOK
<1>10. ASSUME NEW s \in Gateways, Crash(s) PROVE WatchTypeOK'
  BY <1>10, WatchAssumption
  DEF Crash, WatchAssumption, WatchTypeOK, SocketStates, HandlerStates, Long
<1>11. ASSUME PhoneDrops PROVE WatchTypeOK'
  BY <1>11, WatchAssumption DEF PhoneDrops, WatchAssumption, WatchTypeOK, Long
<1>12. ASSUME PhoneConnects PROVE WatchTypeOK'
  BY <1>12 DEF PhoneConnects, WatchTypeOK, Long
<1>13. ASSUME Minute PROVE WatchTypeOK'
  <2>1. \A n \in 0 .. Long : Later(n) \in 0 .. Long
    BY DEF Later, Long
  <2>2. \A n \in 0 .. WatchTTL : Less(n) \in 0 .. WatchTTL
    BY WatchAssumption DEF WatchAssumption, Less
  <2>3. socket' \in [Sockets -> SocketStates]
    BY <1>13, <2>1 DEF Minute, WatchTypeOK, SocketStates
  <2>4. registry' \in [Sockets -> 0 .. WatchTTL] /\ phone' \in 0 .. WatchTTL
    BY <1>13, <2>2 DEF Minute, Forgets, WatchTypeOK
  <2>5. linked' \in 0 .. Long /\ quiet' \in 0 .. WatchTTL
    BY <1>13, <2>1, WatchAssumption DEF Minute, WatchTypeOK, WatchAssumption, Long
  <2> QED
    BY <1>13, <2>3, <2>4, <2>5 DEF Minute, WatchTypeOK
<1>14. CASE UNCHANGED watchVars
  BY <1>14 DEF watchVars, WatchTypeOK
<1> QED
  BY <1>1, <1>2, <1>3, <1>4, <1>5, <1>6, <1>7, <1>8, <1>9, <1>10, <1>11, <1>12, <1>13, <1>14
  DEF WatchNext

\* Nobody takes out of the registry who looks, and every minute renews.
LEMMA LookersListedStep ==
  ASSUME WatchTypeOK, HandlersKnow, LookersListed, [WatchNext]_watchVars
  PROVE  LookersListed'
<1>1. ASSUME NEW k \in Sockets, NEW s \in Gateways, Connect(k, s) PROVE LookersListed'
  BY <1>1 DEF Connect, Looking, LookersListed
<1>2. ASSUME NEW k \in Sockets, WatchFriends(k) PROVE LookersListed'
  BY <1>2 DEF WatchFriends, Looking, LookersListed
<1>3. ASSUME NEW k \in Sockets, Drop(k) PROVE LookersListed'
  BY <1>3 DEF Drop, Looking, LookersListed, HandlersKnow
<1>4. ASSUME NEW k \in Sockets, NEW among \in BOOLEAN, Friends(k, among) PROVE LookersListed'
  BY <1>4, WatchAssumption DEF Friends, WatchAssumption, WatchTypeOK, Looking, LookersListed
<1>5. ASSUME NEW k \in Sockets, NEW stays \in BOOLEAN, Stop(k, stays) PROVE LookersListed'
  BY <1>5 DEF Stop, WatchTypeOK, Looking, LookersListed
<1>6. ASSUME NEW k \in Sockets, NEW h \in Handlers, CountWatchers(k, h) PROVE LookersListed'
  BY <1>6 DEF CountWatchers, Looking, LookersListed
<1>7. ASSUME NEW k \in Sockets, NEW h \in Handlers, Sync(k, h) PROVE LookersListed'
  BY <1>7 DEF Sync, Looking, LookersListed
<1>8. ASSUME NEW s \in Gateways, Beat(s) PROVE LookersListed'
  BY <1>8, WatchAssumption DEF Beat, Renewed, WatchAssumption, Looking, LookersListed
<1>9. ASSUME NEW s \in Gateways, Emit(s) PROVE LookersListed'
  BY <1>9 DEF Emit, Looking, LookersListed
<1>10. ASSUME NEW s \in Gateways, Crash(s) PROVE LookersListed'
  BY <1>10 DEF Crash, Looking, LookersListed
<1>11. ASSUME PhoneDrops PROVE LookersListed'
  BY <1>11 DEF PhoneDrops, Looking, LookersListed
<1>12. ASSUME PhoneConnects PROVE LookersListed'
  BY <1>12 DEF PhoneConnects, Looking, LookersListed
<1>13. ASSUME Minute PROVE LookersListed'
  <2> SUFFICES ASSUME NEW k \in Sockets, Looking(k)'
               PROVE  /\ quiet' = 0 /\ registry'[k] >= WatchTTL - 1
                      /\ beat'[socket'[k].server] = "due"
    BY DEF LookersListed
  <2>1. Looking(k) /\ socket'[k].server = socket[k].server /\ socket[k].server \in Gateways
    BY <1>13 DEF Minute, Looking, WatchTypeOK, SocketStates
  <2>2. registry[k] = WatchTTL
    BY <1>13, <2>1 DEF Minute, LookersListed
  <2> QED
    BY <1>13, <2>1, <2>2, WatchAssumption DEF Minute, Less, WatchAssumption
<1>14. CASE UNCHANGED watchVars
  BY <1>14 DEF watchVars, Looking, LookersListed
<1> QED
  BY <1>1, <1>2, <1>3, <1>4, <1>5, <1>6, <1>7, <1>8, <1>9, <1>10, <1>11, <1>12, <1>13, <1>14
  DEF WatchNext

\* A socket that closes while its friends are looked up leaves nothing behind it.
LEMMA HandlersKnowStep ==
  ASSUME WatchTypeOK, HandlersKnow, [WatchNext]_watchVars
  PROVE  HandlersKnow'
<1>1. ASSUME NEW k \in Sockets, NEW s \in Gateways, Connect(k, s) PROVE HandlersKnow'
  BY <1>1 DEF Connect, HandlersKnow
<1>2. ASSUME NEW k \in Sockets, WatchFriends(k) PROVE HandlersKnow'
  BY <1>2 DEF WatchFriends, HandlersKnow
<1>3. ASSUME NEW k \in Sockets, Drop(k) PROVE HandlersKnow'
  BY <1>3 DEF Drop, HandlersKnow
<1>4. ASSUME NEW k \in Sockets, NEW among \in BOOLEAN, Friends(k, among) PROVE HandlersKnow'
  BY <1>4 DEF Friends, WatchTypeOK, Handlers, HandlersKnow
<1>5. ASSUME NEW k \in Sockets, NEW stays \in BOOLEAN, Stop(k, stays) PROVE HandlersKnow'
  BY <1>5 DEF Stop, WatchTypeOK, HandlersKnow
<1>6. ASSUME NEW k \in Sockets, NEW h \in Handlers, CountWatchers(k, h) PROVE HandlersKnow'
  BY <1>6 DEF CountWatchers, HandlersKnow
<1>7. ASSUME NEW k \in Sockets, NEW h \in Handlers, Sync(k, h) PROVE HandlersKnow'
  BY <1>7 DEF Sync, HandlersKnow
<1>8. ASSUME NEW s \in Gateways, Beat(s) PROVE HandlersKnow'
  BY <1>8 DEF Beat, HandlersKnow
<1>9. ASSUME NEW s \in Gateways, Emit(s) PROVE HandlersKnow'
  BY <1>9 DEF Emit, HandlersKnow
<1>10. ASSUME NEW s \in Gateways, Crash(s) PROVE HandlersKnow'
  BY <1>10 DEF Crash, HandlersKnow
<1>11. ASSUME PhoneDrops PROVE HandlersKnow'
  BY <1>11 DEF PhoneDrops, HandlersKnow
<1>12. ASSUME PhoneConnects PROVE HandlersKnow'
  BY <1>12 DEF PhoneConnects, HandlersKnow
<1>13. ASSUME Minute PROVE HandlersKnow'
  BY <1>13 DEF Minute, WatchTypeOK, SocketStates, HandlersKnow
<1>14. CASE UNCHANGED watchVars
  BY <1>14 DEF watchVars, HandlersKnow
<1> QED
  BY <1>1, <1>2, <1>3, <1>4, <1>5, <1>6, <1>7, <1>8, <1>9, <1>10, <1>11, <1>12, <1>13, <1>14
  DEF WatchNext

\* Only a look, a look that ends, and a heartbeat make somebody speak.
LEMMA SpeakersLookedStep ==
  ASSUME WatchTypeOK, HandlersKnow, LookersListed, SpeakersLooked, [WatchNext]_watchVars
  PROVE  SpeakersLooked'
<1>1. ASSUME NEW k \in Sockets, NEW s \in Gateways, Connect(k, s) PROVE SpeakersLooked'
  BY <1>1 DEF Connect, SpeakersLooked
<1>2. ASSUME NEW k \in Sockets, WatchFriends(k) PROVE SpeakersLooked'
  BY <1>2 DEF WatchFriends, SpeakersLooked
<1>3. ASSUME NEW k \in Sockets, Drop(k) PROVE SpeakersLooked'
  BY <1>3 DEF Drop, SpeakersLooked
<1>4. ASSUME NEW k \in Sockets, NEW among \in BOOLEAN, Friends(k, among) PROVE SpeakersLooked'
  BY <1>4 DEF Friends, SpeakersLooked, Looking, LookersListed, HandlersKnow
<1>5. ASSUME NEW k \in Sockets, NEW stays \in BOOLEAN, Stop(k, stays) PROVE SpeakersLooked'
  BY <1>5 DEF Stop, SpeakersLooked, Looking, LookersListed
<1>6. ASSUME NEW k \in Sockets, NEW h \in Handlers, CountWatchers(k, h) PROVE SpeakersLooked'
  BY <1>6 DEF CountWatchers, SpeakersLooked
<1>7. ASSUME NEW k \in Sockets, NEW h \in Handlers, Sync(k, h) PROVE SpeakersLooked'
  BY <1>7 DEF Sync, SpeakersLooked
<1>8. ASSUME NEW s \in Gateways, Beat(s) PROVE SpeakersLooked'
  BY <1>8 DEF Beat, SpeakersLooked, LookersListed
<1>9. ASSUME NEW s \in Gateways, Emit(s) PROVE SpeakersLooked'
  BY <1>9 DEF Emit, SpeakersLooked
<1>10. ASSUME NEW s \in Gateways, Crash(s) PROVE SpeakersLooked'
  BY <1>10 DEF Crash, SpeakersLooked
<1>11. ASSUME PhoneDrops PROVE SpeakersLooked'
  BY <1>11 DEF PhoneDrops, SpeakersLooked
<1>12. ASSUME PhoneConnects PROVE SpeakersLooked'
  BY <1>12 DEF PhoneConnects, SpeakersLooked
<1>13. ASSUME Minute PROVE SpeakersLooked'
  BY <1>13 DEF Minute, SpeakersLooked, Quiet
<1>14. CASE UNCHANGED watchVars
  BY <1>14 DEF watchVars, SpeakersLooked
<1> QED
  BY <1>1, <1>2, <1>3, <1>4, <1>5, <1>6, <1>7, <1>8, <1>9, <1>10, <1>11, <1>12, <1>13, <1>14
  DEF WatchNext

\* What is noted anew is noted in the minute of a look.
LEMMA NotedFadesStep ==
  ASSUME WatchTypeOK, LookersListed, SpeakersLooked, NotedFades, [WatchNext]_watchVars
  PROVE  NotedFades'
<1>1. ASSUME NEW k \in Sockets, NEW s \in Gateways, Connect(k, s) PROVE NotedFades'
  BY <1>1 DEF Connect, NotedFades
<1>2. ASSUME NEW k \in Sockets, WatchFriends(k) PROVE NotedFades'
  BY <1>2 DEF WatchFriends, NotedFades
<1>3. ASSUME NEW k \in Sockets, Drop(k) PROVE NotedFades'
  BY <1>3 DEF Drop, WatchTypeOK, NotedFades
<1>4. ASSUME NEW k \in Sockets, NEW among \in BOOLEAN, Friends(k, among) PROVE NotedFades'
  BY <1>4, WatchAssumption DEF Friends, WatchAssumption, WatchTypeOK, NotedFades
<1>5. ASSUME NEW k \in Sockets, NEW stays \in BOOLEAN, Stop(k, stays) PROVE NotedFades'
  BY <1>5 DEF Stop, WatchTypeOK, NotedFades
<1>6. ASSUME NEW k \in Sockets, NEW h \in Handlers, CountWatchers(k, h) PROVE NotedFades'
  BY <1>6 DEF CountWatchers, NotedFades
<1>7. ASSUME NEW k \in Sockets, NEW h \in Handlers, Sync(k, h) PROVE NotedFades'
  BY <1>7 DEF Sync, Hears, WatchTypeOK, SpeakersLooked, NotedFades
<1>8. ASSUME NEW s \in Gateways, Beat(s) PROVE NotedFades'
  BY <1>8, WatchAssumption DEF Beat, Renewed, WatchAssumption, LookersListed, NotedFades
<1>9. ASSUME NEW s \in Gateways, Emit(s) PROVE NotedFades'
  BY <1>9 DEF Emit, Hears, WatchTypeOK, SpeakersLooked, NotedFades
<1>10. ASSUME NEW s \in Gateways, Crash(s) PROVE NotedFades'
  BY <1>10 DEF Crash, NotedFades
<1>11. ASSUME PhoneDrops PROVE NotedFades'
  BY <1>11 DEF PhoneDrops, NotedFades
<1>12. ASSUME PhoneConnects PROVE NotedFades'
  BY <1>12 DEF PhoneConnects, NotedFades
<1>13. ASSUME Minute PROVE NotedFades'
  BY <1>13, WatchAssumption DEF Minute, Less, Forgets, WatchAssumption, WatchTypeOK, NotedFades
<1>14. CASE UNCHANGED watchVars
  BY <1>14 DEF watchVars, NotedFades
<1> QED
  BY <1>1, <1>2, <1>3, <1>4, <1>5, <1>6, <1>7, <1>8, <1>9, <1>10, <1>11, <1>12, <1>13, <1>14
  DEF WatchNext

\* A count that begins later counts whoever looks.
LEMMA NobodyCallsOffStep ==
  ASSUME WatchTypeOK, LookersListed, NobodyCallsOff, [WatchNext]_watchVars
  PROVE  NobodyCallsOff'
<1>1. ASSUME NEW k \in Sockets, NEW s \in Gateways, Connect(k, s) PROVE NobodyCallsOff'
  BY <1>1 DEF Connect, Looking, NobodyCallsOff
<1>2. ASSUME NEW k \in Sockets, WatchFriends(k) PROVE NobodyCallsOff'
  BY <1>2 DEF WatchFriends, Looking, NobodyCallsOff
<1>3. ASSUME NEW k \in Sockets, Drop(k) PROVE NobodyCallsOff'
  BY <1>3 DEF Drop, Looking, NobodyCallsOff
<1>4. ASSUME NEW k \in Sockets, NEW among \in BOOLEAN, Friends(k, among) PROVE NobodyCallsOff'
  BY <1>4 DEF Friends, WatchTypeOK, Looking, NobodyCallsOff
<1>5. ASSUME NEW k \in Sockets, NEW stays \in BOOLEAN, Stop(k, stays) PROVE NobodyCallsOff'
  BY <1>5 DEF Stop, WatchTypeOK, Looking, NobodyCallsOff
<1>6. ASSUME NEW k \in Sockets, NEW h \in Handlers, CountWatchers(k, h) PROVE NobodyCallsOff'
  BY <1>6, WatchAssumption
  DEF CountWatchers, WatchAssumption, WatchTypeOK, Looking, LookersListed, NobodyCallsOff
<1>7. ASSUME NEW k \in Sockets, NEW h \in Handlers, Sync(k, h) PROVE NobodyCallsOff'
  BY <1>7 DEF Sync, Looking, NobodyCallsOff
<1>8. ASSUME NEW s \in Gateways, Beat(s) PROVE NobodyCallsOff'
  BY <1>8 DEF Beat, Looking, NobodyCallsOff
<1>9. ASSUME NEW s \in Gateways, Emit(s) PROVE NobodyCallsOff'
  BY <1>9 DEF Emit, Looking, NobodyCallsOff
<1>10. ASSUME NEW s \in Gateways, Crash(s) PROVE NobodyCallsOff'
  BY <1>10 DEF Crash, Looking, NobodyCallsOff
<1>11. ASSUME PhoneDrops PROVE NobodyCallsOff'
  BY <1>11 DEF PhoneDrops, Looking, NobodyCallsOff
<1>12. ASSUME PhoneConnects PROVE NobodyCallsOff'
  BY <1>12 DEF PhoneConnects, Looking, NobodyCallsOff
<1>13. ASSUME Minute PROVE NobodyCallsOff'
  BY <1>13 DEF Minute, NobodyCallsOff, Quiet
<1>14. CASE UNCHANGED watchVars
  BY <1>14 DEF watchVars, Looking, NobodyCallsOff
<1> QED
  BY <1>1, <1>2, <1>3, <1>4, <1>5, <1>6, <1>7, <1>8, <1>9, <1>10, <1>11, <1>12, <1>13, <1>14
  DEF WatchNext

\* The heartbeat finds the phone connected, and nobody calls it off.
LEMMA BeatArrivesStep ==
  ASSUME WatchTypeOK, NobodyCallsOff, BeatArrives, [WatchNext]_watchVars
  PROVE  BeatArrives'
<1>1. ASSUME NEW k \in Sockets, NEW s \in Gateways, Connect(k, s) PROVE BeatArrives'
  BY <1>1 DEF Connect, Looking, BeatArrives
<1>2. ASSUME NEW k \in Sockets, WatchFriends(k) PROVE BeatArrives'
  BY <1>2 DEF WatchFriends, Looking, BeatArrives
<1>3. ASSUME NEW k \in Sockets, Drop(k) PROVE BeatArrives'
  BY <1>3 DEF Drop, Looking, BeatArrives
<1>4. ASSUME NEW k \in Sockets, NEW among \in BOOLEAN, Friends(k, among) PROVE BeatArrives'
  BY <1>4 DEF Friends, WatchTypeOK, Looking, BeatArrives
<1>5. ASSUME NEW k \in Sockets, NEW stays \in BOOLEAN, Stop(k, stays) PROVE BeatArrives'
  BY <1>5 DEF Stop, WatchTypeOK, Looking, BeatArrives
<1>6. ASSUME NEW k \in Sockets, NEW h \in Handlers, CountWatchers(k, h) PROVE BeatArrives'
  BY <1>6 DEF CountWatchers, Looking, BeatArrives
<1>7. ASSUME NEW k \in Sockets, NEW h \in Handlers, Sync(k, h) PROVE BeatArrives'
  BY <1>7 DEF Sync, Hears, Looking, NobodyCallsOff, BeatArrives
<1>8. ASSUME NEW s \in Gateways, Beat(s) PROVE BeatArrives'
  BY <1>8 DEF Beat, Looking, BeatArrives
<1>9. ASSUME NEW s \in Gateways, Emit(s) PROVE BeatArrives'
  BY <1>9 DEF Emit, Hears, BeatArrives
<1>10. ASSUME NEW s \in Gateways, Crash(s) PROVE BeatArrives'
  BY <1>10 DEF Crash, Looking, BeatArrives
<1>11. ASSUME PhoneDrops PROVE BeatArrives'
  BY <1>11 DEF PhoneDrops, BeatArrives
<1>12. ASSUME PhoneConnects PROVE BeatArrives'
  BY <1>12 DEF PhoneConnects, BeatArrives
<1>13. ASSUME Minute PROVE BeatArrives'
  BY <1>13 DEF Minute, WatchTypeOK, SocketStates, BeatArrives
<1>14. CASE UNCHANGED watchVars
  BY <1>14 DEF watchVars, Looking, BeatArrives
<1> QED
  BY <1>1, <1>2, <1>3, <1>4, <1>5, <1>6, <1>7, <1>8, <1>9, <1>10, <1>11, <1>12, <1>13, <1>14
  DEF WatchNext

\* A minute takes one heartbeat off what the last one gave.
LEMMA PhoneKeepsStep ==
  ASSUME WatchTypeOK, NobodyCallsOff, BeatArrives, PhoneKeeps, [WatchNext]_watchVars
  PROVE  PhoneKeeps'
<1>1. ASSUME NEW k \in Sockets, NEW s \in Gateways, Connect(k, s) PROVE PhoneKeeps'
  BY <1>1 DEF Connect, Looking, PhoneKeeps
<1>2. ASSUME NEW k \in Sockets, WatchFriends(k) PROVE PhoneKeeps'
  BY <1>2 DEF WatchFriends, Looking, PhoneKeeps
<1>3. ASSUME NEW k \in Sockets, Drop(k) PROVE PhoneKeeps'
  BY <1>3 DEF Drop, Looking, PhoneKeeps
<1>4. ASSUME NEW k \in Sockets, NEW among \in BOOLEAN, Friends(k, among) PROVE PhoneKeeps'
  BY <1>4 DEF Friends, WatchTypeOK, Looking, PhoneKeeps
<1>5. ASSUME NEW k \in Sockets, NEW stays \in BOOLEAN, Stop(k, stays) PROVE PhoneKeeps'
  BY <1>5 DEF Stop, WatchTypeOK, Looking, PhoneKeeps
<1>6. ASSUME NEW k \in Sockets, NEW h \in Handlers, CountWatchers(k, h) PROVE PhoneKeeps'
  BY <1>6 DEF CountWatchers, Looking, PhoneKeeps
<1>7. ASSUME NEW k \in Sockets, NEW h \in Handlers, Sync(k, h) PROVE PhoneKeeps'
  BY <1>7 DEF Sync, Hears, WatchTypeOK, SocketStates, Looking, NobodyCallsOff, PhoneKeeps
<1>8. ASSUME NEW s \in Gateways, Beat(s) PROVE PhoneKeeps'
  BY <1>8 DEF Beat, Looking, PhoneKeeps
<1>9. ASSUME NEW s \in Gateways, Emit(s) PROVE PhoneKeeps'
  BY <1>9 DEF Emit, Hears, WatchTypeOK, Looking, PhoneKeeps
<1>10. ASSUME NEW s \in Gateways, Crash(s) PROVE PhoneKeeps'
  BY <1>10 DEF Crash, Looking, PhoneKeeps
<1>11. ASSUME PhoneDrops PROVE PhoneKeeps'
  BY <1>11 DEF PhoneDrops, WatchTypeOK, PhoneKeeps
<1>12. ASSUME PhoneConnects PROVE PhoneKeeps'
  BY <1>12 DEF PhoneConnects, WatchTypeOK, SocketStates, PhoneKeeps
<1>13. ASSUME Minute PROVE PhoneKeeps'
  <2> SUFFICES ASSUME NEW k \in Sockets, Looking(k)', socket'[k].since >= 2, linked' = Long
               PROVE  phone' >= WatchTTL - 1
    BY DEF PhoneKeeps
  <2>1. Looking(k) /\ socket[k].since >= 1
    <3>1. Looking(k)
      BY <1>13 DEF Minute, Looking, WatchTypeOK, SocketStates
    <3>2. socket'[k].since = Later(socket[k].since) /\ socket[k].since \in 0 .. Long
      BY <1>13, <3>1 DEF Minute, WatchTypeOK, SocketStates
    <3> QED
      BY <3>1, <3>2 DEF Later, Long
  <2>2. linked >= 2
    BY <1>13 DEF Minute, Later, Long, WatchTypeOK
  <2>3. beat[socket[k].server] = "sent"
    BY <1>13 DEF Minute, WatchTypeOK, SocketStates
  <2>4. phone = WatchTTL
    BY <2>1, <2>2, <2>3 DEF BeatArrives
  <2> QED
    BY <1>13, <2>4, WatchAssumption DEF Minute, Forgets, Less, WatchAssumption
<1>14. CASE UNCHANGED watchVars
  BY <1>14 DEF watchVars, Looking, PhoneKeeps
<1> QED
  BY <1>1, <1>2, <1>3, <1>4, <1>5, <1>6, <1>7, <1>8, <1>9, <1>10, <1>11, <1>12, <1>13, <1>14
  DEF WatchNext

LEMMA WatchInitInv == WatchInit => WatchInv
<1> SUFFICES ASSUME WatchInit PROVE WatchInv
  OBVIOUS
<1>0. PICK s \in Gateways :
        socket = [k \in Sockets |->
                    [server |-> s, open |-> FALSE, watching |-> FALSE, since |-> 0]]
  BY DEF WatchInit
<1>1. WatchTypeOK
  <2>1. 0 \in 0 .. WatchTTL /\ 0 \in 0 .. MaxLooks /\ 0 \in 0 .. MaxFaults
    BY WatchAssumption DEF WatchAssumption
  <2>2. 0 \in 0 .. Long
    BY DEF Long
  <2>3. socket \in [Sockets -> SocketStates]
    BY <1>0, <2>2 DEF SocketStates
  <2>4. handler \in [Sockets -> [Handlers -> HandlerStates]]
    BY DEF WatchInit, HandlerStates
  <2> QED
    BY <2>1, <2>2, <2>3, <2>4 DEF WatchInit, WatchTypeOK
<1>2. \A k \in Sockets : ~Looking(k)
  BY <1>0 DEF Looking
<1>3. HandlersKnow /\ SpeakersLooked
  BY DEF WatchInit, HandlersKnow, SpeakersLooked, Handlers
<1>4. NotedFades
  BY WatchAssumption DEF WatchAssumption, WatchInit, NotedFades
<1> QED
  BY <1>1, <1>2, <1>3, <1>4
  DEF WatchInv, LookersListed, NobodyCallsOff, BeatArrives, PhoneKeeps

LEMMA WatchStep == WatchInv /\ [WatchNext]_watchVars => WatchInv'
BY WatchTypesStep, LookersListedStep, HandlersKnowStep, SpeakersLookedStep, NotedFadesStep,
   NobodyCallsOffStep, BeatArrivesStep, PhoneKeepsStep
DEF WatchInv

\* The phone measures often while somebody looks, and no longer than the entries last when
\* nobody does (watch, stopWatching, syncWatchMode, sendHeartbeat, setWatchMode), for any
\* number of sockets and servers, any faults, and any time to live of two heartbeats or more.
THEOREM PhoneIsTold == WatchSpec => []PhoneFollows
<1>1. WatchInv => PhoneFollows
  <2>1. ASSUME WatchInv, NEW k \in Sockets, Looking(k), socket[k].since = Long, linked = Long
        PROVE  phone > 0
    <3>1. phone >= WatchTTL - 1
      BY <2>1 DEF WatchInv, PhoneKeeps, Long
    <3> QED
      BY <2>1, <3>1, WatchAssumption DEF WatchInv, WatchTypeOK, WatchAssumption
  <2>2. ASSUME WatchInv, quiet = WatchTTL
        PROVE  phone = 0 /\ \A k \in Sockets : registry[k] = 0
    BY <2>2, WatchAssumption DEF WatchInv, WatchTypeOK, NotedFades, WatchAssumption
  <2> QED
    BY <2>1, <2>2 DEF PhoneFollows
<1> QED
  BY <1>1, WatchInitInv, WatchStep, PTL DEF WatchSpec

----------------------------------------------------------------------------
(* Tracking.                                                               *)

\* A call of the user says nothing before it has ended.
QuietUntilDone == toast # "nothing" => run["user"].pc = "idle"

\* Whoever is about to stop the collection, to start it again, was in front.
StopsInFront == \A r \in Runs : run[r].pc = "stop" => front \/ run[r].left

\* After a switch-off that nobody disturbed nothing is under way.
StaysOff ==
  /\ toast = "stopped" /\ ~raced =>
       /\ os = Off /\ wanted = "off" /\ handed = 0
       /\ \A r \in Runs : run[r].pc = "idle"
  /\ run["user"].pc = "unwant" /\ ~raced =>
       /\ os = Off /\ handed = 0
       /\ run["task"].pc = "idle"
       /\ \A r \in Resumes : run[r].pc \in {"idle", "ask"}

\* Who starts the collection again, or will see that it ended from the front.
Owes(r) ==
  \/ run[r].pc = "start" /\ (front \/ run[r].left)
  \/ run[r].pc = "verify" /\ run[r].left

\* While the user takes it for on, somebody owes a collection that is not there.
StaysOn ==
  (toast = "started" \/ run["user"].pc = "want") /\ os = Off /\ ~ended =>
    \E r \in Runs : Owes(r)

\* One function at a time changes the collection, or it is noted.
OneChanges ==
  ~mixed => \A r, q \in Runs : Changing(r) /\ Changing(q) => r = q

\* The rate measured at is the one noted, or the one about to be noted.
RateFits ==
  ~mixed =>
    /\ applied # Off /\ os # Off /\ (\A r \in Runs : run[r].pc # "verify") => applied = os
    /\ \A r \in Runs : run[r].pc = "verify" /\ os # Off => os = run[r].rate

TrackingInv ==
  /\ TrackingTypeOK /\ QuietUntilDone /\ StopsInFront /\ StaysOff /\ StaysOn
  /\ OneChanges /\ RateFits

\* The values of the variables stay in their sets.
LEMMA TrackingTypesStep ==
  ASSUME TrackingTypeOK, [TrackingNext]_trackingVars
  PROVE  TrackingTypeOK'
<1>0. Overlaps => raced' \in BOOLEAN /\ mixed' \in BOOLEAN
  BY DEF Overlaps
<1>1. ASSUME NEW r \in Runs, Check(r), Overlaps PROVE TrackingTypeOK'
  BY <1>1 DEF Check, TrackingTypeOK, RunStates, Overlaps
<1>2. ASSUME NEW r \in Runs, StopOld(r), Overlaps PROVE TrackingTypeOK'
  BY <1>2 DEF StopOld, TrackingTypeOK, RunStates, Overlaps
<1>3. ASSUME NEW r \in Runs, Start(r), Overlaps PROVE TrackingTypeOK'
  BY <1>3 DEF Start, TrackingTypeOK, RunStates, Overlaps
<1>4. ASSUME NEW r \in Runs, Refused(r), Overlaps PROVE TrackingTypeOK'
  BY <1>4, TrackingAssumption
  DEF TrackingAssumption, Refused, GivesUp, NoRun, TrackingTypeOK, RunStates, Overlaps
<1>5. ASSUME NEW r \in Runs, NotRunning(r), Overlaps PROVE TrackingTypeOK'
  BY <1>5, TrackingAssumption
  DEF TrackingAssumption, NotRunning, GivesUp, NoRun, TrackingTypeOK, RunStates, Overlaps
<1>6. ASSUME NEW r \in Runs, Verified(r), Overlaps PROVE TrackingTypeOK'
  BY <1>6, TrackingAssumption
  DEF TrackingAssumption, Verified, Noted, NoRun, RunAt, TrackingTypeOK, RunStates, Overlaps
<1>7. ASSUME Deliver, Overlaps PROVE TrackingTypeOK'
  BY <1>7, TrackingAssumption DEF TrackingAssumption, Deliver, TrackingTypeOK, Overlaps
<1>8. ASSUME Handle, Overlaps PROVE TrackingTypeOK'
  <2>1. handed' \in 0 .. MaxHanded
    BY <1>8, TrackingAssumption DEF Handle, TrackingAssumption, TrackingTypeOK
  <2> QED
    BY <1>0, <1>8, <2>1, TrackingAssumption
    DEF Handle, TrackingAssumption, Runs, NoRun, RunAt, TrackingTypeOK, RunStates
<1>9. ASSUME TaskFails, Overlaps PROVE TrackingTypeOK'
  BY <1>9, TrackingAssumption
  DEF TrackingAssumption, TaskFails, NoRun, TrackingTypeOK, RunStates, Overlaps
<1>10. ASSUME NEW rate \in Rates, Adapt(rate), Overlaps PROVE TrackingTypeOK'
  BY <1>10, TrackingAssumption
  DEF TrackingAssumption, Adapt, NoRun, RunAt, TrackingTypeOK, RunStates, Overlaps
<1>11. ASSUME TurnOn, Overlaps PROVE TrackingTypeOK'
  BY <1>11, TrackingAssumption
  DEF TrackingAssumption, TurnOn, NoRun, RunAt, TrackingTypeOK, RunStates, Overlaps
<1>12. ASSUME AskedUser, Overlaps PROVE TrackingTypeOK'
  <2>1. RunAt("check") \in RunStates /\ NoRun \in RunStates
    BY TrackingAssumption DEF TrackingAssumption, RunAt, NoRun, RunStates
  <2>2. run' \in [Runs -> RunStates]
    BY <1>12, <2>1 DEF AskedUser, TrackingTypeOK, Runs
  <2>3. toast' \in {"nothing", "started", "stopped", "error"} /\ ended' \in BOOLEAN
    BY <1>12 DEF AskedUser, TrackingTypeOK
  <2> QED
    BY <1>0, <1>12, <2>2, <2>3 DEF AskedUser, TrackingTypeOK
<1>13. ASSUME Want, Overlaps PROVE TrackingTypeOK'
  BY <1>13, TrackingAssumption
  DEF TrackingAssumption, Want, NoRun, TrackingTypeOK, RunStates, Overlaps
<1>14. ASSUME TurnOff, Overlaps PROVE TrackingTypeOK'
  BY <1>14, TrackingAssumption
  DEF TrackingAssumption, TurnOff, NoRun, RunAt, TrackingTypeOK, RunStates, Overlaps
<1>15. ASSUME SwitchOff, Overlaps PROVE TrackingTypeOK'
  BY <1>15 DEF SwitchOff, TrackingTypeOK, RunStates, Overlaps
<1>16. ASSUME SwitchFails, Overlaps PROVE TrackingTypeOK'
  BY <1>16, TrackingAssumption
  DEF TrackingAssumption, SwitchFails, NoRun, TrackingTypeOK, RunStates, Overlaps
<1>17. ASSUME Unwant, Overlaps PROVE TrackingTypeOK'
  BY <1>17, TrackingAssumption
  DEF TrackingAssumption, Unwant, Remembered, NoRun, TrackingTypeOK, RunStates, Overlaps
<1>18. ASSUME NEW r \in Resumes, Resume(r), Overlaps PROVE TrackingTypeOK'
  BY <1>18, TrackingAssumption
  DEF TrackingAssumption, Resume, NoRun, RunAt, TrackingTypeOK, RunStates, Overlaps
<1>19. ASSUME NEW r \in Resumes, AskedResume(r), Overlaps PROVE TrackingTypeOK'
  BY <1>19, TrackingAssumption
  DEF TrackingAssumption, AskedResume, NoRun, RunAt, TrackingTypeOK, RunStates, Overlaps
<1>20. ASSUME NEW r \in Resumes, Permitted(r), Overlaps PROVE TrackingTypeOK'
  BY <1>20, TrackingAssumption
  DEF TrackingAssumption, Permitted, NoRun, RunAt, TrackingTypeOK, RunStates, Overlaps
<1>21. ASSUME ToFront, Overlaps PROVE TrackingTypeOK'
  BY <1>21 DEF ToFront, TrackingTypeOK, Overlaps
<1>22. ASSUME ToBack, Overlaps PROVE TrackingTypeOK'
  BY <1>22 DEF ToBack, TrackingTypeOK, RunStates, Overlaps
<1>23. ASSUME NEW forced \in BOOLEAN, ProcessEnds(forced), Overlaps PROVE TrackingTypeOK'
  <2>1. os' \in Rates \cup {Off} /\ run' \in [Runs -> RunStates] /\ handed' \in 0 .. MaxHanded
    BY <1>23, TrackingAssumption
    DEF ProcessEnds, TrackingAssumption, TrackingTypeOK, RunStates, NoRun
  <2>2. ended' \in BOOLEAN
    BY <1>23 DEF ProcessEnds
  <2> QED
    BY <1>0, <1>23, <2>1, <2>2 DEF ProcessEnds, TrackingTypeOK
<1>24. CASE UNCHANGED trackingVars
  BY <1>24 DEF trackingVars, TrackingAssumption, TrackingTypeOK
<1> QED
  BY <1>1, <1>2, <1>3, <1>4, <1>5, <1>6, <1>7, <1>8, <1>9, <1>10, <1>11, <1>12, <1>13,
     <1>14, <1>15, <1>16, <1>17, <1>18, <1>19, <1>20, <1>21, <1>22, <1>23, <1>24
  DEF TrackingNext, TrackingSteps

\* Only the last step of a call of the user says how it went.
LEMMA QuietUntilDoneStep ==
  ASSUME TrackingTypeOK, QuietUntilDone, [TrackingNext]_trackingVars
  PROVE  QuietUntilDone'
<1>1. ASSUME NEW r \in Runs, Check(r) PROVE QuietUntilDone'
  BY <1>1 DEF Check, QuietUntilDone
<1>2. ASSUME NEW r \in Runs, StopOld(r) PROVE QuietUntilDone'
  BY <1>2 DEF StopOld, QuietUntilDone
<1>3. ASSUME NEW r \in Runs, Start(r) PROVE QuietUntilDone'
  BY <1>3 DEF Start, QuietUntilDone
<1>4. ASSUME NEW r \in Runs, Refused(r) PROVE QuietUntilDone'
  BY <1>4 DEF Refused, GivesUp, NoRun, TrackingTypeOK, QuietUntilDone
<1>5. ASSUME NEW r \in Runs, NotRunning(r) PROVE QuietUntilDone'
  BY <1>5 DEF NotRunning, GivesUp, NoRun, TrackingTypeOK, QuietUntilDone
<1>6. ASSUME NEW r \in Runs, Verified(r) PROVE QuietUntilDone'
  BY <1>6 DEF Verified, QuietUntilDone
<1>7. ASSUME Deliver PROVE QuietUntilDone'
  BY <1>7 DEF Deliver, QuietUntilDone
<1>8. ASSUME Handle PROVE QuietUntilDone'
  BY <1>8 DEF Handle, QuietUntilDone
<1>9. ASSUME TaskFails PROVE QuietUntilDone'
  BY <1>9 DEF TaskFails, QuietUntilDone
<1>10. ASSUME NEW rate \in Rates, Adapt(rate) PROVE QuietUntilDone'
  BY <1>10 DEF Adapt, QuietUntilDone
<1>11. ASSUME TurnOn PROVE QuietUntilDone'
  BY <1>11 DEF TurnOn, QuietUntilDone
<1>12. ASSUME AskedUser PROVE QuietUntilDone'
  BY <1>12 DEF AskedUser, Runs, NoRun, TrackingTypeOK, QuietUntilDone
<1>13. ASSUME Want PROVE QuietUntilDone'
  BY <1>13 DEF Want, Runs, NoRun, TrackingTypeOK, QuietUntilDone
<1>14. ASSUME TurnOff PROVE QuietUntilDone'
  BY <1>14 DEF TurnOff, QuietUntilDone
<1>15. ASSUME SwitchOff PROVE QuietUntilDone'
  BY <1>15 DEF SwitchOff, QuietUntilDone
<1>16. ASSUME SwitchFails PROVE QuietUntilDone'
  BY <1>16 DEF SwitchFails, QuietUntilDone
<1>17. ASSUME Unwant PROVE QuietUntilDone'
  BY <1>17 DEF Unwant, Runs, NoRun, TrackingTypeOK, QuietUntilDone
<1>18. ASSUME NEW r \in Resumes, Resume(r) PROVE QuietUntilDone'
  BY <1>18, TrackingAssumption DEF TrackingAssumption, Resume, QuietUntilDone
<1>19. ASSUME NEW r \in Resumes, AskedResume(r) PROVE QuietUntilDone'
  BY <1>19 DEF AskedResume, QuietUntilDone
<1>20. ASSUME NEW r \in Resumes, Permitted(r) PROVE QuietUntilDone'
  BY <1>20 DEF Permitted, QuietUntilDone
<1>21. ASSUME ToFront PROVE QuietUntilDone'
  BY <1>21 DEF ToFront, QuietUntilDone
<1>22. ASSUME ToBack PROVE QuietUntilDone'
  BY <1>22 DEF ToBack, Runs, QuietUntilDone
<1>23. ASSUME NEW forced \in BOOLEAN, ProcessEnds(forced) PROVE QuietUntilDone'
  BY <1>23 DEF ProcessEnds, Runs, NoRun, QuietUntilDone
<1>24. CASE UNCHANGED trackingVars
  BY <1>24 DEF trackingVars, TrackingAssumption, QuietUntilDone
<1> QED
  BY <1>1, <1>2, <1>3, <1>4, <1>5, <1>6, <1>7, <1>8, <1>9, <1>10, <1>11, <1>12, <1>13,
     <1>14, <1>15, <1>16, <1>17, <1>18, <1>19, <1>20, <1>21, <1>22, <1>23, <1>24
  DEF TrackingNext, TrackingSteps

\* What runs is stopped in front only, and leaving the front is noted.
LEMMA StopsInFrontStep ==
  ASSUME TrackingTypeOK, StopsInFront, [TrackingNext]_trackingVars
  PROVE  StopsInFront'
<1>1. ASSUME NEW r \in Runs, Check(r) PROVE StopsInFront'
  BY <1>1 DEF Check, Restarts, StopsInFront
<1>2. ASSUME NEW r \in Runs, StopOld(r) PROVE StopsInFront'
  BY <1>2 DEF StopOld, StopsInFront
<1>3. ASSUME NEW r \in Runs, Start(r) PROVE StopsInFront'
  BY <1>3 DEF Start, StopsInFront
<1>4. ASSUME NEW r \in Runs, Refused(r) PROVE StopsInFront'
  BY <1>4 DEF Refused, GivesUp, NoRun, StopsInFront
<1>5. ASSUME NEW r \in Runs, NotRunning(r) PROVE StopsInFront'
  BY <1>5 DEF NotRunning, GivesUp, NoRun, StopsInFront
<1>6. ASSUME NEW r \in Runs, Verified(r) PROVE StopsInFront'
  BY <1>6 DEF Verified, NoRun, RunAt, StopsInFront
<1>7. ASSUME Deliver PROVE StopsInFront'
  BY <1>7 DEF Deliver, StopsInFront
<1>8. ASSUME Handle PROVE StopsInFront'
  BY <1>8 DEF Handle, RunAt, StopsInFront
<1>9. ASSUME TaskFails PROVE StopsInFront'
  BY <1>9 DEF TaskFails, NoRun, StopsInFront
<1>10. ASSUME NEW rate \in Rates, Adapt(rate) PROVE StopsInFront'
  BY <1>10 DEF Adapt, NoRun, RunAt, StopsInFront
<1>11. ASSUME TurnOn PROVE StopsInFront'
  BY <1>11 DEF TurnOn, StopsInFront
<1>12. ASSUME AskedUser PROVE StopsInFront'
  BY <1>12 DEF AskedUser, NoRun, RunAt, TrackingTypeOK, StopsInFront
<1>13. ASSUME Want PROVE StopsInFront'
  BY <1>13 DEF Want, NoRun, StopsInFront
<1>14. ASSUME TurnOff PROVE StopsInFront'
  BY <1>14 DEF TurnOff, StopsInFront
<1>15. ASSUME SwitchOff PROVE StopsInFront'
  BY <1>15 DEF SwitchOff, StopsInFront
<1>16. ASSUME SwitchFails PROVE StopsInFront'
  BY <1>16 DEF SwitchFails, NoRun, StopsInFront
<1>17. ASSUME Unwant PROVE StopsInFront'
  BY <1>17 DEF Unwant, NoRun, StopsInFront
<1>18. ASSUME NEW r \in Resumes, Resume(r) PROVE StopsInFront'
  BY <1>18 DEF Resume, RunAt, StopsInFront
<1>19. ASSUME NEW r \in Resumes, AskedResume(r) PROVE StopsInFront'
  BY <1>19 DEF AskedResume, NoRun, RunAt, StopsInFront
<1>20. ASSUME NEW r \in Resumes, Permitted(r) PROVE StopsInFront'
  BY <1>20 DEF Permitted, NoRun, StopsInFront
<1>21. ASSUME ToFront PROVE StopsInFront'
  BY <1>21 DEF ToFront, StopsInFront
<1>22. ASSUME ToBack PROVE StopsInFront'
  BY <1>22 DEF ToBack, StopsInFront
<1>23. ASSUME NEW forced \in BOOLEAN, ProcessEnds(forced) PROVE StopsInFront'
  BY <1>23 DEF ProcessEnds, NoRun, StopsInFront
<1>24. CASE UNCHANGED trackingVars
  BY <1>24 DEF trackingVars, TrackingAssumption, StopsInFront
<1> QED
  BY <1>1, <1>2, <1>3, <1>4, <1>5, <1>6, <1>7, <1>8, <1>9, <1>10, <1>11, <1>12, <1>13,
     <1>14, <1>15, <1>16, <1>17, <1>18, <1>19, <1>20, <1>21, <1>22, <1>23, <1>24
  DEF TrackingNext, TrackingSteps

\* With nothing under way, nothing starts it again.
LEMMA StaysOffStep ==
  ASSUME TrackingTypeOK, QuietUntilDone, StaysOff, [TrackingNext]_trackingVars
  PROVE  StaysOff'
<1>1. ASSUME NEW r \in Runs, Check(r), Overlaps PROVE StaysOff'
  BY <1>1 DEF Check, StaysOff, Overlaps
<1>2. ASSUME NEW r \in Runs, StopOld(r), Overlaps PROVE StaysOff'
  BY <1>2 DEF StopOld, StaysOff, Overlaps
<1>3. ASSUME NEW r \in Runs, Start(r), Overlaps PROVE StaysOff'
  BY <1>3 DEF Start, StaysOff, Overlaps, Stopping
<1>4. ASSUME NEW r \in Runs, Refused(r), Overlaps PROVE StaysOff'
  BY <1>4 DEF Refused, GivesUp, NoRun, StaysOff, Overlaps
<1>5. ASSUME NEW r \in Runs, NotRunning(r), Overlaps PROVE StaysOff'
  BY <1>5 DEF NotRunning, GivesUp, NoRun, StaysOff, Overlaps
<1>6. ASSUME NEW r \in Runs, Verified(r), Overlaps PROVE StaysOff'
  BY <1>6 DEF Verified, RunAt, StaysOff, Overlaps
<1>7. ASSUME Deliver, Overlaps PROVE StaysOff'
  BY <1>7 DEF Deliver, StaysOff, Overlaps
<1>8. ASSUME Handle, Overlaps PROVE StaysOff'
  BY <1>8 DEF Handle, StaysOff, Overlaps
<1>9. ASSUME TaskFails, Overlaps PROVE StaysOff'
  BY <1>9 DEF TaskFails, StaysOff, Overlaps
<1>10. ASSUME NEW rate \in Rates, Adapt(rate), Overlaps PROVE StaysOff'
  BY <1>10 DEF Adapt, StaysOff, Overlaps
<1>11. ASSUME TurnOn, Overlaps PROVE StaysOff'
  BY <1>11 DEF TurnOn, RunAt, StaysOff
<1>12. ASSUME AskedUser, Overlaps PROVE StaysOff'
  BY <1>12 DEF AskedUser, NoRun, RunAt, TrackingTypeOK, StaysOff, QuietUntilDone
<1>13. ASSUME Want, Overlaps PROVE StaysOff'
  BY <1>13 DEF Want, NoRun, StaysOff
<1>14. ASSUME TurnOff, Overlaps PROVE StaysOff'
  BY <1>14 DEF TurnOff, RunAt, StaysOff
<1>15. ASSUME SwitchOff, Overlaps PROVE StaysOff'
  BY <1>15, TrackingAssumption
  DEF TrackingAssumption, SwitchOff, Runs, TrackingTypeOK, StaysOff, Overlaps, Stopping
<1>16. ASSUME SwitchFails, Overlaps PROVE StaysOff'
  BY <1>16 DEF SwitchFails, NoRun, StaysOff, QuietUntilDone
<1>17. ASSUME Unwant, Overlaps PROVE StaysOff'
  BY <1>17 DEF Unwant, Remembered, NoRun, TrackingTypeOK, StaysOff, Overlaps, Stopping
<1>18. ASSUME NEW r \in Resumes, Resume(r), Overlaps PROVE StaysOff'
  BY <1>18, TrackingAssumption DEF TrackingAssumption, Resume, RunAt, StaysOff, Overlaps
<1>19. ASSUME NEW r \in Resumes, AskedResume(r), Overlaps PROVE StaysOff'
  BY <1>19 DEF AskedResume, NoRun, RunAt, TrackingTypeOK, StaysOff, Overlaps, Stopping
<1>20. ASSUME NEW r \in Resumes, Permitted(r), Overlaps PROVE StaysOff'
  BY <1>20 DEF Permitted, NoRun, RunAt, StaysOff, Overlaps
<1>21. ASSUME ToFront, Overlaps PROVE StaysOff'
  BY <1>21 DEF ToFront, StaysOff, Overlaps
<1>22. ASSUME ToBack, Overlaps PROVE StaysOff'
  BY <1>22 DEF ToBack, Runs, StaysOff, Overlaps
<1>23. ASSUME NEW forced \in BOOLEAN, ProcessEnds(forced), Overlaps PROVE StaysOff'
  BY <1>23 DEF ProcessEnds, Runs, NoRun, StaysOff, Overlaps
<1>24. CASE UNCHANGED trackingVars
  BY <1>24 DEF trackingVars, TrackingAssumption, StaysOff
<1> QED
  BY <1>1, <1>2, <1>3, <1>4, <1>5, <1>6, <1>7, <1>8, <1>9, <1>10, <1>11, <1>12, <1>13,
     <1>14, <1>15, <1>16, <1>17, <1>18, <1>19, <1>20, <1>21, <1>22, <1>23, <1>24
  DEF TrackingNext, TrackingSteps

\* A function that owes the collection passes that on to nobody: it starts, or gives up.
LEMMA StaysOnStep ==
  ASSUME TrackingTypeOK, QuietUntilDone, StopsInFront, StaysOn, [TrackingNext]_trackingVars
  PROVE  StaysOn'
<1>1. ASSUME NEW r \in Runs, Check(r) PROVE StaysOn'
  BY <1>1 DEF Check, StaysOn, Owes
<1>2. ASSUME NEW r \in Runs, StopOld(r) PROVE StaysOn'
  BY <1>2 DEF StopOld, TrackingTypeOK, StaysOn, Owes, StopsInFront
<1>3. ASSUME NEW r \in Runs, Start(r) PROVE StaysOn'
  BY <1>3, TrackingAssumption
  DEF TrackingAssumption, Start, TrackingTypeOK, RunStates, StaysOn, Owes
<1>4. ASSUME NEW r \in Runs, Refused(r) PROVE StaysOn'
  BY <1>4 DEF Refused, GivesUp, Runs, NoRun, TrackingTypeOK, StaysOn, Owes
<1>5. ASSUME NEW r \in Runs, NotRunning(r) PROVE StaysOn'
  BY <1>5 DEF NotRunning, GivesUp, Runs, NoRun, TrackingTypeOK, StaysOn, Owes
<1>6. ASSUME NEW r \in Runs, Verified(r) PROVE StaysOn'
  BY <1>6 DEF Verified, StaysOn
<1>7. ASSUME Deliver PROVE StaysOn'
  BY <1>7 DEF Deliver, StaysOn
<1>8. ASSUME Handle PROVE StaysOn'
  BY <1>8 DEF Handle, StaysOn, Owes
<1>9. ASSUME TaskFails PROVE StaysOn'
  BY <1>9 DEF TaskFails, StaysOn, Owes
<1>10. ASSUME NEW rate \in Rates, Adapt(rate) PROVE StaysOn'
  BY <1>10 DEF Adapt, StaysOn, Owes
<1>11. ASSUME TurnOn PROVE StaysOn'
  BY <1>11 DEF TurnOn, RunAt, StaysOn
<1>12. ASSUME AskedUser PROVE StaysOn'
  BY <1>12 DEF AskedUser, NoRun, RunAt, TrackingTypeOK, StaysOn, Owes
<1>13. ASSUME Want PROVE StaysOn'
  BY <1>13 DEF Want, StaysOn, Owes
<1>14. ASSUME TurnOff PROVE StaysOn'
  BY <1>14 DEF TurnOff, RunAt, StaysOn
<1>15. ASSUME SwitchOff PROVE StaysOn'
  BY <1>15 DEF SwitchOff, StaysOn, QuietUntilDone
<1>16. ASSUME SwitchFails PROVE StaysOn'
  BY <1>16 DEF SwitchFails, NoRun, StaysOn, Owes
<1>17. ASSUME Unwant PROVE StaysOn'
  BY <1>17 DEF Unwant, NoRun, StaysOn
<1>18. ASSUME NEW r \in Resumes, Resume(r) PROVE StaysOn'
  BY <1>18 DEF Resume, RunAt, StaysOn, Owes
<1>19. ASSUME NEW r \in Resumes, AskedResume(r) PROVE StaysOn'
  BY <1>19 DEF AskedResume, RunAt, StaysOn, Owes
<1>20. ASSUME NEW r \in Resumes, Permitted(r) PROVE StaysOn'
  BY <1>20 DEF Permitted, NoRun, RunAt, StaysOn, Owes
<1>21. ASSUME ToFront PROVE StaysOn'
  BY <1>21 DEF ToFront, StaysOn, Owes
<1>22. ASSUME ToBack PROVE StaysOn'
  BY <1>22 DEF ToBack, Runs, StaysOn, Owes
<1>23. ASSUME NEW forced \in BOOLEAN, ProcessEnds(forced) PROVE StaysOn'
  BY <1>23 DEF ProcessEnds, Between, Runs, NoRun, StaysOn, Owes
<1>24. CASE UNCHANGED trackingVars
  BY <1>24 DEF trackingVars, TrackingAssumption, StaysOn, Owes
<1> QED
  BY <1>1, <1>2, <1>3, <1>4, <1>5, <1>6, <1>7, <1>8, <1>9, <1>10, <1>11, <1>12, <1>13,
     <1>14, <1>15, <1>16, <1>17, <1>18, <1>19, <1>20, <1>21, <1>22, <1>23, <1>24
  DEF TrackingNext, TrackingSteps

\* A second function that begins to change the collection is noted (Overlaps).
LEMMA OneChangesStep ==
  ASSUME TrackingTypeOK, OneChanges, [TrackingNext]_trackingVars
  PROVE  OneChanges'
<1>1. ASSUME NEW r \in Runs, Check(r), Overlaps PROVE OneChanges'
  BY <1>1 DEF Check, OneChanges, Overlaps
<1>2. ASSUME NEW r \in Runs, StopOld(r), Overlaps PROVE OneChanges'
  BY <1>2 DEF StopOld, OneChanges, Overlaps
<1>3. ASSUME NEW r \in Runs, Start(r), Overlaps PROVE OneChanges'
  BY <1>3 DEF Start, OneChanges, Overlaps
<1>4. ASSUME NEW r \in Runs, Refused(r), Overlaps PROVE OneChanges'
  BY <1>4 DEF Refused, OneChanges, Changing, Overlaps
<1>5. ASSUME NEW r \in Runs, NotRunning(r), Overlaps PROVE OneChanges'
  BY <1>5 DEF NotRunning, OneChanges, Changing, Overlaps
<1>6. ASSUME NEW r \in Runs, Verified(r), Overlaps PROVE OneChanges'
  BY <1>6 DEF Verified, OneChanges, Changing, Overlaps
<1>7. ASSUME Deliver, Overlaps PROVE OneChanges'
  BY <1>7 DEF Deliver, OneChanges, Changing, Overlaps
<1>8. ASSUME Handle, Overlaps PROVE OneChanges'
  BY <1>8 DEF Handle, OneChanges, Changing, Overlaps
<1>9. ASSUME TaskFails, Overlaps PROVE OneChanges'
  BY <1>9 DEF TaskFails, OneChanges, Changing, Overlaps
<1>10. ASSUME NEW rate \in Rates, Adapt(rate), Overlaps PROVE OneChanges'
  BY <1>10 DEF Adapt, OneChanges, Changing, Overlaps
<1>11. ASSUME TurnOn, Overlaps PROVE OneChanges'
  BY <1>11 DEF TurnOn, OneChanges, Changing, Overlaps
<1>12. ASSUME AskedUser, Overlaps PROVE OneChanges'
  BY <1>12 DEF AskedUser, OneChanges, Changing, Overlaps
<1>13. ASSUME Want, Overlaps PROVE OneChanges'
  BY <1>13 DEF Want, OneChanges, Changing, Overlaps
<1>14. ASSUME TurnOff, Overlaps PROVE OneChanges'
  BY <1>14 DEF TurnOff, OneChanges, Changing, Overlaps
<1>15. ASSUME SwitchOff, Overlaps PROVE OneChanges'
  BY <1>15 DEF SwitchOff, OneChanges, Changing, Overlaps
<1>16. ASSUME SwitchFails, Overlaps PROVE OneChanges'
  BY <1>16 DEF SwitchFails, OneChanges, Changing, Overlaps
<1>17. ASSUME Unwant, Overlaps PROVE OneChanges'
  BY <1>17 DEF Unwant, OneChanges, Changing, Overlaps
<1>18. ASSUME NEW r \in Resumes, Resume(r), Overlaps PROVE OneChanges'
  BY <1>18 DEF Resume, OneChanges, Changing, Overlaps
<1>19. ASSUME NEW r \in Resumes, AskedResume(r), Overlaps PROVE OneChanges'
  BY <1>19 DEF AskedResume, OneChanges, Changing, Overlaps
<1>20. ASSUME NEW r \in Resumes, Permitted(r), Overlaps PROVE OneChanges'
  BY <1>20 DEF Permitted, OneChanges, Changing, Overlaps
<1>21. ASSUME ToFront, Overlaps PROVE OneChanges'
  BY <1>21 DEF ToFront, OneChanges, Changing, Overlaps
<1>22. ASSUME ToBack, Overlaps PROVE OneChanges'
  BY <1>22 DEF ToBack, OneChanges, Changing, Overlaps
<1>23. ASSUME NEW forced \in BOOLEAN, ProcessEnds(forced), Overlaps PROVE OneChanges'
  BY <1>23 DEF ProcessEnds, OneChanges, Changing, Overlaps
<1>24. CASE UNCHANGED trackingVars
  BY <1>24 DEF trackingVars, TrackingAssumption, OneChanges, Changing, Stopping
<1> QED
  BY <1>1, <1>2, <1>3, <1>4, <1>5, <1>6, <1>7, <1>8, <1>9, <1>10, <1>11, <1>12, <1>13,
     <1>14, <1>15, <1>16, <1>17, <1>18, <1>19, <1>20, <1>21, <1>22, <1>23, <1>24
  DEF TrackingNext, TrackingSteps

\* Only the function that started the collection notes the rate.
LEMMA RateFitsStep ==
  ASSUME TrackingTypeOK, OneChanges, RateFits, [TrackingNext]_trackingVars
  PROVE  RateFits'
<1>1. ASSUME NEW r \in Runs, Check(r), Overlaps PROVE RateFits'
  BY <1>1 DEF Check, RateFits, Overlaps
<1>2. ASSUME NEW r \in Runs, StopOld(r), Overlaps PROVE RateFits'
  BY <1>2 DEF StopOld, RateFits
<1>3. ASSUME NEW r \in Runs, Start(r), Overlaps PROVE RateFits'
  BY <1>3 DEF Start, TrackingTypeOK, RateFits, Changing, Overlaps
<1>4. ASSUME NEW r \in Runs, Refused(r), Overlaps PROVE RateFits'
  BY <1>4 DEF Refused, GivesUp, NoRun, RateFits, Overlaps
<1>5. ASSUME NEW r \in Runs, NotRunning(r), Overlaps PROVE RateFits'
  BY <1>5 DEF NotRunning, RateFits
<1>6. ASSUME NEW r \in Runs, Verified(r), Overlaps PROVE RateFits'
  BY <1>6 DEF Verified, Noted, NoRun, RunAt, RateFits, Overlaps
<1>7. ASSUME Deliver, Overlaps PROVE RateFits'
  BY <1>7 DEF Deliver, RateFits, Overlaps
<1>8. ASSUME Handle, Overlaps PROVE RateFits'
  BY <1>8 DEF Handle, RunAt, RateFits, Overlaps
<1>9. ASSUME TaskFails, Overlaps PROVE RateFits'
  BY <1>9 DEF TaskFails, NoRun, RateFits, Overlaps
<1>10. ASSUME NEW rate \in Rates, Adapt(rate), Overlaps PROVE RateFits'
  BY <1>10 DEF Adapt, NoRun, RunAt, RateFits, Overlaps
<1>11. ASSUME TurnOn, Overlaps PROVE RateFits'
  BY <1>11 DEF TurnOn, RunAt, RateFits, Overlaps
<1>12. ASSUME AskedUser, Overlaps PROVE RateFits'
  BY <1>12 DEF AskedUser, NoRun, TrackingTypeOK, RateFits, Overlaps
<1>13. ASSUME Want, Overlaps PROVE RateFits'
  BY <1>13 DEF Want, NoRun, RateFits, Overlaps
<1>14. ASSUME TurnOff, Overlaps PROVE RateFits'
  BY <1>14 DEF TurnOff, RunAt, RateFits, Overlaps
<1>15. ASSUME SwitchOff, Overlaps PROVE RateFits'
  BY <1>15 DEF SwitchOff, RateFits
<1>16. ASSUME SwitchFails, Overlaps PROVE RateFits'
  BY <1>16 DEF SwitchFails, NoRun, RateFits, Overlaps
<1>17. ASSUME Unwant, Overlaps PROVE RateFits'
  BY <1>17 DEF Unwant, NoRun, RateFits, Overlaps
<1>18. ASSUME NEW r \in Resumes, Resume(r), Overlaps PROVE RateFits'
  BY <1>18 DEF Resume, RunAt, RateFits, Overlaps
<1>19. ASSUME NEW r \in Resumes, AskedResume(r), Overlaps PROVE RateFits'
  BY <1>19 DEF AskedResume, NoRun, RateFits, Overlaps
<1>20. ASSUME NEW r \in Resumes, Permitted(r), Overlaps PROVE RateFits'
  BY <1>20 DEF Permitted, NoRun, RunAt, RateFits, Overlaps
<1>21. ASSUME ToFront, Overlaps PROVE RateFits'
  BY <1>21 DEF ToFront, RateFits, Overlaps
<1>22. ASSUME ToBack, Overlaps PROVE RateFits'
  <2>1. \A r \in Runs : run'[r].pc = run[r].pc /\ run'[r].rate = run[r].rate
    BY <1>22 DEF ToBack, TrackingTypeOK, RunStates
  <2>2. (~mixed' => ~mixed) \/ (applied' = Off /\ \A r \in Runs : run'[r].pc = "idle")
    BY <1>22 DEF Overlaps
  <2> QED
    BY <1>22, <2>1, <2>2 DEF ToBack, RateFits
<1>23. ASSUME NEW forced \in BOOLEAN, ProcessEnds(forced), Overlaps PROVE RateFits'
  BY <1>23 DEF ProcessEnds, NoRun, RateFits
<1>24. CASE UNCHANGED trackingVars
  BY <1>24 DEF trackingVars, TrackingAssumption, RateFits
<1> QED
  BY <1>1, <1>2, <1>3, <1>4, <1>5, <1>6, <1>7, <1>8, <1>9, <1>10, <1>11, <1>12, <1>13,
     <1>14, <1>15, <1>16, <1>17, <1>18, <1>19, <1>20, <1>21, <1>22, <1>23, <1>24
  DEF TrackingNext, TrackingSteps

LEMMA TrackingInitInv == TrackingInit => TrackingInv
<1>1. ASSUME TrackingInit PROVE TrackingTypeOK
  <2>1. NoRun \in RunStates /\ 0 \in 0 .. MaxHanded
    BY TrackingAssumption DEF TrackingAssumption, NoRun, RunStates
  <2>2. run \in [Runs -> RunStates]
    BY <1>1, <2>1 DEF TrackingInit
  <2> QED
    BY <1>1, <2>1, <2>2 DEF TrackingInit, TrackingTypeOK
<1>2. ASSUME TrackingInit PROVE \A r \in Runs : run[r].pc = "idle"
  BY <1>2 DEF TrackingInit, NoRun
<1>3. "user" \in Runs
  BY DEF Runs
<1> QED
  BY <1>1, <1>2, <1>3
  DEF TrackingInit, TrackingInv, QuietUntilDone, StopsInFront, StaysOff, StaysOn, OneChanges,
      RateFits, Changing, Stopping

LEMMA TrackingStep == TrackingInv /\ [TrackingNext]_trackingVars => TrackingInv'
BY TrackingTypesStep, QuietUntilDoneStep, StopsInFrontStep, StaysOffStep, StaysOnStep,
   OneChangesStep, RateFitsStep
DEF TrackingInv

\* The collection of positions is on from the moment the user is told so until it is said to
\* be off, and not after, apart from what the history variables excuse
\* (startBackgroundTracking, stopBackgroundTracking, applyAdaptiveInterval), for any rates, any
\* number of resumptions at a time and any number of batches waiting.
THEOREM CollectedAsTold == TrackingSpec => []CollectsAsTold
<1>1. TrackingInv => CollectsAsTold
  <2>1. ASSUME TrackingInv, toast = "stopped", ~raced PROVE os = Off
    BY <2>1 DEF TrackingInv, StaysOff
  <2>2. ASSUME TrackingInv, toast = "started", os = Off PROVE ended \/ Between
    BY <2>2 DEF TrackingInv, StaysOn, Owes, Between
  <2>3. ASSUME TrackingInv, applied # Off, os # Off, ~mixed, \A r \in Runs : ~Changing(r)
        PROVE  applied = os
    BY <2>3 DEF TrackingInv, RateFits, Changing
  <2> QED
    BY <2>1, <2>2, <2>3 DEF CollectsAsTold
<1> QED
  BY <1>1, TrackingInitInv, TrackingStep, PTL DEF TrackingSpec

----------------------------------------------------------------------------
(* Groups.                                                                 *)

\* What a call of each kind may be at.
PlanFits(c) ==
  \/ job[c].op = "none" /\ job[c] = NoJob
  \/ job[c].op \in {"invite", "join"} /\ job[c].pc \in {"count", "insert", "commit"}
  \/ /\ job[c].op = "leave"
     /\ \/ job[c].pc \in {"delete", "rest", "erase", "message", "commit"}
        \/ job[c].owned /\ job[c].pc \in {"alone", "handOver", "heir"}
  \/ job[c].op = "setRole" /\ job[c].pc = "update" /\ job[c].rank # "owner"
  \/ job[c].op = "transfer" /\ job[c].pc \in {"target", "self", "owner", "message", "commit"}
  \/ /\ job[c].op = "kick" /\ job[c].pc \in {"standing", "delete", "message", "commit"}
     /\ \E v \in People : job[c].who = {v}
  \/ job[c].op = "settings" /\ job[c].pc = "standing" /\ job[c].who = {}
  \/ job[c].op = "remove" /\ job[c].pc \in {"erase", "commit"}
  \/ job[c].op = "link" /\ job[c].pc \in {"revoke", "reuse"}

\* What a transaction has changed: it takes in who was not there, and promotes who was.
RowsFit(c) ==
  /\ job[c].heir # Nobody => HandsOver(job[c])
  /\ job[c].gone => job[c].pc = "commit"
  /\ \A u \in People :
       /\ job[c].row[u] = "member" =>
            /\ job[c].op \in {"invite", "join"} /\ job[c].pc = "commit"
            /\ u \in job[c].who /\ role[u] = "none"
       /\ job[c].row[u] \in {"owner", "admin"} => HandsOver(job[c]) /\ role[u] # "none"
       /\ job[c].row[u] = "none" => job[c].op \in {"leave", "kick"}

\* Who hands the group over is still its owner.
OwnerAsRead(c) == HandsOver(job[c]) => group.owner = job[c].me

\* The owner is not put out by others.
OwnerStays(c) ==
  ~HandsOver(job[c]) =>
    \A u \in People :
      job[c].row[u] = "none" \/ (job[c].pc = "delete" /\ u \in job[c].who) =>
        role[u] # "owner"

\* How far a transfer to v is.
TransfersTo(c, v) ==
  /\ ~job[c].gone
  /\ job[c].who = {v}
  /\ job[c].row[v] = IF job[c].pc = "target" THEN "same" ELSE "owner"
  /\ job[c].row[job[c].me] = IF job[c].pc \in {"target", "self"} THEN "same" ELSE "admin"
  /\ \A u \in People \ {v, job[c].me} : job[c].row[u] = "same"
  /\ job[c].heir = IF job[c].pc \in {"message", "commit"} THEN v ELSE Nobody

TransferFits(c) ==
  job[c].op = "transfer" => \E v \in People \ {job[c].me} : TransfersTo(c, v)

\* How far an owner is who leaves: alone, the last one there, or with an heir.
LeavesAlone(c) ==
  /\ job[c].pc \in {"alone", "delete"} /\ ~job[c].gone
  /\ job[c].who = {job[c].me}
  /\ job[c].heir = Nobody
  /\ \A u \in People : job[c].row[u] = "same"

LeavesLast(c) ==
  /\ job[c].pc \in {"rest", "erase", "commit"}
  /\ job[c].gone <=> job[c].pc = "commit"
  /\ job[c].row[job[c].me] = "none" \/ ~There
  /\ job[c].heir = Nobody
  /\ \A u \in People \ {job[c].me} : job[c].row[u] = "same"

LeavesTo(c, v) ==
  /\ job[c].pc \in {"handOver", "heir", "message", "commit"}
  /\ ~job[c].gone
  /\ job[c].row[job[c].me] = "none"
  /\ job[c].who = {v} /\ role[v] # "none"
  /\ job[c].heir = IF job[c].pc = "handOver" THEN Nobody ELSE v
  /\ job[c].row[v] = IF job[c].pc \in {"handOver", "heir"} THEN "same" ELSE "owner"
  /\ \A u \in People \ {v, job[c].me} : job[c].row[u] = "same"

LeaveFits(c) ==
  job[c].op = "leave" /\ job[c].owned =>
    \/ LeavesAlone(c)
    \/ LeavesLast(c)
    \/ \E v \in People \ {job[c].me} : LeavesTo(c, v)

OwnerFits(c) == OwnerAsRead(c) /\ OwnerStays(c) /\ TransferFits(c) /\ LeaveFits(c)

CallFits(c) == PlanFits(c) /\ RowsFit(c) /\ (~overlap => OwnerFits(c))

\* Without a group there are no members, and before it no calls.
GroupFirst ==
  /\ ~There => \A u \in People : role[u] = "none"
  /\ group.state = "none" => group.owner = Founder /\ \A c \in GroupCalls : job[c] = NoJob

\* What a transaction changes nobody else changes ...
RowsLocked ==
  \A c, d \in GroupCalls : c # d =>
    \A u \in People : job[c].row[u] = "same" \/ job[d].row[u] = "same"

\* ... and while it has changed anything the group is there, or is being deleted by it, and
\* nobody else is deleting it.
Touches(c) ==
  job[c].pc = "commit" \/ job[c].heir # Nobody \/ \E u \in People : job[c].row[u] # "same"

GroupHeld ==
  \A c \in GroupCalls : Touches(c) =>
    /\ There \/ job[c].gone
    /\ \A d \in GroupCalls \ {c} : ~job[d].gone

\* Nobody leaves while the group is handed over.
HandsAlone ==
  \A c, d \in GroupCalls : c # d => ~(HandsOver(job[c]) /\ Departs(job[d]))

OwnerIsRow == \A u \in People : (There /\ group.owner = u) <=> role[u] = "owner"

\* Those who have been found room for.
Comes(c) ==
  job[c].op \in {"invite", "join"} /\ (job[c].fits \/ job[c].pc = "commit")

\* The members and those who are coming.
Expected ==
  {u \in People : role[u] # "none" \/ \E c \in GroupCalls : Comes(c) /\ u \in job[c].who}

RoomIsKept ==
  /\ \A c \in GroupCalls : job[c].op \in {"invite", "join"} => Cardinality(job[c].who) <= MaxInvited
  /\ Cardinality(Expected) <= MemberLimit + (Cardinality(GroupCalls) - 1) * MaxInvited

RowsInv ==
  /\ GroupTypeOK /\ GroupFirst /\ RowsLocked /\ GroupHeld
  /\ \A c \in GroupCalls : CallFits(c)
  /\ ~overlap => HandsAlone /\ OwnerIsRow

GroupInv == RowsInv /\ RoomIsKept

\* A step of c leaves the other calls as they were.
OthersStay(c) ==
  /\ job' \in [GroupCalls -> Jobs]
  /\ \A d \in GroupCalls \ {c} : job'[d] = job[d]

Ends(c) == OthersStay(c) /\ job'[c] = NoJob

\* The call c goes on, and knows and has changed this much.
GoesOn(c, pc, who, fits, row, heir, gone) ==
  /\ OthersStay(c)
  /\ job'[c].op = job[c].op /\ job'[c].me = job[c].me
  /\ job'[c].rank = job[c].rank /\ job'[c].owned = job[c].owned
  /\ job'[c].pc = pc /\ job'[c].who = who /\ job'[c].fits = fits
  /\ job'[c].row = row /\ job'[c].heir = heir /\ job'[c].gone = gone

\* Nothing changes but the place the call c is at.
MovesTo(c, pc) ==
  GoesOn(c, pc, job[c].who, job[c].fits, job[c].row, job[c].heir, job[c].gone)

\* The call c changes the row of v.
WritesRow(c, v, pc, rank) ==
  \E row : /\ GoesOn(c, pc, job[c].who, job[c].fits, row, job[c].heir, job[c].gone)
           /\ row[v] = rank
           /\ \A u \in People \ {v} : row[u] = job[c].row[u]

\* The steps of a call within its transaction leave what is committed.
Committed == UNCHANGED <<group, role, overlap>>

\* A call begins.
Begun(c, u) ==
  /\ UNCHANGED <<group, role>>
  /\ There /\ OthersStay(c)
  /\ job'[c].me = u /\ job'[c].heir = Nobody /\ ~job'[c].gone /\ ~job'[c].fits
  /\ \A v \in People : job'[c].row[v] = "same"
  /\ \/ /\ job'[c].op \in {"invite", "join"} /\ job'[c].pc = "count"
        /\ Cardinality(job'[c].who) <= MaxInvited
     \/ /\ job'[c].op = "leave" /\ job'[c].who = {u} /\ role[u] # "none"
        /\ job'[c].owned = (group.owner = u)
        /\ job'[c].pc = IF group.owner = u THEN "alone" ELSE "delete"
     \/ /\ job'[c].op = "kick" /\ job'[c].pc = "standing"
        /\ \E v \in People : job'[c].who = {v}
     \/ /\ job'[c].op = "transfer" /\ job'[c].pc = "target" /\ role[u] = "owner"
        /\ \E v \in People \ {u} : job'[c].who = {v}
     \/ job'[c].op = "setRole" /\ job'[c].pc = "update" /\ job'[c].rank # "owner"
     \/ job'[c].op = "settings" /\ job'[c].pc = "standing" /\ job'[c].who = {}
     \/ job'[c].op = "remove" /\ job'[c].pc = "erase"
     \/ job'[c].op = "link" /\ job'[c].pc \in {"revoke", "reuse"}
  /\ overlap => overlap'
  /\ ~overlap' => \A d \in GroupCalls \ {c} :
       ~(HandsOver(job'[c]) /\ Departs(job[d])) /\ ~(Departs(job'[c]) /\ HandsOver(job[d]))

\* What the steps do to the call, with what they rely on.
DoesCount(c) ==
  /\ Committed /\ job[c].pc = "count"
  /\ \/ Ends(c)
     \/ GoesOn(c, "insert", job[c].who, Fits(job[c].who), job[c].row, job[c].heir,
               job[c].gone)

DoesInsert(c) ==
  /\ Committed /\ job[c].pc = "insert"
  /\ \/ Ends(c)
     \/ /\ There /\ job[c].fits
        /\ \A d \in GroupCalls \ {c} : ~job[d].gone /\ \A u \in job[c].who : job[d].row[u] = "same"
        /\ GoesOn(c, "commit", job[c].who, job[c].fits,
                  [u \in People |-> IF u \in job[c].who /\ role[u] = "none"
                                    THEN "member" ELSE "same"],
                  job[c].heir, job[c].gone)

DoesAlone(c) ==
  Committed /\ job[c].pc = "alone" /\ (Ends(c) \/ MovesTo(c, "delete"))

DoesRest(c) ==
  /\ Committed /\ job[c].pc = "rest"
  /\ \/ MovesTo(c, "erase") /\ \A u \in People \ {job[c].me} : role[u] = "none"
     \/ ~job[c].owned /\ MovesTo(c, "message")
     \/ /\ job[c].owned
        /\ \E v \in People \ {job[c].me} :
             /\ role[v] # "none"
             /\ GoesOn(c, "handOver", {v}, job[c].fits, job[c].row, job[c].heir,
                       job[c].gone)

DoesMessage(c) ==
  /\ Committed /\ job[c].pc = "message"
  /\ \/ Ends(c)
     \/ /\ There /\ \A d \in GroupCalls \ {c} : ~job[d].gone
        /\ MovesTo(c, "commit")

DoesErase(c) ==
  /\ Committed /\ job[c].pc = "erase"
  /\ \A d \in GroupCalls \ {c} :
       /\ ~job[d].gone /\ job[d].heir = Nobody /\ job[d].pc # "commit"
       /\ \A u \in People : job[d].row[u] = "same"
  /\ GoesOn(c, "commit", job[c].who, job[c].fits, job[c].row, job[c].heir, TRUE)

DoesSelf(c) ==
  /\ Committed /\ job[c].pc = "self" /\ RowFree(c, job[c].me)
  /\ WritesRow(c, job[c].me, "owner", IF role[job[c].me] = "none" THEN "same" ELSE "admin")

DoesRevoke(c) ==
  Committed /\ job[c].pc = "revoke" /\ (Ends(c) \/ MovesTo(c, "reuse"))

DoesStanding(c, v) ==
  /\ Committed /\ job[c].pc = "standing" /\ v \in job[c].who
  /\ Ends(c) \/ (role[v] # "owner" /\ MovesTo(c, "delete"))

DoesDelete(c, v) ==
  /\ Committed /\ job[c].pc = "delete" /\ v \in job[c].who /\ RowFree(c, v)
  /\ WritesRow(c, v, IF job[c].op = "leave" THEN "rest" ELSE "message",
               IF role[v] = "none" THEN "same" ELSE "none")

DoesHeir(c, v) ==
  /\ Committed /\ job[c].pc = "heir" /\ v \in job[c].who /\ RowFree(c, v)
  /\ WritesRow(c, v, "message", IF role[v] = "none" THEN "same" ELSE "owner")

DoesTarget(c, v) ==
  /\ Committed /\ job[c].pc = "target" /\ v \in job[c].who /\ RowFree(c, v)
  /\ Ends(c) \/ (role[v] # "none" /\ WritesRow(c, v, "self", "owner"))

DoesHandOver(c, v, pc, next) ==
  /\ Committed /\ job[c].pc = pc /\ v \in job[c].who
  /\ \A d \in GroupCalls \ {c} : ~job[d].gone
  /\ GoesOn(c, next, job[c].who, job[c].fits, job[c].row, IF There THEN v ELSE Nobody,
            job[c].gone)

DoesSetRole(c, v) ==
  /\ Ends(c) /\ UNCHANGED <<group, overlap>> /\ job[c].pc = "update" /\ RowFree(c, v)
  /\ \A u \in People \ {v} : role'[u] = role[u]
  /\ \/ role'[v] = role[v]
     \/ role[v] \notin {"none", "owner"} /\ role'[v] = job[c].rank

DoesSettings(c) ==
  /\ Ends(c) /\ UNCHANGED <<role, overlap>>
  /\ group'.state = group.state /\ group'.owner = group.owner

DoesCommit(c) ==
  /\ Ends(c) /\ job[c].pc = "commit" /\ overlap' = overlap
  /\ group'.state = IF job[c].gone THEN "deleted" ELSE group.state
  /\ group'.owner = IF job[c].heir = Nobody THEN group.owner ELSE job[c].heir
  /\ \A u \in People : role'[u] = IF job[c].gone THEN "none"
                                  ELSE IF job[c].row[u] = "same" THEN role[u]
                                  ELSE job[c].row[u]

DoesFail(c) ==
  Committed /\ Ends(c)

\* The steps of a call that commit nothing.
InTransaction(c) ==
  \/ DoesCount(c) \/ DoesInsert(c) \/ DoesAlone(c) \/ DoesRest(c) \/ DoesMessage(c)
  \/ DoesErase(c) \/ DoesSelf(c) \/ DoesRevoke(c) \/ DoesFail(c)
  \/ \E v \in People :
       \/ DoesStanding(c, v) \/ DoesDelete(c, v) \/ DoesHeir(c, v) \/ DoesTarget(c, v)
       \/ DoesHandOver(c, v, "handOver", "heir") \/ DoesHandOver(c, v, "owner", "message")

\* A call that is over knows and has changed nothing.
LEMMA NoJobIs ==
  /\ NoJob \in Jobs
  /\ NoJob.op = "none" /\ NoJob.pc = "idle" /\ NoJob.who = {} /\ ~NoJob.fits
  /\ NoJob.heir = Nobody /\ ~NoJob.gone /\ ~NoJob.owned
  /\ \A u \in People : NoJob.row[u] = "same"
BY GroupAssumption DEF GroupAssumption, NoJob, Call, Untouched, Jobs, GroupOps, GroupPcs, Ranks

\* How the record of a call changes.
LEMMA Ending ==
  ASSUME GroupTypeOK, NEW c \in GroupCalls, Over(c)
  PROVE  Ends(c)
BY NoJobIs DEF GroupTypeOK, Over, Ends, OthersStay

LEMMA Moving ==
  ASSUME GroupTypeOK, NEW c \in GroupCalls, NEW pc \in GroupPcs, Step1(c, pc)
  PROVE  MovesTo(c, pc)
BY DEF GroupTypeOK, Jobs, Step1, MovesTo, GoesOn, OthersStay

\* The records are typed.
LEMMA PlansAre ==
  /\ {"insert", "commit", "handOver", "heir", "message"} \subseteq GroupPcs
  /\ \A c \in GroupCalls : GroupTypeOK => job[c] \in Jobs
BY DEF GroupPcs, GroupTypeOK

LEMMA Placing ==
  ASSUME GroupTypeOK, NEW c \in GroupCalls, NEW j \in Jobs, job' = [job EXCEPT ![c] = j]
  PROVE  OthersStay(c) /\ job'[c] = j
BY DEF GroupTypeOK, OthersStay

\* What each step of a call does to its record, and under which conditions.
LEMMA CountIs ==
  ASSUME GroupTypeOK, NEW c \in GroupCalls, Count(c)
  PROVE  DoesCount(c)
<1>1. Fits(job[c].who) \in BOOLEAN
  BY DEF Fits
<1>2. CASE Over(c)
  BY <1>2, Ending DEF DoesCount, Count, Committed
<1>3. CASE job' = [job EXCEPT ![c].pc = "insert", ![c].fits = Fits(job[c].who)]
  <2> DEFINE j == [job[c] EXCEPT !.pc = "insert", !.fits = Fits(job[c].who)]
  <2>1. j \in Jobs
    BY <1>1, PlansAre DEF Jobs
  <2>2. job' = [job EXCEPT ![c] = j]
    BY <1>3 DEF GroupTypeOK
  <2>3. OthersStay(c) /\ job'[c] = j
    BY <2>1, <2>2, Placing
  <2> QED
    BY <2>3 DEF DoesCount, Count, Committed, GroupTypeOK, Jobs, GoesOn
<1> QED
  BY <1>2, <1>3 DEF DoesCount, Count

LEMMA InsertIs ==
  ASSUME GroupTypeOK, NEW c \in GroupCalls, Insert(c)
  PROVE  DoesInsert(c)
<1> DEFINE NewRow == [u \in People |-> IF u \in job[c].who /\ role[u] = "none"
                                       THEN "member" ELSE "same"]
           new == {u \in job[c].who : role[u] = "none"}
<1>1. NewRow \in [People -> Ranks \cup {"none", "same"}]
  BY DEF Ranks
<1>2. CASE Over(c)
  BY <1>2, Ending DEF DoesInsert, Insert, Committed
<1>3. CASE /\ There /\ job[c].fits
           /\ job' = [job EXCEPT ![c].pc = "commit",
                        ![c].row = [u \in People |-> IF u \in new THEN "member" ELSE "same"]]
  <2>1. [u \in People |-> IF u \in new THEN "member" ELSE "same"] = NewRow
    BY DEF GroupTypeOK, Jobs
  <2>2. job' = [job EXCEPT ![c].pc = "commit", ![c].row = NewRow]
    BY <1>3, <2>1
  <2>3. GoesOn(c, "commit", job[c].who, job[c].fits, NewRow, job[c].heir, job[c].gone)
    <3> DEFINE j == [job[c] EXCEPT !.pc = "commit", !.row = NewRow]
    <3>1. j \in Jobs
      BY <1>1, PlansAre DEF Jobs
    <3>2. job' = [job EXCEPT ![c] = j]
      BY <2>2 DEF GroupTypeOK
    <3>3. OthersStay(c) /\ job'[c] = j
      BY <3>1, <3>2, Placing
    <3> QED
      BY <3>3 DEF GroupTypeOK, Jobs, GoesOn
  <2> QED
    BY <1>3, <2>3 DEF DoesInsert, Insert, KeyFree, RowFree, Committed
<1> QED
  BY <1>2, <1>3 DEF DoesInsert, Insert

LEMMA AloneIs ==
  ASSUME GroupTypeOK, NEW c \in GroupCalls, Alone(c)
  PROVE  DoesAlone(c)
BY Ending, Moving DEF DoesAlone, Alone, Committed, GroupPcs

LEMMA RestIs ==
  ASSUME GroupTypeOK, NEW c \in GroupCalls, Rest(c)
  PROVE  DoesRest(c)
<1>1. CASE InGroup \ {job[c].me} = {} /\ Step1(c, "erase")
  BY <1>1, Moving DEF DoesRest, Rest, Committed, InGroup, GroupPcs
<1>2. CASE ~job[c].owned /\ Step1(c, "message")
  BY <1>2, Moving DEF DoesRest, Rest, Committed, GroupPcs
<1>3. ASSUME job[c].owned, NEW v \in InGroup \ {job[c].me},
             job' = [job EXCEPT ![c].pc = "handOver", ![c].who = {v}]
      PROVE  /\ v \in People \ {job[c].me} /\ role[v] # "none"
             /\ GoesOn(c, "handOver", {v}, job[c].fits, job[c].row, job[c].heir, job[c].gone)
  <2>1. v \in People /\ {v} \in SUBSET People
    BY DEF InGroup
  <2> QED
    <3> DEFINE j == [job[c] EXCEPT !.pc = "handOver", !.who = {v}]
    <3>1. j \in Jobs
      BY <2>1, PlansAre DEF Jobs
    <3>2. job' = [job EXCEPT ![c] = j]
      BY <1>3 DEF GroupTypeOK
    <3>3. OthersStay(c) /\ job'[c] = j
      BY <3>1, <3>2, Placing
    <3> QED
      BY <2>1, <3>3 DEF GroupTypeOK, Jobs, GoesOn, InGroup
<1> QED
  BY <1>1, <1>2, <1>3 DEF DoesRest, Rest, Committed

LEMMA MessageIs ==
  ASSUME GroupTypeOK, NEW c \in GroupCalls, Message(c)
  PROVE  DoesMessage(c)
BY Ending, Moving DEF DoesMessage, Message, KeyFree, Committed, GroupPcs

LEMMA EraseIs ==
  ASSUME GroupTypeOK, NEW c \in GroupCalls, Erase(c)
  PROVE  DoesErase(c)
<1>1. job' = [job EXCEPT ![c].pc = "commit", ![c].gone = TRUE]
  BY DEF Erase
<1>2. GoesOn(c, "commit", job[c].who, job[c].fits, job[c].row, job[c].heir, TRUE)
  <2> DEFINE j == [job[c] EXCEPT !.pc = "commit", !.gone = TRUE]
  <2>1. j \in Jobs
    BY PlansAre DEF Jobs
  <2>2. job' = [job EXCEPT ![c] = j]
    BY <1>1 DEF GroupTypeOK
  <2>3. OthersStay(c) /\ job'[c] = j
    BY <2>1, <2>2, Placing
  <2> QED
    BY <2>3 DEF GroupTypeOK, Jobs, GoesOn
<1> QED
  BY <1>2 DEF DoesErase, Erase, GroupFree, Unreferenced, Untouched, Committed

\* A row is changed.
LEMMA Writing ==
  ASSUME GroupTypeOK, NEW c \in GroupCalls, NEW v \in People, NEW pc \in GroupPcs,
         NEW rank \in Ranks \cup {"none", "same"},
         job' = [job EXCEPT ![c].pc = pc, ![c].row[v] = rank]
  PROVE  WritesRow(c, v, pc, rank)
<1> DEFINE row == [job[c].row EXCEPT ![v] = rank]
           j == [job[c] EXCEPT !.pc = pc, !.row = row]
<1>1. row \in [People -> Ranks \cup {"none", "same"}]
  BY DEF GroupTypeOK, Jobs
<1>2. j \in Jobs
  BY <1>1, PlansAre DEF Jobs
<1>3. job' = [job EXCEPT ![c] = j]
  <2>1. job' = [job EXCEPT ![c].pc = pc, ![c].row = row]
    BY DEF GroupTypeOK, Jobs
  <2> HIDE DEF row
  <2> QED
    BY <2>1 DEF GroupTypeOK
<1>4. OthersStay(c) /\ job'[c] = j
  BY <1>2, <1>3, Placing
<1>5. GoesOn(c, pc, job[c].who, job[c].fits, row, job[c].heir, job[c].gone)
  BY <1>4 DEF GroupTypeOK, Jobs, GoesOn
<1>6. row[v] = rank /\ \A u \in People \ {v} : row[u] = job[c].row[u]
  BY DEF GroupTypeOK, Jobs
<1> HIDE DEF row
<1> QED
  BY <1>5, <1>6 DEF WritesRow

LEMMA SelfIs ==
  ASSUME GroupTypeOK, NEW c \in GroupCalls, Self(c)
  PROVE  DoesSelf(c)
<1>1. job[c].me \in People
  BY DEF GroupTypeOK, Jobs
<1> QED
  BY <1>1, Writing DEF DoesSelf, Self, Committed, GroupPcs, Ranks

LEMMA RevokeIs ==
  ASSUME GroupTypeOK, NEW c \in GroupCalls, Revoke(c)
  PROVE  DoesRevoke(c)
BY Ending, Moving DEF DoesRevoke, Revoke, Committed, GroupPcs

LEMMA StandingIs ==
  ASSUME GroupTypeOK, NEW c \in GroupCalls, NEW v \in People, Standing(c, v)
  PROVE  DoesStanding(c, v)
BY Ending, Moving DEF DoesStanding, Standing, Protected, Committed, GroupPcs

LEMMA DeleteIs ==
  ASSUME GroupTypeOK, NEW c \in GroupCalls, NEW v \in People, DeleteMember(c, v)
  PROVE  DoesDelete(c, v)
BY Writing DEF DoesDelete, DeleteMember, Committed, GroupPcs

LEMMA HeirIs ==
  ASSUME GroupTypeOK, NEW c \in GroupCalls, NEW v \in People, Heir(c, v)
  PROVE  DoesHeir(c, v)
BY Writing DEF DoesHeir, Heir, Committed, GroupPcs, Ranks

LEMMA TargetIs ==
  ASSUME GroupTypeOK, NEW c \in GroupCalls, NEW v \in People, Target(c, v)
  PROVE  DoesTarget(c, v)
BY Ending, Writing DEF DoesTarget, Target, Committed, GroupPcs, Ranks

LEMMA HandOverIs ==
  ASSUME GroupTypeOK, NEW c \in GroupCalls, NEW v \in People, NEW pc,
         NEW next \in {"heir", "message"},
         HandOver(c, v, pc, next)
  PROVE  DoesHandOver(c, v, pc, next)
<1>1. job' = [job EXCEPT ![c].pc = next, ![c].heir = IF There THEN v ELSE Nobody]
  BY DEF HandOver
<1>2. (IF There THEN v ELSE Nobody) \in People \cup {Nobody}
  OBVIOUS
<1>3. GoesOn(c, next, job[c].who, job[c].fits, job[c].row, IF There THEN v ELSE Nobody,
             job[c].gone)
  <2> DEFINE j == [job[c] EXCEPT !.pc = next, !.heir = IF There THEN v ELSE Nobody]
  <2>1. j \in Jobs
    BY <1>2, PlansAre DEF Jobs
  <2>2. job' = [job EXCEPT ![c] = j]
    BY <1>1 DEF GroupTypeOK
  <2>3. OthersStay(c) /\ job'[c] = j
    BY <2>1, <2>2, Placing
  <2> QED
    BY <2>3 DEF GroupTypeOK, Jobs, GoesOn
<1> QED
  BY <1>3 DEF DoesHandOver, HandOver, GroupFree, Committed

LEMMA SetRoleIs ==
  ASSUME GroupTypeOK, NEW c \in GroupCalls, NEW v \in People, SetRole(c, v)
  PROVE  DoesSetRole(c, v)
BY Ending DEF DoesSetRole, SetRole, Rankable, GroupTypeOK

LEMMA GroupSettingsIs ==
  ASSUME GroupTypeOK, NEW c \in GroupCalls, NEW permission \in {"all", "admins"},
         Settings(c, permission)
  PROVE  DoesSettings(c)
BY Ending DEF DoesSettings, Settings, GroupTypeOK

LEMMA CommitIs ==
  ASSUME GroupTypeOK, NEW c \in GroupCalls, GroupCommit(c)
  PROVE  DoesCommit(c)
BY Ending DEF DoesCommit, GroupCommit

LEMMA FailIs ==
  ASSUME GroupTypeOK, NEW c \in GroupCalls, GroupFail(c)
  PROVE  DoesFail(c)
BY Ending DEF DoesFail, GroupFail, Committed

\* How a call begins.
LEMMA CallIs ==
  ASSUME NEW op \in GroupOps, NEW pc \in GroupPcs, NEW u \in People, NEW who \in SUBSET People,
         NEW rank \in Ranks
  PROVE  /\ Call(op, pc, u, who, rank) \in Jobs
         /\ Call(op, pc, u, who, rank).op = op /\ Call(op, pc, u, who, rank).pc = pc
         /\ Call(op, pc, u, who, rank).me = u /\ Call(op, pc, u, who, rank).who = who
         /\ Call(op, pc, u, who, rank).rank = rank /\ ~Call(op, pc, u, who, rank).owned
         /\ ~Call(op, pc, u, who, rank).fits /\ ~Call(op, pc, u, who, rank).gone
         /\ Call(op, pc, u, who, rank).heir = Nobody
         /\ \A v \in People : Call(op, pc, u, who, rank).row[v] = "same"
BY DEF Call, Jobs, Untouched

\* What a call that begins with the record j begins with.
LEMMA BeginsIs ==
  ASSUME GroupTypeOK, NEW c \in GroupCalls, NEW j \in Jobs, Begins(c, j)
  PROVE  /\ UNCHANGED <<group, role>> /\ There /\ job[c].pc = "idle"
         /\ OthersStay(c) /\ job'[c] = j /\ role[j.me] # "none"
         /\ overlap => overlap'
         /\ ~overlap' => \A d \in GroupCalls \ {c} :
              ~(HandsOver(j) /\ Departs(job[d])) /\ ~(Departs(j) /\ HandsOver(job[d]))
BY DEF Begins, MayBegin, GroupTypeOK, OthersStay

LEMMA StartIs ==
  ASSUME GroupTypeOK, NEW c \in GroupCalls, NEW u \in People, GroupStart(c, u)
  PROVE  Begun(c, u) /\ job[c].pc = "idle"
<1>1. ASSUME NEW who \in SUBSET People, Invite(c, u, who)
      PROVE  Begun(c, u) /\ job[c].pc = "idle"
  <2> DEFINE j == Call("invite", "count", u, who, "member")
  <2>1. j \in Jobs /\ j.op = "invite" /\ j.pc = "count" /\ j.me = u /\ j.who = who
        /\ ~j.fits /\ ~j.gone /\ j.heir = Nobody /\ \A v \in People : j.row[v] = "same"
    BY CallIs DEF GroupOps, GroupPcs, Ranks
  <2>2. Begins(c, j) /\ Cardinality(who) <= MaxInvited
    BY <1>1 DEF Invite
  <2> HIDE DEF j
  <2> QED
    BY <2>1, <2>2, BeginsIs DEF Begun
<1>2. ASSUME Accept(c, u) PROVE Begun(c, u) /\ job[c].pc = "idle"
  <2> DEFINE j == Call("join", "count", u, {u}, "member")
  <2>1. j \in Jobs /\ j.op = "join" /\ j.pc = "count" /\ j.me = u /\ j.who = {u}
        /\ ~j.fits /\ ~j.gone /\ j.heir = Nobody /\ \A v \in People : j.row[v] = "same"
    BY CallIs DEF GroupOps, GroupPcs, Ranks
  <2>2. job' = [job EXCEPT ![c] = j]
    BY <1>2 DEF Accept
  <2> HIDE DEF j
  <2>3. OthersStay(c) /\ job'[c] = j
    BY <2>1, <2>2, Placing
  <2>4. Cardinality({u}) <= MaxInvited
    BY FS_Singleton, GroupAssumption DEF GroupAssumption
  <2> QED
    BY <1>2, <2>1, <2>3, <2>4 DEF Accept, MayBegin, Begun, HandsOver, Departs
<1>3. ASSUME Leave(c, u) PROVE Begun(c, u) /\ job[c].pc = "idle"
  <2> DEFINE k == Call("leave", IF group.owner = u THEN "alone" ELSE "delete", u, {u}, "member")
             j == [k EXCEPT !.owned = group.owner = u]
  <2>1. k \in Jobs /\ k.op = "leave" /\ k.me = u /\ k.who = {u}
        /\ k.pc = (IF group.owner = u THEN "alone" ELSE "delete")
        /\ ~k.fits /\ ~k.gone /\ k.heir = Nobody /\ \A v \in People : k.row[v] = "same"
    BY CallIs DEF GroupOps, GroupPcs, Ranks
  <2>2. Begins(c, j)
    BY <1>3 DEF Leave
  <2> HIDE DEF k
  <2>3. j \in Jobs /\ j.op = "leave" /\ j.me = u /\ j.who = {u}
        /\ j.pc = (IF group.owner = u THEN "alone" ELSE "delete")
        /\ j.owned = (group.owner = u)
        /\ ~j.fits /\ ~j.gone /\ j.heir = Nobody /\ \A v \in People : j.row[v] = "same"
    BY <2>1 DEF Jobs
  <2> HIDE DEF j
  <2> QED
    BY <2>2, <2>3, BeginsIs DEF Begun
<1>4. ASSUME NEW v \in People \ {u}, Kick(c, u, v) PROVE Begun(c, u) /\ job[c].pc = "idle"
  <2> DEFINE j == Call("kick", "standing", u, {v}, role[u])
  <2>1. Begins(c, j)
    BY <1>4 DEF Kick
  <2>2. role[u] \in Ranks
    <3>1. role[j.me] # "none" /\ j.me = u
      BY <2>1 DEF Begins, Call
    <3> QED
      BY <3>1 DEF GroupTypeOK
  <2>3. j \in Jobs /\ j.op = "kick" /\ j.pc = "standing" /\ j.me = u /\ j.who = {v}
        /\ ~j.fits /\ ~j.gone /\ j.heir = Nobody /\ \A w \in People : j.row[w] = "same"
    BY <2>2, CallIs DEF GroupOps, GroupPcs, Ranks
  <2> HIDE DEF j
  <2> QED
    BY <2>1, <2>3, BeginsIs DEF Begun
<1>5. ASSUME NEW v \in People \ {u}, ForOwner(c, "transfer", "target", u, {v}, "owner")
      PROVE  Begun(c, u) /\ job[c].pc = "idle"
  <2> DEFINE j == Call("transfer", "target", u, {v}, "owner")
  <2>1. j \in Jobs /\ j.op = "transfer" /\ j.pc = "target" /\ j.me = u /\ j.who = {v}
        /\ ~j.fits /\ ~j.gone /\ j.heir = Nobody /\ \A w \in People : j.row[w] = "same"
    BY CallIs DEF GroupOps, GroupPcs, Ranks
  <2>2. Begins(c, j) /\ role[u] = "owner"
    BY <1>5 DEF ForOwner
  <2> HIDE DEF j
  <2> QED
    BY <2>1, <2>2, BeginsIs DEF Begun
<1>6. ASSUME NEW v \in People \ {u}, NEW rank \in {"admin", "member"},
             ForOwner(c, "setRole", "update", u, {v}, rank)
      PROVE  Begun(c, u) /\ job[c].pc = "idle"
  <2> DEFINE j == Call("setRole", "update", u, {v}, rank)
  <2>1. j \in Jobs /\ j.op = "setRole" /\ j.pc = "update" /\ j.me = u /\ j.rank = rank
        /\ ~j.fits /\ ~j.gone /\ j.heir = Nobody /\ \A w \in People : j.row[w] = "same"
    BY CallIs DEF GroupOps, GroupPcs, Ranks
  <2>2. Begins(c, j)
    BY <1>6 DEF ForOwner
  <2> HIDE DEF j
  <2> QED
    BY <2>1, <2>2, BeginsIs DEF Begun
<1>7. ASSUME NEW op \in {"settings", "remove"}, NEW pc \in {"standing", "erase"},
             op = "settings" <=> pc = "standing", ForOwner(c, op, pc, u, {}, "owner")
      PROVE  Begun(c, u) /\ job[c].pc = "idle"
  <2> DEFINE j == Call(op, pc, u, {}, "owner")
  <2>1. j \in Jobs /\ j.op = op /\ j.pc = pc /\ j.me = u /\ j.who = {}
        /\ ~j.fits /\ ~j.gone /\ j.heir = Nobody /\ \A w \in People : j.row[w] = "same"
    BY CallIs DEF GroupOps, GroupPcs, Ranks
  <2>2. Begins(c, j)
    BY <1>7 DEF ForOwner
  <2> HIDE DEF j
  <2> QED
    BY <1>7, <2>1, <2>2, BeginsIs DEF Begun
<1>8. ASSUME NEW pc \in {"revoke", "reuse"}, NEW rank \in {"owner", "member"},
             Link(c, u, pc, rank)
      PROVE  Begun(c, u) /\ job[c].pc = "idle"
  <2> DEFINE j == Call("link", pc, u, {}, rank)
  <2>1. j \in Jobs /\ j.op = "link" /\ j.pc = pc /\ j.me = u
        /\ ~j.fits /\ ~j.gone /\ j.heir = Nobody /\ \A w \in People : j.row[w] = "same"
    BY CallIs DEF GroupOps, GroupPcs, Ranks
  <2>2. Begins(c, j)
    BY <1>8 DEF Link
  <2> HIDE DEF j
  <2> QED
    BY <2>1, <2>2, BeginsIs DEF Begun
<1> QED
  BY <1>1, <1>2, <1>3, <1>4, <1>5, <1>6, <1>7, <1>8 DEF GroupStart

\* What holds of a call still holds after a step within its transaction, part by part.
LEMMA PlanFitsHere ==
  ASSUME GroupTypeOK, GroupFirst, GroupHeld, NEW c \in GroupCalls, InTransaction(c),
         PlanFits(c)
  PROVE  PlanFits(c)'
<1>0. job[c] \in Jobs /\ job[c].row \in [People -> Ranks \cup {"none", "same"}]
  BY DEF GroupTypeOK, Jobs
<1>1. ASSUME DoesCount(c) PROVE PlanFits(c)'
  BY <1>1, <1>0, NoJobIs DEF DoesCount, Ends, GoesOn, Committed, PlanFits
<1>2. ASSUME DoesInsert(c) PROVE PlanFits(c)'
  BY <1>2, <1>0, NoJobIs DEF DoesInsert, Ends, GoesOn, Committed, PlanFits
<1>3. ASSUME DoesAlone(c) PROVE PlanFits(c)'
  BY <1>3, <1>0, NoJobIs DEF DoesAlone, Ends, MovesTo, GoesOn, Committed, PlanFits
<1>4. ASSUME DoesRest(c) PROVE PlanFits(c)'
  BY <1>4, <1>0, NoJobIs DEF DoesRest, MovesTo, GoesOn, Committed, PlanFits
<1>5. ASSUME DoesMessage(c) PROVE PlanFits(c)'
  BY <1>5, <1>0, NoJobIs DEF DoesMessage, Ends, MovesTo, GoesOn, Committed, PlanFits
<1>6. ASSUME DoesErase(c) PROVE PlanFits(c)'
  BY <1>6, <1>0, NoJobIs DEF DoesErase, GoesOn, Committed, PlanFits
<1>7. ASSUME DoesSelf(c) PROVE PlanFits(c)'
  BY <1>7, <1>0, NoJobIs DEF DoesSelf, WritesRow, GoesOn, Committed, PlanFits
<1>8. ASSUME DoesRevoke(c) PROVE PlanFits(c)'
  BY <1>8, <1>0, NoJobIs DEF DoesRevoke, Ends, MovesTo, GoesOn, Committed, PlanFits
<1>9. ASSUME NEW v \in People, DoesStanding(c, v) PROVE PlanFits(c)'
  BY <1>9, <1>0, NoJobIs DEF DoesStanding, Ends, MovesTo, GoesOn, Committed, PlanFits
<1>10. ASSUME NEW v \in People, DoesDelete(c, v) PROVE PlanFits(c)'
  BY <1>10, <1>0, NoJobIs DEF DoesDelete, WritesRow, GoesOn, Committed, PlanFits
<1>11. ASSUME NEW v \in People, DoesHeir(c, v) PROVE PlanFits(c)'
  BY <1>11, <1>0, NoJobIs DEF DoesHeir, WritesRow, GoesOn, Committed, PlanFits
<1>12. ASSUME NEW v \in People, DoesTarget(c, v) PROVE PlanFits(c)'
  BY <1>12, <1>0, NoJobIs DEF DoesTarget, Ends, WritesRow, GoesOn, Committed, PlanFits
<1>13. ASSUME NEW v \in People, DoesHandOver(c, v, "handOver", "heir") PROVE PlanFits(c)'
  BY <1>13, <1>0, NoJobIs DEF DoesHandOver, GoesOn, Committed, PlanFits
<1>14. ASSUME NEW v \in People, DoesHandOver(c, v, "owner", "message") PROVE PlanFits(c)'
  BY <1>14, <1>0, NoJobIs DEF DoesHandOver, GoesOn, Committed, PlanFits
<1>15. ASSUME DoesFail(c) PROVE PlanFits(c)'
  BY <1>15, <1>0, NoJobIs DEF DoesFail, Ends, Committed, PlanFits
<1> QED
  BY <1>1, <1>2, <1>3, <1>4, <1>5, <1>6, <1>7, <1>8, <1>9, <1>10, <1>11, <1>12, <1>13, <1>14,
     <1>15
  DEF InTransaction

LEMMA RowsFitHere ==
  ASSUME GroupTypeOK, GroupFirst, GroupHeld, NEW c \in GroupCalls, InTransaction(c),
         PlanFits(c), RowsFit(c)
  PROVE  RowsFit(c)'
<1>0. job[c] \in Jobs /\ job[c].row \in [People -> Ranks \cup {"none", "same"}]
  BY DEF GroupTypeOK, Jobs
<1>1. ASSUME DoesCount(c) PROVE RowsFit(c)'
  BY <1>1, <1>0, NoJobIs DEF DoesCount, Ends, GoesOn, Committed, PlanFits, RowsFit, HandsOver
<1>2. ASSUME DoesInsert(c) PROVE RowsFit(c)'
  BY <1>2, <1>0, NoJobIs DEF DoesInsert, Ends, GoesOn, Committed, PlanFits, RowsFit, HandsOver
<1>3. ASSUME DoesAlone(c) PROVE RowsFit(c)'
  BY <1>3, <1>0, NoJobIs
  DEF DoesAlone, Ends, MovesTo, GoesOn, Committed, PlanFits, RowsFit, HandsOver
<1>4. ASSUME DoesRest(c) PROVE RowsFit(c)'
  BY <1>4, <1>0, NoJobIs DEF DoesRest, MovesTo, GoesOn, Committed, PlanFits, RowsFit, HandsOver
<1>5. ASSUME DoesMessage(c) PROVE RowsFit(c)'
  BY <1>5, <1>0, NoJobIs
  DEF DoesMessage, Ends, MovesTo, GoesOn, Committed, PlanFits, RowsFit, HandsOver
<1>6. ASSUME DoesErase(c) PROVE RowsFit(c)'
  BY <1>6, <1>0, NoJobIs DEF DoesErase, GoesOn, Committed, PlanFits, RowsFit, HandsOver
<1>7. ASSUME DoesSelf(c) PROVE RowsFit(c)'
  BY <1>7, <1>0, NoJobIs DEF DoesSelf, WritesRow, GoesOn, Committed, PlanFits, RowsFit, HandsOver
<1>8. ASSUME DoesRevoke(c) PROVE RowsFit(c)'
  BY <1>8, <1>0, NoJobIs
  DEF DoesRevoke, Ends, MovesTo, GoesOn, Committed, PlanFits, RowsFit, HandsOver
<1>9. ASSUME NEW v \in People, DoesStanding(c, v) PROVE RowsFit(c)'
  BY <1>9, <1>0, NoJobIs
  DEF DoesStanding, Ends, MovesTo, GoesOn, Committed, PlanFits, RowsFit, HandsOver
<1>10. ASSUME NEW v \in People, DoesDelete(c, v) PROVE RowsFit(c)'
  BY <1>10, <1>0, NoJobIs DEF DoesDelete, WritesRow, GoesOn, Committed, PlanFits, RowsFit, HandsOver
<1>11. ASSUME NEW v \in People, DoesHeir(c, v) PROVE RowsFit(c)'
  BY <1>11, <1>0, NoJobIs DEF DoesHeir, WritesRow, GoesOn, Committed, PlanFits, RowsFit, HandsOver
<1>12. ASSUME NEW v \in People, DoesTarget(c, v) PROVE RowsFit(c)'
  BY <1>12, <1>0, NoJobIs
  DEF DoesTarget, Ends, WritesRow, GoesOn, Committed, PlanFits, RowsFit, HandsOver
<1>13. ASSUME NEW v \in People, DoesHandOver(c, v, "handOver", "heir") PROVE RowsFit(c)'
  BY <1>13, <1>0, NoJobIs DEF DoesHandOver, GoesOn, Committed, PlanFits, RowsFit, HandsOver
<1>14. ASSUME NEW v \in People, DoesHandOver(c, v, "owner", "message") PROVE RowsFit(c)'
  BY <1>14, <1>0, NoJobIs DEF DoesHandOver, GoesOn, Committed, PlanFits, RowsFit, HandsOver
<1>15. ASSUME DoesFail(c) PROVE RowsFit(c)'
  BY <1>15, <1>0, NoJobIs DEF DoesFail, Ends, Committed, PlanFits, RowsFit, HandsOver
<1> QED
  BY <1>1, <1>2, <1>3, <1>4, <1>5, <1>6, <1>7, <1>8, <1>9, <1>10, <1>11, <1>12, <1>13, <1>14,
     <1>15
  DEF InTransaction

LEMMA OwnerAsReadHere ==
  ASSUME GroupTypeOK, GroupFirst, GroupHeld, NEW c \in GroupCalls, InTransaction(c),
         OwnerAsRead(c)
  PROVE  OwnerAsRead(c)'
<1>0. job[c] \in Jobs /\ job[c].row \in [People -> Ranks \cup {"none", "same"}]
  BY DEF GroupTypeOK, Jobs
<1>1. ASSUME DoesCount(c) PROVE OwnerAsRead(c)'
  BY <1>1, <1>0, NoJobIs DEF DoesCount, Ends, GoesOn, Committed, OwnerAsRead, HandsOver
<1>2. ASSUME DoesInsert(c) PROVE OwnerAsRead(c)'
  BY <1>2, <1>0, NoJobIs DEF DoesInsert, Ends, GoesOn, Committed, OwnerAsRead, HandsOver
<1>3. ASSUME DoesAlone(c) PROVE OwnerAsRead(c)'
  BY <1>3, <1>0, NoJobIs DEF DoesAlone, Ends, MovesTo, GoesOn, Committed, OwnerAsRead, HandsOver
<1>4. ASSUME DoesRest(c) PROVE OwnerAsRead(c)'
  BY <1>4, <1>0, NoJobIs DEF DoesRest, MovesTo, GoesOn, Committed, OwnerAsRead, HandsOver
<1>5. ASSUME DoesMessage(c) PROVE OwnerAsRead(c)'
  BY <1>5, <1>0, NoJobIs DEF DoesMessage, Ends, MovesTo, GoesOn, Committed, OwnerAsRead, HandsOver
<1>6. ASSUME DoesErase(c) PROVE OwnerAsRead(c)'
  BY <1>6, <1>0, NoJobIs DEF DoesErase, GoesOn, Committed, OwnerAsRead, HandsOver
<1>7. ASSUME DoesSelf(c) PROVE OwnerAsRead(c)'
  BY <1>7, <1>0, NoJobIs DEF DoesSelf, WritesRow, GoesOn, Committed, OwnerAsRead, HandsOver
<1>8. ASSUME DoesRevoke(c) PROVE OwnerAsRead(c)'
  BY <1>8, <1>0, NoJobIs DEF DoesRevoke, Ends, MovesTo, GoesOn, Committed, OwnerAsRead, HandsOver
<1>9. ASSUME NEW v \in People, DoesStanding(c, v) PROVE OwnerAsRead(c)'
  BY <1>9, <1>0, NoJobIs DEF DoesStanding, Ends, MovesTo, GoesOn, Committed, OwnerAsRead, HandsOver
<1>10. ASSUME NEW v \in People, DoesDelete(c, v) PROVE OwnerAsRead(c)'
  BY <1>10, <1>0, NoJobIs DEF DoesDelete, WritesRow, GoesOn, Committed, OwnerAsRead, HandsOver
<1>11. ASSUME NEW v \in People, DoesHeir(c, v) PROVE OwnerAsRead(c)'
  BY <1>11, <1>0, NoJobIs DEF DoesHeir, WritesRow, GoesOn, Committed, OwnerAsRead, HandsOver
<1>12. ASSUME NEW v \in People, DoesTarget(c, v) PROVE OwnerAsRead(c)'
  BY <1>12, <1>0, NoJobIs DEF DoesTarget, Ends, WritesRow, GoesOn, Committed, OwnerAsRead, HandsOver
<1>13. ASSUME NEW v \in People, DoesHandOver(c, v, "handOver", "heir") PROVE OwnerAsRead(c)'
  BY <1>13, <1>0, NoJobIs DEF DoesHandOver, GoesOn, Committed, OwnerAsRead, HandsOver
<1>14. ASSUME NEW v \in People, DoesHandOver(c, v, "owner", "message") PROVE OwnerAsRead(c)'
  BY <1>14, <1>0, NoJobIs DEF DoesHandOver, GoesOn, Committed, OwnerAsRead, HandsOver
<1>15. ASSUME DoesFail(c) PROVE OwnerAsRead(c)'
  BY <1>15, <1>0, NoJobIs DEF DoesFail, Ends, Committed, OwnerAsRead, HandsOver
<1> QED
  BY <1>1, <1>2, <1>3, <1>4, <1>5, <1>6, <1>7, <1>8, <1>9, <1>10, <1>11, <1>12, <1>13, <1>14,
     <1>15
  DEF InTransaction

LEMMA OwnerStaysHere ==
  ASSUME GroupTypeOK, GroupFirst, GroupHeld, NEW c \in GroupCalls, InTransaction(c),
         PlanFits(c), OwnerStays(c), OwnerIsRow
  PROVE  OwnerStays(c)'
<1>0. job[c] \in Jobs /\ job[c].row \in [People -> Ranks \cup {"none", "same"}]
  BY DEF GroupTypeOK, Jobs
<1>1. ASSUME DoesCount(c) PROVE OwnerStays(c)'
  BY <1>1, <1>0, NoJobIs DEF DoesCount, Ends, GoesOn, Committed, PlanFits, OwnerStays, HandsOver
<1>2. ASSUME DoesInsert(c) PROVE OwnerStays(c)'
  BY <1>2, <1>0, NoJobIs DEF DoesInsert, Ends, GoesOn, Committed, PlanFits, OwnerStays, HandsOver
<1>3. ASSUME DoesAlone(c) PROVE OwnerStays(c)'
  BY <1>3, <1>0, NoJobIs
  DEF DoesAlone, Ends, MovesTo, GoesOn, Committed, PlanFits, OwnerStays, HandsOver
<1>4. ASSUME DoesRest(c) PROVE OwnerStays(c)'
  BY <1>4, <1>0, NoJobIs DEF DoesRest, MovesTo, GoesOn, Committed, PlanFits, OwnerStays, HandsOver
<1>5. ASSUME DoesMessage(c) PROVE OwnerStays(c)'
  BY <1>5, <1>0, NoJobIs
  DEF DoesMessage, Ends, MovesTo, GoesOn, Committed, PlanFits, OwnerStays, HandsOver
<1>6. ASSUME DoesErase(c) PROVE OwnerStays(c)'
  BY <1>6, <1>0, NoJobIs DEF DoesErase, GoesOn, Committed, PlanFits, OwnerStays, HandsOver
<1>7. ASSUME DoesSelf(c) PROVE OwnerStays(c)'
  BY <1>7, <1>0, NoJobIs DEF DoesSelf, WritesRow, GoesOn, Committed, PlanFits, OwnerStays, HandsOver
<1>8. ASSUME DoesRevoke(c) PROVE OwnerStays(c)'
  BY <1>8, <1>0, NoJobIs
  DEF DoesRevoke, Ends, MovesTo, GoesOn, Committed, PlanFits, OwnerStays, HandsOver
<1>9. ASSUME NEW v \in People, DoesStanding(c, v) PROVE OwnerStays(c)'
  BY <1>9, <1>0, NoJobIs
  DEF DoesStanding, Ends, MovesTo, GoesOn, Committed, PlanFits, OwnerStays, HandsOver
<1>10. ASSUME NEW v \in People, DoesDelete(c, v) PROVE OwnerStays(c)'
  BY <1>10, <1>0, NoJobIs
  DEF DoesDelete, WritesRow, GoesOn, Committed, PlanFits, OwnerStays, HandsOver
<1>11. ASSUME NEW v \in People, DoesHeir(c, v) PROVE OwnerStays(c)'
  BY <1>11, <1>0, NoJobIs
  DEF DoesHeir, WritesRow, GoesOn, Committed, PlanFits, OwnerStays, HandsOver
<1>12. ASSUME NEW v \in People, DoesTarget(c, v) PROVE OwnerStays(c)'
  BY <1>12, <1>0, NoJobIs
  DEF DoesTarget, Ends, WritesRow, GoesOn, Committed, PlanFits, OwnerStays, HandsOver
<1>13. ASSUME NEW v \in People, DoesHandOver(c, v, "handOver", "heir") PROVE OwnerStays(c)'
  BY <1>13, <1>0, NoJobIs DEF DoesHandOver, GoesOn, Committed, PlanFits, OwnerStays, HandsOver
<1>14. ASSUME NEW v \in People, DoesHandOver(c, v, "owner", "message") PROVE OwnerStays(c)'
  BY <1>14, <1>0, NoJobIs DEF DoesHandOver, GoesOn, Committed, PlanFits, OwnerStays, HandsOver
<1>15. ASSUME DoesFail(c) PROVE OwnerStays(c)'
  BY <1>15, <1>0, NoJobIs DEF DoesFail, Ends, Committed, PlanFits, OwnerStays, HandsOver
<1> QED
  BY <1>1, <1>2, <1>3, <1>4, <1>5, <1>6, <1>7, <1>8, <1>9, <1>10, <1>11, <1>12, <1>13, <1>14,
     <1>15
  DEF InTransaction

LEMMA TransferFitsHere ==
  ASSUME GroupTypeOK, GroupFirst, GroupHeld, NEW c \in GroupCalls, InTransaction(c),
         PlanFits(c), TransferFits(c), OwnerIsRow, OwnerAsRead(c)
  PROVE  TransferFits(c)'
<1> SUFFICES ASSUME job'[c].op = "transfer"
             PROVE  \E v \in People \ {job'[c].me} : TransfersTo(c, v)'
  BY DEF TransferFits
<1>0. /\ job[c] \in Jobs /\ job[c].row \in [People -> Ranks \cup {"none", "same"}]
      /\ job[c].op = "transfer" /\ job[c].me = job'[c].me
  BY NoJobIs
  DEF GroupTypeOK, Jobs, InTransaction, DoesCount, Ends, GoesOn, DoesInsert, DoesAlone, MovesTo,
      DoesRest, DoesMessage, DoesErase, DoesSelf, WritesRow, DoesRevoke, DoesStanding, DoesDelete,
      DoesHeir, DoesTarget, DoesHandOver, DoesFail
<1>a. PICK w \in People \ {job[c].me} : TransfersTo(c, w)
  BY <1>0 DEF TransferFits
<1>b. /\ There => role[job[c].me] = "owner"
      /\ job[c].pc # "target" => There
  BY <1>0, <1>a
  DEF GroupHeld, Touches, OwnerIsRow, OwnerAsRead, HandsOver, TransfersTo, PlanFits, Jobs
<1>1. ASSUME DoesCount(c) PROVE TransfersTo(c, w)'
  BY <1>1, <1>0, <1>a, <1>b, NoJobIs
  DEF DoesCount, Ends, GoesOn, Committed, PlanFits, TransfersTo, HandsOver
<1>2. ASSUME DoesInsert(c) PROVE TransfersTo(c, w)'
  BY <1>2, <1>0, <1>a, <1>b, NoJobIs
  DEF DoesInsert, Ends, GoesOn, Committed, PlanFits, TransfersTo, HandsOver
<1>3. ASSUME DoesAlone(c) PROVE TransfersTo(c, w)'
  BY <1>3, <1>0, <1>a, <1>b, NoJobIs
  DEF DoesAlone, Ends, MovesTo, GoesOn, Committed, PlanFits, TransfersTo, HandsOver
<1>4. ASSUME DoesRest(c) PROVE TransfersTo(c, w)'
  BY <1>4, <1>0, <1>a, <1>b, NoJobIs
  DEF DoesRest, MovesTo, GoesOn, Committed, PlanFits, TransfersTo, HandsOver
<1>5. ASSUME DoesMessage(c) PROVE TransfersTo(c, w)'
  BY <1>5, <1>0, <1>a, <1>b, NoJobIs
  DEF DoesMessage, Ends, MovesTo, GoesOn, Committed, PlanFits, TransfersTo, HandsOver
<1>6. ASSUME DoesErase(c) PROVE TransfersTo(c, w)'
  BY <1>6, <1>0, <1>a, <1>b, NoJobIs
  DEF DoesErase, GoesOn, Committed, PlanFits, TransfersTo, HandsOver
<1>7. ASSUME DoesSelf(c) PROVE TransfersTo(c, w)'
  BY <1>7, <1>0, <1>a, <1>b, NoJobIs
  DEF DoesSelf, WritesRow, GoesOn, Committed, PlanFits, TransfersTo, HandsOver
<1>8. ASSUME DoesRevoke(c) PROVE TransfersTo(c, w)'
  BY <1>8, <1>0, <1>a, <1>b, NoJobIs
  DEF DoesRevoke, Ends, MovesTo, GoesOn, Committed, PlanFits, TransfersTo, HandsOver
<1>9. ASSUME NEW v \in People, DoesStanding(c, v) PROVE TransfersTo(c, w)'
  BY <1>9, <1>0, <1>a, <1>b, NoJobIs
  DEF DoesStanding, Ends, MovesTo, GoesOn, Committed, PlanFits, TransfersTo, HandsOver
<1>10. ASSUME NEW v \in People, DoesDelete(c, v) PROVE TransfersTo(c, w)'
  BY <1>10, <1>0, <1>a, <1>b, NoJobIs
  DEF DoesDelete, WritesRow, GoesOn, Committed, PlanFits, TransfersTo, HandsOver
<1>11. ASSUME NEW v \in People, DoesHeir(c, v) PROVE TransfersTo(c, w)'
  BY <1>11, <1>0, <1>a, <1>b, NoJobIs
  DEF DoesHeir, WritesRow, GoesOn, Committed, PlanFits, TransfersTo, HandsOver
<1>12. ASSUME NEW v \in People, DoesTarget(c, v) PROVE TransfersTo(c, w)'
  <2>1. v = w
    BY <1>12, <1>a DEF DoesTarget, TransfersTo
  <2>2. WritesRow(c, w, "self", "owner")
    BY <1>12, <2>1, <1>0, NoJobIs DEF DoesTarget, Ends
  <2>3. PICK row :
          /\ GoesOn(c, "self", job[c].who, job[c].fits, row, job[c].heir, job[c].gone)
          /\ row[w] = "owner" /\ \A u \in People \ {w} : row[u] = job[c].row[u]
    BY <2>2 DEF WritesRow
  <2>4. job[c].pc = "target" /\ job[c].me \in People \ {w}
    BY <1>12, <1>0 DEF DoesTarget, Jobs
  <2> QED
    BY <2>3, <2>4, <1>a DEF GoesOn, TransfersTo
<1>13. ASSUME NEW v \in People, DoesHandOver(c, v, "handOver", "heir") PROVE TransfersTo(c, w)'
  BY <1>13, <1>0, <1>a, <1>b, NoJobIs
  DEF DoesHandOver, GoesOn, Committed, PlanFits, TransfersTo, HandsOver
<1>14. ASSUME NEW v \in People, DoesHandOver(c, v, "owner", "message") PROVE TransfersTo(c, w)'
  BY <1>14, <1>0, <1>a, <1>b, NoJobIs
  DEF DoesHandOver, GoesOn, Committed, PlanFits, TransfersTo, HandsOver
<1>15. ASSUME DoesFail(c) PROVE TransfersTo(c, w)'
  BY <1>15, <1>0, <1>a, <1>b, NoJobIs
  DEF DoesFail, Ends, Committed, PlanFits, TransfersTo, HandsOver
<1> QED
  BY <1>1, <1>2, <1>3, <1>4, <1>5, <1>6, <1>7, <1>8, <1>9, <1>10, <1>11, <1>12, <1>13, <1>14,
     <1>15, <1>0, <1>a
  DEF InTransaction

LEMMA LeaveFitsHere ==
  ASSUME GroupTypeOK, GroupFirst, GroupHeld, NEW c \in GroupCalls, InTransaction(c),
         PlanFits(c), LeaveFits(c), OwnerIsRow, OwnerAsRead(c)
  PROVE  LeaveFits(c)'
<1> SUFFICES ASSUME job'[c].op = "leave", job'[c].owned
             PROVE  \/ LeavesAlone(c)'
                    \/ LeavesLast(c)'
                    \/ \E w \in People \ {job'[c].me} : LeavesTo(c, w)'
  BY DEF LeaveFits
<1>0. /\ job[c] \in Jobs /\ job[c].row \in [People -> Ranks \cup {"none", "same"}]
      /\ job[c].op = "leave" /\ job[c].owned /\ job[c].me = job'[c].me /\ job[c].me \in People
  BY NoJobIs
  DEF GroupTypeOK, Jobs, InTransaction, DoesCount, Ends, GoesOn, DoesInsert, DoesAlone, MovesTo,
      DoesRest, DoesMessage, DoesErase, DoesSelf, WritesRow, DoesRevoke, DoesStanding, DoesDelete,
      DoesHeir, DoesTarget, DoesHandOver, DoesFail
<1>a. \/ LeavesAlone(c)
      \/ LeavesLast(c)
      \/ \E w \in People \ {job[c].me} : LeavesTo(c, w)
  BY <1>0 DEF LeaveFits
<1>b. /\ There => role[job[c].me] = "owner"
      /\ (\E u \in People : job[c].row[u] # "same") /\ ~job[c].gone => There
      /\ ~There => \A u \in People : role[u] = "none"
  BY <1>0 DEF GroupHeld, Touches, OwnerIsRow, OwnerAsRead, HandsOver, GroupFirst
<1>1. ASSUME DoesCount(c) PROVE \/ LeavesAlone(c)' \/ LeavesLast(c)'
             \/ \E w \in People \ {job'[c].me} : LeavesTo(c, w)'
  BY <1>1, <1>0, <1>a, <1>b, NoJobIs
  DEF DoesCount, Ends, GoesOn, Committed, PlanFits, LeaveFits, LeaveFits, LeavesAlone, LeavesLast,
      LeavesTo, HandsOver
<1>2. ASSUME DoesInsert(c) PROVE \/ LeavesAlone(c)' \/ LeavesLast(c)'
             \/ \E w \in People \ {job'[c].me} : LeavesTo(c, w)'
  BY <1>2, <1>0, <1>a, <1>b, NoJobIs
  DEF DoesInsert, Ends, GoesOn, Committed, PlanFits, LeaveFits, LeaveFits, LeavesAlone,
      LeavesLast, LeavesTo, HandsOver
<1>3. ASSUME DoesAlone(c) PROVE \/ LeavesAlone(c)' \/ LeavesLast(c)'
             \/ \E w \in People \ {job'[c].me} : LeavesTo(c, w)'
  <2>1. LeavesAlone(c) /\ MovesTo(c, "delete")
    BY <1>3, <1>0, <1>a, NoJobIs DEF DoesAlone, Ends, LeavesLast, LeavesTo
  <2> QED
    BY <2>1 DEF MovesTo, GoesOn, LeavesAlone
<1>4. ASSUME DoesRest(c) PROVE \/ LeavesAlone(c)' \/ LeavesLast(c)'
             \/ \E w \in People \ {job'[c].me} : LeavesTo(c, w)'
  <2>1. LeavesLast(c)
    BY <1>4, <1>a DEF DoesRest, LeavesAlone, LeavesTo
  <2>2. CASE MovesTo(c, "erase")
    BY <1>4, <2>1, <2>2 DEF DoesRest, Committed, There, MovesTo, GoesOn, LeavesLast
  <2>3. ASSUME NEW w \in People \ {job[c].me}, role[w] # "none",
               GoesOn(c, "handOver", {w}, job[c].fits, job[c].row, job[c].heir, job[c].gone)
        PROVE  LeavesTo(c, w)'
    <3>1. There
      BY <1>b, <2>3
    <3>2. job[c].row[job[c].me] = "none" /\ job[c].heir = Nobody /\ ~job[c].gone
      BY <1>4, <2>1, <3>1 DEF DoesRest, LeavesLast
    <3>3. role' = role
      BY <1>4 DEF DoesRest, Committed
    <3> QED
      BY <1>0, <2>1, <2>3, <3>2, <3>3 DEF GoesOn, LeavesLast, LeavesTo
  <2> QED
    BY <1>4, <1>0, <2>2, <2>3 DEF DoesRest
<1>5. ASSUME DoesMessage(c) PROVE \/ LeavesAlone(c)' \/ LeavesLast(c)'
             \/ \E w \in People \ {job'[c].me} : LeavesTo(c, w)'
  <2>1. PICK w \in People \ {job[c].me} : LeavesTo(c, w)
    BY <1>5, <1>a DEF DoesMessage, LeavesAlone, LeavesLast
  <2>2. MovesTo(c, "commit")
    BY <1>5, <1>0, NoJobIs DEF DoesMessage, Ends
  <2>3. LeavesTo(c, w)'
    BY <1>5, <2>1, <2>2 DEF DoesMessage, Committed, MovesTo, GoesOn, LeavesTo
  <2> QED
    BY <1>0, <2>3
<1>6. ASSUME DoesErase(c) PROVE \/ LeavesAlone(c)' \/ LeavesLast(c)'
             \/ \E w \in People \ {job'[c].me} : LeavesTo(c, w)'
  <2>1. LeavesLast(c)
    BY <1>6, <1>a DEF DoesErase, LeavesAlone, LeavesTo
  <2> QED
    BY <1>6, <2>1 DEF DoesErase, Committed, There, GoesOn, LeavesLast
<1>7. ASSUME DoesSelf(c) PROVE \/ LeavesAlone(c)' \/ LeavesLast(c)'
             \/ \E w \in People \ {job'[c].me} : LeavesTo(c, w)'
  BY <1>7, <1>0, <1>a, <1>b, NoJobIs
  DEF DoesSelf, WritesRow, GoesOn, Committed, PlanFits, LeaveFits, LeaveFits, LeavesAlone,
      LeavesLast, LeavesTo, HandsOver
<1>8. ASSUME DoesRevoke(c) PROVE \/ LeavesAlone(c)' \/ LeavesLast(c)'
             \/ \E w \in People \ {job'[c].me} : LeavesTo(c, w)'
  BY <1>8, <1>0, <1>a, <1>b, NoJobIs
  DEF DoesRevoke, Ends, MovesTo, GoesOn, Committed, PlanFits, LeaveFits, LeaveFits, LeavesAlone,
      LeavesLast, LeavesTo, HandsOver
<1>9. ASSUME NEW v \in People, DoesStanding(c, v) PROVE \/ LeavesAlone(c)' \/ LeavesLast(c)'
             \/ \E w \in People \ {job'[c].me} : LeavesTo(c, w)'
  BY <1>9, <1>0, <1>a, <1>b, NoJobIs
  DEF DoesStanding, Ends, MovesTo, GoesOn, Committed, PlanFits, LeaveFits, LeaveFits, LeavesAlone,
      LeavesLast, LeavesTo, HandsOver
<1>10. ASSUME NEW v \in People, DoesDelete(c, v) PROVE \/ LeavesAlone(c)' \/ LeavesLast(c)'
             \/ \E w \in People \ {job'[c].me} : LeavesTo(c, w)'
  <2>1. LeavesAlone(c) /\ v = job[c].me
    BY <1>10, <1>a DEF DoesDelete, LeavesAlone, LeavesLast, LeavesTo
  <2> QED
    BY <1>10, <1>0, <1>b, <2>1
    DEF DoesDelete, Committed, There, WritesRow, GoesOn, LeavesAlone, LeavesLast
<1>11. ASSUME NEW v \in People, DoesHeir(c, v) PROVE \/ LeavesAlone(c)' \/ LeavesLast(c)'
             \/ \E w \in People \ {job'[c].me} : LeavesTo(c, w)'
  <2>1. LeavesTo(c, v) /\ v # job[c].me
    BY <1>11, <1>a DEF DoesHeir, LeavesAlone, LeavesLast, LeavesTo
  <2>2. LeavesTo(c, v)'
    <3>1. WritesRow(c, v, "message", "owner")
      BY <1>11, <2>1 DEF DoesHeir, LeavesTo
    <3>2. PICK row :
            /\ GoesOn(c, "message", job[c].who, job[c].fits, row, job[c].heir, job[c].gone)
            /\ row[v] = "owner" /\ \A u \in People \ {v} : row[u] = job[c].row[u]
      BY <3>1 DEF WritesRow
    <3>3. job[c].pc = "heir" /\ role' = role
      BY <1>11 DEF DoesHeir, Committed
    <3> QED
      BY <1>0, <2>1, <3>2, <3>3 DEF GoesOn, LeavesTo
  <2> QED
    BY <1>0, <2>1, <2>2
<1>12. ASSUME NEW v \in People, DoesTarget(c, v) PROVE \/ LeavesAlone(c)' \/ LeavesLast(c)'
             \/ \E w \in People \ {job'[c].me} : LeavesTo(c, w)'
  BY <1>12, <1>0, <1>a, <1>b, NoJobIs
  DEF DoesTarget, Ends, WritesRow, GoesOn, Committed, PlanFits, LeaveFits, LeaveFits, LeavesAlone,
      LeavesLast, LeavesTo, HandsOver
<1>13. ASSUME NEW v \in People, DoesHandOver(c, v, "handOver", "heir")
       PROVE  \/ LeavesAlone(c)' \/ LeavesLast(c)'
             \/ \E w \in People \ {job'[c].me} : LeavesTo(c, w)'
  <2>1. LeavesTo(c, v) /\ v # job[c].me
    BY <1>13, <1>a DEF DoesHandOver, LeavesAlone, LeavesLast, LeavesTo
  <2>2. LeavesTo(c, v)'
    BY <1>13, <1>0, <1>b, <2>1 DEF DoesHandOver, Committed, GoesOn, LeavesTo
  <2> QED
    BY <1>0, <2>1, <2>2
<1>14. ASSUME NEW v \in People, DoesHandOver(c, v, "owner", "message")
       PROVE  \/ LeavesAlone(c)' \/ LeavesLast(c)'
             \/ \E w \in People \ {job'[c].me} : LeavesTo(c, w)'
  BY <1>14, <1>0, <1>a, <1>b, NoJobIs
  DEF DoesHandOver, GoesOn, Committed, PlanFits, LeaveFits, LeaveFits, LeavesAlone, LeavesLast,
      LeavesTo, HandsOver
<1>15. ASSUME DoesFail(c) PROVE \/ LeavesAlone(c)' \/ LeavesLast(c)'
             \/ \E w \in People \ {job'[c].me} : LeavesTo(c, w)'
  BY <1>15, <1>0, <1>a, <1>b, NoJobIs
  DEF DoesFail, Ends, Committed, PlanFits, LeaveFits, LeaveFits, LeavesAlone, LeavesLast,
      LeavesTo, HandsOver
<1> QED
  BY <1>1, <1>2, <1>3, <1>4, <1>5, <1>6, <1>7, <1>8, <1>9, <1>10, <1>11, <1>12, <1>13, <1>14,
     <1>15
  DEF InTransaction

\* The steps of a group by what they do.
LEMMA GroupCases ==
  ASSUME GroupTypeOK, [GroupNext]_groupVars
  PROVE  \/ \E friends \in SUBSET People : Create(friends)
         \/ \E c \in GroupCalls :
              \/ InTransaction(c)
              \/ DoesSettings(c) \/ DoesCommit(c)
              \/ \E v \in People : DoesSetRole(c, v)
              \/ \E u \in People : Begun(c, u) /\ job[c].pc = "idle"
         \/ UNCHANGED <<group, role, job, overlap>>
<1>1. ASSUME NEW c \in GroupCalls, GroupStep(c)
      PROVE  \/ InTransaction(c)
             \/ DoesSettings(c) \/ DoesCommit(c)
             \/ \E v \in People : DoesSetRole(c, v)
  <2>1. Reuse(c) => DoesFail(c)
    BY Ending DEF Reuse, DoesFail, Committed
  <2>2. ASSUME NEW v \in People, Standing(c, v) PROVE DoesStanding(c, v)
    BY <2>2, StandingIs
  <2>3. ASSUME NEW v \in People, DeleteMember(c, v) PROVE DoesDelete(c, v)
    BY <2>3, DeleteIs
  <2>4. ASSUME NEW v \in People, Heir(c, v) PROVE DoesHeir(c, v)
    BY <2>4, HeirIs
  <2>5. ASSUME NEW v \in People, Target(c, v) PROVE DoesTarget(c, v)
    BY <2>5, TargetIs
  <2>6. ASSUME NEW v \in People, SetRole(c, v) PROVE DoesSetRole(c, v)
    BY <2>6, SetRoleIs
  <2>7. ASSUME NEW v \in People, HandOver(c, v, "handOver", "heir")
        PROVE  DoesHandOver(c, v, "handOver", "heir")
    BY <2>7, HandOverIs
  <2>8. ASSUME NEW v \in People, HandOver(c, v, "owner", "message")
        PROVE  DoesHandOver(c, v, "owner", "message")
    BY <2>8, HandOverIs
  <2>9. ASSUME NEW permission \in {"all", "admins"}, Settings(c, permission)
        PROVE  DoesSettings(c)
    BY <2>9, GroupSettingsIs
  <2> QED
    BY <1>1, <2>1, <2>2, <2>3, <2>4, <2>5, <2>6, <2>7, <2>8, <2>9, CountIs, InsertIs, AloneIs,
       RestIs, MessageIs, EraseIs, SelfIs, RevokeIs, CommitIs
    DEF GroupStep, InTransaction
<1>2. ASSUME NEW c \in GroupCalls, GroupFail(c) PROVE InTransaction(c)
  BY <1>2, FailIs DEF InTransaction
<1>3. ASSUME NEW u \in People, Expire(u) PROVE UNCHANGED <<group, role, job, overlap>>
  BY <1>3 DEF Expire
<1>4. UNCHANGED groupVars => UNCHANGED <<group, role, job, overlap>>
  BY DEF groupVars
<1> QED
  BY <1>1, <1>2, <1>3, <1>4, StartIs DEF GroupNext

\* A step of one call leaves the record of the others alone, and what is committed.
LEMMA OthersFit ==
  ASSUME NEW c \in GroupCalls, NEW d \in GroupCalls, job'[d] = job[d], Committed, CallFits(d)
  PROVE  CallFits(d)'
<1>1. PlanFits(d)'
  BY DEF CallFits, PlanFits
<1>2. RowsFit(d)'
  BY DEF CallFits, RowsFit, Committed
<1>3. ~overlap => OwnerAsRead(d)' /\ OwnerStays(d)'
  BY DEF CallFits, OwnerFits, OwnerAsRead, OwnerStays, Committed
<1>4. ~overlap => TransferFits(d)'
  BY DEF CallFits, OwnerFits, TransferFits, TransfersTo, Committed
<1>5. ~overlap => LeaveFits(d)'
  BY DEF CallFits, OwnerFits, LeaveFits, LeavesAlone, LeavesLast, LeavesTo, There, Committed
<1> QED
  BY <1>1, <1>2, <1>3, <1>4, <1>5 DEF CallFits, OwnerFits, Committed

\* No call, and one that has ended, fits.
LEMMA NoJobFits ==
  ASSUME NEW c \in GroupCalls, job'[c] = NoJob
  PROVE  CallFits(c)'
<1>1. HandsOver(NoJob) = FALSE
  BY NoJobIs DEF HandsOver
<1>2. PlanFits(c)'
  BY NoJobIs DEF PlanFits
<1>3. RowsFit(c)'
  BY NoJobIs DEF RowsFit
<1>4. OwnerAsRead(c)' /\ OwnerStays(c)'
  BY <1>1, NoJobIs DEF OwnerAsRead, OwnerStays
<1>5. TransferFits(c)' /\ LeaveFits(c)'
  BY NoJobIs DEF TransferFits, LeaveFits
<1> QED
  BY <1>2, <1>3, <1>4, <1>5 DEF CallFits, OwnerFits

\* Within a transaction nothing is committed, and the other calls stay as they were.
LEMMA InTransactionStays ==
  ASSUME NEW c \in GroupCalls, InTransaction(c)
  PROVE  Committed /\ OthersStay(c)
BY DEF InTransaction, DoesCount, DoesInsert, DoesAlone, DoesRest, DoesMessage, DoesErase, DoesSelf,
       DoesRevoke, DoesFail, DoesStanding, DoesDelete, DoesHeir, DoesTarget, DoesHandOver,
       Ends, MovesTo, WritesRow, GoesOn

LEMMA InTransactionFits ==
  ASSUME RowsInv, NEW c \in GroupCalls, InTransaction(c)
  PROVE  \A d \in GroupCalls : CallFits(d)'
<1>1. Committed /\ OthersStay(c)
  BY InTransactionStays
<1>2. ASSUME NEW d \in GroupCalls \ {c} PROVE CallFits(d)'
  BY <1>1, OthersFit DEF RowsInv, OthersStay
<1>3. PlanFits(c)' /\ RowsFit(c)'
  BY PlanFitsHere, RowsFitHere DEF RowsInv, CallFits
<1>4. ~overlap => OwnerFits(c)'
  BY OwnerAsReadHere, OwnerStaysHere, TransferFitsHere, LeaveFitsHere
  DEF RowsInv, CallFits, OwnerFits
<1>5. CallFits(c)'
  BY <1>1, <1>3, <1>4 DEF CallFits, Committed
<1> QED
  BY <1>2, <1>5

\* A call writes only what no other has written.
LEMMA WritesFree ==
  ASSUME GroupTypeOK, NEW c \in GroupCalls, InTransaction(c), NEW u \in People
  PROVE  \/ job'[c].row[u] \in {"same", job[c].row[u]}
         \/ RowFree(c, u)
<1>1. CASE DoesInsert(c)
  BY <1>1, NoJobIs DEF DoesInsert, Ends, GoesOn, RowFree
<1>2. CASE DoesSelf(c)
  BY <1>2 DEF DoesSelf, WritesRow, GoesOn
<1>3. ASSUME NEW v \in People, DoesDelete(c, v) \/ DoesHeir(c, v) \/ DoesTarget(c, v)
      PROVE  job'[c].row[u] \in {"same", job[c].row[u]} \/ RowFree(c, u)
  BY <1>3, NoJobIs DEF DoesDelete, DoesHeir, DoesTarget, Ends, WritesRow, GoesOn
<1>4. CASE ~DoesInsert(c) /\ ~DoesSelf(c)
           /\ \A v \in People : ~DoesDelete(c, v) /\ ~DoesHeir(c, v) /\ ~DoesTarget(c, v)
  BY <1>4, NoJobIs
  DEF InTransaction, DoesCount, DoesAlone, DoesRest, DoesMessage, DoesErase, DoesRevoke, DoesFail,
      DoesStanding, DoesHandOver, Ends, MovesTo, GoesOn
<1> QED
  BY <1>1, <1>2, <1>3, <1>4

\* What the calls hold against one another, after a step within a transaction.
LEMMA RowsLockedHere ==
  ASSUME GroupTypeOK, RowsLocked, NEW c \in GroupCalls, InTransaction(c)
  PROVE  RowsLocked'
<1> SUFFICES ASSUME NEW d \in GroupCalls, NEW e \in GroupCalls, d # e, NEW u \in People
             PROVE  job'[d].row[u] = "same" \/ job'[e].row[u] = "same"
  BY DEF RowsLocked
<1>1. OthersStay(c)
  BY InTransactionStays
<1>2. job[d].row[u] = "same" \/ job[e].row[u] = "same"
  BY DEF RowsLocked
<1>3. job'[c].row[u] \in {"same", job[c].row[u]}
      \/ \A f \in GroupCalls \ {c} : job[f].row[u] = "same"
  BY WritesFree DEF RowFree
<1> QED
  BY <1>1, <1>2, <1>3 DEF OthersStay

\* A call that has changed anything found the group there, and nobody deleting it.
LEMMA TouchesThere ==
  ASSUME RowsInv, NEW c \in GroupCalls, InTransaction(c), Touches(c)', ~job'[c].gone
  PROVE  There /\ \A d \in GroupCalls \ {c} : ~job[d].gone
<1>0. /\ GroupTypeOK /\ GroupFirst
      /\ Touches(c) /\ ~job[c].gone => There /\ \A d \in GroupCalls \ {c} : ~job[d].gone
      /\ job[c].gone => job[c].pc = "commit"
  BY DEF RowsInv, GroupHeld, CallFits, RowsFit
<1>1. CASE DoesInsert(c)
  BY <1>1, NoJobIs DEF DoesInsert, Ends, Touches
<1>2. CASE DoesMessage(c)
  BY <1>2, NoJobIs DEF DoesMessage, Ends, Touches
<1>3. CASE DoesErase(c)
  BY <1>3 DEF DoesErase, GoesOn
<1>4. CASE DoesSelf(c)
  <2>1. job[c].me \in People
    BY <1>0 DEF GroupTypeOK, Jobs
  <2>2. CASE role[job[c].me] = "none"
    BY <1>0, <1>4, <2>1, <2>2 DEF DoesSelf, WritesRow, GoesOn, Touches
  <2>3. CASE role[job[c].me] # "none"
    BY <1>0, <1>4, <2>1, <2>3 DEF DoesSelf, RowFree, GroupFirst
  <2> QED
    BY <2>2, <2>3
<1>5. ASSUME NEW v \in People, DoesDelete(c, v)
      PROVE  There /\ \A d \in GroupCalls \ {c} : ~job[d].gone
  <2>1. CASE role[v] = "none"
    BY <1>0, <1>5, <2>1 DEF DoesDelete, WritesRow, GoesOn, Touches
  <2>2. CASE role[v] # "none"
    BY <1>0, <1>5, <2>2 DEF DoesDelete, RowFree, GroupFirst
  <2> QED
    BY <2>1, <2>2
<1>6. ASSUME NEW v \in People, DoesHeir(c, v)
      PROVE  There /\ \A d \in GroupCalls \ {c} : ~job[d].gone
  <2>1. CASE role[v] = "none"
    BY <1>0, <1>6, <2>1 DEF DoesHeir, WritesRow, GoesOn, Touches
  <2>2. CASE role[v] # "none"
    BY <1>0, <1>6, <2>2 DEF DoesHeir, RowFree, GroupFirst
  <2> QED
    BY <2>1, <2>2
<1>7. ASSUME NEW v \in People, DoesTarget(c, v)
      PROVE  There /\ \A d \in GroupCalls \ {c} : ~job[d].gone
  BY <1>0, <1>7, NoJobIs DEF DoesTarget, Ends, RowFree, GroupFirst, Touches
<1>8. ASSUME NEW v \in People, NEW pc, NEW next \in {"heir", "message"},
             DoesHandOver(c, v, pc, next), pc # "commit"
      PROVE  There /\ \A d \in GroupCalls \ {c} : ~job[d].gone
  BY <1>0, <1>8 DEF DoesHandOver, GoesOn, Touches
<1>9. CASE DoesCount(c) \/ DoesAlone(c) \/ DoesRest(c) \/ DoesRevoke(c) \/ DoesFail(c)
  BY <1>0, <1>9, NoJobIs
  DEF DoesCount, DoesAlone, DoesRest, DoesRevoke, DoesFail, Ends, MovesTo, GoesOn, Touches
<1>10. ASSUME NEW v \in People, DoesStanding(c, v)
       PROVE  There /\ \A d \in GroupCalls \ {c} : ~job[d].gone
  BY <1>0, <1>10, NoJobIs DEF DoesStanding, Ends, MovesTo, GoesOn, Touches
<1> QED
  BY <1>1, <1>2, <1>3, <1>4, <1>5, <1>6, <1>7, <1>8, <1>9, <1>10 DEF InTransaction

\* Who deletes the group is alone.
LEMMA GoneAlone ==
  ASSUME RowsInv, NEW c \in GroupCalls, InTransaction(c), job'[c].gone
  PROVE  \A d \in GroupCalls \ {c} : ~job[d].gone /\ ~Touches(d)
<1>0. job[c].gone => job[c].pc = "commit"
  BY DEF RowsInv, CallFits, RowsFit
<1>1. DoesErase(c)
  BY <1>0, NoJobIs
  DEF InTransaction, DoesCount, DoesInsert, DoesAlone, DoesRest, DoesMessage, DoesSelf, DoesRevoke,
      DoesFail, DoesStanding, DoesDelete, DoesHeir, DoesTarget, DoesHandOver,
      Ends, MovesTo, WritesRow, GoesOn
<1> QED
  BY <1>1 DEF DoesErase, Touches

LEMMA GroupHeldHere ==
  ASSUME RowsInv, NEW c \in GroupCalls, InTransaction(c)
  PROVE  GroupHeld'
<1> SUFFICES ASSUME NEW d \in GroupCalls, Touches(d)'
             PROVE  (There' \/ job'[d].gone) /\ \A e \in GroupCalls \ {d} : ~job'[e].gone
  BY DEF GroupHeld
<1>1. OthersStay(c) /\ There' = There
  BY InTransactionStays DEF Committed, There
<1>2. CASE d = c
  BY <1>1, <1>2, TouchesThere, GoneAlone DEF OthersStay
<1>3. CASE d # c
  <2>1. Touches(d) /\ job'[d].gone = job[d].gone
    BY <1>1, <1>3 DEF OthersStay, Touches
  <2>2. (There \/ job[d].gone) /\ \A e \in GroupCalls \ {d} : ~job[e].gone
    BY <2>1 DEF RowsInv, GroupHeld
  <2>3. ~job'[c].gone
    BY <1>3, <2>1, GoneAlone
  <2> QED
    BY <1>1, <2>1, <2>2, <2>3 DEF OthersStay
<1> QED
  BY <1>2, <1>3

LEMMA HandsAloneHere ==
  ASSUME GroupTypeOK, HandsAlone, NEW c \in GroupCalls, InTransaction(c)
  PROVE  HandsAlone'
<1>1. OthersStay(c)
  BY InTransactionStays
<1>2. job'[c] = NoJob \/ (job'[c].op = job[c].op /\ job'[c].owned = job[c].owned)
  BY DEF InTransaction, DoesCount, DoesInsert, DoesAlone, DoesRest, DoesMessage, DoesErase,
         DoesSelf, DoesRevoke, DoesFail, DoesStanding, DoesDelete, DoesHeir, DoesTarget,
         DoesHandOver, Ends, MovesTo, WritesRow, GoesOn
<1>3. /\ HandsOver(job'[c]) => HandsOver(job[c])
      /\ Departs(job'[c]) => Departs(job[c])
  BY <1>2, NoJobIs DEF HandsOver, Departs
<1> QED
  BY <1>1, <1>3 DEF HandsAlone, OthersStay

LEMMA GroupFirstHere ==
  ASSUME GroupTypeOK, GroupFirst, NEW c \in GroupCalls, InTransaction(c)
  PROVE  GroupFirst'
<1>1. OthersStay(c) /\ Committed
  BY InTransactionStays
<1>2. job[c] = NoJob => job'[c] = NoJob
  BY NoJobIs
  DEF InTransaction, DoesCount, DoesInsert, DoesAlone, DoesRest, DoesMessage, DoesErase,
      DoesSelf, DoesRevoke, DoesFail, DoesStanding, DoesDelete, DoesHeir, DoesTarget,
      DoesHandOver, Ends
<1> QED
  BY <1>1, <1>2 DEF GroupFirst, OthersStay, Committed, There

\* The tables keep their types.
LEMMA TablesTyped ==
  ASSUME GroupTypeOK, [GroupNext]_groupVars
  PROVE  /\ group' \in [state: {"none", "there", "deleted"}, owner: People,
                        permission: {"all", "admins"}]
         /\ role' \in [People -> Ranks \cup {"none"}]
         /\ links' \subseteq People /\ overlap' \in BOOLEAN /\ made' \in Nat
<1> DEFINE Typed ==
      /\ group' \in [state: {"none", "there", "deleted"}, owner: People,
                     permission: {"all", "admins"}]
      /\ role' \in [People -> Ranks \cup {"none"}]
      /\ links' \subseteq People /\ overlap' \in BOOLEAN /\ made' \in Nat
<1>1. ASSUME NEW friends \in SUBSET People, Create(friends) PROVE Typed
  BY <1>1 DEF Create, GroupTypeOK, Ranks
<1>2. ASSUME NEW c \in GroupCalls, GroupStep(c) PROVE Typed
  <2>1. CASE UNCHANGED <<group, role, links, overlap, made>>
    BY <2>1 DEF GroupTypeOK
  <2>2. CASE Revoke(c) \/ Reuse(c)
    BY <2>2 DEF Revoke, Reuse, GroupTypeOK, Jobs
  <2>3. ASSUME NEW v \in People, SetRole(c, v) PROVE Typed
    <3>1. job[c].rank \in Ranks
      BY DEF GroupTypeOK, Jobs
    <3> QED
      BY <2>3, <3>1 DEF SetRole, GroupTypeOK
  <2>4. ASSUME NEW permission \in {"all", "admins"}, Settings(c, permission) PROVE Typed
    BY <2>4 DEF Settings, GroupTypeOK
  <2>5. CASE GroupCommit(c)
    <3>1. /\ job[c].row \in [People -> Ranks \cup {"none", "same"}]
          /\ job[c].heir \in People \cup {Nobody}
      BY DEF GroupTypeOK, Jobs
    <3>2. role' \in [People -> Ranks \cup {"none"}]
      BY <2>5, <3>1 DEF GroupCommit, GroupTypeOK
    <3>3. group' \in [state: {"none", "there", "deleted"}, owner: People,
                      permission: {"all", "admins"}]
      BY <2>5, <3>1 DEF GroupCommit, GroupTypeOK
    <3> QED
      BY <2>5, <3>2, <3>3 DEF GroupCommit, GroupTypeOK
  <2> QED
    BY <1>2, <2>1, <2>2, <2>3, <2>4, <2>5
    DEF GroupStep, Count, Insert, Alone, Rest, Message, Erase, Self, Standing, DeleteMember, Heir,
        Target, HandOver
<1>3. ASSUME NEW c \in GroupCalls, GroupFail(c) PROVE Typed
  BY <1>3 DEF GroupFail, GroupTypeOK
<1>4. ASSUME NEW c \in GroupCalls, NEW u \in People, GroupStart(c, u) PROVE Typed
  <2>1. ASSUME NEW j, Begins(c, j) PROVE Typed
    <3>1. UNCHANGED <<group, role, links>> /\ made' = made + 1
      BY <2>1 DEF Begins
    <3>2. overlap' \in BOOLEAN
      BY <2>1 DEF Begins
    <3> QED
      BY <3>1, <3>2 DEF GroupTypeOK
  <2>2. CASE Accept(c, u)
    BY <2>2 DEF Accept, GroupTypeOK
  <2>3. ASSUME ~Accept(c, u) PROVE \E j : Begins(c, j)
    BY <1>4, <2>3 DEF GroupStart, Invite, Leave, Kick, ForOwner, Link
  <2> QED
    BY <2>1, <2>2, <2>3
<1>5. ASSUME NEW u \in People, Expire(u) PROVE Typed
  BY <1>5 DEF Expire, GroupTypeOK
<1>6. CASE UNCHANGED groupVars
  BY <1>6 DEF groupVars, GroupTypeOK
<1> QED
  BY <1>1, <1>2, <1>3, <1>4, <1>5, <1>6 DEF GroupNext

\* Every step keeps the types.
LEMMA GroupTypesStep ==
  ASSUME GroupTypeOK, [GroupNext]_groupVars
  PROVE  GroupTypeOK'
<1>1. job' \in [GroupCalls -> Jobs]
  BY GroupCases, InTransactionStays
  DEF GroupTypeOK, Create, OthersStay, DoesSettings, DoesCommit, DoesSetRole, Begun, Ends
<1> QED
  BY <1>1, TablesTyped DEF GroupTypeOK

\* What the rest of the steps leaves.
StillKept ==
  /\ GroupFirst' /\ RowsLocked' /\ GroupHeld'
  /\ \A d \in GroupCalls : CallFits(d)'
  /\ ~overlap' => HandsAlone' /\ OwnerIsRow'

\* The steps one by one: within a transaction, settings, roles, beginnings, commits.
LEMMA TransactionKeeps ==
  ASSUME RowsInv, NEW c \in GroupCalls, InTransaction(c)
  PROVE  StillKept
<1>1. Committed
  BY InTransactionStays
<1>2. OwnerIsRow' = OwnerIsRow
  BY <1>1 DEF Committed, OwnerIsRow, There
<1> QED
  BY <1>1, <1>2, InTransactionFits, RowsLockedHere, GroupHeldHere, HandsAloneHere, GroupFirstHere
  DEF RowsInv, StillKept, Committed

\* When a call ends, the locks and what they promise go with it.
LEMMA EndKeeps ==
  ASSUME RowsInv, NEW c \in GroupCalls, Ends(c), overlap' = overlap
  PROVE  /\ RowsLocked'
         /\ There' = There => GroupHeld'
         /\ CallFits(c)'
         /\ ~overlap' => HandsAlone'
<1>1. RowsLocked'
  BY NoJobIs DEF RowsInv, RowsLocked, Ends, OthersStay
<1>2. ASSUME There' = There PROVE GroupHeld'
  BY <1>2, NoJobIs DEF RowsInv, GroupHeld, Touches, Ends, OthersStay
<1>3. ~HandsOver(NoJob) /\ ~Departs(NoJob)
  BY NoJobIs DEF HandsOver, Departs
<1>4. ~overlap' => HandsAlone'
  BY <1>3 DEF RowsInv, HandsAlone, Ends, OthersStay
<1> QED
  BY <1>1, <1>2, <1>4, NoJobFits DEF Ends

LEMMA SettingsKeep ==
  ASSUME RowsInv, NEW c \in GroupCalls, DoesSettings(c)
  PROVE  StillKept
<1>1. There' = There /\ group'.owner = group.owner /\ role' = role /\ overlap' = overlap
  BY DEF DoesSettings, There
<1>2. GroupFirst'
  BY NoJobIs DEF RowsInv, GroupFirst, DoesSettings, Ends, OthersStay, There
<1>3. ASSUME NEW d \in GroupCalls \ {c} PROVE CallFits(d)'
  <2>1. job'[d] = job[d] /\ CallFits(d)
    BY DEF RowsInv, DoesSettings, Ends, OthersStay
  <2>2. PlanFits(d)' /\ RowsFit(d)'
    BY <1>1, <2>1 DEF CallFits, PlanFits, RowsFit
  <2>3. ~overlap => OwnerAsRead(d)' /\ OwnerStays(d)' /\ TransferFits(d)'
    BY <1>1, <2>1 DEF CallFits, OwnerFits, OwnerAsRead, OwnerStays, TransferFits, TransfersTo
  <2>4. ~overlap => LeaveFits(d)'
    BY <1>1, <2>1 DEF CallFits, OwnerFits, LeaveFits, LeavesAlone, LeavesLast, LeavesTo
  <2> QED
    BY <1>1, <2>2, <2>3, <2>4 DEF CallFits, OwnerFits
<1>4. ~overlap' => OwnerIsRow'
  BY <1>1 DEF RowsInv, OwnerIsRow
<1> QED
  BY <1>1, <1>2, <1>3, <1>4, EndKeeps DEF DoesSettings, StillKept

LEMMA SetRoleKeeps ==
  ASSUME RowsInv, NEW c \in GroupCalls, NEW v \in People, DoesSetRole(c, v)
  PROVE  StillKept
<1>1. /\ There' = There /\ group' = group /\ overlap' = overlap
      /\ \A u \in People \ {v} : role'[u] = role[u]
      /\ \A d \in GroupCalls \ {c} : job[d].row[v] = "same" /\ job'[d] = job[d]
  BY DEF DoesSetRole, There, RowFree, Ends, OthersStay
<1>2. role'[v] = role[v] \/ (role[v] \notin {"none", "owner"} /\ role'[v] \in {"admin", "member"})
  <2>1. job[c].rank \in Ranks /\ job[c].rank # "owner"
    BY NoJobIs DEF RowsInv, CallFits, PlanFits, DoesSetRole, GroupTypeOK, Jobs
  <2> QED
    BY <2>1 DEF DoesSetRole, Ranks
<1>3. \A u \in People : /\ role'[u] = "owner" <=> role[u] = "owner"
                        /\ role'[u] = "none" <=> role[u] = "none"
  BY <1>1, <1>2
<1>4. GroupFirst'
  BY <1>1, <1>3, NoJobIs DEF RowsInv, GroupFirst, DoesSetRole, Ends
<1>5. ASSUME NEW d \in GroupCalls \ {c} PROVE CallFits(d)'
  <2>1. job'[d] = job[d] /\ CallFits(d)
    BY <1>1 DEF RowsInv
  <2>2. PlanFits(d)' /\ RowsFit(d)'
    BY <1>1, <1>3, <2>1 DEF CallFits, PlanFits, RowsFit
  <2>3. ~overlap => OwnerAsRead(d)' /\ OwnerStays(d)' /\ TransferFits(d)'
    BY <1>1, <1>3, <2>1 DEF CallFits, OwnerFits, OwnerAsRead, OwnerStays, TransferFits, TransfersTo
  <2>4. ~overlap => LeaveFits(d)'
    BY <1>1, <1>3, <2>1 DEF CallFits, OwnerFits, LeaveFits, LeavesAlone, LeavesLast, LeavesTo
  <2> QED
    BY <1>1, <2>2, <2>3, <2>4 DEF CallFits, OwnerFits
<1>6. ~overlap' => OwnerIsRow'
  BY <1>1, <1>3 DEF RowsInv, OwnerIsRow
<1> QED
  BY <1>1, <1>4, <1>5, <1>6, EndKeeps DEF DoesSetRole, StillKept

LEMMA BeginKeeps ==
  ASSUME RowsInv, NEW c \in GroupCalls, NEW u \in People, Begun(c, u), job[c].pc = "idle"
  PROVE  StillKept
<1>1. /\ UNCHANGED <<group, role>> /\ There /\ There' /\ OthersStay(c)
      /\ job'[c].heir = Nobody /\ ~job'[c].gone /\ \A w \in People : job'[c].row[w] = "same"
      /\ overlap => overlap' 
  BY DEF Begun, There
<1>2. GroupFirst'
  BY <1>1 DEF RowsInv, GroupFirst, There
<1>3. RowsLocked'
  BY <1>1 DEF RowsInv, RowsLocked, OthersStay
<1>4. GroupHeld'
  <2>1. job'[c].pc # "commit"
    BY DEF Begun
  <2> QED
    BY <1>1, <2>1 DEF RowsInv, GroupHeld, Touches, OthersStay
<1>5. ~overlap' => HandsAlone'
  <2>1. ~overlap' => \A d \in GroupCalls \ {c} :
          ~(HandsOver(job'[c]) /\ Departs(job[d])) /\ ~(Departs(job'[c]) /\ HandsOver(job[d]))
    BY DEF Begun
  <2> QED
    BY <1>1, <2>1 DEF RowsInv, HandsAlone, OthersStay
<1>6. ~overlap' => OwnerIsRow'
  BY <1>1 DEF RowsInv, OwnerIsRow
<1>7. ASSUME NEW d \in GroupCalls \ {c} PROVE CallFits(d)'
  <2>1. job'[d] = job[d] /\ CallFits(d)
    BY <1>1 DEF RowsInv, OthersStay
  <2>2. PlanFits(d)' /\ RowsFit(d)'
    BY <1>1, <2>1 DEF CallFits, PlanFits, RowsFit
  <2>3. ~overlap => OwnerAsRead(d)' /\ OwnerStays(d)' /\ TransferFits(d)'
    BY <1>1, <2>1 DEF CallFits, OwnerFits, OwnerAsRead, OwnerStays, TransferFits, TransfersTo
  <2>4. ~overlap => LeaveFits(d)'
    BY <1>1, <2>1 DEF CallFits, OwnerFits, LeaveFits, LeavesAlone, LeavesLast, LeavesTo, There
  <2> QED
    BY <1>1, <2>2, <2>3, <2>4 DEF CallFits, OwnerFits
<1>8. PlanFits(c)'
  BY DEF Begun, PlanFits
<1>9. RowsFit(c)'
  BY <1>1 DEF RowsFit
<1>10. ~overlap' => OwnerAsRead(c)' /\ OwnerStays(c)'
  BY <1>1 DEF RowsInv, OwnerIsRow, Begun, OwnerAsRead, OwnerStays, HandsOver
<1>11. TransferFits(c)'
  BY <1>1 DEF Begun, TransferFits, TransfersTo
<1>12. LeaveFits(c)'
  BY <1>1 DEF Begun, LeaveFits, LeavesAlone
<1> QED
  BY <1>1, <1>2, <1>3, <1>4, <1>5, <1>6, <1>7, <1>8, <1>9, <1>10, <1>11, <1>12
  DEF CallFits, OwnerFits, StillKept

LEMMA CreateKeeps ==
  ASSUME RowsInv, NEW friends \in SUBSET People, Create(friends)
  PROVE  StillKept
<1>1. /\ \A c \in GroupCalls : job'[c] = NoJob
      /\ group.owner = Founder /\ group'.owner = Founder /\ There'
  BY DEF RowsInv, GroupFirst, Create, GroupTypeOK, There
<1>2. GroupFirst'
  BY <1>1 DEF GroupFirst, There
<1>3. RowsLocked' /\ GroupHeld'
  BY <1>1, NoJobIs DEF RowsLocked, GroupHeld, Touches
<1>4. HandsAlone'
  BY <1>1, NoJobIs DEF HandsAlone, HandsOver, Departs
<1>5. OwnerIsRow'
  BY <1>1 DEF Create, OwnerIsRow
<1> QED
  BY <1>1, <1>2, <1>3, <1>4, <1>5, NoJobFits DEF StillKept

\* What a commit makes of the roles.
LEMMA CommitRoles ==
  ASSUME RowsInv, NEW c \in GroupCalls, DoesCommit(c), ~job[c].gone
  PROVE  /\ There /\ There' /\ group'.state = group.state
         /\ \A u \in People :
              role'[u] = IF job[c].row[u] = "same" THEN role[u] ELSE job[c].row[u]
BY DEF RowsInv, GroupHeld, Touches, DoesCommit, There

\* A call that hands over has handed over when it commits.
LEMMA CommitOwner ==
  ASSUME RowsInv, NEW c \in GroupCalls, DoesCommit(c), ~job[c].gone, ~overlap
  PROVE  OwnerIsRow'
<1>1. /\ There /\ There'
      /\ \A u \in People :
           role'[u] = IF job[c].row[u] = "same" THEN role[u] ELSE job[c].row[u]
      /\ group'.owner = IF job[c].heir = Nobody THEN group.owner ELSE job[c].heir
      /\ job[c].pc = "commit" /\ job[c].me \in People
  BY CommitRoles DEF DoesCommit, RowsInv, GroupTypeOK, Jobs
<1>2. OwnerIsRow /\ OwnerFits(c) /\ RowsFit(c) /\ PlanFits(c)
  BY DEF RowsInv, CallFits
<1>3. CASE job[c].op = "transfer"
  <2>1. PICK v \in People \ {job[c].me} : TransfersTo(c, v)
    BY <1>2, <1>3 DEF OwnerFits, TransferFits
  <2>2. group.owner = job[c].me
    BY <1>2, <1>3 DEF OwnerFits, OwnerAsRead, HandsOver
  <2>3. v # Nobody
    BY GroupAssumption DEF GroupAssumption
  <2> QED
    BY <1>1, <1>2, <2>1, <2>2, <2>3 DEF TransfersTo, OwnerIsRow
<1>4. CASE job[c].op = "leave" /\ job[c].owned
  <2>1. PICK v \in People \ {job[c].me} : LeavesTo(c, v)
    BY <1>1, <1>2, <1>4 DEF OwnerFits, LeaveFits, LeavesAlone, LeavesLast
  <2>2. group.owner = job[c].me
    BY <1>2, <1>4 DEF OwnerFits, OwnerAsRead, HandsOver
  <2>3. v # Nobody
    BY GroupAssumption DEF GroupAssumption
  <2> QED
    BY <1>1, <1>2, <2>1, <2>2, <2>3 DEF LeavesTo, OwnerIsRow
<1>5. CASE ~HandsOver(job[c])
  <2>1. job[c].heir = Nobody
    BY <1>2, <1>5 DEF RowsFit
  <2>2. ASSUME NEW u \in People, job[c].row[u] # "same"
        PROVE  role[u] # "owner" /\ job[c].row[u] # "owner"
    <3>1. job[c].row[u] \in {"none", "member"}
      BY <1>2, <1>5, <2>2 DEF RowsFit, RowsInv, GroupTypeOK, Jobs, Ranks
    <3> QED
      BY <1>2, <1>5, <3>1 DEF RowsFit, OwnerFits, OwnerStays
  <2> QED
    BY <1>1, <1>2, <2>1, <2>2 DEF OwnerIsRow
<1> QED
  BY <1>3, <1>4, <1>5 DEF HandsOver

\* What others know and have changed is untouched by a commit.
LEMMA CommitOthers ==
  ASSUME RowsInv, NEW c \in GroupCalls, DoesCommit(c), ~job[c].gone, NEW d \in GroupCalls \ {c}
  PROVE  CallFits(d)'
<1>1. /\ There /\ There' /\ job'[d] = job[d] /\ overlap' = overlap
      /\ \A u \in People :
           role'[u] = IF job[c].row[u] = "same" THEN role[u] ELSE job[c].row[u]
      /\ group'.owner = IF job[c].heir = Nobody THEN group.owner ELSE job[c].heir
  BY CommitRoles DEF DoesCommit, Ends, OthersStay
<1>2. /\ CallFits(d) /\ CallFits(c)
      /\ \A u \in People : job[c].row[u] = "same" \/ job[d].row[u] = "same"
      /\ ~overlap => /\ ~(HandsOver(job[c]) /\ Departs(job[d]))
                     /\ ~(HandsOver(job[d]) /\ Departs(job[c]))
  BY DEF RowsInv, RowsLocked, HandsAlone
<1>3. PlanFits(d)'
  BY <1>1, <1>2 DEF CallFits, PlanFits
<1>4. RowsFit(d)'
  BY <1>1, <1>2 DEF CallFits, RowsFit
<1>5. ASSUME ~overlap, HandsOver(job[d])
      PROVE  job[c].heir = Nobody /\ \A u \in People : job[c].row[u] # "none"
  BY <1>2, <1>5 DEF CallFits, RowsFit, HandsOver, Departs
<1>6. ~overlap => OwnerAsRead(d)'
  BY <1>1, <1>2, <1>5 DEF CallFits, OwnerFits, OwnerAsRead
<1>7. ~overlap => OwnerStays(d)'
  <2> SUFFICES ASSUME ~overlap, ~HandsOver(job[d]), NEW u \in People,
                      job[d].row[u] = "none" \/ (job[d].pc = "delete" /\ u \in job[d].who)
               PROVE  role'[u] # "owner"
    BY <1>1 DEF OwnerStays
  <2>1. role[u] # "owner"
    BY <1>2 DEF CallFits, OwnerFits, OwnerStays
  <2>2. CASE job[d].row[u] = "none"
    BY <1>1, <1>2, <2>1, <2>2
  <2>3. CASE job[d].pc = "delete"
    <3>1. Departs(job[d])
      BY <1>2, <2>3, NoJobIs DEF CallFits, PlanFits, Departs
    <3>2. job[c].row[u] # "owner"
      BY <1>2, <3>1 DEF CallFits, RowsFit
    <3> QED
      BY <1>1, <2>1, <3>2
  <2> QED
    BY <2>2, <2>3
<1>8. ~overlap => TransferFits(d)'
  BY <1>1, <1>2 DEF CallFits, OwnerFits, TransferFits, TransfersTo
<1>9. ~overlap => LeaveFits(d)'
  <2> SUFFICES ASSUME ~overlap, job[d].op = "leave", job[d].owned
               PROVE  \/ LeavesAlone(d)'
                      \/ LeavesLast(d)'
                      \/ \E v \in People \ {job[d].me} : LeavesTo(d, v)'
    BY <1>1 DEF LeaveFits
  <2>1. HandsOver(job[d])
    BY DEF HandsOver
  <2>2. CASE LeavesAlone(d)
    BY <1>1, <2>2 DEF LeavesAlone
  <2>3. CASE LeavesLast(d)
    BY <1>1, <2>3 DEF LeavesLast
  <2>4. ASSUME NEW v \in People \ {job[d].me}, LeavesTo(d, v) PROVE LeavesTo(d, v)'
    BY <1>1, <1>5, <2>1, <2>4 DEF LeavesTo
  <2> QED
    BY <1>2, <2>2, <2>3, <2>4 DEF CallFits, OwnerFits, LeaveFits
<1> QED
  BY <1>1, <1>3, <1>4, <1>6, <1>7, <1>8, <1>9 DEF CallFits, OwnerFits

\* When the group is deleted nobody else has changed anything.
LEMMA DeletionOthers ==
  ASSUME RowsInv, NEW c \in GroupCalls, DoesCommit(c), job[c].gone, NEW d \in GroupCalls \ {c}
  PROVE  CallFits(d)' /\ ~Touches(d)'
<1>1. /\ ~There' /\ job'[d] = job[d] /\ overlap' = overlap
      /\ \A u \in People : role'[u] = "none"
      /\ group'.owner = IF job[c].heir = Nobody THEN group.owner ELSE job[c].heir
  BY DEF DoesCommit, Ends, OthersStay, There
<1>2. ~Touches(d)
  BY DEF RowsInv, GroupHeld
<1>3. CallFits(d) /\ CallFits(c)
  BY DEF RowsInv
<1>4. PlanFits(d)'
  BY <1>1, <1>3 DEF CallFits, PlanFits
<1>5. RowsFit(d)'
  BY <1>1, <1>2, <1>3 DEF CallFits, RowsFit, Touches, RowsInv, GroupTypeOK, Jobs, Ranks
<1>6. ~overlap => OwnerAsRead(d)'
  <2>1. ~overlap /\ HandsOver(job[d]) => job[c].heir = Nobody
    BY <1>3 DEF CallFits, RowsFit, RowsInv, HandsAlone, HandsOver, Departs
  <2> QED
    BY <1>1, <1>3, <2>1 DEF CallFits, OwnerFits, OwnerAsRead
<1>7. OwnerStays(d)'
  BY <1>1 DEF OwnerStays
<1>8. ~overlap => TransferFits(d)'
  BY <1>1, <1>3 DEF CallFits, OwnerFits, TransferFits, TransfersTo
<1>9. ~overlap => LeaveFits(d)'
  <2> SUFFICES ASSUME ~overlap, job[d].op = "leave", job[d].owned
               PROVE  LeavesAlone(d)' \/ LeavesLast(d)'
    BY <1>1 DEF LeaveFits
  <2>1. LeavesAlone(d) \/ LeavesLast(d)
    <3>1. job[d].me \in People
      BY DEF RowsInv, GroupTypeOK, Jobs
    <3> QED
      BY <1>2, <1>3, <3>1 DEF CallFits, OwnerFits, LeaveFits, LeavesTo, Touches
  <2>2. LeavesAlone(d) => LeavesAlone(d)'
    BY <1>1 DEF LeavesAlone
  <2>3. LeavesLast(d) => LeavesLast(d)'
    BY <1>1 DEF LeavesLast
  <2> QED
    BY <2>1, <2>2, <2>3
<1> QED
  BY <1>1, <1>2, <1>4, <1>5, <1>6, <1>7, <1>8, <1>9 DEF CallFits, OwnerFits, Touches

\* A commit keeps what the calls rely on.
LEMMA CommitKeeps ==
  ASSUME RowsInv, NEW c \in GroupCalls, DoesCommit(c)
  PROVE  StillKept
<1>1. /\ RowsLocked' /\ CallFits(c)' /\ (There' = There => GroupHeld')
      /\ ~overlap' => HandsAlone'
      /\ overlap' = overlap /\ OthersStay(c) /\ job'[c] = NoJob
  BY EndKeeps DEF DoesCommit, Ends
<1>2. group.state # "none"
  BY NoJobIs DEF RowsInv, GroupFirst, DoesCommit
<1>3. CASE job[c].gone
  <2>1. ~There' /\ group'.state = "deleted" /\ \A u \in People : role'[u] = "none"
    BY <1>3 DEF DoesCommit, There
  <2>2. GroupFirst' /\ OwnerIsRow'
    BY <2>1 DEF GroupFirst, OwnerIsRow
  <2>3. GroupHeld'
    BY <1>1, <1>3, DeletionOthers, NoJobIs DEF GroupHeld, Touches
  <2> QED
    BY <1>1, <1>3, <2>2, <2>3, DeletionOthers DEF StillKept
<1>4. CASE ~job[c].gone
  <2>1. There /\ There' /\ group'.state = group.state
    BY <1>4, CommitRoles
  <2>2. GroupFirst'
    BY <1>2, <2>1 DEF GroupFirst
  <2> QED
    BY <1>1, <1>4, <2>1, <2>2, CommitOwner, CommitOthers DEF StillKept
<1> QED
  BY <1>3, <1>4

\* The invariant without the room.
LEMMA RowsInvStep ==
  ASSUME RowsInv, [GroupNext]_groupVars
  PROVE  RowsInv'
<1>1. ASSUME UNCHANGED <<group, role, job, overlap>> PROVE StillKept
  <2>1. Committed /\ \A d \in GroupCalls : job'[d] = job[d]
    BY <1>1 DEF Committed
  <2>2. \A d \in GroupCalls : CallFits(d)'
    BY <2>1, OthersFit DEF RowsInv
  <2> QED
    BY <1>1, <2>2
    DEF RowsInv, StillKept, GroupFirst, RowsLocked, GroupHeld, Touches, HandsAlone, OwnerIsRow,
        There
<1>2. GroupTypeOK
  BY DEF RowsInv
<1>3. StillKept
  BY <1>1, <1>2, GroupCases, CreateKeeps, TransactionKeeps, SettingsKeep, CommitKeeps, SetRoleKeeps,
     BeginKeeps
<1> QED
  BY <1>2, <1>3, GroupTypesStep DEF RowsInv, StillKept

\* Sets of users are finite, and of two together there are no more than of each.
LEMMA ExpectedFinite ==
  ASSUME NEW some \in SUBSET People
  PROVE  IsFiniteSet(some) /\ Cardinality(some) \in Nat
BY GroupAssumption, FS_Subset, FS_CardinalityType DEF GroupAssumption

LEMMA TogetherAtMost ==
  ASSUME NEW some \in SUBSET People, NEW others \in SUBSET People
  PROVE  Cardinality(some \cup others) <= Cardinality(some) + Cardinality(others)
<1> DEFINE all == Cardinality(some \cup others)
           both == Cardinality(some \cap others)
<1>1. /\ IsFiniteSet(some) /\ IsFiniteSet(others)
      /\ Cardinality(some) \in Nat /\ Cardinality(others) \in Nat
  BY ExpectedFinite
<1>2. both \in Nat
  BY ExpectedFinite
<1>3. all = Cardinality(some) + Cardinality(others) - both
  BY <1>1, FS_Union
<1> HIDE DEF all, both
<1>4. all <= Cardinality(some) + Cardinality(others)
  BY <1>1, <1>2, <1>3
<1> QED
  BY <1>4 DEF all

\* Few sets of few members together have few.
LEMMA FewTogether ==
  ASSUME NEW calls, IsFiniteSet(calls), NEW most \in Nat,
         NEW sets \in [calls -> SUBSET People],
         \A c \in calls : Cardinality(sets[c]) <= most
  PROVE  Cardinality(UNION {sets[c] : c \in calls}) <= Cardinality(calls) * most
<1> DEFINE All(some) == UNION {sets[c] : c \in some}
           Bad == {n \in Nat : \E some \in SUBSET calls :
                     Cardinality(some) = n /\ ~(Cardinality(All(some)) <= n * most)}
<1>0. IsFiniteSet(People)
  BY GroupAssumption DEF GroupAssumption
<1>1. ASSUME NEW n \in Bad, \A m \in Bad : <<m, n>> \notin OpToRel(<, Nat) PROVE FALSE
  <2>1. PICK some \in SUBSET calls :
          Cardinality(some) = n /\ ~(Cardinality(All(some)) <= n * most)
    OBVIOUS
  <2>2. IsFiniteSet(some) /\ n \in Nat
    BY FS_Subset
  <2>3. CASE some = {}
    <3>1. All(some) = {} /\ n = 0
      BY <2>1, <2>3, FS_EmptySet
    <3> QED
      BY <2>1, <3>1, FS_EmptySet
  <2>4. ASSUME NEW c \in some PROVE FALSE
    <3> DEFINE others == some \ {c}
    <3>1. others \in SUBSET calls /\ c \in calls
      OBVIOUS
    <3>2. Cardinality(others) = n - 1 /\ Cardinality(others) \in Nat
      BY <2>1, <2>2, FS_RemoveElement, FS_CardinalityType
    <3>3. <<n - 1, n>> \in OpToRel(<, Nat)
      BY <2>2, <3>2 DEF OpToRel
    <3>4. n - 1 \notin Bad
      BY <1>1, <3>3
    <3>5. Cardinality(All(others)) <= (n - 1) * most
      BY <3>1, <3>2, <3>4
    <3>6. All(some) = All(others) \cup sets[c]
      OBVIOUS
    <3>7. /\ IsFiniteSet(All(others)) /\ IsFiniteSet(sets[c])
      <4>1. All(others) \in SUBSET People /\ sets[c] \in SUBSET People
        BY <3>1
      <4> QED
        BY <1>0, <4>1, FS_Subset
    <3>8. Cardinality(All(some)) <= Cardinality(All(others)) + Cardinality(sets[c])
      <4>1. All(others) \in SUBSET People /\ sets[c] \in SUBSET People
        BY <3>1
      <4> HIDE DEF All
      <4> QED
        BY <3>6, <4>1, TogetherAtMost
    <3>9. Cardinality(sets[c]) <= most
      BY <3>1
    <3>10. /\ Cardinality(All(some)) \in Nat /\ Cardinality(All(others)) \in Nat
           /\ Cardinality(sets[c]) \in Nat
      <4>1. All(some) \in SUBSET People
        OBVIOUS
      <4>2. IsFiniteSet(All(some))
        BY <1>0, <4>1, FS_Subset
      <4> HIDE DEF All
      <4> QED
        BY <3>7, <4>2, FS_CardinalityType
    <3>11. (n - 1) * most + most = n * most
      BY <2>2
    <3> HIDE DEF All, others
    <3>12. n \in Nat /\ (n - 1) * most \in Int /\ n * most \in Int
      BY <2>2
    <3> QED
      BY <2>1, <3>5, <3>8, <3>9, <3>10, <3>11, <3>12
  <2> QED
    BY <2>3, <2>4
<1>2. Bad = {}
  <2>1. Bad # {} => \E n \in Bad : \A m \in Bad : <<m, n>> \notin OpToRel(<, Nat)
    BY NatLessThanWellFounded, WFMin
  <2> QED
    BY <1>1, <2>1
<1>3. Cardinality(calls) \in Nat
  BY FS_CardinalityType
<1> QED
  BY <1>2, <1>3

\* The limit is a number, and fewer are within it.
LEMMA RoomBound ==
  /\ MemberLimit \in Nat /\ (Cardinality(GroupCalls) - 1) * MaxInvited \in Nat
  /\ MemberLimit + (Cardinality(GroupCalls) - 1) * MaxInvited \in Nat
<1>1. Cardinality(GroupCalls) \in Nat /\ Cardinality(GroupCalls) # 0
  BY GroupAssumption, FS_CardinalityType, FS_EmptySet DEF GroupAssumption
<1>2. MemberLimit \in Nat /\ MaxInvited \in Nat
  BY GroupAssumption DEF GroupAssumption
<1>3. Cardinality(GroupCalls) - 1 \in Nat
  BY <1>1
<1>4. \A m, n \in Nat : m * n \in Nat
  OBVIOUS
<1> QED
  BY <1>2, <1>3, <1>4

LEMMA FewerExpected ==
  ASSUME RoomIsKept, Expected' \subseteq Expected
  PROVE  Cardinality(Expected') <= MemberLimit + (Cardinality(GroupCalls) - 1) * MaxInvited
<1>1. Expected \in SUBSET People
  BY DEF Expected
<1>2. Cardinality(Expected') <= Cardinality(Expected)
  BY <1>1, ExpectedFinite, FS_Subset
<1>3. Cardinality(Expected') \in Nat /\ Cardinality(Expected) \in Nat
  BY <1>1, ExpectedFinite
<1> QED
  BY <1>2, <1>3, RoomBound DEF RoomIsKept

\* Who is invited stays who is invited.
LEMMA InvitedStay ==
  ASSUME RowsInv, RoomIsKept, [GroupNext]_groupVars, NEW c \in GroupCalls,
         job'[c].op \in {"invite", "join"}
  PROVE  Cardinality(job'[c].who) <= MaxInvited
<1>1. CallFits(c) /\ GroupTypeOK
  BY DEF RowsInv
<1>2. \/ job'[c].who = job[c].who /\ job'[c].op = job[c].op
      \/ Cardinality(job'[c].who) <= MaxInvited
  <2>1. ASSUME NEW d \in GroupCalls, InTransaction(d)
        PROVE  job'[c].who = job[c].who /\ job'[c].op = job[c].op
    <3>1. CASE d # c
      BY <2>1, <3>1, InTransactionStays DEF OthersStay
    <3>2. CASE d = c
      BY <1>1, <2>1, <3>2, NoJobIs
      DEF CallFits, PlanFits, InTransaction, DoesCount, DoesInsert, DoesAlone, DoesRest,
          DoesMessage, DoesErase, DoesSelf, DoesRevoke, DoesFail, DoesStanding, DoesDelete,
          DoesHeir, DoesTarget, DoesHandOver, Ends, MovesTo, WritesRow, GoesOn
    <3> QED
      BY <3>1, <3>2
  <2>2. ASSUME NEW d \in GroupCalls,
               DoesSettings(d) \/ DoesCommit(d) \/ \E v \in People : DoesSetRole(d, v)
        PROVE  job'[c].who = job[c].who /\ job'[c].op = job[c].op
    BY <2>2, NoJobIs DEF DoesSettings, DoesCommit, DoesSetRole, Ends, OthersStay
  <2>3. ASSUME NEW d \in GroupCalls, NEW u \in People, Begun(d, u)
        PROVE  \/ job'[c].who = job[c].who /\ job'[c].op = job[c].op
               \/ Cardinality(job'[c].who) <= MaxInvited
    BY <2>3 DEF Begun, OthersStay
  <2> QED
    BY <1>1, <2>1, <2>2, <2>3, GroupCases DEF Create
<1> QED
  BY <1>2 DEF RoomIsKept

\* Nobody is expected anew, unless members are counted or the group is created.
LEMMA NobodyNew ==
  ASSUME RowsInv, NEW c \in GroupCalls,
         \/ InTransaction(c) /\ ~DoesCount(c)
         \/ DoesSettings(c) \/ DoesCommit(c)
         \/ \E v \in People : DoesSetRole(c, v)
         \/ \E u \in People : Begun(c, u)
  PROVE  Expected' \subseteq Expected
<1>0. OthersStay(c) /\ CallFits(c) /\ GroupTypeOK
  BY InTransactionStays DEF DoesSettings, DoesCommit, DoesSetRole, Begun, Ends, RowsInv
<1>1. Comes(c)' => Comes(c) /\ job'[c].who = job[c].who
  <2>1. CASE InTransaction(c) /\ ~DoesCount(c)
    BY <1>0, <2>1, NoJobIs
    DEF CallFits, PlanFits, InTransaction, DoesInsert, DoesAlone, DoesRest,
        DoesMessage, DoesErase, DoesSelf, DoesRevoke, DoesFail, DoesStanding, DoesDelete,
        DoesHeir, DoesTarget, DoesHandOver, Ends, MovesTo, WritesRow, GoesOn, Comes
  <2>2. CASE DoesSettings(c) \/ DoesCommit(c) \/ \E v \in People : DoesSetRole(c, v)
    BY <2>2, NoJobIs DEF DoesSettings, DoesCommit, DoesSetRole, Ends, Comes
  <2>3. ASSUME NEW u \in People, Begun(c, u) PROVE ~Comes(c)'
    BY <2>3 DEF Begun, Comes
  <2> QED
    BY <2>1, <2>2, <2>3
<1>2. ASSUME NEW u \in People, role'[u] # "none", role[u] = "none"
      PROVE  Comes(c) /\ u \in job[c].who
  <2>1. CASE DoesCommit(c)
    <3>1. job[c].row[u] \in {"owner", "admin", "member"}
      BY <1>0, <1>2, <2>1 DEF DoesCommit, GroupTypeOK, Jobs, Ranks
    <3> QED
      BY <1>0, <1>2, <2>1, <3>1 DEF CallFits, RowsFit, Comes
  <2>2. CASE ~DoesCommit(c)
    BY <1>2, <2>2, InTransactionStays DEF Committed, DoesSettings, DoesSetRole, Begun
  <2> QED
    BY <2>1, <2>2
<1> QED
  BY <1>0, <1>1, <1>2 DEF Expected, OthersStay, Comes

\* When the members have been counted the newcomers fit, but for those of the other calls.
LEMMA CountedFit ==
  ASSUME RowsInv, RoomIsKept, NEW c \in GroupCalls, DoesCount(c)
  PROVE  Cardinality(Expected') <= MemberLimit + (Cardinality(GroupCalls) - 1) * MaxInvited
<1> DEFINE
      calls == GroupCalls \ {c}
      who == [d \in calls |-> IF job[d].op \in {"invite", "join"} THEN job[d].who ELSE {}]
      Newcomers == UNION {who[d] : d \in calls}
<1>0. /\ OthersStay(c) /\ role' = role /\ GroupTypeOK
      /\ MemberLimit \in Nat /\ MaxInvited \in Nat /\ IsFiniteSet(GroupCalls)
  BY InTransactionStays, GroupAssumption DEF InTransaction, RowsInv, Committed, GroupAssumption
<1>1. CASE Comes(c)'
  <2>1. Fits(job[c].who) /\ job'[c].who = job[c].who
    BY <1>1, NoJobIs DEF DoesCount, Ends, GoesOn, Comes
  <2>2. Expected' \subseteq (InGroup \cup job[c].who) \cup Newcomers
    BY <1>0, <2>1 DEF Expected, OthersStay, Comes, InGroup, GroupTypeOK, Jobs
  <2>3. Cardinality(InGroup \cup job[c].who) <= MemberLimit
    <3>1. /\ InGroup \in SUBSET People /\ job[c].who \in SUBSET People
          /\ InGroup \cup job[c].who \in SUBSET People
      BY <1>0 DEF InGroup, GroupTypeOK, Jobs
    <3>2. Cardinality(InGroup) + Cardinality(job[c].who) <= MemberLimit
      BY <2>1 DEF Fits
    <3>3. /\ Cardinality(InGroup) \in Nat /\ Cardinality(job[c].who) \in Nat
          /\ Cardinality(InGroup \cup job[c].who) \in Nat
      BY <3>1, ExpectedFinite
    <3>4. Cardinality(InGroup \cup job[c].who) <= Cardinality(InGroup) + Cardinality(job[c].who)
      BY <3>1, TogetherAtMost
    <3> QED
      BY <1>0, <3>2, <3>3, <3>4
  <2>4. Cardinality(Newcomers) <= (Cardinality(GroupCalls) - 1) * MaxInvited
    <3>1. IsFiniteSet(calls) /\ Cardinality(calls) = Cardinality(GroupCalls) - 1
      BY <1>0, FS_RemoveElement
    <3>2. who \in [calls -> SUBSET People]
      BY <1>0 DEF GroupTypeOK, Jobs
    <3>3. \A d \in calls : Cardinality(who[d]) <= MaxInvited
      BY <1>0, FS_EmptySet DEF RoomIsKept
    <3> QED
      BY <1>0, <3>1, <3>2, <3>3, FewTogether
  <2>5. /\ Newcomers \in SUBSET People /\ InGroup \cup job[c].who \in SUBSET People
        /\ (InGroup \cup job[c].who) \cup Newcomers \in SUBSET People
    BY <1>0 DEF InGroup, GroupTypeOK, Jobs
  <2> HIDE DEF Newcomers
  <2>6. Cardinality((InGroup \cup job[c].who) \cup Newcomers)
          <= Cardinality(InGroup \cup job[c].who) + Cardinality(Newcomers)
    BY <2>5, TogetherAtMost
  <2>7. Cardinality(Expected') <= Cardinality((InGroup \cup job[c].who) \cup Newcomers)
    BY <2>2, <2>5, ExpectedFinite, FS_Subset
  <2>8. Cardinality(Expected') \in Nat
    BY <2>2, <2>5, ExpectedFinite
  <2>9. (Cardinality(GroupCalls) - 1) * MaxInvited \in Int
    BY <1>0, FS_CardinalityType
  <2>10. /\ Cardinality(InGroup \cup job[c].who) \in Nat /\ Cardinality(Newcomers) \in Nat
         /\ Cardinality((InGroup \cup job[c].who) \cup Newcomers) \in Nat
    BY <2>5, ExpectedFinite
  <2> QED
    BY <1>0, <2>3, <2>4, <2>6, <2>7, <2>8, <2>9, <2>10
<1>2. CASE ~Comes(c)'
  <2>1. Expected' \subseteq Expected
    BY <1>0, <1>2 DEF Expected, OthersStay, Comes
  <2> QED
    BY <2>1, FewerExpected
<1> QED
  BY <1>1, <1>2

\* The invariant holds at first, and its count is kept.
LEMMA GroupInvInit ==
  ASSUME GroupInit
  PROVE  GroupInv
<1>1. \A c \in GroupCalls : job[c] = NoJob
  BY DEF GroupInit
<1>2. GroupTypeOK
  BY NoJobIs, GroupAssumption DEF GroupInit, GroupTypeOK, GroupAssumption, Ranks
<1>3. GroupFirst /\ RowsLocked /\ GroupHeld /\ HandsAlone /\ OwnerIsRow
  BY <1>1, NoJobIs
  DEF GroupInit, There, GroupFirst, RowsLocked, GroupHeld, Touches, HandsAlone, HandsOver,
      Departs, OwnerIsRow
<1>4. ASSUME NEW c \in GroupCalls PROVE CallFits(c)
  BY <1>1, NoJobIs
  DEF CallFits, PlanFits, RowsFit, OwnerFits, OwnerAsRead, OwnerStays, TransferFits, LeaveFits,
      HandsOver
<1>5. RoomIsKept
  <2>1. Expected = {}
    BY <1>1, NoJobIs DEF GroupInit, Expected, Comes
  <2> QED
    BY <1>1, <2>1, NoJobIs, RoomBound, FS_EmptySet DEF RoomIsKept
<1> QED
  BY <1>2, <1>3, <1>4, <1>5 DEF GroupInv, RowsInv

LEMMA RoomStep ==
  ASSUME RowsInv, RoomIsKept, [GroupNext]_groupVars
  PROVE  RoomIsKept'
<1>1. \A c \in GroupCalls :
        job'[c].op \in {"invite", "join"} => Cardinality(job'[c].who) <= MaxInvited
  BY InvitedStay
<1>2. Cardinality(Expected') <= MemberLimit + (Cardinality(GroupCalls) - 1) * MaxInvited
  <2>1. ASSUME NEW friends \in SUBSET People, Create(friends)
        PROVE  Cardinality(Expected') <= MemberLimit
    <3>1. \A c \in GroupCalls : job'[c] = NoJob
      BY <2>1 DEF Create, RowsInv, GroupFirst
    <3>2. Expected' = friends \cup {Founder}
      BY <2>1, <3>1, NoJobIs, GroupAssumption DEF Create, Expected, Comes, GroupAssumption
    <3> QED
      BY <2>1, <3>2 DEF Create
  <2>2. ASSUME NEW c \in GroupCalls, ~DoesCount(c),
               \/ InTransaction(c)
               \/ DoesSettings(c) \/ DoesCommit(c)
               \/ \E v \in People : DoesSetRole(c, v)
               \/ \E u \in People : Begun(c, u)
        PROVE  Expected' \subseteq Expected
    BY <2>2, NobodyNew
  <2>3. UNCHANGED <<group, role, job, overlap>> => Expected' = Expected
    BY DEF Expected, Comes
  <2>4. Cardinality(Expected') <= MemberLimit =>
          Cardinality(Expected') <= MemberLimit + (Cardinality(GroupCalls) - 1) * MaxInvited
    <3>1. Cardinality(Expected') \in Nat
      BY ExpectedFinite DEF Expected
    <3> QED
      BY <3>1, RoomBound
  <2> QED
    BY <2>1, <2>2, <2>3, <2>4, GroupCases, CountedFit, FewerExpected DEF RowsInv
<1> QED
  BY <1>1, <1>2 DEF RoomIsKept

\* The group has exactly one owner, the one its row names, as long as no change of owner
\* overlaps with a departure, and no more members than the limit and the other calls of
\* the moment allow, for any number of users and calls.
THEOREM GroupIsKept == GroupSpec => []GroupHolds
<1>1. GroupInit => GroupInv
  BY GroupInvInit
<1>2. GroupInv /\ [GroupNext]_groupVars => GroupInv'
  BY RowsInvStep, RoomStep DEF GroupInv
<1>3. GroupInv => GroupHolds
  <2> SUFFICES ASSUME GroupInv PROVE GroupHolds
    OBVIOUS
  <2>1. InGroup \subseteq Expected /\ Expected \in SUBSET People
    BY DEF InGroup, Expected
  <2>2. Cardinality(InGroup) <= Cardinality(Expected)
    BY <2>1, ExpectedFinite, FS_Subset
  <2>3. /\ Cardinality(InGroup) \in Nat /\ Cardinality(Expected) \in Nat
        /\ MemberLimit + (Cardinality(GroupCalls) - 1) * MaxInvited \in Nat
    BY <2>1, ExpectedFinite, RoomBound
  <2> QED
    BY <2>2, <2>3 DEF GroupInv, RowsInv, RoomIsKept, OwnerIsRow, GroupHolds
<1> QED
  BY <1>1, <1>2, <1>3, PTL DEF GroupSpec

----------------------------------------------------------------------------
(* Chat.                                                                   *)

\* Each thing in the list once.
Once(list) == \A i, j \in DOMAIN list : list[i] = list[j] => i = j

\* Taking one thing out of a list leaves the others, each once.
LEMMA WithoutOnce ==
  ASSUME NEW T, NEW list \in Seq(T), Once(list), NEW item
  PROVE  /\ Without(list, item) \in Seq(T)
         /\ Once(Without(list, item))
         /\ Range(Without(list, item)) \subseteq Range(list) \ {item}
<1> DEFINE K == {i \in DOMAIN list : list[i] # item}
           w == Without(list, item)
           at == InOrder(K)
<1>1. K \in SUBSET DOMAIN list /\ w = Picked(list, K)
  BY DEF Without
<1>2. \A i \in K : i \in Nat /\ i \in DOMAIN list /\ list[i] # item
  OBVIOUS
<1> HIDE DEF K, w, at
<1>3. /\ w \in Seq(T) /\ at \in Seq(K)
      /\ \A i \in DOMAIN w : at[i] \in K /\ w[i] = list[at[i]]
      /\ \A i, j \in DOMAIN w : i < j => at[i] < at[j]
  BY <1>1, PickedFrom DEF at
<1>4. ASSUME NEW i \in DOMAIN w, NEW j \in DOMAIN w, w[i] = w[j] PROVE i = j
  <2>1. i \in Nat /\ j \in Nat /\ (i < j \/ j < i \/ i = j)
    BY <1>3
  <2>2. at[i] = at[j] /\ at[i] \in Nat
    BY <1>2, <1>3, <1>4 DEF Once
  <2> QED
    BY <1>3, <2>1, <2>2
<1>5. Range(w) \subseteq Range(list) \ {item}
  BY <1>2, <1>3 DEF Range
<1> QED
  BY <1>3, <1>4, <1>5 DEF w, Once

\* Something new at the end.
LEMMA AppendOnce ==
  ASSUME NEW T, NEW list \in Seq(T), Once(list), NEW x \in T, x \notin Range(list)
  PROVE  /\ Append(list, x) \in Seq(T)
         /\ Once(Append(list, x))
         /\ Range(Append(list, x)) \subseteq Range(list) \cup {x}
<1> DEFINE a == Append(list, x)
<1>1. /\ Len(list) \in Nat /\ DOMAIN list = 1 .. Len(list)
      /\ a \in Seq(T)
      /\ DOMAIN a = 1 .. Len(list) + 1
      /\ \A i \in 1 .. Len(list) : a[i] = list[i]
      /\ a[Len(list) + 1] = x
  OBVIOUS
<1>2. \A i \in 1 .. Len(list) : a[i] \in Range(list)
  BY <1>1 DEF Range
<1>3. \A i \in DOMAIN a : i \in 1 .. Len(list) \/ i = Len(list) + 1
  BY <1>1
<1> HIDE DEF a
<1>4. Once(a)
  BY <1>1, <1>2, <1>3 DEF Once
<1>5. Range(a) \subseteq Range(list) \cup {x}
  BY <1>1, <1>2, <1>3 DEF Range
<1> QED
  BY <1>1, <1>4, <1>5 DEF a

\* Something new in the place of something old.
LEMMA ReplacedOnce ==
  ASSUME NEW T, NEW list \in Seq(T), Once(list), NEW x \in T, x \notin Range(list), NEW item,
         item # x
  PROVE  /\ Replaced(list, item, x) \in Seq(T)
         /\ Once(Replaced(list, item, x))
         /\ Range(Replaced(list, item, x)) \subseteq (Range(list) \ {item}) \cup {x}
<1> DEFINE r == Replaced(list, item, x)
<1>1. /\ Len(list) \in Nat /\ DOMAIN list = 1 .. Len(list)
      /\ \A i \in DOMAIN list : list[i] \in T /\ list[i] \in Range(list)
  BY DEF Range
<1>2. r = [i \in DOMAIN list |-> IF list[i] = item THEN x ELSE list[i]]
  BY DEF Replaced
<1> HIDE DEF r
<1>3. r \in [1 .. Len(list) -> T]
  BY <1>1, <1>2
<1>4. r \in Seq(T)
  BY <1>1, <1>3
<1>5. Once(r)
  BY <1>1, <1>2 DEF Once
<1>6. Range(r) \subseteq (Range(list) \ {item}) \cup {x}
  BY <1>1, <1>2 DEF Range
<1> QED
  BY <1>4, <1>5, <1>6 DEF r

\* A post is on the screen from when it is typed until its answer is in, and what
\* was stored for it is a message.
ChatInv ==
  /\ ChatTypeOK
  /\ Once(screen)
  /\ \A p \in Posts :
       /\ post[p].app \in {"free", "done"} => p \notin Range(screen)
       /\ post[p].server \in {"stored", "told"} => post[p].m \in Messages

\* A step that leaves the screen alone, or empties it.
LEMMA ChatQuiet ==
  ASSUME ChatInv, ChatTypeOK', screen' = screen \/ screen' = <<>>,
         \A p \in Posts :
           /\ post'[p].app \in {"free", "done"} => post[p].app \in {"free", "done"}
           /\ post'[p].server \in {"stored", "told"} => post'[p].m \in Messages
  PROVE  ChatInv'
<1>1. Range(screen') \subseteq Range(screen) /\ Once(screen')
  BY DEF ChatInv, Range, Once
<1> QED
  BY <1>1 DEF ChatInv

\* The messages known are in the order of time, each once.
LEMMA MergedOnce ==
  ASSUME NEW local \in SUBSET Messages, NEW server \in SUBSET Messages
  PROVE  /\ Merged(local, server) \in Seq(Messages)
         /\ Once(Merged(local, server))
<1>1. Messages \subseteq Nat /\ IsFiniteSet(Messages)
  BY ChatAssumption, FS_Interval DEF Messages
<1>2. local \cup server \in SUBSET Messages /\ local \cup server \in SUBSET Nat
  BY <1>1
<1>3. IsFiniteSet(local \cup server)
  BY <1>1, <1>2, FS_Subset
<1> DEFINE known == InOrder(local \cup server)
<1>4. /\ known \in Seq(local \cup server)
      /\ \A i, j \in DOMAIN known : i < j => known[i] < known[j]
  BY <1>2, <1>3, InOrderGrows
<1> HIDE DEF known
<1>5. known \in Seq(Messages)
  BY <1>2, <1>4
<1>6. ASSUME NEW i \in DOMAIN known, NEW j \in DOMAIN known, known[i] = known[j] PROVE i = j
  <2>1. i \in Nat /\ j \in Nat /\ (i < j \/ j < i \/ i = j) /\ known[i] \in Nat
    BY <1>2, <1>4
  <2> QED
    BY <1>4, <1>6, <2>1
<1> QED
  BY <1>5, <1>6 DEF Merged, known, Once

LEMMA ChatStart == ChatInit => ChatInv
<1> SUFFICES ASSUME ChatInit PROVE ChatInv
  OBVIOUS
<1>1. 0 \in 0 .. MaxMessages
  BY ChatAssumption
<1>2. ChatTypeOK
  BY <1>1 DEF ChatInit, ChatTypeOK, PostStates, FetchStates, NoFetch
<1> QED
  BY <1>2 DEF ChatInit, ChatInv, Once, Range

\* Nothing stored has the identifier of something typed.
LEMMA PostsApart == ASSUME NEW p \in Posts PROVE p \notin Messages
  BY ChatAssumption DEF Messages

\* The screen shows messages only.
LEMMA ChatListed ==
  ASSUME ChatInv, ChatTypeOK', post' = post, Once(screen'), screen' \in Seq(Messages)
  PROVE  ChatInv'
<1>1. ASSUME NEW p \in Posts PROVE p \notin Range(screen')
  <2>1. \A i \in DOMAIN screen' : screen'[i] \in Messages
    OBVIOUS
  <2> QED
    BY <2>1, PostsApart DEF Range
<1> QED
  BY <1>1 DEF ChatInv

\* The steps of a post.
LEMMA PostStep ==
  ASSUME ChatInv, NEW p \in Posts,
         \/ \E again \in Posts : Send(p, again)
         \/ Store(p) \/ EmitMessage(p) \/ Succeed(p)
         \/ \E refused \in BOOLEAN : Fail(p, refused)
  PROVE  ChatInv'
<1> USE DEF ChatInv
<1>1. ASSUME NEW again \in Posts, Send(p, again) PROVE ChatInv'
  <2> DEFINE T == Messages \cup Posts
  <2>1. p \notin Range(screen)
    BY <1>1 DEF Send
  <2>2. /\ Without(screen, again) \in Seq(T)
        /\ Once(Without(screen, again))
        /\ Range(Without(screen, again)) \subseteq Range(screen) \ {again}
    BY WithoutOnce DEF ChatTypeOK
  <2>3. p \in T /\ p \notin Range(Without(screen, again))
    BY <2>1, <2>2
  <2>4. /\ screen' \in Seq(T)
        /\ Once(screen')
        /\ Range(screen') \subseteq Range(Without(screen, again)) \cup {p}
    BY <1>1, <2>2, <2>3, AppendOnce DEF Send
  <2>5. fetch' \in [Fetches -> FetchStates]
    BY <1>1 DEF Send, ChatTypeOK, FetchStates
  <2>6. /\ post' \in [Posts -> PostStates]
        /\ post'[p].app = "waiting" /\ post'[p].server = "coming"
        /\ \A r \in Posts : r # p => post'[r] = post[r]
    BY <1>1 DEF Send, ChatTypeOK, PostStates
  <2>7. ChatTypeOK'
    BY <1>1, <2>4, <2>5, <2>6 DEF Send, ChatTypeOK
  <2>8. ASSUME NEW r \in Posts
        PROVE  /\ post'[r].app \in {"free", "done"} => r \notin Range(screen')
               /\ post'[r].server \in {"stored", "told"} => post'[r].m \in Messages
    BY <2>2, <2>4, <2>6
  <2> QED
    BY <2>4, <2>7, <2>8
<1>2. ASSUME Store(p) PROVE ChatInv'
  <2>1. count + 1 \in Messages /\ count + 1 \in 0 .. MaxMessages
    BY <1>2, ChatAssumption DEF Store, ChatTypeOK, Messages
  <2>2. /\ post' \in [Posts -> PostStates]
        /\ post'[p].m \in Messages /\ post'[p].app = post[p].app
        /\ \A r \in Posts : r # p => post'[r] = post[r]
    BY <1>2, <2>1 DEF Store, ChatTypeOK, PostStates
  <2>3. ChatTypeOK'
    BY <1>2, <2>1, <2>2 DEF Store, ChatTypeOK
  <2> QED
    BY <1>2, <2>2, <2>3, ChatQuiet DEF Store
<1>3. ASSUME EmitMessage(p) PROVE ChatInv'
  <2>2. /\ post' \in [Posts -> PostStates]
        /\ post'[p].m = post[p].m /\ post'[p].app = post[p].app
        /\ \A r \in Posts : r # p => post'[r] = post[r]
        /\ post[p].m \in Messages
    BY <1>3 DEF EmitMessage, ChatTypeOK, PostStates
  <2>3. ChatTypeOK'
    BY <1>3, <2>2 DEF EmitMessage, ChatTypeOK
  <2> QED
    BY <1>3, <2>2, <2>3, ChatQuiet DEF EmitMessage
<1>4. ASSUME NEW refused \in BOOLEAN, Fail(p, refused) PROVE ChatInv'
  <2>2. /\ post' \in [Posts -> PostStates]
        /\ post'[p].m = post[p].m /\ post'[p].app = "failed"
        /\ post'[p].server \in {post[p].server, "none"}
        /\ \A r \in Posts : r # p => post'[r] = post[r]
    BY <1>4 DEF Fail, ChatTypeOK, PostStates
  <2>3. ChatTypeOK'
    BY <1>4, <2>2 DEF Fail, ChatTypeOK
  <2> QED
    BY <1>4, <2>2, <2>3, ChatQuiet DEF Fail
<1>5. ASSUME Succeed(p) PROVE ChatInv'
  <2> DEFINE T == Messages \cup Posts
             m == post[p].m
  <2>1. m \in Messages /\ m \in T
    BY <1>5 DEF Succeed
  <2>2. m # p
    BY <2>1, PostsApart
  <2>3. /\ screen' \in Seq(T)
        /\ Once(screen')
        /\ Range(screen') \subseteq (Range(screen) \ {p}) \cup {m}
    <3>1. CASE m \in Range(screen)
      <4>1. screen' = Without(screen, p)
        BY <1>5, <3>1 DEF Succeed, Answered
      <4> QED
        BY <4>1, WithoutOnce DEF ChatTypeOK
    <3>2. CASE m \notin Range(screen)
      <4>1. screen' = Replaced(screen, p, m)
        BY <1>5, <3>2 DEF Succeed, Answered
      <4> QED
        BY <2>1, <2>2, <3>2, <4>1, ReplacedOnce DEF ChatTypeOK
    <3> QED
      BY <3>1, <3>2
  <2>4. /\ post' \in [Posts -> PostStates]
        /\ post'[p].m = m
        /\ \A r \in Posts : r # p => post'[r] = post[r]
    BY <1>5 DEF Succeed, ChatTypeOK, PostStates
  <2>5. ChatTypeOK'
    BY <1>5, <2>1, <2>3, <2>4 DEF Succeed, ChatTypeOK
  <2>6. ASSUME NEW r \in Posts
        PROVE  /\ post'[r].app \in {"free", "done"} => r \notin Range(screen')
               /\ post'[r].server \in {"stored", "told"} => post'[r].m \in Messages
    <3>1. r # m
      BY <2>1, PostsApart
    <3> QED
      BY <2>1, <2>2, <2>3, <2>4, <3>1
  <2> QED
    BY <2>3, <2>5, <2>6
<1> QED
  BY <1>1, <1>2, <1>3, <1>4, <1>5

\* The steps of a run of the query.
LEMMA FetchStep ==
  ASSUME ChatInv, NEW q \in Fetches, Ask(q) \/ List(q) \/ ListArrives(q) \/ ListFails(q)
  PROVE  ChatInv'
<1>1. /\ fetch[q].local \in SUBSET Messages /\ fetch[q].server \in SUBSET Messages
      /\ {} \in SUBSET Messages
  BY DEF ChatInv, ChatTypeOK, FetchStates
<1>2. /\ post' = post
      /\ fetch' \in [Fetches -> FetchStates]
      /\ table' = table /\ count' = count /\ wire' = wire
      /\ store' \in SUBSET Messages
  <2>1. /\ NoFetch \in FetchStates
        /\ [NoFetch EXCEPT !.pc = "asked", !.live = TRUE, !.local = store] \in FetchStates
        /\ [fetch[q] EXCEPT !.pc = "answered", !.server = table] \in FetchStates
    BY DEF ChatInv, ChatTypeOK, FetchStates, NoFetch
  <2>2. \E f \in FetchStates : fetch' = [fetch EXCEPT ![q] = f]
    <3>1. CASE Ask(q)
      BY <2>1, <3>1 DEF Ask
    <3>2. CASE List(q)
      <4>1. fetch' = [fetch EXCEPT ![q] = [fetch[q] EXCEPT !.pc = "answered", !.server = table]]
        BY <3>2 DEF List, ChatInv, ChatTypeOK, FetchStates
      <4> QED
        BY <2>1, <4>1
    <3>3. CASE ListArrives(q) \/ ListFails(q)
      BY <2>1, <3>3 DEF ListArrives, ListFails
    <3> QED
      BY <3>1, <3>2, <3>3
  <2>3. fetch' \in [Fetches -> FetchStates]
    BY <2>2 DEF ChatInv, ChatTypeOK
  <2>4. store' \in {store, store \cup fetch[q].server}
    BY DEF Ask, List, ListArrives, ListFails
  <2>5. store' \in SUBSET Messages
    BY <1>1, <2>4 DEF ChatInv, ChatTypeOK
  <2>6. post' = post /\ table' = table /\ count' = count /\ wire' = wire
    BY DEF Ask, List, ListArrives, ListFails
  <2> QED
    BY <2>3, <2>5, <2>6
<1>3. \/ screen' = screen
      \/ screen' = Merged(fetch[q].local, fetch[q].server)
      \/ screen' = Merged(fetch[q].local, {})
  BY DEF Ask, List, ListArrives, ListFails
<1>4. CASE screen' = screen
  <2>1. ChatTypeOK'
    BY <1>2, <1>4 DEF ChatInv, ChatTypeOK
  <2> QED
    BY <1>2, <1>4, <2>1, ChatQuiet DEF ChatInv
<1>5. CASE screen' # screen
  <2>1. screen' \in Seq(Messages) /\ Once(screen')
    BY <1>1, <1>3, <1>5, MergedOnce
  <2>2. screen' \in Seq(Messages \cup Posts)
    BY <2>1
  <2>3. ChatTypeOK'
    BY <1>2, <2>2 DEF ChatInv, ChatTypeOK
  <2> QED
    BY <1>2, <2>1, <2>3, ChatListed
<1> QED
  BY <1>4, <1>5

\* A message from the socket.
LEMMA HearStep ==
  ASSUME ChatInv, NEW m \in Messages, NEW heard \in BOOLEAN, Hear(m, heard)
  PROVE  ChatInv'
<1>1. CASE screen' = screen
  <2>1. ChatTypeOK'
    BY <1>1 DEF ChatInv, ChatTypeOK, Hear
  <2> QED
    BY <1>1, <2>1, ChatQuiet DEF Hear, ChatInv
<1>2. CASE screen' # screen
  <2>1. m \notin Range(screen) /\ screen' = Append(screen, m)
    BY <1>2 DEF Hear, Added
  <2>2. /\ screen' \in Seq(Messages \cup Posts)
        /\ Once(screen')
        /\ Range(screen') \subseteq Range(screen) \cup {m}
    BY <2>1, AppendOnce DEF ChatInv, ChatTypeOK
  <2>3. ChatTypeOK'
    BY <2>2 DEF ChatInv, ChatTypeOK, Hear
  <2>4. \A p \in Posts : p # m
    BY PostsApart
  <2> QED
    BY <2>2, <2>3, <2>4 DEF ChatInv, Hear
<1> QED
  BY <1>1, <1>2

LEMMA ChatStep == ChatInv /\ [ChatNext]_chatVars => ChatInv'
<1> SUFFICES ASSUME ChatInv, [ChatNext]_chatVars PROVE ChatInv'
  OBVIOUS
<1>1. CASE UNCHANGED chatVars
  BY <1>1 DEF chatVars, ChatInv, ChatTypeOK, Once, Range
<1>2. ASSUME Others PROVE ChatInv'
  <2>1. count + 1 \in Messages /\ count + 1 \in 0 .. MaxMessages
    BY <1>2, ChatAssumption DEF Others, ChatInv, ChatTypeOK, Messages
  <2>2. ChatTypeOK'
    BY <1>2, <2>1 DEF Others, ChatInv, ChatTypeOK
  <2> QED
    BY <1>2, <2>2, ChatQuiet DEF Others, ChatInv
<1>3. ASSUME Erased PROVE ChatInv'
  <2>1. ChatTypeOK'
    BY <1>3 DEF Erased, ChatInv, ChatTypeOK
  <2> QED
    BY <1>3, <2>1, ChatQuiet DEF Erased, ChatInv
<1>4. ASSUME Forget PROVE ChatInv'
  <2>1. fetch' \in [Fetches -> FetchStates]
    BY <1>4 DEF Forget, ChatInv, ChatTypeOK, FetchStates
  <2>2. ChatTypeOK'
    BY <1>4, <2>1 DEF Forget, ChatInv, ChatTypeOK
  <2> QED
    BY <1>4, <2>2, ChatQuiet DEF Forget, ChatInv
<1> QED
  BY <1>1, <1>2, <1>3, <1>4, PostStep, HearStep, FetchStep DEF ChatNext

\* Whichever of the answer, the socket and the list is first, a message is on the screen
\* once, and not beside the form in which it was typed (onSuccess, addMessage and
\* mergeMessages), for any number of posts, fetches and messages.
THEOREM MessagesShownOnce == ChatSpec => []ShownOnce
<1>1. ChatInv => ShownOnce
  BY DEF ChatInv, ShownOnce, Once
<1> QED
  BY <1>1, ChatStart, ChatStep, PTL DEF ChatSpec

----------------------------------------------------------------------------
(* Journey.                                                                *)

\* What holds at the start and goes on holding in each of n rounds holds throughout.
LEMMA EachRound ==
  ASSUME NEW n \in Nat, NEW Good \in SUBSET Nat, 0 \in Good,
         \A i \in 0 .. n - 1 : i \in Good => i + 1 \in Good
  PROVE  0 .. n \subseteq Good
<1>1. ASSUME NEW i \in 0 .. n, i \notin Good PROVE FALSE
  <2> DEFINE B == {k \in 0 .. n : k \notin Good}
  <2>1. B \in SUBSET Nat /\ B # {}
    BY <1>1
  <2>2. PICK k \in B : \A l \in B : k <= l
    BY <2>1, LeastNumber
  <2>3. k \in 0 .. n /\ k \notin Good /\ k # 0 /\ k - 1 \in 0 .. n - 1 /\ k - 1 < k
    OBVIOUS
  <2>4. k - 1 \notin B
    BY <2>2, <2>3
  <2>5. k - 1 \in Good
    BY <2>3, <2>4
  <2>6. (k - 1) + 1 = k
    BY <2>3
  <2> QED
    BY <2>3, <2>5, <2>6
<1> QED
  BY <1>1

\* What a loop of n rounds makes: a value of T at the start and in each round, from the
\* one before.
IsStep(step, T, n) == step \in [T \X (1 .. n) -> T]
IsRun(loop, step, T, n, base) ==
  /\ loop \in [0 .. n -> T]
  /\ loop[0] = base
  /\ \A i \in 1 .. n : loop[i] = step[<<loop[i - 1], i>>]

LEMMA LoopRuns ==
  ASSUME NEW T, NEW base \in T, NEW n \in Nat, NEW step, IsStep(step, T, n)
  PROVE  \E loop : IsRun(loop, step, T, n, base)
<1> USE DEF IsStep
<1> DEFINE Loops(m) == {loop \in [0 .. n -> T] :
                         loop[0] = base /\ \A i \in 1 .. m : loop[i] = step[<<loop[i - 1], i>>]}
           Good == {m \in 0 .. n : Loops(m) # {}}
<1>1. 0 \in Good
  <2>1. [i \in 0 .. n |-> base] \in Loops(0)
    OBVIOUS
  <2> QED
    BY <2>1
<1>2. ASSUME NEW m \in 0 .. n - 1, m \in Good PROVE m + 1 \in Good
  <2>1. PICK loop \in [0 .. n -> T] :
          loop[0] = base /\ \A i \in 1 .. m : loop[i] = step[<<loop[i - 1], i>>]
    BY <1>2
  <2>2. m \in 0 .. n /\ m + 1 \in 1 .. n /\ m + 1 \in 0 .. n /\ m + 1 # 0 /\ (m + 1) - 1 = m
    OBVIOUS
  <2> DEFINE last == step[<<loop[m], m + 1>>]
             more == [loop EXCEPT ![m + 1] = last]
  <2>3. last \in T
    BY <2>2
  <2>4. /\ more \in [0 .. n -> T] /\ more[0] = base /\ more[m + 1] = last
        /\ \A i \in 0 .. n : i # m + 1 => more[i] = loop[i]
    BY <2>1, <2>2, <2>3
  <2>5. ASSUME NEW i \in 1 .. m + 1 PROVE more[i] = step[<<more[i - 1], i>>]
    <3>1. i \in 0 .. n /\ i - 1 \in 0 .. n /\ i - 1 # m + 1 /\ (i \in 1 .. m \/ i = m + 1)
      BY <2>2
    <3>2. more[i - 1] = loop[i - 1]
      BY <2>4, <3>1
    <3>3. CASE i \in 1 .. m
      <4>1. i # m + 1
        BY <3>3
      <4> QED
        BY <2>1, <2>4, <3>1, <3>2, <3>3, <4>1
    <3>4. CASE i = m + 1
      BY <2>2, <2>4, <3>2, <3>4
    <3> QED
      BY <3>1, <3>3, <3>4
  <2>6. more \in Loops(m + 1)
    BY <2>4, <2>5
  <2> QED
    BY <2>2, <2>6
<1>3. n \in 0 .. n /\ Good \in SUBSET Nat
  OBVIOUS
<1>4. n \in Good
  <2> HIDE DEF Good
  <2> QED
    BY <1>1, <1>2, <1>3, EachRound
<1> QED
  BY <1>4 DEF IsRun

\* A segment of a day of n fixes, before and after it is known whether one stayed.
Span(n) == [from: 1 .. n, to: 1 .. n]
Segment(n) == [from: 1 .. n, to: 1 .. n, stayed: BOOLEAN]

\* The segments are in order and have all fixes up to k between them.
Covers(segments, k) ==
  /\ \A i \in DOMAIN segments : segments[i].from <= segments[i].to
  /\ \A i \in DOMAIN segments :
       segments[i].from = IF i = 1 THEN 1 ELSE segments[i - 1].to + 1
  /\ k = IF segments = <<>> THEN 0 ELSE segments[Len(segments)].to

\* Lists of segments, and what their elements are.
LEMMA SegmentsAre ==
  ASSUME NEW n \in Nat, NEW X, X = Span(n) \/ X = Segment(n), NEW r \in Seq(X)
  PROVE  /\ Len(r) \in Nat /\ DOMAIN r = 1 .. Len(r)
         /\ \A i \in DOMAIN r : r[i] \in X /\ r[i].from \in 1 .. n /\ r[i].to \in 1 .. n
         /\ r # <<>> => Len(r) \in DOMAIN r
<1>1. \A s \in X : s.from \in 1 .. n /\ s.to \in 1 .. n
  BY DEF Span, Segment
<1>2. Len(r) \in Nat /\ DOMAIN r = 1 .. Len(r) /\ (r # <<>> => Len(r) \in DOMAIN r)
  OBVIOUS
<1>3. \A i \in DOMAIN r : r[i] \in X
  OBVIOUS
<1> QED
  BY <1>1, <1>2, <1>3

\* A later segment is after an earlier one.
LEMMA CoverOrder ==
  ASSUME NEW n \in Nat, NEW X, X = Span(n) \/ X = Segment(n), NEW r \in Seq(X),
         NEW k, Covers(r, k)
  PROVE  /\ \A i, j \in DOMAIN r : i < j => r[i].to < r[j].from
         /\ \A i \in DOMAIN r : r[i].to <= k
         /\ k \in 0 .. n
<1> DEFINE After(j) == \A i \in 1 .. j - 1 : r[i].to < r[j].from
           Good == {j \in 0 .. Len(r) : j # 0 => After(j)}
<1>1. /\ Len(r) \in Nat /\ DOMAIN r = 1 .. Len(r)
      /\ \A i \in DOMAIN r : r[i].from \in Nat /\ r[i].to \in 1 .. n
      /\ r # <<>> => Len(r) \in DOMAIN r
  BY SegmentsAre
<1>2. ASSUME NEW j \in 0 .. Len(r) - 1, j \in Good PROVE j + 1 \in Good
  <2>1. j + 1 \in DOMAIN r /\ j + 1 # 0 /\ (j + 1) - 1 = j
    BY <1>1
  <2>2. ASSUME NEW i \in 1 .. j PROVE r[i].to < r[j + 1].from
    <3>1. j # 0 /\ j \in DOMAIN r /\ i \in DOMAIN r /\ (i \in 1 .. j - 1 \/ i = j)
          /\ j + 1 # 1
      BY <1>1
    <3>2. r[j + 1].from = r[j].to + 1 /\ r[j].from <= r[j].to
      BY <2>1, <3>1 DEF Covers
    <3>3. i \in 1 .. j - 1 => r[i].to < r[j].from
      BY <1>2, <3>1
    <3>4. r[i].to \in Nat /\ r[j].to \in Nat /\ r[j].from \in Nat
      BY <1>1, <3>1
    <3> QED
      BY <3>1, <3>2, <3>3, <3>4
  <2>3. After(j + 1)
    BY <2>1, <2>2
  <2> QED
    BY <1>1, <2>3
<1>3. 0 .. Len(r) \subseteq Good
  <2>1. 0 \in Good /\ Good \in SUBSET Nat
    BY <1>1
  <2> HIDE DEF Good
  <2> QED
    BY <1>1, <1>2, <2>1, EachRound
<1>4. ASSUME NEW i \in DOMAIN r, NEW j \in DOMAIN r, i < j PROVE r[i].to < r[j].from
  <2>1. j \in 0 .. Len(r) /\ j # 0 /\ i \in 1 .. j - 1
    BY <1>1, <1>4
  <2>2. j \in Good
    BY <1>3, <2>1
  <2> QED
    BY <2>1, <2>2
<1>5. ASSUME NEW i \in DOMAIN r PROVE r[i].to <= k
  <2>1. r # <<>> /\ k = r[Len(r)].to /\ Len(r) \in DOMAIN r
    BY <1>1, <1>5 DEF Covers
  <2>2. i = Len(r) \/ i < Len(r)
    BY <1>1
  <2>3. i < Len(r) => r[i].to < r[Len(r)].from
    BY <1>4, <2>1
  <2>4. r[Len(r)].from <= r[Len(r)].to
    BY <2>1 DEF Covers
  <2>5. r[i].to \in Nat /\ r[Len(r)].to \in Nat /\ r[Len(r)].from \in Nat
    BY <1>1, <2>1
  <2> QED
    BY <2>1, <2>2, <2>3, <2>4, <2>5
<1>6. k \in 0 .. n
  BY <1>1 DEF Covers
<1> QED
  BY <1>4, <1>5, <1>6

LEMMA NothingCovered == Covers(<<>>, 0)
  BY DEF Covers

\* A segment that begins where the others end can be put after them.
LEMMA CoverAppend ==
  ASSUME NEW n \in Nat, NEW X, X = Span(n) \/ X = Segment(n), NEW r \in Seq(X),
         NEW k, Covers(r, k), NEW s \in X, s.from = k + 1, s.from <= s.to
  PROVE  /\ Append(r, s) \in Seq(X) /\ Len(Append(r, s)) = Len(r) + 1
         /\ \A i \in DOMAIN r : i \in DOMAIN Append(r, s) /\ Append(r, s)[i] = r[i]
         /\ Append(r, s)[Len(r) + 1] = s
         /\ Covers(Append(r, s), s.to)
<1> DEFINE a == Append(r, s)
<1>1. /\ Len(r) \in Nat /\ DOMAIN r = 1 .. Len(r)
      /\ r # <<>> => Len(r) \in DOMAIN r
  BY SegmentsAre
<1>2. /\ a \in Seq(X) /\ Len(a) = Len(r) + 1 /\ DOMAIN a = 1 .. Len(r) + 1
      /\ \A i \in DOMAIN r : a[i] = r[i]
      /\ a[Len(r) + 1] = s /\ a # <<>>
      /\ r = <<>> <=> Len(r) = 0
  OBVIOUS
<1>3. k = IF Len(r) = 0 THEN 0 ELSE r[Len(r)].to
  BY <1>2 DEF Covers
<1> HIDE DEF a
<1>4. ASSUME NEW i \in DOMAIN a
      PROVE  a[i].from <= a[i].to /\ a[i].from = IF i = 1 THEN 1 ELSE a[i - 1].to + 1
  <2>1. CASE i \in DOMAIN r
    <3>1. i = 1 \/ i - 1 \in DOMAIN r
      BY <1>1, <2>1
    <3>2. a[i] = r[i] /\ (i # 1 => a[i - 1] = r[i - 1])
      BY <1>2, <2>1, <3>1
    <3>3. r[i].from <= r[i].to /\ r[i].from = IF i = 1 THEN 1 ELSE r[i - 1].to + 1
      BY <2>1 DEF Covers
    <3> QED
      BY <3>2, <3>3
  <2>2. CASE i = Len(r) + 1
    <3>1. Len(r) = 0 \/ (Len(r) \in DOMAIN r /\ i # 1 /\ i - 1 = Len(r))
      BY <1>1, <2>2
    <3>2. Len(r) = 0 => i = 1 /\ k + 1 = 1
      BY <1>3, <2>2
    <3> QED
      BY <1>2, <1>3, <2>2, <3>1, <3>2
  <2> QED
    BY <1>1, <1>2, <2>1, <2>2
<1>5. Covers(a, s.to)
  BY <1>2, <1>4 DEF Covers
<1> QED
  BY <1>1, <1>2, <1>5 DEF a

\* The last segment goes on.
LEMMA UntilIs ==
  ASSUME NEW n \in Nat, NEW X, X = Span(n) \/ X = Segment(n), NEW r \in Seq(X), r # <<>>,
         NEW m \in 1 .. n
  PROVE  /\ Until(r, m) \in Seq(X) /\ Len(Until(r, m)) = Len(r)
         /\ \A i \in DOMAIN r :
              /\ Until(r, m)[i].from = r[i].from
              /\ Until(r, m)[i].to = IF i = Len(r) THEN m ELSE r[i].to
              /\ X = Segment(n) => Until(r, m)[i].stayed = r[i].stayed
              /\ i # Len(r) => Until(r, m)[i] = r[i]
<1> DEFINE u == Until(r, m)
<1>1. /\ Len(r) \in Nat /\ DOMAIN r = 1 .. Len(r) /\ Len(r) \in DOMAIN r
      /\ \A i \in DOMAIN r : r[i] \in X /\ r[i].from \in 1 .. n /\ r[i].to \in 1 .. n
  BY SegmentsAre
<1>2. /\ u \in [1 .. Len(r) -> X]
      /\ \A i \in DOMAIN r : i # Len(r) => u[i] = r[i]
      /\ u[Len(r)] = [r[Len(r)] EXCEPT !.to = m]
  BY <1>1 DEF Until, Span, Segment
<1>3. /\ u[Len(r)].from = r[Len(r)].from /\ u[Len(r)].to = m
      /\ X = Segment(n) => u[Len(r)].stayed = r[Len(r)].stayed
  BY <1>1, <1>2 DEF Span, Segment
<1> HIDE DEF u
<1>4. u \in Seq(X) /\ Len(u) = Len(r)
  BY <1>1, <1>2
<1> QED
  BY <1>2, <1>3, <1>4 DEF u

LEMMA CoverUntil ==
  ASSUME NEW n \in Nat, NEW X, X = Span(n) \/ X = Segment(n), NEW r \in Seq(X), r # <<>>,
         NEW k, Covers(r, k), NEW m \in 1 .. n, k <= m
  PROVE  Covers(Until(r, m), m)
<1> DEFINE u == Until(r, m)
<1>1. /\ Len(r) \in Nat /\ DOMAIN r = 1 .. Len(r) /\ Len(r) \in DOMAIN r
      /\ \A i \in DOMAIN r : r[i] \in X /\ r[i].from \in 1 .. n /\ r[i].to \in 1 .. n
  BY SegmentsAre
<1>2. /\ u \in Seq(X) /\ Len(u) = Len(r)
      /\ \A i \in DOMAIN r :
           u[i].from = r[i].from /\ u[i].to = IF i = Len(r) THEN m ELSE r[i].to
  BY UntilIs
<1> HIDE DEF u
<1>3. DOMAIN u = DOMAIN r /\ u # <<>>
  BY <1>1, <1>2
<1>4. ASSUME NEW i \in DOMAIN u
      PROVE  u[i].from <= u[i].to /\ u[i].from = IF i = 1 THEN 1 ELSE u[i - 1].to + 1
  <2>1. r[i].from <= r[i].to /\ r[i].from = IF i = 1 THEN 1 ELSE r[i - 1].to + 1
    BY <1>3 DEF Covers
  <2>2. i # 1 => i - 1 \in DOMAIN r /\ i - 1 # Len(r)
    BY <1>1, <1>3
  <2>3. i # 1 => u[i - 1].to = r[i - 1].to
    BY <1>2, <2>2
  <2>4. u[i].from <= u[i].to
    <3>1. CASE i = Len(r)
      <4>1. k = r[i].to /\ k \in Nat /\ r[i].from \in Nat
        BY <1>1, <3>1 DEF Covers
      <4> QED
        BY <1>2, <1>3, <2>1, <3>1, <4>1
    <3> QED
      BY <1>2, <1>3, <2>1, <3>1
  <2> QED
    BY <1>2, <1>3, <2>1, <2>3, <2>4
<1>5. u[Len(u)].to = m
  BY <1>1, <1>2
<1>6. Covers(u, m)
  BY <1>3, <1>4, <1>5 DEF Covers
<1> QED
  BY <1>6 DEF u

\* The last segments can be taken away.
LEMMA CoverCut ==
  ASSUME NEW n \in Nat, NEW X, X = Span(n) \/ X = Segment(n), NEW r \in Seq(X),
         NEW k, Covers(r, k), NEW b \in DOMAIN r
  PROVE  /\ SubSeq(r, 1, b) \in Seq(X) /\ Len(SubSeq(r, 1, b)) = b
         /\ SubSeq(r, 1, b) # <<>>
         /\ \A i \in 1 .. b : SubSeq(r, 1, b)[i] = r[i]
         /\ Covers(SubSeq(r, 1, b), r[b].to)
<1> DEFINE q == SubSeq(r, 1, b)
<1>1. Len(r) \in Nat /\ DOMAIN r = 1 .. Len(r)
  BY SegmentsAre
<1>2. /\ q \in Seq(X) /\ Len(q) = b /\ DOMAIN q = 1 .. b /\ b \in 1 .. b
      /\ \A i \in 1 .. b : q[i] = r[i]
  BY <1>1
<1> HIDE DEF q
<1>3. ASSUME NEW i \in DOMAIN q
      PROVE  q[i].from <= q[i].to /\ q[i].from = IF i = 1 THEN 1 ELSE q[i - 1].to + 1
  <2>1. i \in DOMAIN r /\ (i # 1 => i - 1 \in 1 .. b)
    BY <1>1, <1>2
  <2>2. r[i].from <= r[i].to /\ r[i].from = IF i = 1 THEN 1 ELSE r[i - 1].to + 1
    BY <2>1 DEF Covers
  <2> QED
    BY <1>2, <2>1, <2>2
<1>4. q # <<>>
  BY <1>2
<1>5. Covers(q, r[b].to)
  BY <1>2, <1>3, <1>4 DEF Covers
<1> QED
  BY <1>2, <1>4, <1>5 DEF q

\* A fix, for what is made of it.
Fix == [at: Nat, spot: Nat, rough: BOOLEAN]

\* One round of grouping.
LEMMA NearStep ==
  ASSUME NEW fixes \in Seq(Fix), NEW r \in Seq(Span(Len(fixes))), NEW i \in 1 .. Len(fixes)
  PROVE  /\ Group(fixes, r, i) \in Seq(Span(Len(fixes)))
         /\ Covers(r, i - 1) => Covers(Group(fixes, r, i), i)
<1> DEFINE n == Len(fixes)
           X == Span(n)
           s == [from |-> i, to |-> i]
<1>1. n \in Nat /\ i \in Nat /\ i - 1 \in Nat /\ s \in X /\ s.from = i /\ s.to = i
      /\ (i - 1) + 1 = i /\ i - 1 <= i /\ i <= i
  BY DEF Span
<1>2. Group(fixes, r, i) = Append(r, s) \/ (r # <<>> /\ Group(fixes, r, i) = Until(r, i))
  BY DEF Group
<1>3. Append(r, s) \in Seq(X)
  BY <1>1
<1>4. r # <<>> => Until(r, i) \in Seq(X)
  BY <1>1, UntilIs
<1>5. ASSUME Covers(r, i - 1) PROVE Covers(Append(r, s), i)
  <2>1. s.from = (i - 1) + 1 /\ s.from <= s.to /\ r \in Seq(X)
    BY <1>1
  <2> HIDE DEF s, n
  <2>2. Covers(Append(r, s), s.to)
    BY <1>1, <1>5, <2>1, CoverAppend
  <2> QED
    BY <1>1, <2>2
<1>6. ASSUME Covers(r, i - 1), r # <<>> PROVE Covers(Until(r, i), i)
  <2> HIDE DEF s
  <2> QED
    BY <1>1, <1>6, CoverUntil
<1> QED
  BY <1>2, <1>3, <1>4, <1>5, <1>6

\* The first pass: clusters of fixes that have all of them between them.
LEMMA ClustersCover ==
  ASSUME NEW fixes \in Seq(Fix)
  PROVE  /\ Clusters(fixes) \in Seq(Segment(Len(fixes)))
         /\ Covers(Clusters(fixes), Len(fixes))
<1> DEFINE n == Len(fixes)
           X == Span(n)
           step == [x \in Seq(X) \X (1 .. n) |-> Group(fixes, x[1], x[2])]
           Grown(f) == f = [i \in 0 .. n |-> IF i = 0 THEN <<>> ELSE Group(fixes, f[i - 1], i)]
           grown == CHOOSE f : Grown(f)
           groups == grown[n]
<1>1. n \in Nat /\ n \in 0 .. n /\ 0 \in 0 .. n
  OBVIOUS
<1>2. Clusters(fixes) =
        [i \in DOMAIN groups |->
          [from |-> groups[i].from, to |-> groups[i].to,
           stayed |-> fixes[groups[i].to].at - fixes[groups[i].from].at >= MinStay]]
  BY DEF Clusters
<1>3. \E f : IsRun(f, step, Seq(X), n, <<>>)
  <2>1. IsStep(step, Seq(X), n)
    BY NearStep DEF IsStep
  <2>2. <<>> \in Seq(X)
    OBVIOUS
  <2> HIDE DEF n, X, step
  <2> QED
    BY <1>1, <2>1, <2>2, LoopRuns
<1>4. \E f : Grown(f)
  <2>1. PICK f : IsRun(f, step, Seq(X), n, <<>>)
    BY <1>3
  <2>2. f \in [0 .. n -> Seq(X)] /\ f[0] = <<>>
    BY <2>1 DEF IsRun
  <2>3. ASSUME NEW i \in 0 .. n
        PROVE  f[i] = IF i = 0 THEN <<>> ELSE Group(fixes, f[i - 1], i)
    <3>1. CASE i = 0
      BY <2>2, <3>1
    <3>2. CASE i # 0
      <4>1. i \in 1 .. n /\ i - 1 \in 0 .. n
        BY <3>2
      <4>2. f[i] = step[<<f[i - 1], i>>] /\ f[i - 1] \in Seq(X)
        BY <2>1, <2>2, <4>1 DEF IsRun
      <4>3. step[<<f[i - 1], i>>] = Group(fixes, f[i - 1], i)
        BY <4>1, <4>2
      <4> QED
        BY <3>2, <4>2, <4>3
    <3> QED
      BY <3>1, <3>2
  <2>4. Grown(f)
    BY <2>2, <2>3
  <2> QED
    BY <2>4
<1>5. Grown(grown)
  BY <1>4
<1> HIDE DEF grown
<1>6. /\ DOMAIN grown = 0 .. n /\ grown[0] = <<>>
      /\ \A i \in 1 .. n : i - 1 \in 0 .. n /\ i # 0 /\ grown[i] = Group(fixes, grown[i - 1], i)
  BY <1>1, <1>5
<1> DEFINE Good == {i \in 0 .. n : grown[i] \in Seq(X) /\ Covers(grown[i], i)}
<1>7. 0 \in Good
  <2>1. <<>> \in Seq(X)
    <3> HIDE DEF X
    <3> QED
      OBVIOUS
  <2> QED
    BY <1>1, <1>6, <2>1, NothingCovered
<1>8. ASSUME NEW i \in 0 .. n - 1, i \in Good PROVE i + 1 \in Good
  <2>1. i + 1 \in 1 .. n /\ i + 1 \in 0 .. n /\ (i + 1) - 1 = i
    OBVIOUS
  <2>2. grown[i + 1] = Group(fixes, grown[i], i + 1) /\ grown[i] \in Seq(X) /\ Covers(grown[i], i)
    BY <1>6, <1>8, <2>1
  <2>3. grown[i + 1] \in Seq(X) /\ Covers(grown[i + 1], i + 1)
    BY <2>1, <2>2, NearStep
  <2> QED
    BY <2>1, <2>3
<1>9. n \in Good
  <2>1. Good \in SUBSET Nat
    OBVIOUS
  <2> HIDE DEF Good
  <2> QED
    BY <1>1, <1>7, <1>8, <2>1, EachRound
<1>10. groups \in Seq(X) /\ Covers(groups, n)
  BY <1>9
<1> HIDE DEF groups
<1> DEFINE c == Clusters(fixes)
<1>11. /\ Len(groups) \in Nat /\ DOMAIN groups = 1 .. Len(groups)
       /\ \A i \in DOMAIN groups : groups[i].from \in 1 .. n /\ groups[i].to \in 1 .. n
       /\ groups # <<>> <=> Len(groups) # 0
  BY <1>1, <1>10, SegmentsAre
<1>12. /\ c \in [1 .. Len(groups) -> Segment(n)]
       /\ \A i \in DOMAIN groups : c[i].from = groups[i].from /\ c[i].to = groups[i].to
  BY <1>2, <1>11 DEF Segment
<1> HIDE DEF c
<1>13. c \in Seq(Segment(n)) /\ DOMAIN c = DOMAIN groups /\ Len(c) = Len(groups)
       /\ (c = <<>> <=> Len(c) = 0)
  BY <1>11, <1>12
<1>14. Covers(c, n)
  <2>1. \A i \in DOMAIN groups : i = 1 \/ i - 1 \in DOMAIN groups
    BY <1>11
  <2>2. ASSUME NEW i \in DOMAIN c
        PROVE  c[i].from <= c[i].to /\ c[i].from = IF i = 1 THEN 1 ELSE c[i - 1].to + 1
    BY <1>10, <1>12, <1>13, <2>1 DEF Covers
  <2>3. n = IF c = <<>> THEN 0 ELSE c[Len(c)].to
    BY <1>10, <1>11, <1>12, <1>13 DEF Covers
  <2> HIDE DEF n
  <2> QED
    BY <2>2, <2>3 DEF Covers
<1> QED
  BY <1>13, <1>14 DEF c

\* Where the first i segments end.
End(segments, i) == IF i = 0 THEN 0 ELSE segments[i].to

\* Of two segments that follow one another, one is a stay.
Alternates(segments) ==
  \A i \in 1 .. Len(segments) - 1 : segments[i].stayed \/ segments[i + 1].stayed

\* The next segment begins where the ones before it end.
LEMMA NextBegins ==
  ASSUME NEW n \in Nat, NEW c \in Seq(Segment(n)), Covers(c, n), NEW i \in 1 .. Len(c)
  PROVE  /\ c[i] \in Segment(n) /\ c[i].from = End(c, i - 1) + 1 /\ c[i].from <= c[i].to
         /\ c[i].to \in 1 .. n /\ End(c, i - 1) \in 0 .. n /\ End(c, i - 1) <= c[i].to
         /\ End(c, i) = c[i].to
         /\ n = End(c, Len(c))
<1>1. /\ Len(c) \in Nat /\ DOMAIN c = 1 .. Len(c)
      /\ \A k \in DOMAIN c : c[k] \in Segment(n) /\ c[k].from \in 1 .. n /\ c[k].to \in 1 .. n
  BY SegmentsAre
<1>2. c[i].from <= c[i].to /\ c[i].from = IF i = 1 THEN 1 ELSE c[i - 1].to + 1
  BY <1>1 DEF Covers
<1>3. i # 0 /\ (i = 1 <=> i - 1 = 0) /\ (i # 1 => i - 1 \in DOMAIN c)
  BY <1>1
<1>4. n = c[Len(c)].to /\ Len(c) # 0
  BY <1>1 DEF Covers
<1>5. c[i].from = End(c, i - 1) + 1 /\ End(c, i - 1) \in 0 .. n
  BY <1>1, <1>2, <1>3 DEF End
<1>6. c[i].from \in 1 .. n /\ c[i].to \in 1 .. n /\ c[i] \in Segment(n)
  BY <1>1
<1>7. End(c, i - 1) <= c[i].to
  BY <1>2, <1>5, <1>6
<1> QED
  BY <1>2, <1>3, <1>4, <1>5, <1>6, <1>7 DEF End


\* One round of joining.
LEMMA JoinStep ==
  ASSUME NEW n \in Nat, NEW r \in Seq(Segment(n)), NEW s \in Segment(n)
  PROVE  JoinMove(r, s) \in Seq(Segment(n))
<1>1. JoinMove(r, s) = Append(r, s) \/ (r # <<>> /\ JoinMove(r, s) = Until(r, s.to))
  BY DEF JoinMove
<1>2. s.to \in 1 .. n /\ Append(r, s) \in Seq(Segment(n))
  BY DEF Segment
<1> QED
  BY <1>1, <1>2, UntilIs

LEMMA JoinKeeps ==
  ASSUME NEW n \in Nat, NEW r \in Seq(Segment(n)), NEW s \in Segment(n),
         NEW k \in Nat, Covers(r, k), Alternates(r), s.from = k + 1, s.from <= s.to
  PROVE  Covers(JoinMove(r, s), s.to) /\ Alternates(JoinMove(r, s))
<1>1. /\ Len(r) \in Nat /\ DOMAIN r = 1 .. Len(r) /\ (r # <<>> <=> Len(r) # 0)
      /\ r # <<>> => Len(r) \in DOMAIN r
      /\ s.from \in 1 .. n /\ s.to \in 1 .. n /\ k <= s.to
  <2>1. s.from \in 1 .. n /\ s.to \in 1 .. n
    BY DEF Segment
  <2>2. k <= s.to
    BY <2>1
  <2> QED
    BY <2>1, <2>2
<1>2. CASE r # <<>> /\ ~r[Len(r)].stayed /\ ~s.stayed
  <2> DEFINE u == Until(r, s.to)
  <2>1. JoinMove(r, s) = u
    BY <1>2 DEF JoinMove, Latest
  <2>2. Covers(u, s.to)
    BY <1>1, <1>2, CoverUntil
  <2>3. Len(u) = Len(r) /\ \A i \in DOMAIN r : u[i].stayed = r[i].stayed
    BY <1>1, <1>2, UntilIs
  <2> HIDE DEF u
  <2>4. Alternates(u)
    BY <1>1, <2>3 DEF Alternates
  <2> QED
    BY <2>1, <2>2, <2>4
<1>3. CASE ~(r # <<>> /\ ~r[Len(r)].stayed /\ ~s.stayed)
  <2> DEFINE a == Append(r, s)
  <2>1. JoinMove(r, s) = a
    BY <1>3 DEF JoinMove, Latest
  <2>2. /\ Covers(a, s.to) /\ Len(a) = Len(r) + 1 /\ a[Len(r) + 1] = s
        /\ \A i \in DOMAIN r : a[i] = r[i]
    BY CoverAppend
  <2> HIDE DEF a
  <2>3. ASSUME NEW i \in 1 .. Len(a) - 1 PROVE a[i].stayed \/ a[i + 1].stayed
    <3>1. i \in 1 .. Len(r)
      <4>1. Len(a) - 1 = Len(r)
        BY <1>1, <2>2
      <4> QED
        BY <4>1
    <3>2. i \in DOMAIN r /\ (i = Len(r) \/ (i \in 1 .. Len(r) - 1 /\ i + 1 \in DOMAIN r))
      <4>1. i \in Nat /\ 1 <= i /\ i <= Len(r) /\ Len(r) \in Nat
        BY <1>1, <3>1
      <4>2. i = Len(r) \/ (i \in 1 .. Len(r) - 1 /\ i + 1 \in 1 .. Len(r))
        BY <4>1
      <4> QED
        BY <1>1, <3>1, <4>2
    <3>3. CASE i = Len(r)
      <4>1. r[Len(r)].stayed \/ s.stayed
        BY <1>1, <1>3, <3>2, <3>3
      <4> QED
        BY <2>2, <3>2, <3>3, <4>1
    <3> QED
      BY <2>2, <3>2, <3>3 DEF Alternates
  <2> QED
    BY <2>1, <2>2, <2>3 DEF Alternates
<1> QED
  BY <1>2, <1>3

\* The second pass: no two ways follow one another.
LEMMA JoinedCover ==
  ASSUME NEW fixes \in Seq(Fix)
  PROVE  /\ Joined(fixes) \in Seq(Segment(Len(fixes)))
         /\ Covers(Joined(fixes), Len(fixes))
         /\ Alternates(Joined(fixes))
<1> DEFINE n == Len(fixes)
           X == Segment(n)
           c == Clusters(fixes)
           step == [x \in Seq(X) \X (1 .. Len(c)) |-> JoinMove(x[1], c[x[2]])]
           Grown(f) == f = [i \in 0 .. Len(c) |->
                             IF i = 0 THEN <<>> ELSE JoinMove(f[i - 1], c[i])]
           grown == CHOOSE f : Grown(f)
<1>1. n \in Nat
  OBVIOUS
<1>2. c \in Seq(X) /\ Covers(c, n)
  BY ClustersCover
<1>3. Joined(fixes) = grown[Len(c)]
  BY DEF Joined
<1> HIDE DEF n, c
<1>4. Len(c) \in Nat /\ Len(c) \in 0 .. Len(c) /\ 0 \in 0 .. Len(c)
      /\ \A i \in 1 .. Len(c) : c[i] \in X
  BY <1>2
<1>5. \E f : IsRun(f, step, Seq(X), Len(c), <<>>)
  <2>1. IsStep(step, Seq(X), Len(c))
    BY <1>1, <1>4, JoinStep DEF IsStep
  <2>2. <<>> \in Seq(X)
    <3> HIDE DEF X
    <3> QED
      OBVIOUS
  <2> HIDE DEF X, step
  <2> QED
    BY <1>4, <2>1, <2>2, LoopRuns
<1>6. \E f : Grown(f)
  <2>1. PICK f : IsRun(f, step, Seq(X), Len(c), <<>>)
    BY <1>5
  <2>2. f \in [0 .. Len(c) -> Seq(X)] /\ f[0] = <<>>
    BY <2>1 DEF IsRun
  <2>3. ASSUME NEW i \in 0 .. Len(c)
        PROVE  f[i] = IF i = 0 THEN <<>> ELSE JoinMove(f[i - 1], c[i])
    <3>1. CASE i = 0
      BY <2>2, <3>1
    <3>2. CASE i # 0
      <4>1. i \in 1 .. Len(c) /\ i - 1 \in 0 .. Len(c)
        BY <1>4, <3>2
      <4>2. f[i] = step[<<f[i - 1], i>>] /\ f[i - 1] \in Seq(X)
        BY <2>1, <2>2, <4>1 DEF IsRun
      <4>3. step[<<f[i - 1], i>>] = JoinMove(f[i - 1], c[i])
        BY <4>1, <4>2
      <4> QED
        BY <3>2, <4>2, <4>3
    <3> QED
      BY <3>1, <3>2
  <2>4. Grown(f)
    BY <2>2, <2>3
  <2> QED
    BY <2>4
<1>7. Grown(grown)
  BY <1>6
<1> HIDE DEF grown
<1>8. /\ grown[0] = <<>>
      /\ \A i \in 1 .. Len(c) : grown[i] = JoinMove(grown[i - 1], c[i])
  BY <1>4, <1>7
<1> DEFINE Good == {i \in 0 .. Len(c) : /\ grown[i] \in Seq(X)
                                         /\ Covers(grown[i], End(c, i))
                                         /\ Alternates(grown[i])}
<1>9. 0 \in Good
  <2>1. <<>> \in Seq(X)
    <3> HIDE DEF X
    <3> QED
      OBVIOUS
  <2>2. Alternates(<<>>) /\ End(c, 0) = 0
    BY DEF Alternates, End
  <2> QED
    BY <1>4, <1>8, <2>1, <2>2, NothingCovered
<1>10. ASSUME NEW i \in 0 .. Len(c) - 1, i \in Good PROVE i + 1 \in Good
  <2>1. i + 1 \in 1 .. Len(c) /\ i + 1 \in 0 .. Len(c) /\ (i + 1) - 1 = i
    BY <1>4
  <2> DEFINE s == c[i + 1]
  <2>2. /\ grown[i + 1] = JoinMove(grown[i], s)
        /\ grown[i] \in Seq(X) /\ Covers(grown[i], End(c, i)) /\ Alternates(grown[i])
    BY <1>8, <1>10, <2>1
  <2>3. /\ s \in X /\ s.from = End(c, i) + 1 /\ s.from <= s.to
        /\ End(c, i) \in Nat /\ End(c, i + 1) = s.to
    BY <1>1, <1>2, <2>1, NextBegins
  <2> HIDE DEF s
  <2>4. grown[i + 1] \in Seq(X)
    BY <1>1, <2>2, <2>3, JoinStep
  <2>5. Covers(grown[i + 1], s.to) /\ Alternates(grown[i + 1])
    BY <1>1, <2>2, <2>3, JoinKeeps
  <2> QED
    BY <2>1, <2>3, <2>4, <2>5
<1>11. Len(c) \in Good
  <2>1. Good \in SUBSET Nat
    BY <1>4
  <2> HIDE DEF Good
  <2> QED
    BY <1>4, <1>9, <1>10, <2>1, EachRound
<1>12. n = End(c, Len(c))
  BY <1>2, <1>4 DEF Covers, End
<1> QED
  BY <1>3, <1>11, <1>12 DEF n

\* The segment a stay may go on with: the last one, or the one before the last way.
Before(r) == IF r # <<>> /\ ~r[Len(r)].stayed THEN Len(r) - 1 ELSE Len(r)

\* No two stays are left apart that could be merged.
Apart(fixes, r) ==
  \A a, b \in DOMAIN r :
    b = a + 1 \/ (b = a + 2 /\ ~r[a + 1].stayed) => ~Mergeable(fixes, r[a], r[b])

\* No way among the first i segments is long and within a stay.
HidesLittle(fixes, c, i, r) ==
  \A k \in 1 .. i, j \in DOMAIN r :
    /\ ~c[k].stayed /\ r[j].stayed
    /\ r[j].from <= c[k].from /\ c[k].to <= r[j].to
    => fixes[c[k].to + 1].at - fixes[c[k].from - 1].at < MergeGap

\* What the third pass has made of the first i segments.
MergedSoFar(fixes, c, i, r) ==
  /\ Covers(r, End(c, i))
  /\ Alternates(r)
  /\ Len(r) <= i
  /\ i > 0 => /\ r[Len(r)].stayed = c[i].stayed
              /\ ~c[i].stayed => r[Len(r)] = c[i]
  /\ Apart(fixes, r)
  /\ HidesLittle(fixes, c, i, r)

\* One round of merging.
LEMMA MergeIs ==
  ASSUME NEW n \in Nat, NEW fixes, NEW r \in Seq(Segment(n)), NEW s \in Segment(n)
  PROVE  /\ \/ /\ Before(r) \in DOMAIN r
               /\ Mergeable(fixes, r[Before(r)], s)
               /\ MergeStay(fixes, r, s) = Until(SubSeq(r, 1, Before(r)), s.to)
            \/ /\ ~(Before(r) \in DOMAIN r /\ Mergeable(fixes, r[Before(r)], s))
               /\ MergeStay(fixes, r, s) = Append(r, s)
         /\ MergeStay(fixes, r, s) \in Seq(Segment(n))
<1> DEFINE b == Before(r)
           q == SubSeq(r, 1, b)
<1>1. /\ Len(r) \in Nat /\ DOMAIN r = 1 .. Len(r) /\ (r # <<>> <=> Len(r) # 0)
      /\ s.to \in 1 .. n
  BY DEF Segment
<1>2. b \in 0 .. Len(r) /\ (b > 0 <=> b \in DOMAIN r)
  BY <1>1 DEF Before
<1>3. MergeStay(fixes, r, s) =
        IF b > 0 /\ Mergeable(fixes, r[b], s) THEN Until(q, s.to) ELSE Append(r, s)
  BY DEF MergeStay, Before, Latest
<1> HIDE DEF b
<1>4. b \in DOMAIN r => q \in Seq(Segment(n)) /\ q # <<>>
  <2>1. ASSUME b \in DOMAIN r PROVE q \in Seq(Segment(n)) /\ Len(q) = b /\ b # 0
    BY <1>1, <2>1
  <2> QED
    BY <2>1
<1> HIDE DEF q
<1>5. b \in DOMAIN r => Until(q, s.to) \in Seq(Segment(n))
  BY <1>1, <1>4, UntilIs
<1>6. Append(r, s) \in Seq(Segment(n))
  OBVIOUS
<1> QED
  BY <1>2, <1>3, <1>5, <1>6 DEF b, q

\* A segment that is not merged leaves things as they are.
LEMMA MergeAppends ==
  ASSUME NEW n \in Nat, NEW fixes, NEW c \in Seq(Segment(n)), Covers(c, n), Alternates(c),
         NEW i \in 0 .. Len(c) - 1, NEW r \in Seq(Segment(n)), MergedSoFar(fixes, c, i, r),
         ~(Before(r) \in DOMAIN r /\ Mergeable(fixes, r[Before(r)], c[i + 1]))
  PROVE  MergedSoFar(fixes, c, i + 1, Append(r, c[i + 1]))
<1> DEFINE X == Segment(n)
           s == c[i + 1]
           a == Append(r, s)
<1>1. /\ Len(r) \in Nat /\ DOMAIN r = 1 .. Len(r) /\ (r # <<>> <=> Len(r) # 0)
      /\ \A j \in DOMAIN r : r[j].from \in 1 .. n /\ r[j].to \in 1 .. n
      /\ Len(c) \in Nat /\ DOMAIN c = 1 .. Len(c)
      /\ \A j \in DOMAIN c : c[j].from \in 1 .. n /\ c[j].to \in 1 .. n
  BY SegmentsAre
<1>2. i \in Nat /\ i + 1 \in 1 .. Len(c) /\ i + 1 \in DOMAIN c /\ (i + 1) - 1 = i
  BY <1>1
<1>3. /\ s \in X /\ s.from = End(c, i) + 1 /\ s.from <= s.to
      /\ End(c, i) \in 0 .. n /\ End(c, i + 1) = s.to
  BY <1>2, NextBegins
<1>4. /\ a \in Seq(X) /\ Len(a) = Len(r) + 1 /\ a[Len(r) + 1] = s /\ Covers(a, s.to)
      /\ \A j \in DOMAIN r : a[j] = r[j]
  BY <1>3, CoverAppend DEF MergedSoFar
<1>5. \A j \in DOMAIN r : r[j].to <= End(c, i)
  BY CoverOrder DEF MergedSoFar
<1>6. \A k \in 1 .. i : k \in DOMAIN c /\ c[k].to < s.from /\ c[k].from <= c[k].to
  <2>1. \A k \in 1 .. i : k \in DOMAIN c /\ k < i + 1
    BY <1>1, <1>2
  <2> QED
    BY <1>2, <2>1, CoverOrder DEF Covers
<1>7. r # <<>> => i \in 1 .. Len(c) - 1 /\ r[Len(r)].stayed = c[i].stayed
  <2>1. r # <<>> => i > 0
    BY <1>1, <1>2 DEF MergedSoFar
  <2> QED
    BY <1>1, <2>1 DEF MergedSoFar
<1>8. r # <<>> => r[Len(r)].stayed \/ s.stayed
  BY <1>7 DEF Alternates
<1> HIDE DEF s, a
<1>9. \A j \in DOMAIN a : j \in DOMAIN r \/ j = Len(r) + 1
  BY <1>1, <1>4
<1>10. Alternates(a)
  <2>1. ASSUME NEW j \in 1 .. Len(a) - 1 PROVE a[j].stayed \/ a[j + 1].stayed
    <3>1. j \in DOMAIN r /\ (j = Len(r) \/ (j \in 1 .. Len(r) - 1 /\ j + 1 \in DOMAIN r))
      <4>1. j \in Nat /\ 1 <= j /\ j <= Len(r) /\ Len(r) \in Nat
        BY <1>1, <1>4
      <4>2. j \in 1 .. Len(r) /\ (j = Len(r) \/ (j \in 1 .. Len(r) - 1 /\ j + 1 \in 1 .. Len(r)))
        BY <4>1
      <4> QED
        BY <1>1, <4>2
    <3>2. CASE j = Len(r)
      <4>1. r # <<>>
        BY <1>1, <3>1, <3>2
      <4> QED
        BY <1>4, <1>8, <3>1, <3>2, <4>1
    <3> QED
      BY <1>4, <3>1, <3>2 DEF MergedSoFar, Alternates
  <2> QED
    BY <2>1 DEF Alternates
<1>11. Apart(fixes, a)
  <2>1. ASSUME NEW k \in DOMAIN a, NEW b \in DOMAIN a,
               b = k + 1 \/ (b = k + 2 /\ ~a[k + 1].stayed), Mergeable(fixes, a[k], a[b])
        PROVE  FALSE
    <3>1. k \in DOMAIN r /\ k \in Nat /\ (b \in DOMAIN r => b = k + 1 \/ k + 1 \in DOMAIN r)
      <4>1. k \in Nat /\ b \in Nat /\ 1 <= k /\ k < b /\ b <= Len(r) + 1
        BY <1>1, <1>4, <2>1
      <4>2. k \in 1 .. Len(r) /\ (b \in 1 .. Len(r) => b = k + 1 \/ k + 1 \in 1 .. Len(r))
        BY <1>1, <2>1, <4>1
      <4> QED
        BY <1>1, <4>1, <4>2
    <3>2. CASE b \in DOMAIN r
      <4>1. a[k] = r[k] /\ a[b] = r[b] /\ (b # k + 1 => a[k + 1] = r[k + 1])
        BY <1>4, <3>1, <3>2
      <4> QED
        BY <2>1, <3>1, <3>2, <4>1 DEF MergedSoFar, Apart
    <3>3. CASE b = Len(r) + 1
      <4>1. a[b] = s /\ a[k] = r[k] /\ r[k].stayed
        BY <1>4, <2>1, <3>1, <3>3 DEF Mergeable
      <4>2. k = Len(r) \/ (k + 1 = Len(r) /\ ~r[Len(r)].stayed)
        <5>1. CASE b = k + 1
          BY <1>1, <3>1, <3>3, <5>1
        <5>2. CASE b = k + 2 /\ ~a[k + 1].stayed
          <6>1. k + 1 = Len(r) /\ k + 1 \in DOMAIN r
            BY <1>1, <3>1, <3>3, <5>2
          <6> QED
            BY <1>4, <5>2, <6>1
        <5> QED
          BY <2>1, <5>1, <5>2
      <4>3. k = Before(r)
        <5>1. r # <<>>
          BY <3>1
        <5> QED
          BY <1>1, <3>1, <4>1, <4>2, <5>1 DEF Before
      <4> QED
        BY <2>1, <3>1, <4>1, <4>3 DEF s
    <3> QED
      BY <1>9, <3>2, <3>3
  <2> QED
    BY <2>1 DEF Apart
<1>12. HidesLittle(fixes, c, i + 1, a)
  <2>1. ASSUME NEW k \in 1 .. i + 1, NEW j \in DOMAIN a,
               ~c[k].stayed, a[j].stayed, a[j].from <= c[k].from, c[k].to <= a[j].to
        PROVE  fixes[c[k].to + 1].at - fixes[c[k].from - 1].at < MergeGap
    <3>1. (k \in 1 .. i \/ k = i + 1) /\ (k = i + 1 => c[k] = s)
      BY <1>2 DEF s
    <3>2. s.from \in 1 .. n /\ s.to \in 1 .. n
      BY <1>1, <1>2 DEF s
    <3>3. CASE j \in DOMAIN r
      <4>1. a[j] = r[j] /\ r[j].to <= End(c, i) /\ r[j].to \in 1 .. n
        BY <1>1, <1>4, <1>5, <3>3
      <4>2. k # i + 1
        BY <1>3, <2>1, <3>1, <3>2, <4>1
      <4> QED
        BY <2>1, <3>1, <3>3, <4>1, <4>2 DEF MergedSoFar, HidesLittle
    <3>4. CASE j = Len(r) + 1
      <4>1. a[j] = s
        BY <1>4, <3>4
      <4>2. k \in 1 .. i
        BY <2>1, <3>1, <4>1
      <4>3. c[k].to < s.from /\ c[k].from <= c[k].to /\ s.from <= c[k].from
            /\ c[k].to \in Nat /\ c[k].from \in Nat /\ s.from \in Nat
        BY <1>1, <1>6, <2>1, <3>2, <4>1, <4>2
      <4> QED
        BY <4>3
    <3> QED
      BY <1>9, <3>3, <3>4
  <2> QED
    BY <2>1 DEF HidesLittle
<1>13. Len(a) <= i + 1 /\ a[Len(a)] = s
  BY <1>1, <1>2, <1>4 DEF MergedSoFar
<1>14. c[i + 1] = s
  BY DEF s
<1>15. MergedSoFar(fixes, c, i + 1, a)
  BY <1>3, <1>4, <1>10, <1>11, <1>12, <1>13, <1>14 DEF MergedSoFar
<1> QED
  BY <1>15 DEF s, a

\* A stay that is merged hides at most a short way.
LEMMA MergeJoins ==
  ASSUME NEW n \in Nat, NEW fixes, NEW c \in Seq(Segment(n)), Covers(c, n), Alternates(c),
         NEW i \in 0 .. Len(c) - 1, NEW r \in Seq(Segment(n)), MergedSoFar(fixes, c, i, r),
         Before(r) \in DOMAIN r, Mergeable(fixes, r[Before(r)], c[i + 1])
  PROVE  MergedSoFar(fixes, c, i + 1, Until(SubSeq(r, 1, Before(r)), c[i + 1].to))
<1> DEFINE X == Segment(n)
           s == c[i + 1]
           b == Before(r)
           p == r[b]
           q == SubSeq(r, 1, b)
           u == Until(q, s.to)
<1>1. /\ Len(r) \in Nat /\ DOMAIN r = 1 .. Len(r) /\ (r # <<>> <=> Len(r) # 0)
      /\ \A j \in DOMAIN r : r[j].from \in 1 .. n /\ r[j].to \in 1 .. n
      /\ Len(c) \in Nat /\ DOMAIN c = 1 .. Len(c)
      /\ \A j \in DOMAIN c : c[j].from \in 1 .. n /\ c[j].to \in 1 .. n
  BY SegmentsAre
<1>2. i \in Nat /\ i + 1 \in 1 .. Len(c) /\ i + 1 \in DOMAIN c /\ (i + 1) - 1 = i
  BY <1>1
<1>3. /\ s \in X /\ s.from = End(c, i) + 1 /\ s.from <= s.to
      /\ End(c, i) \in 0 .. n /\ End(c, i) <= s.to /\ End(c, i + 1) = s.to
      /\ s.from \in 1 .. n /\ s.to \in 1 .. n
  BY <1>1, <1>2, NextBegins
<1>4. /\ b \in DOMAIN r /\ b \in Nat /\ r # <<>> /\ Len(r) \in DOMAIN r
      /\ b = Len(r) \/ (b + 1 = Len(r) /\ ~r[Len(r)].stayed)
  <2>1. b \in 1 .. Len(r) /\ r # <<>>
    BY <1>1
  <2>2. b \in DOMAIN r
    OBVIOUS
  <2>3. CASE r[Len(r)].stayed
    <3>1. b = Len(r)
      BY <2>3 DEF Before
    <3> QED
      BY <1>1, <2>1, <2>2, <3>1
  <2>4. CASE ~r[Len(r)].stayed
    <3>1. b = Len(r) - 1
      BY <2>1, <2>4 DEF Before
    <3>2. b + 1 = Len(r) /\ b \in Nat /\ Len(r) \in 1 .. Len(r)
      BY <1>1, <2>1, <3>1
    <3> QED
      BY <1>1, <2>1, <2>2, <2>4, <3>2
  <2> QED
    BY <2>3, <2>4
<1>5. p.stayed /\ s.stayed /\ fixes[s.from].at - fixes[p.to].at < MergeGap
  BY DEF Mergeable
<1>6. Covers(r, End(c, i)) /\ \A j \in DOMAIN r : r[j].to <= End(c, i)
  BY CoverOrder DEF MergedSoFar
<1>7. i > 0 /\ r[Len(r)].stayed = c[i].stayed /\ (~c[i].stayed => r[Len(r)] = c[i])
      /\ i \in DOMAIN c /\ End(c, i) = c[i].to /\ End(c, i) = r[Len(r)].to
  <2>1. Len(r) <= i /\ i > 0
    BY <1>1, <1>2, <1>4 DEF MergedSoFar
  <2>2. i \in DOMAIN c /\ End(c, i) = c[i].to
    BY <1>1, <1>2, <2>1 DEF End
  <2>3. End(c, i) = r[Len(r)].to
    BY <1>4, <1>6 DEF Covers
  <2> QED
    BY <2>1, <2>2, <2>3 DEF MergedSoFar
<1>8. p.to <= s.to /\ p.to \in 1 .. n
  <2>1. p.to <= End(c, i) /\ p.to \in 1 .. n
    BY <1>1, <1>4, <1>6
  <2> QED
    BY <1>3, <2>1
<1>9. /\ q \in Seq(X) /\ Len(q) = b /\ q # <<>>
      /\ \A j \in 1 .. b : q[j] = r[j]
      /\ Covers(q, p.to)
  BY <1>4, <1>6, CoverCut
<1>10. /\ u \in Seq(X) /\ Len(u) = b /\ Covers(u, s.to)
       /\ \A j \in DOMAIN q :
            /\ u[j].from = q[j].from
            /\ u[j].to = IF j = b THEN s.to ELSE q[j].to
            /\ u[j].stayed = q[j].stayed
            /\ j # b => u[j] = q[j]
  <2> HIDE DEF q, s, p
  <2>1. Covers(u, s.to)
    BY <1>3, <1>8, <1>9, CoverUntil
  <2>2. /\ u \in Seq(X) /\ Len(u) = Len(q)
        /\ \A j \in DOMAIN q :
            /\ u[j].from = q[j].from
            /\ u[j].to = IF j = Len(q) THEN s.to ELSE q[j].to
            /\ u[j].stayed = q[j].stayed
            /\ j # Len(q) => u[j] = q[j]
    BY <1>3, <1>9, UntilIs
  <2> QED
    BY <1>9, <2>1, <2>2
<1> HIDE DEF u, q, b
<1>11. DOMAIN u = 1 .. b /\ DOMAIN q = 1 .. b
  BY <1>4, <1>9, <1>10
<1>12. \A j \in DOMAIN u :
         /\ j \in DOMAIN r /\ j \in Nat /\ j <= b
         /\ u[j].from = r[j].from /\ u[j].stayed = r[j].stayed
         /\ u[j].to = IF j = b THEN s.to ELSE r[j].to
         /\ j # b => u[j] = r[j]
  <2>1. \A j \in 1 .. b : j \in 1 .. Len(r) /\ j \in Nat /\ j <= b
    BY <1>1, <1>4
  <2> QED
    BY <1>1, <1>9, <1>10, <1>11, <2>1
<1>13. Alternates(u)
  <2>1. ASSUME NEW j \in 1 .. Len(u) - 1 PROVE u[j].stayed \/ u[j + 1].stayed
    <3>1. j \in 1 .. Len(r) - 1 /\ j \in DOMAIN u /\ j + 1 \in DOMAIN u
      BY <1>1, <1>4, <1>10, <1>11
    <3> QED
      BY <1>12, <3>1 DEF MergedSoFar, Alternates
  <2> QED
    BY <2>1 DEF Alternates
<1>14. Apart(fixes, u)
  <2>1. ASSUME NEW k \in DOMAIN u, NEW l \in DOMAIN u,
               l = k + 1 \/ (l = k + 2 /\ ~u[k + 1].stayed), Mergeable(fixes, u[k], u[l])
        PROVE  FALSE
    <3>1. k # b /\ (l # k + 1 => k + 1 \in DOMAIN u)
      BY <1>4, <1>11, <2>1
    <3>2. u[k] = r[k] /\ (l # k + 1 => r[k + 1].stayed = u[k + 1].stayed)
      BY <1>12, <3>1
    <3>3. Mergeable(fixes, r[k], r[l])
      BY <1>12, <2>1, <3>2 DEF Mergeable, Distance
    <3> QED
      BY <1>12, <2>1, <3>2, <3>3 DEF MergedSoFar, Apart
  <2> QED
    BY <2>1 DEF Apart
<1>15. HidesLittle(fixes, c, i + 1, u)
  <2>1. ASSUME NEW k \in 1 .. i + 1, NEW j \in DOMAIN u,
               ~c[k].stayed, u[j].stayed, u[j].from <= c[k].from, c[k].to <= u[j].to
        PROVE  fixes[c[k].to + 1].at - fixes[c[k].from - 1].at < MergeGap
    <3>1. k \in 1 .. i /\ k \in DOMAIN c /\ k \in Nat /\ (k = i \/ k < i)
      BY <1>1, <1>2, <1>5, <2>1
    <3>2. CASE j # b
      BY <1>12, <2>1, <3>1, <3>2 DEF MergedSoFar, HidesLittle
    <3>3. CASE j = b /\ c[k].to <= p.to
      BY <1>4, <1>5, <1>12, <2>1, <3>1, <3>3 DEF MergedSoFar, HidesLittle
    <3>4. CASE j = b /\ ~(c[k].to <= p.to)
      <4>1. c[k].to <= c[i].to
        <5>1. k < i => c[k].to < c[i].from
          BY <1>7, <3>1, CoverOrder
        <5>2. c[i].from <= c[i].to
          BY <1>7 DEF Covers
        <5>3. c[k].to \in Nat /\ c[i].to \in Nat /\ c[i].from \in Nat
          BY <1>1, <1>7, <3>1
        <5>4. k = i => c[k].to = c[i].to
          OBVIOUS
        <5> QED
          BY <3>1, <5>1, <5>2, <5>3, <5>4
      <4>2. b # Len(r)
        BY <1>7, <3>4, <4>1
      <4>3. r[Len(r)] = c[i] /\ c[i].from = p.to + 1
        <5>1. b + 1 = Len(r) /\ ~r[Len(r)].stayed /\ Len(r) # 1 /\ Len(r) - 1 = b
          BY <1>1, <1>4, <4>2
        <5>2. r[Len(r)].from = p.to + 1
          BY <1>4, <1>6, <5>1 DEF Covers
        <5> QED
          BY <1>7, <5>1, <5>2
      <4>4. k = i
        <5>1. ASSUME k < i PROVE FALSE
          <6>1. c[k].to < c[i].from
            BY <1>7, <3>1, <5>1, CoverOrder
          <6>2. c[k].to \in Nat /\ p.to \in Nat
            BY <1>1, <1>8, <3>1
          <6> QED
            BY <3>4, <4>3, <6>1, <6>2
        <5> QED
          BY <3>1, <5>1
      <4>5. c[k].to + 1 = s.from /\ c[k].from - 1 = p.to
        BY <1>3, <1>7, <1>8, <4>3, <4>4
      <4> QED
        BY <1>5, <4>5
    <3> QED
      BY <3>2, <3>3, <3>4
  <2> QED
    BY <2>1 DEF HidesLittle
<1>16. Len(u) <= i + 1 /\ u[Len(u)].stayed = s.stayed
  <2>1. Len(r) <= i /\ b <= Len(r)
    BY <1>1, <1>4 DEF MergedSoFar
  <2>2. b \in DOMAIN u /\ u[b].stayed = p.stayed
    BY <1>4, <1>11, <1>12
  <2> QED
    BY <1>1, <1>2, <1>4, <1>5, <1>10, <2>1, <2>2
<1>17. MergedSoFar(fixes, c, i + 1, u)
  BY <1>3, <1>5, <1>10, <1>13, <1>14, <1>15, <1>16 DEF MergedSoFar
<1> QED
  BY <1>17 DEF u, q, b

\* The third pass, over all segments.
LEMMA RouteIs ==
  ASSUME NEW fixes \in Seq(Fix)
  PROVE  /\ Route(fixes) \in Seq(Segment(Len(fixes)))
         /\ MergedSoFar(fixes, Joined(fixes), Len(Joined(fixes)), Route(fixes))
<1> DEFINE n == Len(fixes)
           X == Segment(n)
           c == Joined(fixes)
           step == [x \in Seq(X) \X (1 .. Len(c)) |-> MergeStay(fixes, x[1], c[x[2]])]
           Grown(f) == f = [i \in 0 .. Len(c) |->
                             IF i = 0 THEN <<>> ELSE MergeStay(fixes, f[i - 1], c[i])]
           grown == CHOOSE f : Grown(f)
<1>1. n \in Nat
  OBVIOUS
<1>2. c \in Seq(X) /\ Covers(c, n) /\ Alternates(c)
  BY JoinedCover
<1>3. Route(fixes) = grown[Len(c)]
  BY DEF Route
<1> HIDE DEF n, c
<1>4. Len(c) \in Nat /\ Len(c) \in 0 .. Len(c) /\ 0 \in 0 .. Len(c)
      /\ \A i \in 1 .. Len(c) : c[i] \in X
  BY <1>2
<1>5. \E f : IsRun(f, step, Seq(X), Len(c), <<>>)
  <2>1. IsStep(step, Seq(X), Len(c))
    BY <1>1, <1>4, MergeIs DEF IsStep
  <2>2. <<>> \in Seq(X)
    <3> HIDE DEF X
    <3> QED
      OBVIOUS
  <2> HIDE DEF X, step
  <2> QED
    BY <1>4, <2>1, <2>2, LoopRuns
<1>6. \E f : Grown(f)
  <2>1. PICK f : IsRun(f, step, Seq(X), Len(c), <<>>)
    BY <1>5
  <2>2. f \in [0 .. Len(c) -> Seq(X)] /\ f[0] = <<>>
    BY <2>1 DEF IsRun
  <2>3. ASSUME NEW i \in 0 .. Len(c)
        PROVE  f[i] = IF i = 0 THEN <<>> ELSE MergeStay(fixes, f[i - 1], c[i])
    <3>1. CASE i = 0
      BY <2>2, <3>1
    <3>2. CASE i # 0
      <4>1. i \in 1 .. Len(c) /\ i - 1 \in 0 .. Len(c)
        BY <1>4, <3>2
      <4>2. f[i] = step[<<f[i - 1], i>>] /\ f[i - 1] \in Seq(X)
        BY <2>1, <2>2, <4>1 DEF IsRun
      <4>3. step[<<f[i - 1], i>>] = MergeStay(fixes, f[i - 1], c[i])
        BY <4>1, <4>2
      <4> QED
        BY <3>2, <4>2, <4>3
    <3> QED
      BY <3>1, <3>2
  <2>4. Grown(f)
    BY <2>2, <2>3
  <2> QED
    BY <2>4
<1>7. Grown(grown)
  BY <1>6
<1> HIDE DEF grown
<1>8. /\ grown[0] = <<>>
      /\ \A i \in 1 .. Len(c) : grown[i] = MergeStay(fixes, grown[i - 1], c[i])
  BY <1>4, <1>7
<1> DEFINE Good == {i \in 0 .. Len(c) : /\ grown[i] \in Seq(X)
                                         /\ MergedSoFar(fixes, c, i, grown[i])}
<1>9. 0 \in Good
  <2>1. <<>> \in Seq(X)
    <3> HIDE DEF X
    <3> QED
      OBVIOUS
  <2>2. MergedSoFar(fixes, c, 0, <<>>)
    BY NothingCovered DEF MergedSoFar, Alternates, Apart, HidesLittle, End
  <2> QED
    BY <1>4, <1>8, <2>1, <2>2
<1>10. ASSUME NEW i \in 0 .. Len(c) - 1, i \in Good PROVE i + 1 \in Good
  <2>1. i + 1 \in 1 .. Len(c) /\ i + 1 \in 0 .. Len(c) /\ (i + 1) - 1 = i
    BY <1>4
  <2> DEFINE r == grown[i]
             s == c[i + 1]
  <2>2. /\ grown[i + 1] = MergeStay(fixes, r, s)
        /\ r \in Seq(X) /\ MergedSoFar(fixes, c, i, r) /\ s \in X
    BY <1>4, <1>8, <1>10, <2>1
  <2> HIDE DEF r
  <2>3. grown[i + 1] \in Seq(X)
    BY <1>1, <2>2, MergeIs
  <2>4. CASE Before(r) \in DOMAIN r /\ Mergeable(fixes, r[Before(r)], s)
    <3>1. MergeStay(fixes, r, s) = Until(SubSeq(r, 1, Before(r)), s.to)
      BY <1>1, <2>2, <2>4, MergeIs
    <3> QED
      BY <1>1, <1>2, <2>1, <2>2, <2>3, <2>4, <3>1, MergeJoins
  <2>5. CASE ~(Before(r) \in DOMAIN r /\ Mergeable(fixes, r[Before(r)], s))
    <3>1. MergeStay(fixes, r, s) = Append(r, s)
      BY <1>1, <2>2, <2>5, MergeIs
    <3> QED
      BY <1>1, <1>2, <2>1, <2>2, <2>3, <2>5, <3>1, MergeAppends
  <2> QED
    BY <2>4, <2>5
<1>11. Len(c) \in Good
  <2>1. Good \in SUBSET Nat
    BY <1>4
  <2> HIDE DEF Good
  <2> QED
    BY <1>4, <1>9, <1>10, <2>1, EachRound
<1> QED
  BY <1>3, <1>11 DEF n, c

\* The route has every fix it is made of once, in as few pieces as the rules ask for.
LEMMA RouteTold ==
  ASSUME NEW fixes \in Seq(Fix)
  PROVE  /\ Tiles(fixes, Route(fixes))
         /\ OnePlaceOneStay(fixes, Joined(fixes), Route(fixes))
<1> DEFINE n == Len(fixes)
           c == Joined(fixes)
           r == Route(fixes)
<1>1. /\ n \in Nat /\ (fixes # <<>> => n # 0)
      /\ c \in Seq(Segment(n)) /\ Covers(c, n)
      /\ r \in Seq(Segment(n)) /\ MergedSoFar(fixes, c, Len(c), r)
  BY JoinedCover, RouteIs
<1> HIDE DEF n, c, r
<1>2. /\ Len(r) \in Nat /\ DOMAIN r = 1 .. Len(r) /\ (r # <<>> => Len(r) \in DOMAIN r)
      /\ Len(c) \in Nat /\ DOMAIN c = 1 .. Len(c) /\ (c = <<>> <=> Len(c) = 0)
  BY <1>1, SegmentsAre
<1>3. Covers(r, n) /\ Alternates(r) /\ Apart(fixes, r) /\ HidesLittle(fixes, c, Len(c), r)
  <2>1. End(c, Len(c)) = n
    BY <1>1, <1>2 DEF Covers, End
  <2> QED
    BY <1>1, <2>1 DEF MergedSoFar
<1>4. Tiles(fixes, r)
  <2>1. fixes # <<>> => r # <<>> /\ r[1].from = 1 /\ Latest(r).to = n
    BY <1>1, <1>2, <1>3 DEF Covers, Latest
  <2>2. ASSUME NEW i \in 1 .. Len(r) - 1
        PROVE  r[i + 1].from = r[i].to + 1 /\ (r[i].stayed \/ r[i + 1].stayed)
    <3>1. i + 1 \in DOMAIN r /\ i + 1 # 1 /\ (i + 1) - 1 = i
      BY <1>2
    <3> QED
      BY <1>3, <3>1 DEF Covers, Alternates
  <2> QED
    BY <2>1, <2>2 DEF Tiles, n
<1>5. ASSUME NEW i \in DOMAIN r, NEW j \in DOMAIN r, i < j,
             \A k \in i + 1 .. j - 1 : ~r[k].stayed, Mergeable(fixes, r[i], r[j])
      PROVE  FALSE
  <2>1. i \in Nat /\ j \in Nat /\ (j = i + 1 \/ j = i + 2 \/ i + 2 < j)
    BY <1>2, <1>5
  <2>2. CASE j = i + 1
    BY <1>3, <1>5, <2>2 DEF Apart
  <2>3. CASE j = i + 2
    <3>1. i + 1 \in i + 1 .. j - 1
      BY <2>1, <2>3
    <3> QED
      BY <1>3, <1>5, <2>3, <3>1 DEF Apart
  <2>4. CASE i + 2 < j
    <3>1. /\ i + 1 \in i + 1 .. j - 1 /\ i + 2 \in i + 1 .. j - 1
          /\ i + 1 \in 1 .. Len(r) - 1 /\ (i + 1) + 1 = i + 2
      BY <1>2, <2>1, <2>4
    <3> QED
      BY <1>3, <1>5, <3>1 DEF Alternates
  <2> QED
    BY <2>1, <2>2, <2>3, <2>4
<1>6. OnePlaceOneStay(fixes, c, r)
  <2>1. ASSUME NEW i \in DOMAIN c, NEW j \in DOMAIN r, ~c[i].stayed, r[j].stayed,
               r[j].from <= c[i].from, c[i].to <= r[j].to
        PROVE  fixes[c[i].to + 1].at - fixes[c[i].from - 1].at < MergeGap
    BY <1>2, <1>3, <2>1 DEF HidesLittle
  <2> QED
    BY <1>5, <2>1 DEF OnePlaceOneStay
<1> QED
  BY <1>4, <1>6 DEF c, r

\* Each fix is later than the one before.
Sorted(fixes) == \A i, j \in DOMAIN fixes : i < j => fixes[i].at < fixes[j].at

\* A stop as the user reads it.
StopRow == [spot: Nat, arrived: Nat, open: BOOLEAN, left: Nat]

\* Each stop is left before the next is arrived at, and only the last may be open.
LEMMA StopsAre ==
  ASSUME NEW fixes \in Seq(Fix), Sorted(fixes)
  PROVE  /\ Stops(fixes) \in Seq(StopRow)
         /\ \A i \in 1 .. Len(Stops(fixes)) - 1 :
              /\ ~Stops(fixes)[i].open
              /\ Stops(fixes)[i].left < Stops(fixes)[i + 1].arrived
<1> DEFINE n == Len(fixes)
           c == Joined(fixes)
           r == Route(fixes)
           S == {i \in DOMAIN r : r[i].stayed}
           stays == InOrder(S)
           stops == Stops(fixes)
<1>1. /\ n \in Nat /\ DOMAIN fixes = 1 .. n
      /\ \A i \in 1 .. n : fixes[i].at \in Nat /\ fixes[i].spot \in Nat
      /\ c \in Seq(Segment(n))
      /\ r \in Seq(Segment(n)) /\ Covers(r, End(c, Len(c))) /\ Len(r) <= Len(c)
  <2>1. \A f \in Fix : f.at \in Nat /\ f.spot \in Nat
    BY DEF Fix
  <2>2. \A i \in 1 .. n : fixes[i] \in Fix
    OBVIOUS
  <2> QED
    BY <2>1, <2>2, JoinedCover, RouteIs DEF MergedSoFar
<1>2. stops = [i \in DOMAIN stays |->
                [spot |-> fixes[r[stays[i]].from].spot,
                 arrived |-> fixes[r[stays[i]].from].at,
                 open |-> stays[i] = Len(c),
                 left |-> fixes[r[stays[i]].to].at]]
  BY DEF Stops
<1> HIDE DEF n, c, r, stops
<1>3. /\ Len(r) \in Nat /\ DOMAIN r = 1 .. Len(r) /\ Len(c) \in Nat
      /\ \A i \in DOMAIN r : r[i].from \in 1 .. n /\ r[i].to \in 1 .. n
  BY <1>1, SegmentsAre
<1>4. S \in SUBSET (1 .. Len(r)) /\ S \in SUBSET Nat /\ IsFiniteSet(S)
  <2>1. IsFiniteSet(1 .. Len(r))
    BY <1>3, FS_Interval
  <2>2. S \in SUBSET (1 .. Len(r)) /\ S \in SUBSET Nat
    BY <1>3
  <2> QED
    BY <2>1, <2>2, FS_Subset
<1> HIDE DEF S
<1>5. stays \in Seq(S) /\ \A i, j \in DOMAIN stays : i < j => stays[i] < stays[j]
  BY <1>4, InOrderGrows
<1> HIDE DEF stays
<1>6. /\ Len(stays) \in Nat /\ DOMAIN stays = 1 .. Len(stays)
      /\ \A i \in DOMAIN stays : stays[i] \in S
  BY <1>5
<1>7. \A i \in DOMAIN stays : stays[i] \in DOMAIN r /\ stays[i] \in Nat /\ stays[i] <= Len(r)
  <2>1. \A k \in 1 .. Len(r) : k \in Nat /\ k <= Len(r)
    BY <1>3
  <2> QED
    BY <1>3, <1>4, <1>6, <2>1
<1>8. stops \in [1 .. Len(stays) -> StopRow]
  <2>1. ASSUME NEW i \in DOMAIN stays
        PROVE  /\ fixes[r[stays[i]].from].spot \in Nat
               /\ fixes[r[stays[i]].from].at \in Nat
               /\ fixes[r[stays[i]].to].at \in Nat
               /\ (stays[i] = Len(c)) \in BOOLEAN
    <3>1. r[stays[i]].from \in 1 .. n /\ r[stays[i]].to \in 1 .. n
      BY <1>3, <1>7
    <3> QED
      BY <1>1, <3>1
  <2> QED
    BY <1>2, <1>6, <2>1 DEF StopRow
<1>9. stops \in Seq(StopRow) /\ Len(stops) = Len(stays)
  BY <1>6, <1>8
<1>10. ASSUME NEW i \in 1 .. Len(stops) - 1
       PROVE  ~stops[i].open /\ stops[i].left < stops[i + 1].arrived
  <2>1. i \in DOMAIN stays /\ i + 1 \in DOMAIN stays /\ i < i + 1
    BY <1>6, <1>9
  <2> DEFINE a == stays[i]
             b == stays[i + 1]
  <2>2. a < b /\ a \in DOMAIN r /\ b \in DOMAIN r /\ a \in Nat /\ b \in Nat /\ b <= Len(r)
    BY <1>5, <1>7, <2>1
  <2>3. /\ stops[i].open = (a = Len(c)) /\ stops[i].left = fixes[r[a].to].at
        /\ stops[i + 1].arrived = fixes[r[b].from].at
    BY <1>2, <2>1
  <2> HIDE DEF a, b
  <2>4. a # Len(c)
    BY <1>1, <1>3, <2>2
  <2>5. r[a].to < r[b].from
    BY <1>1, <2>2, CoverOrder
  <2>6. r[a].to \in DOMAIN fixes /\ r[b].from \in DOMAIN fixes
    BY <1>1, <1>3, <2>2
  <2> QED
    BY <2>3, <2>4, <2>5, <2>6 DEF Sorted
<1> QED
  BY <1>9, <1>10 DEF stops

\* One round of joining stops by their address.
LEMMA AddressIs ==
  ASSUME NEW t \in Seq(StopRow), NEW s \in StopRow
  PROVE  /\ SameAddress(t, s) \in Seq(StopRow)
         /\ (Readable(t) /\ (t # <<>> => ~t[Len(t)].open /\ t[Len(t)].left < s.arrived))
              => /\ Readable(SameAddress(t, s)) /\ SameAddress(t, s) # <<>>
                 /\ SameAddress(t, s)[Len(SameAddress(t, s))].open = s.open
                 /\ SameAddress(t, s)[Len(SameAddress(t, s))].left = s.left
<1> DEFINE LeftBefore == t # <<>> => ~t[Len(t)].open /\ t[Len(t)].left < s.arrived
<1>1. /\ Len(t) \in Nat /\ DOMAIN t = 1 .. Len(t) /\ (t # <<>> <=> Len(t) # 0)
      /\ \A i \in DOMAIN t : t[i] \in StopRow
      /\ t # <<>> => Len(t) \in DOMAIN t
  OBVIOUS
<1>2. CASE t # <<>> /\ Address(t[Len(t)].spot) = Address(s.spot)
  <2> DEFINE u == [t EXCEPT ![Len(t)].open = s.open, ![Len(t)].left = s.left]
  <2>1. SameAddress(t, s) = u
    BY <1>2 DEF SameAddress, Latest
  <2>2. /\ u \in [1 .. Len(t) -> StopRow]
        /\ u[Len(t)].open = s.open /\ u[Len(t)].left = s.left
        /\ u[Len(t)].spot = t[Len(t)].spot /\ u[Len(t)].arrived = t[Len(t)].arrived
        /\ \A i \in DOMAIN t : i # Len(t) => u[i] = t[i]
    BY <1>1, <1>2 DEF StopRow
  <2> HIDE DEF u
  <2>3. u \in Seq(StopRow) /\ Len(u) = Len(t) /\ u # <<>>
    BY <1>1, <1>2, <2>2
  <2>4. ASSUME Readable(t) PROVE Readable(u)
    <3>1. ASSUME NEW i \in 1 .. Len(u) - 1
          PROVE  /\ ~u[i].open /\ u[i].left < u[i + 1].arrived
                 /\ Address(u[i].spot) # Address(u[i + 1].spot)
      <4>1. i \in 1 .. Len(t) - 1 /\ i \in DOMAIN t /\ i # Len(t) /\ i + 1 \in DOMAIN t
        <5>1. i \in Nat /\ 1 <= i /\ i <= Len(t) - 1 /\ Len(t) \in Nat
          BY <1>1, <2>3
        <5>2. i \in 1 .. Len(t) - 1 /\ i \in 1 .. Len(t) /\ i # Len(t) /\ i + 1 \in 1 .. Len(t)
          BY <5>1
        <5> QED
          BY <1>1, <5>2
      <4>2. u[i] = t[i] /\ u[i + 1].arrived = t[i + 1].arrived /\ u[i + 1].spot = t[i + 1].spot
        BY <2>2, <4>1
      <4> QED
        BY <2>4, <4>1, <4>2 DEF Readable
    <3> QED
      BY <3>1 DEF Readable
  <2> QED
    BY <2>1, <2>2, <2>3, <2>4
<1>3. CASE ~(t # <<>> /\ Address(t[Len(t)].spot) = Address(s.spot))
  <2> DEFINE u == Append(t, s)
  <2>1. SameAddress(t, s) = u
    BY <1>3 DEF SameAddress, Latest
  <2>2. /\ u \in Seq(StopRow) /\ Len(u) = Len(t) + 1 /\ u[Len(t) + 1] = s /\ u # <<>>
        /\ \A i \in DOMAIN t : u[i] = t[i]
    OBVIOUS
  <2> HIDE DEF u
  <2>3. ASSUME Readable(t), LeftBefore PROVE Readable(u)
    <3>1. ASSUME NEW i \in 1 .. Len(u) - 1
          PROVE  /\ ~u[i].open /\ u[i].left < u[i + 1].arrived
                 /\ Address(u[i].spot) # Address(u[i + 1].spot)
      <4>1. i \in DOMAIN t /\ (i = Len(t) \/ (i \in 1 .. Len(t) - 1 /\ i + 1 \in DOMAIN t))
        <5>1. i \in Nat /\ 1 <= i /\ i <= Len(t) /\ Len(t) \in Nat
          BY <1>1, <2>2
        <5>2. i \in 1 .. Len(t)
              /\ (i = Len(t) \/ (i \in 1 .. Len(t) - 1 /\ i + 1 \in 1 .. Len(t)))
          BY <5>1
        <5> QED
          BY <1>1, <5>2
      <4>2. CASE i = Len(t)
        <5>1. t # <<>> /\ u[i] = t[Len(t)] /\ u[i + 1] = s
          BY <2>2, <4>1, <4>2
        <5> QED
          BY <1>3, <2>3, <5>1
      <4> QED
        BY <2>2, <2>3, <4>1, <4>2 DEF Readable
    <3> QED
      BY <3>1 DEF Readable
  <2> QED
    BY <1>1, <2>1, <2>2, <2>3
<1> QED
  BY <1>2, <1>3

\* What the user reads is readable.
LEMMA ToldIsReadable ==
  ASSUME NEW fixes \in Seq(Fix), Sorted(fixes)
  PROVE  Readable(Told(fixes))
<1> DEFINE X == StopRow
           c == Stops(fixes)
           step == [x \in Seq(X) \X (1 .. Len(c)) |-> SameAddress(x[1], c[x[2]])]
           Grown(f) == f = [i \in 0 .. Len(c) |->
                             IF i = 0 THEN <<>> ELSE SameAddress(f[i - 1], c[i])]
           grown == CHOOSE f : Grown(f)
<1>1. /\ c \in Seq(X)
      /\ \A i \in 1 .. Len(c) - 1 : ~c[i].open /\ c[i].left < c[i + 1].arrived
  BY StopsAre
<1>2. Told(fixes) = grown[Len(c)]
  BY DEF Told
<1> HIDE DEF c
<1>3. Len(c) \in Nat /\ Len(c) \in 0 .. Len(c) /\ 0 \in 0 .. Len(c)
      /\ \A i \in 1 .. Len(c) : c[i] \in X
  BY <1>1
<1>4. \E f : IsRun(f, step, Seq(X), Len(c), <<>>)
  <2>1. IsStep(step, Seq(X), Len(c))
    BY <1>3, AddressIs DEF IsStep
  <2>2. <<>> \in Seq(X)
    <3> HIDE DEF X
    <3> QED
      OBVIOUS
  <2> HIDE DEF X, step
  <2> QED
    BY <1>3, <2>1, <2>2, LoopRuns
<1>5. \E f : Grown(f)
  <2>1. PICK f : IsRun(f, step, Seq(X), Len(c), <<>>)
    BY <1>4
  <2>2. f \in [0 .. Len(c) -> Seq(X)] /\ f[0] = <<>>
    BY <2>1 DEF IsRun
  <2>3. ASSUME NEW i \in 0 .. Len(c)
        PROVE  f[i] = IF i = 0 THEN <<>> ELSE SameAddress(f[i - 1], c[i])
    <3>1. CASE i = 0
      BY <2>2, <3>1
    <3>2. CASE i # 0
      <4>1. i \in 1 .. Len(c) /\ i - 1 \in 0 .. Len(c)
        BY <1>3, <3>2
      <4>2. f[i] = step[<<f[i - 1], i>>] /\ f[i - 1] \in Seq(X)
        BY <2>1, <2>2, <4>1 DEF IsRun
      <4>3. step[<<f[i - 1], i>>] = SameAddress(f[i - 1], c[i])
        BY <4>1, <4>2
      <4> QED
        BY <3>2, <4>2, <4>3
    <3> QED
      BY <3>1, <3>2
  <2>4. Grown(f)
    BY <2>2, <2>3
  <2> QED
    BY <2>4
<1>6. Grown(grown)
  BY <1>5
<1> HIDE DEF grown
<1>7. /\ grown[0] = <<>>
      /\ \A i \in 1 .. Len(c) : grown[i] = SameAddress(grown[i - 1], c[i])
  BY <1>3, <1>6
<1> DEFINE Fine(t, i) ==
             /\ t \in Seq(X) /\ Readable(t)
             /\ IF i = 0 THEN t = <<>>
                ELSE t # <<>> /\ t[Len(t)].open = c[i].open /\ t[Len(t)].left = c[i].left
           Good == {i \in 0 .. Len(c) : Fine(grown[i], i)}
<1>8. 0 \in Good
  <2>1. <<>> \in Seq(X)
    <3> HIDE DEF X
    <3> QED
      OBVIOUS
  <2>2. Readable(<<>>)
    BY DEF Readable
  <2> QED
    BY <1>3, <1>7, <2>1, <2>2
<1>9. ASSUME NEW i \in 0 .. Len(c) - 1, i \in Good PROVE i + 1 \in Good
  <2>1. i + 1 \in 1 .. Len(c) /\ i + 1 \in 0 .. Len(c) /\ (i + 1) - 1 = i /\ i + 1 # 0
        /\ (i # 0 => i \in 1 .. Len(c) - 1)
    BY <1>3
  <2> DEFINE t == grown[i]
             s == c[i + 1]
  <2>2. grown[i + 1] = SameAddress(t, s) /\ Fine(t, i) /\ s \in X
    BY <1>3, <1>7, <1>9, <2>1
  <2>3. t # <<>> => ~t[Len(t)].open /\ t[Len(t)].left < s.arrived
    BY <1>1, <2>1, <2>2
  <2> HIDE DEF t, s
  <2> DEFINE u == SameAddress(t, s)
  <2>4. /\ u \in Seq(X) /\ Readable(u) /\ u # <<>>
        /\ u[Len(u)].open = s.open /\ u[Len(u)].left = s.left
    BY <2>2, <2>3, AddressIs
  <2> HIDE DEF u
  <2>5. Fine(u, i + 1)
    BY <2>1, <2>4 DEF s
  <2> QED
    BY <2>1, <2>2, <2>5 DEF u
<1>10. Len(c) \in Good
  <2>1. Good \in SUBSET Nat
    BY <1>3
  <2> HIDE DEF Good
  <2> QED
    BY <1>3, <1>8, <1>9, <2>1, EachRound
<1> QED
  BY <1>2, <1>10

\* The day is in order.
JourneyInv == day \in Seq(Fix) /\ Sorted(day)

\* So is what is used of it.
LEMMA UsableIs ==
  ASSUME JourneyInv
  PROVE  Usable \in Seq(Fix) /\ Sorted(Usable)
<1> DEFINE S == {i \in DOMAIN day : ~day[i].rough}
           u == Picked(day, S)
           at == InOrder(S)
<1>1. Usable = u \/ Usable = day
  BY DEF Usable
<1>2. day \in Seq(Fix) /\ Sorted(day) /\ S \in SUBSET DOMAIN day
  BY DEF JourneyInv
<1> HIDE DEF S, u, at
<1>3. /\ u \in Seq(Fix) /\ at \in Seq(S)
      /\ \A i \in DOMAIN u : at[i] \in S /\ u[i] = day[at[i]]
      /\ \A i, j \in DOMAIN u : i < j => at[i] < at[j]
  BY <1>2, PickedFrom DEF u, at
<1>4. Sorted(u)
  BY <1>2, <1>3 DEF Sorted
<1> QED
  BY <1>1, <1>2, <1>3, <1>4

LEMMA JourneyStep == JourneyInv /\ [JourneyNext]_journeyVars => JourneyInv'
<1> SUFFICES ASSUME JourneyInv, [JourneyNext]_journeyVars PROVE JourneyInv'
  OBVIOUS
<1>1. CASE UNCHANGED journeyVars
  BY <1>1 DEF journeyVars, JourneyInv, Sorted
<1>2. ASSUME NEW gap \in Gaps, NEW spot \in Spots, NEW rough \in BOOLEAN, Walk(gap, spot, rough)
      PROVE  JourneyInv'
  <2> DEFINE f == [at |-> IF day = <<>> THEN 0 ELSE day[Len(day)].at + gap,
                   spot |-> spot, rough |-> rough]
  <2>1. day' = Append(day, f)
    BY <1>2 DEF Walk, Latest
  <2>2. /\ Len(day) \in Nat /\ DOMAIN day = 1 .. Len(day) /\ (day # <<>> <=> Len(day) # 0)
        /\ \A i \in DOMAIN day : day[i] \in Fix
        /\ day # <<>> => Len(day) \in DOMAIN day
    BY DEF JourneyInv
  <2>3. \A g \in Fix : g.at \in Nat
    BY DEF Fix
  <2>4. gap \in Nat /\ gap > 0 /\ spot \in Nat
    BY JourneyAssumption
  <2>5. /\ f.at \in Nat /\ f \in Fix
        /\ day # <<>> => day[Len(day)].at < f.at /\ day[Len(day)].at \in Nat
    BY <2>2, <2>3, <2>4 DEF Fix
  <2> HIDE DEF f
  <2>6. /\ day' \in Seq(Fix) /\ Len(day') = Len(day) + 1 /\ DOMAIN day' = 1 .. Len(day) + 1
        /\ day'[Len(day) + 1] = f
        /\ \A i \in DOMAIN day : day'[i] = day[i]
    BY <2>1, <2>5 DEF JourneyInv
  <2>7. ASSUME NEW i \in DOMAIN day', NEW j \in DOMAIN day', i < j PROVE day'[i].at < day'[j].at
    <3>1. i \in DOMAIN day /\ (j \in DOMAIN day \/ j = Len(day) + 1)
      <4>1. i \in Nat /\ j \in Nat /\ 1 <= i /\ 1 <= j /\ j <= Len(day) + 1
        BY <2>2, <2>6
      <4>2. i \in 1 .. Len(day) /\ (j \in 1 .. Len(day) \/ j = Len(day) + 1)
        BY <2>2, <2>7, <4>1
      <4> QED
        BY <2>2, <4>2
    <3>2. CASE j \in DOMAIN day
      BY <2>6, <2>7, <3>1, <3>2 DEF JourneyInv, Sorted
    <3>3. CASE j = Len(day) + 1
      <4>1. day # <<>> /\ Len(day) \in DOMAIN day /\ (i = Len(day) \/ i < Len(day))
        BY <2>2, <3>1
      <4>2. day[i].at = day[Len(day)].at \/ day[i].at < day[Len(day)].at
        BY <3>1, <4>1 DEF JourneyInv, Sorted
      <4>3. day[i].at \in Nat
        BY <2>2, <2>3, <3>1
      <4> QED
        BY <2>5, <2>6, <3>1, <3>3, <4>1, <4>2, <4>3
    <3> QED
      BY <3>1, <3>2, <3>3
  <2> QED
    BY <2>6, <2>7 DEF JourneyInv, Sorted
<1> QED
  BY <1>1, <1>2 DEF JourneyNext

\* Whatever the fixes of a day, the passes of buildJourney and the one by address tell that
\* day: every fix once, one place as one stay, no long time away hidden within a stay, and
\* stops that can be read from the top.
THEOREM EveryDayIsTold == JourneySpec => []DayTold
<1>1. JourneyInit => JourneyInv
  <2>1. <<>> \in Seq(Fix)
    <3>1. \A T : <<>> \in Seq(T)
      OBVIOUS
    <3> QED
      BY <3>1
  <2> QED
    BY <2>1 DEF JourneyInit, JourneyInv, Sorted
<1>2. JourneyInv => DayTold
  BY UsableIs, RouteTold, ToldIsReadable DEF DayTold
<1> QED
  BY <1>1, <1>2, JourneyStep, PTL DEF JourneySpec
=============================================================================
