--------------------------- MODULE RefreshProofs ---------------------------
(***************************************************************************)
(* Proofs about Refresh, for any number of calls and tokens.  The app is   *)
(* left with a token the server does not know, or logged out by a retry,   *)
(* only when a refresh it has given up takes effect after a later one; and *)
(* no crossing of refreshes brings a token back the server has let go.     *)
(***************************************************************************)
EXTENDS Refresh, TLAPS

Underway == {"sent", "cas", "revoke"}

\* What a handler has read of the row is so, or the row has moved on.
ReadBefore ==
  \A c \in RefreshCalls : calls[c].pc = "cas" =>
    /\ calls[c].token \in {calls[c].cur, calls[c].prev}
    /\ calls[c].cur <= row.cur
    /\ calls[c].cur = row.cur => calls[c].prev = row.prev

\* Which calls come without the installation id.
WithoutId ==
  /\ \A c \in RefreshCalls :
       /\ calls[c].pc = "revoke" => ~calls[c].id
       /\ calls[c].pc \in Underway /\ ~calls[c].id => idless
  /\ row.status = "reused" => idless

\* Refreshes sent since the last answer carry the same token, the stored one; the
\* one the app awaits is among them.
OneToken ==
  /\ \A c \in RefreshCalls : calls[c].pc \in Underway /\ ~calls[c].passed =>
       /\ stored \in {NoToken, calls[c].token}
       /\ \A b \in RefreshCalls : calls[b].pc \in Underway /\ ~calls[b].passed =>
            calls[b].token = calls[c].token
  /\ \A c \in RefreshCalls : waiting = c => ~calls[c].passed

\* What the refresh the app awaits knows of the row is still so.
AwaitedKnows ==
  \A c \in RefreshCalls : waiting = c =>
    /\ calls[c].pc \in Underway => calls[c].token \in {row.cur, row.prev}
    /\ calls[c].pc = "cas" => calls[c].cur = row.cur
    /\ calls[c].pc = "answered" /\ calls[c].refusal = "none" => calls[c].answer = row.cur
    /\ calls[c].pc = "answered" /\ calls[c].refusal = "invalid" => row.status # "active"

\* As long as no given up refresh has overtaken a later one.
InTurn ==
  /\ AwaitedKnows
  /\ stored \in {NoToken, row.cur, row.prev}
  /\ row.status = "active" => closed # "invalid"

IInv == RefreshTypeOK /\ ReadBefore /\ WithoutId /\ OneToken /\ (~overtaken => InTurn)

----------------------------------------------------------------------------

\* The initial state satisfies the invariant.
LEMMA InitInv == RefreshInit => IInv
<1> SUFFICES ASSUME RefreshInit PROVE IInv
  OBVIOUS
<1>1. Free \in CallRecords
  BY DEF Free, CallRecords
<1>2. 1 \in Tokens
  BY RefreshAssumption DEF Tokens
<1>3. RefreshTypeOK
  BY <1>1, <1>2 DEF RefreshInit, RefreshTypeOK, Free
<1> QED
  BY <1>3, RefreshAssumption
  DEF RefreshInit, IInv, ReadBefore, WithoutId, OneToken, InTurn, AwaitedKnows, Free, Underway

\* A step of one call keeps the types when it makes a well-typed record.
LEMMA CallType ==
  ASSUME RefreshTypeOK, NEW c \in RefreshCalls, NEW h \in CallRecords,
         h.pc \in Underway => h.token # NoToken, calls' = [calls EXCEPT ![c] = h]
  PROVE  /\ calls' \in [RefreshCalls -> CallRecords]
         /\ \A b \in RefreshCalls : calls'[b].pc \in Underway => calls'[b].token # NoToken
  BY DEF RefreshTypeOK, Underway

\* What receiving an answer does to the calls.
LEMMA ReceiveCalls ==
  ASSUME RefreshTypeOK, NEW c \in RefreshCalls, Receive(c)
  PROVE  /\ calls' \in [RefreshCalls -> CallRecords]
         /\ \A b \in RefreshCalls :
              calls'[b] = Free
                \/ (calls'[b] = [calls[b] EXCEPT !.passed = TRUE] /\ calls[b].pc # "free")
<1>1. Free \in CallRecords
  BY DEF Free, CallRecords
<1>2. \A b \in RefreshCalls : [calls[b] EXCEPT !.passed = TRUE] \in CallRecords
  BY DEF RefreshTypeOK, CallRecords
<1> QED
  BY <1>1, <1>2 DEF Receive

\* What is free, or passed, keeps what it had but for the mark.
LEMMA PassedCall ==
  ASSUME RefreshTypeOK, NEW b \in RefreshCalls,
         calls'[b] = Free \/ calls'[b] = [calls[b] EXCEPT !.passed = TRUE],
         calls'[b].pc \in Underway
  PROVE  /\ calls'[b].passed
         /\ calls'[b].pc = calls[b].pc /\ calls'[b].token = calls[b].token
         /\ calls'[b].id = calls[b].id /\ calls'[b].cur = calls[b].cur
         /\ calls'[b].prev = calls[b].prev
<1>1. calls[b] \in CallRecords
  BY DEF RefreshTypeOK
<1>2. calls'[b] = [calls[b] EXCEPT !.passed = TRUE]
  BY DEF Free, Underway
<1> QED
  BY <1>1, <1>2 DEF CallRecords

\* An answer does.
LEMMA AnswerType ==
  ASSUME RefreshTypeOK, NEW c \in RefreshCalls, NEW t \in Tokens \cup {NoToken},
         NEW why \in Refusals \cup {"none"}, Answer(c, t, why)
  PROVE  /\ calls' \in [RefreshCalls -> CallRecords]
         /\ \A b \in RefreshCalls : calls'[b].pc \in Underway => calls'[b].token # NoToken
<1> DEFINE h == IF waiting = c
                THEN [Free EXCEPT !.pc = "answered", !.answer = t, !.refusal = why]
                ELSE Free
<1>1. h \in CallRecords /\ h.pc \notin Underway
  BY DEF Free, CallRecords, Underway
<1>2. calls' = [calls EXCEPT ![c] = h]
  BY DEF Answer
<1> HIDE DEF h
<1> QED
  BY <1>1, <1>2, CallType

\* Every step keeps the types.
LEMMA TypeStep == RefreshTypeOK /\ [RefreshNext]_refreshVars => RefreshTypeOK'
<1> SUFFICES ASSUME RefreshTypeOK, [RefreshNext]_refreshVars PROVE RefreshTypeOK'
  OBVIOUS
<1>0. /\ row \in [cur: Tokens, prev: Tokens \cup {NoToken},
                  status: {"active", "reused", "logout", "replaced"},
                  grace: BOOLEAN, expired: BOOLEAN]
      /\ calls \in [RefreshCalls -> CallRecords]
      /\ \A c \in RefreshCalls : calls[c].pc \in Underway => calls[c].token # NoToken
      /\ waiting \in RefreshCalls \cup {NoCall}
      /\ stored \in Tokens \cup {NoToken}
      /\ access \in {"none", "ok", "stale"}
      /\ closed \in {"no", "logout"} \cup Refusals
      /\ idless \in BOOLEAN /\ overtaken \in BOOLEAN
  BY DEF RefreshTypeOK, Underway
<1> DEFINE CallsOK == /\ calls' \in [RefreshCalls -> CallRecords]
                      /\ \A c \in RefreshCalls :
                           calls'[c].pc \in Underway => calls'[c].token # NoToken
<1>1. ASSUME NEW c \in RefreshCalls, NEW id \in BOOLEAN, StartRefresh(c, id)
      PROVE  RefreshTypeOK'
  <2> DEFINE h == [Free EXCEPT !.pc = "sent", !.token = stored, !.id = id]
  <2>1. h \in CallRecords /\ h.token # NoToken
    BY <1>0, <1>1 DEF StartRefresh, MaySend, Free, CallRecords
  <2>2. calls' = [calls EXCEPT ![c] = h]
    BY <1>1 DEF StartRefresh
  <2> HIDE DEF h
  <2>3. CallsOK
    BY <2>1, <2>2, CallType
  <2>4. /\ row' = row /\ stored' = stored /\ access' = access /\ closed' = closed
        /\ waiting' = c /\ idless' \in BOOLEAN /\ overtaken' = overtaken
    BY <1>0, <1>1 DEF StartRefresh
  <2> QED
    BY <1>0, <2>3, <2>4 DEF RefreshTypeOK, Underway
<1>2. ASSUME NEW c \in RefreshCalls, Receive(c)
      PROVE  RefreshTypeOK'
  <2>1. calls' \in [RefreshCalls -> CallRecords]
    BY <1>2, ReceiveCalls
  <2>2. CallsOK
    BY <1>0, <1>2, <2>1, ReceiveCalls, PassedCall
  <2>3. /\ calls[c].refusal \in Refusals \cup {"none"}
        /\ calls[c].answer \in Tokens \cup {NoToken}
    BY <1>0 DEF CallRecords
  <2>4. /\ row' = row /\ idless' = idless /\ waiting' = NoCall
        /\ stored' \in Tokens \cup {NoToken} /\ access' \in {"none", "ok", "stale"}
        /\ closed' \in {"no", "logout"} \cup Refusals /\ overtaken' = overtaken
    BY <1>0, <1>2, <2>3 DEF Receive, EndSession
  <2> QED
    BY <2>2, <2>4, <1>0 DEF RefreshTypeOK, Underway
<1>3. CASE TimesOut \/ Killed \/ AccessExpires \/ Logout
  BY <1>0, <1>3 DEF TimesOut, Killed, AccessExpires, Logout, EndSession, RefreshTypeOK, Underway
<1>4. ASSUME NEW c \in RefreshCalls, ReadSession(c)
      PROVE  RefreshTypeOK'
  <2>1. calls[c] \in CallRecords /\ calls[c].pc \in Underway /\ calls[c].token # NoToken
    BY <1>0, <1>4 DEF ReadSession, Underway
  <2>2. ASSUME NEW why \in Refusals, Refuse(c, why) PROVE CallsOK
    BY <2>2, AnswerType DEF Refuse
  <2>3. ASSUME calls' = [calls EXCEPT ![c].pc = "cas", ![c].cur = row.cur, ![c].prev = row.prev]
        PROVE  CallsOK
    <3>1. calls' \in [RefreshCalls -> CallRecords]
      BY <1>0, <2>1, <2>3 DEF CallRecords
    <3>2. \A b \in RefreshCalls : calls'[b].pc \in Underway => calls'[b].token # NoToken
      BY <1>0, <2>1, <2>3 DEF CallRecords
    <3> QED
      BY <3>1, <3>2
  <2>4. ASSUME calls' = [calls EXCEPT ![c].pc = "revoke"]
        PROVE  CallsOK
    <3>1. calls' \in [RefreshCalls -> CallRecords]
      BY <1>0, <2>1, <2>4 DEF CallRecords
    <3>2. \A b \in RefreshCalls : calls'[b].pc \in Underway => calls'[b].token # NoToken
      BY <1>0, <2>1, <2>4 DEF CallRecords
    <3> QED
      BY <3>1, <3>2
  <2>5. CallsOK
    BY <1>4, <2>2, <2>3, <2>4 DEF ReadSession, Refusals
  <2> QED
    BY <1>0, <1>4, <2>5 DEF ReadSession, app, RefreshTypeOK, Underway
<1>5. ASSUME NEW c \in RefreshCalls, RevokeReused(c)
      PROVE  RefreshTypeOK'
  <2>1. CallsOK
    BY <1>5, AnswerType DEF RevokeReused, Refuse, Refusals
  <2> QED
    BY <1>0, <1>5, <2>1 DEF RevokeReused, app, RefreshTypeOK, Underway
<1>6. ASSUME NEW c \in RefreshCalls, ReplaceToken(c)
      PROVE  RefreshTypeOK'
  <2>1. row.cur + 1 \in Tokens
    BY <1>0, <1>6, RefreshAssumption DEF ReplaceToken, Tokens
  <2>2. CallsOK
    BY <1>6, <2>1, AnswerType DEF ReplaceToken, Grant, Refuse, Refusals
  <2>3. NextPrevious(c) \in Tokens \cup {NoToken}
    BY <1>0 DEF NextPrevious, CallRecords
  <2> QED
    BY <1>0, <1>6, <2>1, <2>2, <2>3 DEF ReplaceToken, LeftBehind, app, RefreshTypeOK, Underway
<1>7. ASSUME NEW c \in RefreshCalls, CallLost(c)
      PROVE  RefreshTypeOK'
  <2>1. Free \in CallRecords /\ Free.pc \notin Underway
    BY DEF Free, CallRecords, Underway
  <2>2. CallsOK
    BY <1>7, <2>1, CallType DEF CallLost
  <2> QED
    BY <1>0, <1>7, <2>2 DEF CallLost, app, RefreshTypeOK, Underway
<1>8. CASE GraceEnds \/ RowExpires \/ RevokedElsewhere
  BY <1>0, <1>8 DEF GraceEnds, RowExpires, RevokedElsewhere, app, RefreshTypeOK, Underway
<1>9. CASE UNCHANGED refreshVars
  BY <1>0, <1>9 DEF refreshVars, app, RefreshTypeOK, Underway
<1> QED
  BY <1>1, <1>2, <1>3, <1>4, <1>5, <1>6, <1>7, <1>8, <1>9
  DEF RefreshNext, AppNext, ServerNext

----------------------------------------------------------------------------
(* What the row and the calls know of one another.                         *)

\* The step of a handler that takes the row's next token.
LEMMA UpdateStep ==
  ASSUME RefreshTypeOK, ReadBefore, NEW c \in RefreshCalls, ReplaceToken(c), StillCurrent(c)
  PROVE  /\ row.status = "active" /\ row'.status = "active"
         /\ row'.cur = row.cur + 1
         /\ row'.prev = calls[c].token /\ row'.prev \in {row.cur, row.prev}
<1>1. /\ row \in [cur: Tokens, prev: Tokens \cup {NoToken},
                  status: {"active", "reused", "logout", "replaced"},
                  grace: BOOLEAN, expired: BOOLEAN]
      /\ calls[c].pc = "cas" /\ row.status = "active" /\ calls[c].cur = row.cur
  BY DEF RefreshTypeOK, ReplaceToken, StillCurrent
<1>2. row' = [row EXCEPT !.cur = row.cur + 1, !.prev = NextPrevious(c),
                         !.grace = TRUE, !.expired = FALSE]
  BY DEF ReplaceToken
<1>3. row'.cur = row.cur + 1 /\ row'.prev = NextPrevious(c) /\ row'.status = row.status
  BY <1>1, <1>2
<1>4. calls[c].token \in {calls[c].cur, calls[c].prev} /\ calls[c].prev = row.prev
  BY <1>1 DEF ReadBefore
<1>5. NextPrevious(c) = calls[c].token
  BY <1>4 DEF NextPrevious
<1> QED
  BY <1>1, <1>3, <1>4, <1>5

\* A call that is free, or answered, has read nothing.
LEMMA QuietCall ==
  ASSUME RefreshTypeOK, NEW c \in RefreshCalls,
         \/ calls' = [calls EXCEPT ![c] = Free]
         \/ \E t \in Tokens \cup {NoToken}, why \in Refusals \cup {"none"} : Answer(c, t, why)
  PROVE  /\ calls'[c].pc \notin Underway
         /\ \A b \in RefreshCalls \ {c} : calls'[b] = calls[b]
<1>1. DOMAIN calls = RefreshCalls
  BY DEF RefreshTypeOK
<1>2. CASE calls' = [calls EXCEPT ![c] = Free]
  BY <1>1, <1>2 DEF Free, Underway
<1>3. ASSUME NEW t, NEW why, Answer(c, t, why)
      PROVE  calls'[c].pc \notin Underway /\ \A b \in RefreshCalls \ {c} : calls'[b] = calls[b]
  <2>1. CASE waiting = c
    BY <1>1, <1>3, <2>1 DEF Answer, Free, Underway
  <2>2. CASE waiting # c
    BY <1>1, <1>3, <2>2 DEF Answer, Free, Underway
  <2> QED
    BY <2>1, <2>2
<1> QED
  BY <1>2, <1>3

\* No step makes a handler know of a row that is not so.
LEMMA ReadStep == ASSUME RefreshTypeOK, ReadBefore, RefreshNext PROVE ReadBefore'
<1>0. /\ calls \in [RefreshCalls -> CallRecords]
      /\ row.cur \in Nat /\ \A c \in RefreshCalls : calls[c].cur \in Nat
  BY RefreshAssumption DEF RefreshTypeOK, CallRecords, Tokens, NoToken
<1>1. ASSUME NEW c \in RefreshCalls, calls'[c].pc \notin Underway,
             \A b \in RefreshCalls \ {c} : calls'[b] = calls[b],
             (row'.cur = row.cur /\ row'.prev = row.prev) \/ row'.cur = row.cur + 1
      PROVE  ReadBefore'
  <2>1. ASSUME NEW b \in RefreshCalls, calls'[b].pc = "cas"
        PROVE  /\ calls'[b].token \in {calls'[b].cur, calls'[b].prev}
               /\ calls'[b].cur <= row'.cur
               /\ calls'[b].cur = row'.cur => calls'[b].prev = row'.prev
    <3>1. b # c /\ calls'[b] = calls[b] /\ calls[b].pc = "cas"
      BY <1>1, <2>1 DEF Underway
    <3>2. /\ calls[b].token \in {calls[b].cur, calls[b].prev}
          /\ calls[b].cur <= row.cur
          /\ calls[b].cur = row.cur => calls[b].prev = row.prev
      BY <3>1 DEF ReadBefore
    <3> QED
      BY <1>0, <1>1, <3>1, <3>2
  <2> QED
    BY <2>1 DEF ReadBefore
<1>2. CASE UNCHANGED calls /\ row'.cur = row.cur /\ row'.prev = row.prev
  BY <1>2 DEF ReadBefore
<1>3. ASSUME NEW c \in RefreshCalls, NEW id \in BOOLEAN, StartRefresh(c, id)
      PROVE  ReadBefore'
  <2>1. row' = row /\ \A b \in RefreshCalls : calls'[b].pc = "cas" => calls'[b] = calls[b]
    BY <1>0, <1>3 DEF StartRefresh, Free
  <2> QED
    BY <2>1 DEF ReadBefore
<1>4. ASSUME NEW c \in RefreshCalls, Receive(c) PROVE ReadBefore'
  <2>1. ASSUME NEW b \in RefreshCalls, calls'[b].pc = "cas"
        PROVE  /\ calls[b].pc = "cas" /\ calls'[b].token = calls[b].token
               /\ calls'[b].cur = calls[b].cur /\ calls'[b].prev = calls[b].prev
    BY <1>4, <2>1, ReceiveCalls, PassedCall DEF Underway
  <2> QED
    BY <1>4, <2>1 DEF Receive, ReadBefore
<1>10. ASSUME NEW c \in RefreshCalls, CallLost(c) PROVE ReadBefore'
  BY <1>1, <1>10, QuietCall DEF CallLost
<1>5. ASSUME NEW c \in RefreshCalls, ReadSession(c) PROVE ReadBefore'
  <2>1. ASSUME NEW why \in Refusals, Refuse(c, why) PROVE ReadBefore'
    BY <1>1, <1>5, <2>1, QuietCall DEF ReadSession, Refuse
  <2>2. CASE Accepted(c)
             /\ calls' = [calls EXCEPT ![c].pc = "cas", ![c].cur = row.cur, ![c].prev = row.prev]
    <3>1. /\ calls'[c].token = calls[c].token /\ calls'[c].cur = row.cur
          /\ calls'[c].prev = row.prev /\ row' = row
          /\ \A b \in RefreshCalls \ {c} : calls'[b] = calls[b]
      BY <1>0, <1>5, <2>2 DEF ReadSession, CallRecords
    <3>2. calls[c].token \in {row.cur, row.prev}
      BY <2>2 DEF Accepted, IsCurrent, IsPrevious
    <3> QED
      BY <1>0, <3>1, <3>2 DEF ReadBefore
  <2>3. CASE calls' = [calls EXCEPT ![c].pc = "revoke"]
    <3>1. /\ calls'[c].pc = "revoke" /\ row' = row
          /\ \A b \in RefreshCalls \ {c} : calls'[b] = calls[b]
      BY <1>0, <1>5, <2>3 DEF ReadSession, CallRecords
    <3> QED
      BY <3>1 DEF ReadBefore
  <2> QED
    BY <1>5, <2>1, <2>2, <2>3 DEF ReadSession, Refusals
<1>6. ASSUME NEW c \in RefreshCalls, RevokeReused(c) PROVE ReadBefore'
  <2>1. row'.cur = row.cur /\ row'.prev = row.prev
    BY <1>6 DEF RevokeReused, RefreshTypeOK
  <2> QED
    BY <1>1, <1>6, <2>1, QuietCall DEF RevokeReused, Refuse, Refusals
<1>7. ASSUME NEW c \in RefreshCalls, ReplaceToken(c) PROVE ReadBefore'
  <2>1. CASE StillCurrent(c)
    <3>1. row.cur + 1 \in Tokens
      BY <1>0, <1>7, RefreshAssumption DEF ReplaceToken, Tokens
    <3> QED
      BY <1>1, <1>7, <2>1, <3>1, UpdateStep, QuietCall DEF ReplaceToken, Grant
  <2>2. CASE ~StillCurrent(c)
    BY <1>1, <1>7, <2>2, QuietCall DEF ReplaceToken, Refuse, Refusals
  <2> QED
    BY <2>1, <2>2
<1>8. CASE GraceEnds \/ RowExpires \/ RevokedElsewhere
  BY <1>2, <1>8 DEF GraceEnds, RowExpires, RevokedElsewhere, RefreshTypeOK
<1>9. CASE TimesOut \/ Killed \/ AccessExpires \/ Logout
  BY <1>2, <1>9 DEF TimesOut, Killed, AccessExpires, Logout
<1> QED
  BY <1>3, <1>4, <1>5, <1>6, <1>7, <1>8, <1>9, <1>10 DEF RefreshNext, AppNext, ServerNext

\* An answer reaches the call the app awaits.
LEMMA AnswerCall ==
  ASSUME RefreshTypeOK, NEW c \in RefreshCalls, NEW t, NEW why, Answer(c, t, why), waiting = c
  PROVE  /\ calls'[c].pc = "answered" /\ calls'[c].answer = t /\ calls'[c].refusal = why
         /\ ~calls'[c].passed
<1>1. DOMAIN calls = RefreshCalls
  BY DEF RefreshTypeOK
<1>2. calls'[c] = [Free EXCEPT !.pc = "answered", !.answer = t, !.refusal = why]
  BY <1>1 DEF Answer
<1> QED
  BY <1>2 DEF Free

\* A session ended for a reused token, and a call about to end it, were preceded
\* by a refresh without the installation id.
LEMMA IdStep == ASSUME RefreshTypeOK, WithoutId, RefreshNext PROVE WithoutId'
<1>0. calls \in [RefreshCalls -> CallRecords] /\ idless \in BOOLEAN
  BY DEF RefreshTypeOK
<1>1. ASSUME NEW c \in RefreshCalls, calls'[c].pc \notin Underway,
             \A b \in RefreshCalls \ {c} : calls'[b] = calls[b],
             idless => idless', row'.status = "reused" => idless'
      PROVE  WithoutId'
  BY <1>1 DEF WithoutId, Underway
<1>2. CASE UNCHANGED <<calls, idless>> /\ row'.status \in {row.status, "logout", "replaced"}
  BY <1>2 DEF WithoutId
<1>3. ASSUME NEW c \in RefreshCalls, NEW id \in BOOLEAN, StartRefresh(c, id)
      PROVE  WithoutId'
  <2>1. /\ calls'[c].pc = "sent" /\ calls'[c].id = id
        /\ \A b \in RefreshCalls \ {c} : calls'[b] = calls[b]
        /\ row' = row /\ (idless => idless') /\ (~id => idless')
    BY <1>0, <1>3 DEF StartRefresh, Free
  <2> QED
    BY <2>1 DEF WithoutId
<1>4. ASSUME NEW c \in RefreshCalls, Receive(c) PROVE WithoutId'
  <2>1. ASSUME NEW b \in RefreshCalls, calls'[b].pc \in Underway
        PROVE  calls'[b].pc = calls[b].pc /\ calls'[b].id = calls[b].id
    BY <1>4, <2>1, ReceiveCalls, PassedCall
  <2>2. row' = row /\ idless' = idless
    BY <1>4 DEF Receive
  <2> QED
    BY <2>1, <2>2 DEF WithoutId, Underway
<1>10. ASSUME NEW c \in RefreshCalls, CallLost(c) PROVE WithoutId'
  <2>1. row' = row /\ idless' = idless
    BY <1>10 DEF CallLost, app
  <2> QED
    BY <1>1, <1>10, <2>1, QuietCall DEF WithoutId, CallLost
<1>5. ASSUME NEW c \in RefreshCalls, ReadSession(c) PROVE WithoutId'
  <2>0. row' = row /\ idless' = idless /\ calls[c].pc \in Underway
    BY <1>5 DEF ReadSession, app, Underway
  <2>1. ASSUME NEW why \in Refusals, Refuse(c, why) PROVE WithoutId'
    BY <1>1, <2>0, <2>1, QuietCall DEF Refuse, WithoutId
  <2>2. CASE calls' = [calls EXCEPT ![c].pc = "cas", ![c].cur = row.cur, ![c].prev = row.prev]
    <3>1. /\ calls'[c].pc = "cas" /\ calls'[c].id = calls[c].id
          /\ \A b \in RefreshCalls \ {c} : calls'[b] = calls[b]
      BY <1>0, <2>2 DEF CallRecords
    <3> QED
      BY <2>0, <3>1 DEF WithoutId
  <2>3. CASE ~Accepted(c) /\ IsPrevious(c) /\ calls' = [calls EXCEPT ![c].pc = "revoke"]
    <3>1. /\ calls'[c].pc = "revoke" /\ calls'[c].id = calls[c].id
          /\ \A b \in RefreshCalls \ {c} : calls'[b] = calls[b]
      BY <1>0, <2>3 DEF CallRecords
    <3>2. ~calls[c].id
      BY <2>3 DEF Accepted
    <3> QED
      BY <2>0, <3>1, <3>2 DEF WithoutId
  <2> QED
    BY <1>5, <2>1, <2>2, <2>3 DEF ReadSession, Refusals
<1>6. ASSUME NEW c \in RefreshCalls, RevokeReused(c) PROVE WithoutId'
  <2>1. idless /\ idless'
    BY <1>6 DEF RevokeReused, WithoutId, Underway, app
  <2> QED
    BY <1>1, <1>6, <2>1, QuietCall DEF RevokeReused, Refuse, Refusals
<1>7. ASSUME NEW c \in RefreshCalls, ReplaceToken(c) PROVE WithoutId'
  <2>1. row'.status = row.status /\ idless' = idless
    BY <1>7 DEF ReplaceToken, RefreshTypeOK, app
  <2>2. row.cur + 1 \in Tokens
    BY <1>7, RefreshAssumption DEF ReplaceToken, Tokens, RefreshTypeOK
  <2>3. \E t \in Tokens \cup {NoToken}, why \in Refusals \cup {"none"} : Answer(c, t, why)
    BY <1>7, <2>2 DEF ReplaceToken, Grant, Refuse, Refusals
  <2> QED
    BY <1>1, <2>1, <2>3, QuietCall DEF WithoutId
<1>8. CASE GraceEnds \/ RowExpires \/ RevokedElsewhere
  BY <1>2, <1>8 DEF GraceEnds, RowExpires, RevokedElsewhere, RefreshTypeOK, app
<1>9. CASE TimesOut \/ Killed \/ AccessExpires \/ Logout
  BY <1>2, <1>9 DEF TimesOut, Killed, AccessExpires, Logout
<1> QED
  BY <1>3, <1>4, <1>5, <1>6, <1>7, <1>8, <1>9, <1>10 DEF RefreshNext, AppNext, ServerNext

\* The refreshes sent since the last answer carry the token the app stores.
LEMMA TokenStep == ASSUME RefreshTypeOK, OneToken, RefreshNext PROVE OneToken'
<1>0. /\ calls \in [RefreshCalls -> CallRecords]
      /\ waiting \in RefreshCalls \cup {NoCall}
  BY DEF RefreshTypeOK
<1>1. ASSUME stored' \in {stored, NoToken}, waiting' \in {waiting, NoCall},
             \A b \in RefreshCalls :
               /\ calls'[b].pc \in Underway /\ ~calls'[b].passed =>
                    /\ calls[b].pc \in Underway /\ ~calls[b].passed
                    /\ calls'[b].token = calls[b].token
               /\ waiting = b => ~calls'[b].passed
      PROVE  OneToken'
  BY <1>1, RefreshAssumption DEF OneToken
<1>2. ASSUME NEW c \in RefreshCalls, calls'[c].pc \notin Underway,
             waiting = c => ~calls'[c].passed,
             \A b \in RefreshCalls \ {c} : calls'[b] = calls[b],
             UNCHANGED <<stored, waiting>>
      PROVE  OneToken'
  BY <1>1, <1>2 DEF OneToken
<1>3. ASSUME NEW c \in RefreshCalls, NEW id \in BOOLEAN, StartRefresh(c, id)
      PROVE  OneToken'
  <2>1. /\ calls'[c].pc = "sent" /\ calls'[c].token = stored /\ ~calls'[c].passed
        /\ \A b \in RefreshCalls \ {c} : calls'[b] = calls[b]
        /\ waiting' = c /\ stored' = stored /\ stored # NoToken
    BY <1>0, <1>3 DEF StartRefresh, MaySend, Free
  <2> QED
    BY <2>1 DEF OneToken
<1>4. ASSUME NEW c \in RefreshCalls, Receive(c) PROVE OneToken'
  <2>1. ASSUME NEW b \in RefreshCalls, calls'[b].pc \in Underway PROVE calls'[b].passed
    BY <1>4, <2>1, ReceiveCalls, PassedCall
  <2>2. waiting' = NoCall
    BY <1>4 DEF Receive
  <2> QED
    BY <2>1, <2>2, RefreshAssumption DEF OneToken
<1>5. ASSUME NEW c \in RefreshCalls, CallLost(c) PROVE OneToken'
  <2>1. /\ ~calls'[c].passed /\ UNCHANGED <<stored, waiting>>
    BY <1>0, <1>5 DEF CallLost, app, Free
  <2> QED
    BY <1>2, <1>5, <2>1, QuietCall DEF CallLost
<1>6. ASSUME NEW c \in RefreshCalls, NEW t \in Tokens \cup {NoToken},
             NEW why \in Refusals \cup {"none"}, Answer(c, t, why),
             UNCHANGED <<stored, waiting>>
      PROVE  OneToken'
  <2>1. waiting = c => ~calls'[c].passed
    BY <1>6, AnswerCall
  <2> QED
    BY <1>2, <1>6, <2>1, QuietCall
<1>7. ASSUME NEW c \in RefreshCalls, ReadSession(c) PROVE OneToken'
  <2>0. calls[c].pc \in Underway /\ UNCHANGED <<stored, waiting>>
    BY <1>7 DEF ReadSession, app, Underway
  <2>1. ASSUME NEW why \in Refusals, Refuse(c, why) PROVE OneToken'
    BY <1>6, <2>0, <2>1 DEF Refuse
  <2>2. ASSUME calls'[c].token = calls[c].token, calls'[c].passed = calls[c].passed,
               \A b \in RefreshCalls \ {c} : calls'[b] = calls[b]
        PROVE  OneToken'
    BY <1>1, <2>0, <2>2 DEF OneToken
  <2>3. CASE calls' = [calls EXCEPT ![c].pc = "cas", ![c].cur = row.cur, ![c].prev = row.prev]
    BY <1>0, <2>2, <2>3 DEF CallRecords
  <2>4. CASE calls' = [calls EXCEPT ![c].pc = "revoke"]
    BY <1>0, <2>2, <2>4 DEF CallRecords
  <2> QED
    BY <1>7, <2>1, <2>3, <2>4 DEF ReadSession, Refusals
<1>8. ASSUME NEW c \in RefreshCalls, RevokeReused(c) PROVE OneToken'
  BY <1>6, <1>8 DEF RevokeReused, Refuse, app, Refusals
<1>9. ASSUME NEW c \in RefreshCalls, ReplaceToken(c) PROVE OneToken'
  <2>1. row.cur + 1 \in Tokens /\ UNCHANGED <<stored, waiting>>
    BY <1>9, RefreshAssumption DEF ReplaceToken, Tokens, RefreshTypeOK, app
  <2>2. PICK t \in Tokens \cup {NoToken}, why \in Refusals \cup {"none"} : Answer(c, t, why)
    BY <1>9, <2>1 DEF ReplaceToken, Grant, Refuse, Refusals
  <2> QED
    BY <1>6, <2>1, <2>2
<1>10. CASE GraceEnds \/ RowExpires \/ RevokedElsewhere
  BY <1>10 DEF GraceEnds, RowExpires, RevokedElsewhere, app, OneToken
<1>11. CASE TimesOut \/ Killed \/ AccessExpires \/ Logout
  BY <1>1, <1>11
  DEF TimesOut, Killed, AccessExpires, Logout, EndSession, OneToken
<1> QED
  BY <1>3, <1>4, <1>5, <1>7, <1>8, <1>9, <1>10, <1>11 DEF RefreshNext, AppNext, ServerNext

----------------------------------------------------------------------------
(* As long as no refresh the app has given up overtakes a later one.       *)

\* The update of a refresh that has not been left behind: the app, and the
\* refresh it awaits, hold the token it replaces or get the one it issues.
LEMMA UpdateInTurn ==
  ASSUME RefreshTypeOK, ReadBefore, OneToken, InTurn, NEW c \in RefreshCalls, ReplaceToken(c),
         StillCurrent(c), ~overtaken'
  PROVE  InTurn'
<1>1. /\ row.status = "active" /\ row'.status = "active"
      /\ row'.cur = row.cur + 1 /\ row'.prev = calls[c].token
  BY UpdateStep
<1>2. ~LeftBehind(c) /\ stored' = stored /\ closed' = closed /\ waiting' = waiting
  BY DEF ReplaceToken, app
<1>3. \A b \in RefreshCalls \ {c} : calls'[b] = calls[b]
  BY DEF ReplaceToken, Grant, Answer, RefreshTypeOK
<1>4. closed # "invalid"
  BY <1>1 DEF InTurn
<1>5. CASE waiting = c
  <2>1. /\ calls'[c].pc = "answered" /\ calls'[c].answer = row'.cur
        /\ calls'[c].refusal = "none"
    BY <1>1, <1>5, AnswerCall DEF ReplaceToken, Grant
  <2>2. stored \in {NoToken, calls[c].token}
    BY <1>5 DEF OneToken, ReplaceToken, Underway
  <2>3. AwaitedKnows'
    BY <1>2, <1>5, <2>1 DEF AwaitedKnows, Underway
  <2> QED
    BY <1>1, <1>2, <1>4, <2>2, <2>3 DEF InTurn
<1>6. CASE waiting # c
  <2>1. stored \in {NoToken, calls[c].token}
    BY <1>2, <1>6 DEF LeftBehind, OneToken, ReplaceToken, Underway
  <2>2. ASSUME NEW b \in RefreshCalls, waiting = b
        PROVE  /\ calls'[b].pc \in {"free", "sent"}
               /\ calls'[b].pc = "sent" => calls'[b].token = row'.prev
    <3>1. b # c /\ waiting # NoCall /\ calls'[b] = calls[b]
      BY <1>3, <1>6, <2>2, RefreshAssumption
    <3> QED
      BY <1>1, <1>2, <1>6, <2>2, <3>1 DEF LeftBehind, OneToken, ReplaceToken, Underway
  <2>3. AwaitedKnows'
    BY <1>1, <1>2, <2>1, <2>2 DEF AwaitedKnows, Underway
  <2> QED
    BY <1>1, <1>2, <1>4, <2>1, <2>3 DEF InTurn
<1> QED
  BY <1>5, <1>6

\* Every other step leaves the app, and the refresh it awaits, with a token the
\* server knows.
LEMMA InTurnStep == ASSUME IInv, RefreshNext, ~overtaken' PROVE InTurn'
<1>0. /\ RefreshTypeOK /\ ReadBefore /\ OneToken /\ calls \in [RefreshCalls -> CallRecords]
      /\ waiting \in RefreshCalls \cup {NoCall}
  BY DEF IInv, RefreshTypeOK
<1>1. InTurn
  BY DEF IInv, RefreshNext, AppNext, ServerNext, StartRefresh, Receive, TimesOut, Killed,
         AccessExpires, Logout, ReadSession, RevokeReused, ReplaceToken, CallLost, GraceEnds,
         RowExpires, RevokedElsewhere
<1>2. ASSUME row'.cur = row.cur, row'.prev = row.prev,
             row'.status = "active" => row.status = "active",
             waiting' \in {waiting, NoCall}, stored' \in {stored, NoToken},
             row'.status = "active" => closed' # "invalid",
             \A b \in RefreshCalls : waiting = b =>
               \/ calls'[b] = calls[b]
               \/ calls'[b].pc = "free"
               \/ /\ calls'[b].pc = "answered" /\ calls'[b].refusal # "none"
                  /\ calls'[b].refusal = "invalid" => row'.status # "active"
      PROVE  InTurn'
  <2>1. ASSUME NEW b \in RefreshCalls, waiting' = b
        PROVE  /\ calls'[b].pc \in Underway =>
                    calls'[b].token \in {row'.cur, row'.prev}
               /\ calls'[b].pc = "cas" => calls'[b].cur = row'.cur
               /\ calls'[b].pc = "answered" /\ calls'[b].refusal = "none"
                    => calls'[b].answer = row'.cur
               /\ calls'[b].pc = "answered" /\ calls'[b].refusal = "invalid"
                    => row'.status # "active"
    <3>1. waiting = b
      BY <1>2, <2>1, RefreshAssumption
    <3>2. CASE calls'[b] = calls[b]
      BY <1>1, <1>2, <3>1, <3>2 DEF InTurn, AwaitedKnows
    <3> QED
      BY <1>2, <3>1, <3>2 DEF Underway
  <2>2. AwaitedKnows'
    BY <2>1 DEF AwaitedKnows
  <2> QED
    BY <1>1, <1>2, <2>2 DEF InTurn
<1>3. ASSUME NEW c \in RefreshCalls, NEW id \in BOOLEAN, StartRefresh(c, id) PROVE InTurn'
  <2>1. /\ waiting' = c /\ stored' = stored /\ row' = row /\ closed' = closed
        /\ stored # NoToken /\ calls'[c].pc = "sent" /\ calls'[c].token = stored
    BY <1>0, <1>3 DEF StartRefresh, MaySend, Free
  <2>2. AwaitedKnows'
    BY <1>1, <2>1 DEF AwaitedKnows, InTurn, Underway
  <2> QED
    BY <1>1, <2>1, <2>2 DEF InTurn
<1>4. ASSUME NEW c \in RefreshCalls, Receive(c) PROVE InTurn'
  <2>1. waiting' = NoCall /\ row' = row
    BY <1>4 DEF Receive
  <2>2. AwaitedKnows'
    BY <2>1, RefreshAssumption DEF AwaitedKnows
  <2>3. CASE calls[c].refusal = "none"
    BY <1>1, <1>4, <2>1, <2>2, <2>3 DEF Receive, InTurn, AwaitedKnows
  <2>4. CASE calls[c].refusal # "none"
    BY <1>1, <1>4, <2>1, <2>2, <2>4 DEF Receive, EndSession, InTurn, AwaitedKnows
  <2> QED
    BY <2>3, <2>4
<1>5. CASE TimesOut \/ Killed \/ AccessExpires \/ Logout
  BY <1>1, <1>2, <1>5 DEF TimesOut, Killed, AccessExpires, Logout, EndSession, InTurn
<1>6. ASSUME NEW c \in RefreshCalls, ReadSession(c) PROVE InTurn'
  <2>0. /\ row' = row /\ waiting' = waiting /\ stored' = stored /\ closed' = closed
        /\ calls[c].pc = "sent" /\ calls[c].token # NoToken
    BY <1>0, <1>6 DEF ReadSession, app, RefreshTypeOK
  <2>1. waiting = c => calls[c].token \in {row.cur, row.prev}
    BY <1>1, <2>0 DEF InTurn, AwaitedKnows, Underway
  <2>2. ASSUME NEW why \in Refusals, Refuse(c, why), waiting = c => why # "invalid"
        PROVE  InTurn'
    <3>1. \A b \in RefreshCalls \ {c} : calls'[b] = calls[b]
      BY <1>0, <2>2 DEF Refuse, Answer
    <3>2. waiting = c => calls'[c].pc = "answered" /\ calls'[c].refusal = why
      BY <1>0, <2>2, AnswerCall DEF Refuse
    <3> QED
      BY <1>1, <1>2, <2>0, <2>2, <3>1, <3>2 DEF InTurn, Refusals
  <2>3. ASSUME /\ calls'[c].token = calls[c].token /\ calls'[c].pc \in {"cas", "revoke"}
               /\ calls'[c].pc = "cas" => calls'[c].cur = row.cur,
               \A b \in RefreshCalls \ {c} : calls'[b] = calls[b]
        PROVE  InTurn'
    <3>1. CASE waiting # c
      BY <1>1, <1>2, <2>0, <2>3, <3>1 DEF InTurn
    <3>2. CASE waiting = c
      <4>1. AwaitedKnows'
        BY <2>0, <2>1, <2>3, <3>2 DEF AwaitedKnows, Underway
      <4> QED
        BY <1>1, <2>0, <4>1 DEF InTurn
    <3> QED
      BY <3>1, <3>2
  <2>4. CASE calls' = [calls EXCEPT ![c].pc = "cas", ![c].cur = row.cur, ![c].prev = row.prev]
    BY <1>0, <2>3, <2>4 DEF CallRecords
  <2>5. CASE calls' = [calls EXCEPT ![c].pc = "revoke"]
    BY <1>0, <2>3, <2>5 DEF CallRecords
  <2>6. CASE ~Accepted(c) /\ ~IsPrevious(c) /\ Refuse(c, "invalid")
    BY <2>0, <2>1, <2>2, <2>6 DEF Accepted, IsCurrent, IsPrevious, Refusals
  <2>7. ASSUME NEW why \in Refusals \ {"invalid"}, Refuse(c, why) PROVE InTurn'
    BY <2>2, <2>7
  <2> QED
    BY <1>6, <2>4, <2>5, <2>6, <2>7 DEF ReadSession, Refusals
<1>7. ASSUME NEW c \in RefreshCalls, RevokeReused(c) PROVE InTurn'
  <2>1. /\ row'.cur = row.cur /\ row'.prev = row.prev
        /\ row'.status = "active" => row.status = "active"
        /\ waiting' = waiting /\ stored' = stored /\ closed' = closed
    BY <1>0, <1>7 DEF RevokeReused, RefreshTypeOK, app
  <2>2. \A b \in RefreshCalls \ {c} : calls'[b] = calls[b]
    BY <1>0, <1>7 DEF RevokeReused, Refuse, Answer
  <2>3. waiting = c => calls'[c].pc = "answered" /\ calls'[c].refusal = "revoked"
    BY <1>0, <1>7, AnswerCall DEF RevokeReused, Refuse
  <2> QED
    BY <1>1, <1>2, <2>1, <2>2, <2>3 DEF InTurn
<1>8. ASSUME NEW c \in RefreshCalls, ReplaceToken(c) PROVE InTurn'
  <2>1. CASE StillCurrent(c)
    BY <1>0, <1>1, <1>8, <2>1, UpdateInTurn
  <2>2. CASE ~StillCurrent(c)
    <3>1. row' = row /\ waiting' = waiting /\ stored' = stored /\ closed' = closed
      BY <1>8, <2>2 DEF ReplaceToken, app
    <3>2. \A b \in RefreshCalls \ {c} : calls'[b] = calls[b]
      BY <1>0, <1>8, <2>2 DEF ReplaceToken, Refuse, Answer
    <3>3. waiting = c => calls'[c].pc = "answered" /\ calls'[c].refusal = "invalid"
      BY <1>0, <1>8, <2>2, AnswerCall DEF ReplaceToken, Refuse
    <3>4. waiting = c => row.status # "active"
      BY <1>1, <1>8, <2>2 DEF InTurn, AwaitedKnows, ReplaceToken, StillCurrent
    <3> QED
      BY <1>1, <1>2, <3>1, <3>2, <3>3, <3>4 DEF InTurn
  <2> QED
    BY <2>1, <2>2
<1>9. ASSUME NEW c \in RefreshCalls, CallLost(c) PROVE InTurn'
  <2>1. /\ row' = row /\ waiting' = waiting /\ stored' = stored /\ closed' = closed
        /\ calls'[c].pc = "free" /\ \A b \in RefreshCalls \ {c} : calls'[b] = calls[b]
    BY <1>0, <1>9 DEF CallLost, app, Free
  <2> QED
    BY <1>1, <1>2, <2>1 DEF InTurn
<1>10. CASE GraceEnds \/ RowExpires \/ RevokedElsewhere
  BY <1>0, <1>1, <1>2, <1>10
  DEF GraceEnds, RowExpires, RevokedElsewhere, app, RefreshTypeOK, InTurn
<1> QED
  BY <1>3, <1>4, <1>5, <1>6, <1>7, <1>8, <1>9, <1>10 DEF RefreshNext, AppNext, ServerNext

----------------------------------------------------------------------------

\* Every step keeps the invariant.
LEMMA InvStep == IInv /\ [RefreshNext]_refreshVars => IInv'
<1> SUFFICES ASSUME IInv, [RefreshNext]_refreshVars PROVE IInv'
  OBVIOUS
<1>1. CASE RefreshNext
  BY <1>1, TypeStep, ReadStep, IdStep, TokenStep, InTurnStep DEF IInv
<1>2. CASE UNCHANGED refreshVars
  BY <1>2, TypeStep
  DEF IInv, refreshVars, app, ReadBefore, WithoutId, OneToken, InTurn, AwaitedKnows
<1> QED
  BY <1>1, <1>2

\* The invariant holds in every state.
LEMMA Invariance == RefreshSpec => []IInv
  BY InitInv, InvStep, PTL DEF RefreshSpec

\* Every variable has its type.
THEOREM TypeCorrect == RefreshSpec => []RefreshTypeOK
<1>1. IInv => RefreshTypeOK
  BY DEF IInv
<1> QED
  BY <1>1, Invariance, PTL

\* Wherever a refresh is cut short, the token the app stores is the current or
\* the previous one of the row, as long as no refresh it has given up takes
\* effect after the app has gone on (refresh of session.service and
\* refreshAccessToken of the app).
THEOREM TokenStaysKnown == RefreshSpec => []AppTokenKnown
<1>1. IInv => AppTokenKnown
  BY DEF IInv, InTurn, AppTokenKnown
<1> QED
  BY <1>1, Invariance, PTL

\* A live session refuses its own app as unknown only after a refresh the app had
\* given up took effect late, and is ended for a reused token only after one
\* without the installation id.
THEOREM RetriesAreSafe == RefreshSpec => []NoSilentLogout
<1>1. IInv => NoSilentLogout
  BY DEF IInv, WithoutId, InTurn, NoSilentLogout
<1> QED
  BY <1>1, Invariance, PTL

\* Whatever refreshes cross, the update of refresh() takes a row that is active and
\* lets only its current or its previous token become the previous one.
THEOREM OldTokensGone == RefreshSpec => OldTokensStayOld
<1>1. IInv /\ [RefreshNext]_refreshVars =>
        [row'.cur # row.cur =>
           row.status = "active" /\ row'.prev \in {row.cur, row.prev}]_refreshVars
  <2> SUFFICES ASSUME IInv, RefreshNext, row'.cur # row.cur
               PROVE  row.status = "active" /\ row'.prev \in {row.cur, row.prev}
    OBVIOUS
  <2>1. RefreshTypeOK /\ ReadBefore
    BY DEF IInv
  <2>2. PICK c \in RefreshCalls : ReplaceToken(c) /\ StillCurrent(c)
    BY <2>1 DEF RefreshNext, AppNext, ServerNext, StartRefresh, Receive, TimesOut, Killed,
         AccessExpires, Logout, ReadSession, RevokeReused, ReplaceToken, CallLost, GraceEnds,
         RowExpires, RevokedElsewhere, RefreshTypeOK
  <2> QED
    BY <2>1, <2>2, UpdateStep
<1> QED
  BY <1>1, Invariance, PTL DEF RefreshSpec, OldTokensStayOld
=============================================================================
