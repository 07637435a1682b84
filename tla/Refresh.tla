------------------------------ MODULE Refresh ------------------------------
(***************************************************************************)
(* The refresh tokens of one session: refresh() of the server              *)
(* (ramupin-server/src/auth/session.service) and refreshAccessToken() of   *)
(* the app (ramupin/src/features/auth/session).                            *)
(*                                                                         *)
(* Every refresh replaces the token.  The app may be killed or give up     *)
(* waiting before it stores the new one, so the server keeps the token     *)
(* before and takes it from the same device; a refresh the app has given   *)
(* up is still on its way, and is handled before or after the next one.    *)
(* What the module asks is when the app ends up with a token the server    *)
(* does not know.                                                          *)
(* Tokens are numbered in the order the server issues them.                *)
(***************************************************************************)
EXTENDS Naturals

CONSTANTS
  RefreshCalls, \* refresh requests on their way at one time
  NoCall,       \* the app awaits no refresh
  MaxTokens     \* bound: tokens ever issued to the session

ASSUME RefreshAssumption ==
  /\ NoCall \notin RefreshCalls
  /\ MaxTokens \in Nat \ {0}

NoToken == 0
Tokens == 1 .. MaxTokens

VARIABLES
  row,       \* the session row: current and previous token, status, times
  calls,     \* calls[c]: a refresh request, its handler or its answer
  waiting,   \* the call the app awaits (refreshing), or NoCall
  stored,    \* the refresh token in secure storage
  access,    \* the access token in memory
  closed,    \* why the app ended the session, "no" while it has not
  idless,    \* history: a refresh was sent without the installation id
  overtaken  \* history: a refresh the app gave up took effect after a later one

app == <<waiting, stored, access, closed, idless>>
refreshVars == <<row, calls, app, overtaken>>

Refusals == {"invalid", "expired", "revoked", "replaced"}

CallRecords ==
  [pc: {"free", "sent", "cas", "revoke", "answered"},
   token: Tokens \cup {NoToken}, id: BOOLEAN,
   cur: Tokens \cup {NoToken}, prev: Tokens \cup {NoToken},
   answer: Tokens \cup {NoToken}, refusal: Refusals \cup {"none"},
   passed: BOOLEAN] \* history: the app has had the answer to a later refresh

Free == [pc |-> "free", token |-> NoToken, id |-> FALSE,
         cur |-> NoToken, prev |-> NoToken,
         answer |-> NoToken, refusal |-> "none", passed |-> FALSE]

\* createSession has inserted the row and the app has stored the token.
RefreshInit ==
  /\ row = [cur |-> 1, prev |-> NoToken, status |-> "active",
            grace |-> TRUE, expired |-> FALSE]
  /\ calls = [c \in RefreshCalls |-> Free]
  /\ waiting = NoCall
  /\ stored = 1
  /\ access = "ok"
  /\ closed = "no"
  /\ idless = FALSE
  /\ overtaken = FALSE

----------------------------------------------------------------------------
(* The app.                                                                *)

\* Callers share the refresh under way; with no stored token there is none.
MaySend == waiting = NoCall /\ stored # NoToken /\ access # "ok"

\* refreshAccessToken: after a 401 TOKEN_EXPIRED or when the app starts.  The
\* installation id may fail to be read.
StartRefresh(c, id) ==
  /\ MaySend
  /\ calls[c].pc = "free"
  /\ calls' = [calls EXCEPT ![c] = [Free EXCEPT !.pc = "sent", !.token = stored, !.id = id]]
  /\ waiting' = c
  /\ idless' = (idless \/ ~id)
  /\ UNCHANGED <<row, stored, access, closed, overtaken>>

\* The request times out after 15 seconds or the network fails: the login is
\* kept and the next request tries again.  The request stays on its way.
TimesOut ==
  /\ waiting # NoCall
  /\ waiting' = NoCall
  /\ UNCHANGED <<row, calls, stored, access, closed, idless, overtaken>>

\* endSession: the stored token and the memory are cleared.
EndSession(reason) ==
  /\ stored' = NoToken
  /\ access' = "none"
  /\ closed' = reason

\* The answer arrives: store the new token and go on, or end the session.
Receive(c) ==
  /\ waiting = c
  /\ calls[c].pc = "answered"
  /\ IF calls[c].refusal # "none"
     THEN EndSession(calls[c].refusal)
     ELSE /\ stored' = calls[c].answer
          /\ access' = "ok"
          /\ UNCHANGED closed
  /\ waiting' = NoCall
  /\ calls' = [b \in RefreshCalls |->
                IF b = c \/ calls[b].pc = "free" THEN Free
                ELSE [calls[b] EXCEPT !.passed = TRUE]]
  /\ UNCHANGED <<row, idless, overtaken>>

\* The app is killed, or the token cannot be stored: the memory is lost.
Killed ==
  /\ waiting # NoCall \/ access # "none"
  /\ waiting' = NoCall
  /\ access' = "none"
  /\ UNCHANGED <<row, calls, stored, closed, idless, overtaken>>

\* The access token lives for an hour.
AccessExpires ==
  /\ access = "ok"
  /\ access' = "stale"
  /\ UNCHANGED <<row, calls, waiting, stored, closed, idless, overtaken>>

\* The user logs out; a refresh under way goes on.
Logout ==
  /\ access # "none"
  /\ EndSession("logout")
  /\ UNCHANGED <<row, calls, waiting, idless, overtaken>>

----------------------------------------------------------------------------
(* The server.                                                             *)

\* The answer is on its way to the app, unless the app has given up on it.
Answer(c, token, refusal) ==
  calls' = [calls EXCEPT ![c] =
              IF waiting = c
              THEN [Free EXCEPT !.pc = "answered", !.answer = token, !.refusal = refusal]
              ELSE Free]

Grant(c, token) == Answer(c, token, "none")

Refuse(c, why) == Answer(c, NoToken, why)

IsCurrent(c) == calls[c].token = row.cur

IsPrevious(c) == row.prev # NoToken /\ calls[c].token = row.prev

\* Mutation: the previous token is taken within the grace period only.
AcceptedInGrace(c) == IsCurrent(c) \/ (IsPrevious(c) /\ row.grace)

\* The token in use, or the one before it within the grace period or from the
\* device of the session.
Accepted(c) == IsCurrent(c) \/ (IsPrevious(c) /\ (row.grace \/ calls[c].id))

\* The first query of refresh() and what follows from it.
ReadSession(c) ==
  /\ calls[c].pc = "sent"
  /\ \/ row.status # "active"
        /\ Refuse(c, IF row.status = "replaced" THEN "replaced" ELSE "revoked")
     \/ row.status = "active" /\ row.expired
        /\ Refuse(c, "expired")
     \/ row.status = "active" /\ ~row.expired /\ Accepted(c)
        /\ calls' = [calls EXCEPT ![c].pc = "cas", ![c].cur = row.cur, ![c].prev = row.prev]
     \/ row.status = "active" /\ ~row.expired /\ ~Accepted(c) /\ IsPrevious(c)
        /\ calls' = [calls EXCEPT ![c].pc = "revoke"]
     \/ row.status = "active" /\ ~row.expired /\ ~Accepted(c) /\ ~IsPrevious(c)
        /\ Refuse(c, "invalid")
  /\ UNCHANGED <<row, app, overtaken>>

\* revoke(..., 'reused'): an old token from a device that did not prove itself.
RevokeReused(c) ==
  /\ calls[c].pc = "revoke"
  /\ row' = IF row.status = "active" THEN [row EXCEPT !.status = "reused"] ELSE row
  /\ Refuse(c, "revoked")
  /\ UNCHANGED <<app, overtaken>>

\* Mutation: the current token becomes the previous one even when the request
\* came with the previous one.
PreviousIsCurrent(c) == calls[c].cur

\* A retry with the previous token keeps it: the app may still hold it.
NextPrevious(c) ==
  IF calls[c].token = calls[c].cur THEN calls[c].cur ELSE calls[c].prev

\* Mutation: the update does not compare the token that was read.
StillActive(c) == row.status = "active"

\* The update matches while the row still has the token that was read.
StillCurrent(c) == row.cur = calls[c].cur /\ row.status = "active"

\* The app has given up the refresh c, and a later one is ahead of it: the server
\* has read the row for it, or its answer has arrived.
LeftBehind(c) ==
  /\ waiting # c
  /\ \/ calls[c].passed
     \/ waiting # NoCall /\ calls[waiting].pc \notin {"free", "sent"}

\* The update of refresh() and its answer.
ReplaceToken(c) ==
  /\ calls[c].pc = "cas"
  /\ row.cur < MaxTokens
  /\ IF StillCurrent(c)
     THEN /\ row' = [row EXCEPT !.cur = row.cur + 1, !.prev = NextPrevious(c),
                                !.grace = TRUE, !.expired = FALSE]
          /\ Grant(c, row.cur + 1)
          /\ overtaken' = (overtaken \/ LeftBehind(c))
     ELSE /\ Refuse(c, "invalid")
          /\ UNCHANGED <<row, overtaken>>
  /\ UNCHANGED app

\* REFRESH_GRACE_MS pass since the last refresh.
GraceEnds ==
  /\ row.grace
  /\ row' = [row EXCEPT !.grace = FALSE]
  /\ UNCHANGED <<calls, app, overtaken>>

\* The session reaches expires_at.
RowExpires ==
  /\ ~row.expired
  /\ row' = [row EXCEPT !.expired = TRUE]
  /\ UNCHANGED <<calls, app, overtaken>>

\* A logout that reached the server, an admin, or a login on another device.
RevokedElsewhere ==
  /\ row.status = "active"
  /\ \E reason \in {"logout", "replaced"} : row' = [row EXCEPT !.status = reason]
  /\ UNCHANGED <<calls, app, overtaken>>

\* The network drops a request or an answer, the server dies in the middle, or
\* nobody awaits the answer any more.
CallLost(c) ==
  /\ calls[c].pc # "free"
  /\ calls' = [calls EXCEPT ![c] = Free]
  /\ UNCHANGED <<row, app, overtaken>>

----------------------------------------------------------------------------

AppNext ==
  \/ \E c \in RefreshCalls : (\E id \in BOOLEAN : StartRefresh(c, id)) \/ Receive(c)
  \/ TimesOut \/ Killed \/ AccessExpires \/ Logout

ServerNext ==
  \/ \E c \in RefreshCalls :
       ReadSession(c) \/ RevokeReused(c) \/ ReplaceToken(c) \/ CallLost(c)
  \/ GraceEnds \/ RowExpires \/ RevokedElsewhere

RefreshNext == AppNext \/ ServerNext

RefreshSpec == RefreshInit /\ [][RefreshNext]_refreshVars

----------------------------------------------------------------------------
(* Properties.                                                             *)

\* Types of the variables; a refresh on its way carries a token.
RefreshTypeOK ==
  /\ row \in [cur: Tokens, prev: Tokens \cup {NoToken},
              status: {"active", "reused", "logout", "replaced"},
              grace: BOOLEAN, expired: BOOLEAN]
  /\ calls \in [RefreshCalls -> CallRecords]
  /\ \A c \in RefreshCalls :
       calls[c].pc \in {"sent", "cas", "revoke"} => calls[c].token # NoToken
  /\ waiting \in RefreshCalls \cup {NoCall}
  /\ stored \in Tokens \cup {NoToken}
  /\ access \in {"none", "ok", "stale"}
  /\ closed \in {"no", "logout"} \cup Refusals
  /\ idless \in BOOLEAN
  /\ overtaken \in BOOLEAN

\* Wherever a refresh is cut short, and even if the server handles it after the app
\* has given it up, the token in the app's storage is one the server still knows,
\* the current one or the one before: unless it takes effect behind a later one.
AppTokenKnown == ~overtaken => stored \in {NoToken, row.cur, row.prev}

\* The app is not logged out by its own retries: while the session lives the
\* server does not refuse its token as unknown unless a given up refresh has
\* overtaken it, and it ends the session for a reused token only after a refresh
\* that came without the installation id.
NoSilentLogout ==
  /\ ~overtaken /\ row.status = "active" => closed # "invalid"
  /\ row.status = "reused" => idless

\* Whatever refreshes cross between the query of refresh() and its update, a
\* token the server has let go does not come back as the previous one, and a
\* revoked session gets no new token.
OldTokensStayOld ==
  [][row'.cur # row.cur =>
       row.status = "active" /\ row'.prev \in {row.cur, row.prev}]_refreshVars

\* A refresh that failed on the network keeps the login, and the next request
\* tries again (the comment in refreshAccessToken): while the session lives, the
\* app is not logged out for a token the server does not know.
LoginKept == row.status = "active" => closed # "invalid"
============================================================================
