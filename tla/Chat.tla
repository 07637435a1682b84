-------------------------------- MODULE Chat ---------------------------------
(***************************************************************************)
(* One room on one phone (ramupin/src/features/chat, db/messages.ts) and   *)
(* the server it talks to (ramupin-server/src/chat).  What is on the       *)
(* screen comes from four sides that do not wait for one another: the      *)
(* message the user has just typed, the answer to it, the socket, and a    *)
(* list fetched from the server and put together with what the phone keeps.*)
(***************************************************************************)
EXTENDS Lists, Functions

CONSTANTS
  Posts,      \* messages the user types, each sent at most once
  Fetches,    \* runs of the query that lists the room
  MaxMessages \* bound: messages stored in the room

\* A message as typed has an identifier no stored one has.
ASSUME ChatAssumption ==
  /\ MaxMessages \in Nat
  /\ Posts \cap (1 .. MaxMessages) = {}

VARIABLES
  table,  \* messages of the room on the server, numbered as they were stored
  count,  \* messages stored so far
  post,   \* post[p]: the mutation on the phone, and its request on the server
  fetch,  \* fetch[q]: a run of the query
  wire,   \* messages on their way through the socket
  store,  \* messages in the database of the phone
  screen  \* what the room shows: messages, and posts that have none yet

chatVars == <<table, count, post, fetch, wire, store, screen>>

Messages == 1 .. MaxMessages

PostStates ==
  [app: {"free", "waiting", "done", "failed"},
   server: {"none", "coming", "stored", "told"},
   m: 0 .. MaxMessages]

FetchStates ==
  [pc: {"idle", "asked", "answered"}, live: BOOLEAN,
   local: SUBSET Messages, server: SUBSET Messages]

NoFetch == [pc |-> "idle", live |-> FALSE, local |-> {}, server |-> {}]

ChatTypeOK ==
  /\ table \subseteq Messages
  /\ count \in 0 .. MaxMessages
  /\ post \in [Posts -> PostStates]
  /\ fetch \in [Fetches -> FetchStates]
  /\ wire \subseteq Messages
  /\ store \subseteq Messages
  /\ screen \in Seq(Messages \cup Posts)

ChatInit ==
  /\ table = {}
  /\ count = 0
  /\ post = [p \in Posts |-> [app |-> "free", server |-> "none", m |-> 0]]
  /\ fetch = [q \in Fetches |-> NoFetch]
  /\ wire = {}
  /\ store = {}
  /\ screen = <<>>

----------------------------------------------------------------------------
(* The screen.                                                             *)

Without(list, item) == Picked(list, {i \in DOMAIN list : list[i] # item})

Replaced(list, item, by) == [i \in DOMAIN list |-> IF list[i] = item THEN by ELSE list[i]]

\* addMessage: kept, and added at the end unless it is there.
Added(m) == IF m \in Range(screen) THEN screen ELSE Append(screen, m)

\* Mutation: the answer always takes the place of the message as typed.
AnsweredBlindly(p, m) == Replaced(screen, p, m)

\* onSuccess: the answer takes the place of the message as typed, which goes if
\* the socket was faster.
Answered(p, m) == IF m \in Range(screen) THEN Without(screen, p) ELSE Replaced(screen, p, m)

\* mergeMessages: in the order of time; what was typed is not among them.
Merged(local, server) == InOrder(local \cup server)

----------------------------------------------------------------------------
(* Sending.                                                                *)

\* The user sends, perhaps again what has failed: a fetch under way is cancelled,
\* and the message is shown at once.
Send(p, again) ==
  /\ post[p].app = "free"
  /\ again # p => post[again].app = "failed" /\ again \in Range(screen)
  /\ post' = [post EXCEPT ![p].app = "waiting", ![p].server = "coming"]
  /\ fetch' = [q \in Fetches |-> [fetch[q] EXCEPT !.live = FALSE]]
  /\ screen' = Append(Without(screen, again), p)
  /\ UNCHANGED <<table, count, wire, store>>

\* ChatService.send: the transaction commits.
Store(p) ==
  /\ post[p].server = "coming"
  /\ count < MaxMessages
  /\ count' = count + 1
  /\ table' = table \cup {count + 1}
  /\ post' = [post EXCEPT ![p].server = "stored", ![p].m = count + 1]
  /\ UNCHANGED <<fetch, wire, store, screen>>

\* emitMessage: everybody in the room, the sender too.
EmitMessage(p) ==
  /\ post[p].server = "stored"
  /\ post' = [post EXCEPT ![p].server = "told"]
  /\ wire' = wire \cup {post[p].m}
  /\ UNCHANGED <<table, count, fetch, store, screen>>

\* The answer arrives.
Succeed(p) ==
  /\ post[p].app = "waiting" /\ post[p].server = "told"
  /\ post' = [post EXCEPT ![p].app = "done"]
  /\ store' = store \cup {post[p].m}
  /\ screen' = Answered(p, post[p].m)
  /\ UNCHANGED <<table, count, fetch, wire>>

\* Refused, lost or given up waiting for; the server may go on with it.
Fail(p, refused) ==
  /\ post[p].app = "waiting"
  /\ refused => post[p].server = "coming"
  /\ post' = [post EXCEPT ![p].app = "failed", ![p].server = IF refused THEN "none" ELSE @]
  /\ UNCHANGED <<table, count, fetch, wire, store, screen>>

----------------------------------------------------------------------------
(* Receiving.                                                              *)

\* Somebody else sends.
Others ==
  /\ count < MaxMessages
  /\ count' = count + 1
  /\ table' = table \cup {count + 1}
  /\ wire' = wire \cup {count + 1}
  /\ UNCHANGED <<post, fetch, store, screen>>

\* The socket brings a message, or was not connected.
Hear(m, heard) ==
  /\ m \in wire
  /\ wire' = wire \ {m}
  /\ store' = IF heard THEN store \cup {m} ELSE store
  /\ screen' = IF heard THEN Added(m) ELSE screen
  /\ UNCHANGED <<table, count, post, fetch>>

\* The query runs: what the phone keeps is read first.
Ask(q) ==
  /\ fetch[q].pc = "idle"
  /\ \A r \in Fetches : ~fetch[r].live
  /\ fetch' = [fetch EXCEPT ![q] = [NoFetch EXCEPT !.pc = "asked", !.live = TRUE, !.local = store]]
  /\ UNCHANGED <<table, count, post, wire, store, screen>>

\* ChatService.messages (one page of it).
List(q) ==
  /\ fetch[q].pc = "asked"
  /\ fetch' = [fetch EXCEPT ![q].pc = "answered", ![q].server = table]
  /\ UNCHANGED <<table, count, post, wire, store, screen>>

\* The list is kept, and shown unless the run was cancelled.
ListArrives(q) ==
  /\ fetch[q].pc = "answered"
  /\ fetch' = [fetch EXCEPT ![q] = NoFetch]
  /\ store' = store \cup fetch[q].server
  /\ screen' = IF fetch[q].live THEN Merged(fetch[q].local, fetch[q].server) ELSE screen
  /\ UNCHANGED <<table, count, post, wire>>

\* Without an answer the phone shows what it kept, if that is anything.
ListFails(q) ==
  /\ fetch[q].pc # "idle"
  /\ fetch' = [fetch EXCEPT ![q] = NoFetch]
  /\ screen' = IF fetch[q].live /\ fetch[q].local # {} THEN Merged(fetch[q].local, {})
               ELSE screen
  /\ UNCHANGED <<table, count, post, wire, store>>

\* The owner of the room deletes the conversation on the server.
Erased ==
  /\ table # {}
  /\ table' = {}
  /\ UNCHANGED <<count, post, fetch, wire, store, screen>>

\* forgetRoom: a conversation that is over is deleted from the phone as well, and a
\* fetch under way has nothing to show its answer in.
Forget ==
  /\ table = {}
  /\ store # {}
  /\ store' = {}
  /\ screen' = <<>>
  /\ fetch' = [q \in Fetches |-> [fetch[q] EXCEPT !.live = FALSE]]
  /\ UNCHANGED <<table, count, post, wire>>

ChatNext ==
  \/ \E p \in Posts :
       \/ \E again \in Posts : Send(p, again)
       \/ Store(p) \/ EmitMessage(p) \/ Succeed(p)
       \/ \E refused \in BOOLEAN : Fail(p, refused)
  \/ \E m \in Messages, heard \in BOOLEAN : Hear(m, heard)
  \/ \E q \in Fetches : Ask(q) \/ List(q) \/ ListArrives(q) \/ ListFails(q)
  \/ Others \/ Erased \/ Forget

ChatSpec == ChatInit /\ [][ChatNext]_chatVars

----------------------------------------------------------------------------
(* Properties.                                                             *)

\* No message is on the screen twice, and none stays beside the form in which it
\* was typed once its answer is in, whichever of the answer, the socket and the
\* list was first (the comment in onSuccess tells of the phone where it was).
ShownOnce ==
  /\ \A i, j \in DOMAIN screen : screen[i] = screen[j] => i = j
  /\ \A p \in Posts : post[p].app = "done" => p \notin Range(screen)
=============================================================================
