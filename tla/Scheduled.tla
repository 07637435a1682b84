----------------------------- MODULE Scheduled -----------------------------
(***************************************************************************)
(* Scheduled messages (ramupin-server/src/scheduled).  The user keeps a    *)
(* list of messages to be sent to a friend, once or every day; each server *)
(* goes through the due ones every thirty seconds.  A run first reads the  *)
(* identifiers that are due, then takes them one by one: it locks the row, *)
(* or skips it when another server has it, marks it, commits, and only     *)
(* then pushes.                                                            *)
(*                                                                         *)
(* The messages of one user to one friend are modelled; time is counted in *)
(* units of which a day has Day and TOO_LATE_MS is TooLate.                *)
(***************************************************************************)
EXTENDS Naturals, FiniteSets

CONSTANTS
  Messages,   \* rows of scheduled_messages
  Servers,
  NoServer,   \* nobody holds the row's lock
  Whens,      \* times the user picks
  Day,
  TooLate,
  Batch,      \* BATCH: rows a run takes at most
  Edits,      \* whether the user changes messages
  MaxTime,    \* bound: the clock stops here
  MaxText,    \* bound: versions of a message's text
  MaxCrashes  \* bound: how often a server dies in the middle of a run

ASSUME ScheduledAssumption ==
  /\ NoServer \notin Servers
  /\ Messages # {}
  /\ Whens \subseteq 0 .. MaxTime
  /\ Day \in Nat \ {0} /\ TooLate \in Nat /\ Batch \in Nat \ {0}
  /\ Edits \in BOOLEAN
  /\ MaxTime \in Nat /\ MaxText \in Nat \ {0} /\ MaxCrashes \in Nat

Times == 0 .. MaxTime + Day
Texts == 1 .. MaxText

VARIABLES
  row,      \* row[m]: state, scheduled_at, repeat and text of the message
  lock,     \* lock[m]: the server whose transaction holds the row
  friends,  \* whether the two are friends
  checked,  \* the message of the request that has passed assertFriend (bound:
            \* the user has one request under way)
  srv,      \* srv[s]: the run of the server
  clock,
  crashes,
  sends,    \* history: sends[m][t], how often a server committed to push the
            \* occurrence of time t since the user last changed the message
  late      \* history: late[s], how often s pushed after the friend was removed

user == <<friends, checked>>
vars == <<row, lock, user, srv, clock, crashes, sends, late>>

Rows == [state: {"unused", "waiting", "sent", "deleted"}, at: Times,
         daily: BOOLEAN, text: Texts]

\* now: the time the run started; todo: identifiers still to be taken.
Runs == [pc: {"idle", "loop", "locked", "push"}, now: 0 .. MaxTime,
         todo: SUBSET Messages, m: Messages, text: Texts, daily: BOOLEAN]

Idle == [pc |-> "idle", now |-> 0, todo |-> {}, m |-> CHOOSE m \in Messages : TRUE,
         text |-> 1, daily |-> FALSE]

Blank(state) == [state |-> state, at |-> 0, daily |-> FALSE, text |-> 1]

Init ==
  /\ row = [m \in Messages |-> Blank("unused")]
  /\ lock = [m \in Messages |-> NoServer]
  /\ friends = TRUE
  /\ checked = {}
  /\ srv = [s \in Servers |-> Idle]
  /\ clock = 0
  /\ crashes = 0
  /\ sends = [m \in Messages |-> [t \in Times |-> 0]]
  /\ late = [s \in Servers |-> 0]

----------------------------------------------------------------------------

\* Mutation: a day that is exactly over is not counted.
NextOnTheHour(at, daily, now) ==
  IF ~daily \/ at > now THEN at ELSE at + ((now - at + Day - 1) \div Day) * Day

\* Mutation: a day too many.
NextAfterNext(at, daily, now) ==
  IF ~daily \/ at > now THEN at ELSE at + ((now - at) \div Day + 2) * Day

\* A daily message whose time has come moves to the first later day.
nextOccurrence(at, daily, now) ==
  IF ~daily \/ at > now THEN at ELSE at + ((now - at) \div Day + 1) * Day

----------------------------------------------------------------------------
(* The user.                                                               *)

\* assertFriend of create and update; the statement that follows is not in the
\* same transaction.
AssertFriend(m) ==
  /\ friends
  /\ checked = {}
  /\ row[m].state \in (IF Edits THEN {"unused", "waiting"} ELSE {"unused"})
  /\ checked' = checked \cup {m}
  /\ UNCHANGED <<row, lock, friends, srv, clock, crashes, sends, late>>

\* The insert of create.
Create(m, at, daily) ==
  /\ m \in checked
  /\ row[m].state = "unused"
  /\ row' = [row EXCEPT ![m] = [state |-> "waiting", at |-> nextOccurrence(at, daily, clock),
                                daily |-> daily, text |-> 1]]
  /\ checked' = checked \ {m}
  /\ UNCHANGED <<lock, friends, srv, clock, crashes, sends, late>>

\* Mutation: the update does not ask whether the message was sent.
EditableOnceSent(m) == row[m].state \in {"waiting", "sent"}

\* sent_at is null: what was sent is not changed any more.
Editable(m) == row[m].state = "waiting"

\* The update of update: it waits for the row's lock, and finds no row when
\* the message has been sent or deleted meanwhile (404).
Update(m, at, daily) ==
  /\ m \in checked
  /\ row[m].state # "unused"
  /\ lock[m] = NoServer
  /\ IF Editable(m)
     THEN /\ row[m].text < MaxText
          /\ row' = [row EXCEPT ![m].at = nextOccurrence(at, daily, clock),
                                ![m].daily = daily, ![m].text = @ + 1]
          /\ sends' = [sends EXCEPT ![m] = [t \in Times |-> 0]]
     ELSE UNCHANGED <<row, sends>>
  /\ checked' = checked \ {m}
  /\ UNCHANGED <<lock, friends, srv, clock, crashes, late>>

\* remove.
Remove(m) ==
  /\ row[m].state \in {"waiting", "sent"}
  /\ lock[m] = NoServer
  /\ row' = [row EXCEPT ![m] = Blank("deleted")]
  /\ sends' = [sends EXCEPT ![m] = [t \in Times |-> 0]]
  /\ UNCHANGED <<lock, user, srv, clock, crashes, late>>

\* Removing the friend deletes the messages not sent yet (friends.module).
RemoveFriend ==
  /\ friends
  /\ \A m \in Messages : row[m].state = "waiting" => lock[m] = NoServer
  /\ friends' = FALSE
  /\ row' = [m \in Messages |->
               IF row[m].state = "waiting" THEN Blank("deleted") ELSE row[m]]
  /\ sends' = [m \in Messages |->
                 IF row[m].state = "waiting" THEN [t \in Times |-> 0] ELSE sends[m]]
  /\ UNCHANGED <<lock, checked, srv, clock, crashes, late>>

----------------------------------------------------------------------------
(* The servers.                                                            *)

Due == {m \in Messages : row[m].state = "waiting" /\ row[m].at <= clock}

\* A run starts, unless the one before is still running: dueIds, earliest
\* first, at most a batch.
StartRun(s) ==
  /\ srv[s].pc = "idle"
  /\ \E todo \in SUBSET Due :
       /\ todo # {}
       /\ todo = Due \/ Cardinality(todo) = Batch
       /\ Cardinality(todo) <= Batch
       /\ \A m \in todo, n \in Due \ todo : row[m].at <= row[n].at
       /\ srv' = [srv EXCEPT ![s] = [Idle EXCEPT !.pc = "loop", !.now = clock, !.todo = todo]]
  /\ UNCHANGED <<row, lock, user, clock, crashes, sends, late>>

\* The run is through its list.
EndRun(s) ==
  /\ srv[s].pc = "loop"
  /\ srv[s].todo = {}
  /\ srv' = [srv EXCEPT ![s] = Idle]
  /\ UNCHANGED <<row, lock, user, clock, crashes, sends, late>>

\* Mutation: the locked query does not ask again whether the message was sent.
TakeableOnceSent(m) == row[m].state \in {"waiting", "sent"} /\ lock[m] = NoServer

\* The row is there, not sent, and no other server has it (SKIP LOCKED).
Takeable(m) == row[m].state = "waiting" /\ lock[m] = NoServer

\* The transaction locks the row, or finds none and goes on to the next.
Take(s, m) ==
  /\ srv[s].pc = "loop"
  /\ m \in srv[s].todo
  /\ \/ /\ Takeable(m)
        /\ lock' = [lock EXCEPT ![m] = s]
        /\ srv' = [srv EXCEPT ![s].pc = "locked", ![s].m = m, ![s].todo = @ \ {m},
                              ![s].text = row[m].text, ![s].daily = row[m].daily]
     \/ /\ ~Takeable(m)
        /\ srv' = [srv EXCEPT ![s].todo = @ \ {m}]
        /\ UNCHANGED lock
  /\ UNCHANGED <<row, user, clock, crashes, sends, late>>

NextInList(s) ==
  srv' = [srv EXCEPT ![s] = [Idle EXCEPT !.pc = "loop", !.now = srv[s].now, !.todo = srv[s].todo]]

IsTooLate(s) == srv[s].now > row[srv[s].m].at + TooLate

\* Mutation: who is no friend any more is told all the same.
WorthSendingToAnyone(s) == ~IsTooLate(s)

\* The message goes out: it is not too late and they are still friends.
WorthSending(s) == ~IsTooLate(s) /\ friends

\* Mutation: the row of a skipped message stays as it is.
MarkIfSent(s) ==
  LET m == srv[s].m IN
  IF ~WorthSending(s) THEN row[m]
  ELSE IF row[m].daily
  THEN [row[m] EXCEPT !.at = nextOccurrence(row[m].at, TRUE, srv[s].now)]
  ELSE [row[m] EXCEPT !.state = "sent"]

\* What becomes of the row whether the message goes out or not: a daily one
\* moves to its next day while they are friends, any other is done with.
Mark(s) ==
  LET m == srv[s].m IN
  IF row[m].daily /\ friends
  THEN [row[m] EXCEPT !.at = nextOccurrence(row[m].at, TRUE, srv[s].now)]
  ELSE [row[m] EXCEPT !.state = "sent"]

\* The rest of the transaction and its commit.
Settle(s) ==
  LET m == srv[s].m IN
  /\ srv[s].pc = "locked"
  /\ row' = [row EXCEPT ![m] = Mark(s)]
  /\ lock' = [lock EXCEPT ![m] = NoServer]
  /\ IF WorthSending(s)
     THEN /\ srv' = [srv EXCEPT ![s].pc = "push"]
          /\ sends' = [sends EXCEPT ![m][row[m].at] = @ + 1]
     ELSE /\ NextInList(s)
          /\ UNCHANGED sends
  /\ UNCHANGED <<user, clock, crashes, late>>

\* The push; a failure is only logged.
Push(s) ==
  /\ srv[s].pc = "push"
  /\ NextInList(s)
  /\ late' = IF friends THEN late ELSE [late EXCEPT ![s] = @ + 1]
  /\ UNCHANGED <<row, lock, user, clock, crashes, sends>>

\* The server dies: an open transaction is rolled back, a push is lost.
Crash(s) ==
  /\ srv[s].pc # "idle"
  /\ crashes < MaxCrashes
  /\ crashes' = crashes + 1
  /\ srv' = [srv EXCEPT ![s] = Idle]
  /\ lock' = [m \in Messages |-> IF lock[m] = s THEN NoServer ELSE lock[m]]
  /\ UNCHANGED <<row, user, clock, sends, late>>

Tick ==
  /\ clock < MaxTime
  /\ clock' = clock + 1
  /\ UNCHANGED <<row, lock, user, srv, crashes, sends, late>>

----------------------------------------------------------------------------

UserNext ==
  \/ \E m \in Messages :
       \/ AssertFriend(m) \/ Remove(m)
       \/ \E at \in Whens, daily \in BOOLEAN : Create(m, at, daily) \/ Update(m, at, daily)
  \/ RemoveFriend

Step(s) == StartRun(s) \/ EndRun(s) \/ (\E m \in Messages : Take(s, m)) \/ Settle(s) \/ Push(s)

Next == UserNext \/ (\E s \in Servers : Step(s) \/ Crash(s)) \/ Tick

Spec == Init /\ [][Next]_vars

\* The interval timer of a server goes off for ever, and a run goes on.
FairSpec == Spec /\ \A s \in Servers : WF_vars(Step(s))

----------------------------------------------------------------------------
(* Properties.                                                             *)

\* Types of the variables; a row is locked exactly while some server is in its
\* transaction.
TypeOK ==
  /\ row \in [Messages -> Rows]
  /\ lock \in [Messages -> Servers \cup {NoServer}]
  /\ friends \in BOOLEAN
  /\ checked \subseteq Messages
  /\ srv \in [Servers -> Runs]
  /\ clock \in 0 .. MaxTime
  /\ crashes \in 0 .. MaxCrashes
  /\ sends \in [Messages -> [Times -> Nat]]
  /\ late \in [Servers -> Nat]
  /\ \A m \in Messages, s \in Servers :
       lock[m] = s <=> (srv[s].pc = "locked" /\ srv[s].m = m)

\* A message to be sent once goes out at most once, whatever servers run side
\* by side, die and start again.
OneShotOnce == \A m \in Messages : ~row[m].daily => \A t \in Times : sends[m][t] <= 1

\* What a server is about to push of a message sent once is what the list of
\* the sender shows as sent, unless it was deleted since.
SentAsListed ==
  \A s \in Servers :
    (srv[s].pc = "push" /\ ~srv[s].daily /\ row[srv[s].m].state # "deleted") =>
      row[srv[s].m].state = "sent" /\ row[srv[s].m].text = srv[s].text

\* Once the friend is removed a server pushes no more than the one message it
\* had committed before: what was on its list, what is daily, and what a request
\* that passed assertFriend earlier inserts afterwards goes out to nobody.
LateByOne == \A s \in Servers : late[s] <= 1

\* A settled daily message waits for the same hour of a later day, and for no
\* later day than the next one.
DailyMovesOn ==
  [][\A s \in Servers :
       LET m == srv[s].m  now == srv[s].now IN
       (Settle(s) /\ row'[m].state = "waiting" /\ row[m].at <= now) =>
         /\ row'[m].at % Day = row[m].at % Day
         /\ row'[m].at > now
         /\ row'[m].at <= now + Day]_vars

\* A message that is due is dealt with: sent, skipped, moved or deleted.
DueIsHandled ==
  \A m \in Messages : m \in Due ~> m \notin Due

\* An occurrence of a message goes out once, daily messages included: the
\* header of the sender says of several servers that it goes only once.
OncePerOccurrence == \A m \in Messages, t \in Times : sends[m][t] <= 1
============================================================================
