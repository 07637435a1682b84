# A formal model of Ramupin

Ramupin is an app for sharing positions and for calling for help: `src/ramupin` is the
React Native app, `src/ramupin-server` the NestJS server over two PostgreSQL databases
(main and location) and Redis. Several copies of the server run side by side. This
directory holds TLA+ models of the parts where steps of several actors meet, the TLC runs
that check them, and proofs of their central properties.

Everything is written from the code; documents and comments are quoted only where a run
shows that the code does not do what they say. `PROJECT.json` gives, for every definition
that models code, the lines it stands for.

## 1. Inventory

### The parts, their state and how they meet

| Part | State | Operations | What makes it correct |
|---|---|---|---|
| One-device sessions (`auth/session.service`, `auth.guard`) | `member.sessions`, Redis key of the active session | login, logout, "it was not me", guard | one active session; the guard agrees with the rows; what was ended stays ended |
| Refresh tokens (`session.service` and the app's `features/auth/session`) | current and previous hash of the row, token in secure storage, one shared promise | refresh, retry, logout, restart | the app's token is one the server knows, however refreshes are cut short; no old token comes back |
| Location pipeline (`uploader`, `location.module`, `location.queue`, `location.worker`, `location.service`) | outbox in SQLite, Redis key and stream, `location_points`, `user_status` | measure, upload, queue, take, reclaim, save, acknowledge | no position lost by accident; nothing newer overwritten by older |
| SOS (`app/(app)/sos.tsx`, `sos.service`) | references and timers of the screen, `sos_events`, `sos_deliveries` | press, record, send, cancel, attach, "I am safe" | an alarm goes somewhere, comes first, and a cancel is a cancel |
| SOS text messages (`sos-sms.service`) | a row for each contact | start with the SOS, send again | the result screen is not more cheerful than the truth |
| Scheduled messages (`scheduled`) | `scheduled_messages` and its row locks | create, change, remove, runs of the sender | once each; they end with the friendship; daily ones move on |
| Friends, requests, blocks (`friends`) | `friend_requests`, `friendships`, share settings, `blocks`, QR tokens in Redis | send, accept, reject, cancel, block, report, remove | friendship is mutual; one answer to a request; no friendship across a block |
| Groups (`groups`) | groups, members and roles, direct rooms, invitation links | create, invite, join, leave, kick, set roles, transfer, remove | exactly one owner; limits |
| Chat (`chat`, the app's `features/chat`, `db/messages`) | messages, read marks; on the phone SQLite and the list on the screen | send, answer, socket, fetch, forget | each message once on the screen, whichever way it came first |
| Live gateway (`chat.gateway`, `watch.registry`) | socket rooms, Redis sets of watchers with a time to live, a cache in each server | watch, unwatch, heartbeat, disconnect | watch mode is on exactly while somebody watches |
| Safe zones (`safe-zones`) | inside, pending kind and time of each row; events | judge and settle a crossing on each position | nobody told of somebody passing by; each crossing told once |
| Anomaly detection (`anomaly`) | `anomaly_events`, one open per track and stage | periodic sweeps of every server, which may overlap | one notice of an event by each sweep; who is silent does not drop off the list |
| Danger zones, speeding | cool-downs in memory | judge each fix | no repeated notices |
| Sign-up (`sign-up.service`) | one form in Redis, written back as a whole | send and check codes, complete | an account has a proven phone of its own |
| Guardian consent (`guardian.service`) | the consent and the account that waits for it | consent, resend, hourly deletion | what the guardian was told stays so |
| Device verification (`device-verification.service`) | challenges and a counter in Redis | send a code, check it | one challenge logs in once; the day's limit |
| Media and storage (`media`, `storage`) | rows of files, the store, posts | address, upload, post, remove, clear away | what is shown stays |
| Journey (`journey`) | none: a function of the fixes of a day | clusters, ways, merges | the day is told in order, one place as one stay |
| Users, feed, social logins, places, weather, hospitals, push, privacy, retention, administration | rows of their own | reads, single-row updates, external services | little of their own to get wrong concurrently |
| Billing (`billing.module`) | one row for each purchase, the plan of the account | verify, ask the store again, apply the plan | who pays has the plan (not modelled, see section 6) |
| Location task of the app (`backgroundTask`, `adaptive`) | the rate the system measures at, the switch in storage, serial queue | switch on and off, take up again, adapt | on until it is switched off, and not after |

How they interact. The *guard* stands before every handler and reads what *sessions* wrote.
The *app session* reacts to its refusals with a refresh or by ending the session, which
empties the *outbox*. A login deletes push tokens. The *upload handler* and the
*location worker* run on every server and share a Redis stream; after a save the worker
calls *safe zones* and *speeding*; *anomaly detection* reads the status the worker writes.
*SOS* reads friends and groups at the moment of sending, and tells the recipients through
the *gateway* and *push*. Removing a *friend* deletes *scheduled messages* and share
settings; blocking removes the friend. Deleting an account cascades through all of them.

### What is hard here

* *Commit, then cache*: the rows and the Redis key are written in two steps by several servers.
* *Read, then lock*: lists read outside the transaction that acts on them (sender, groups, friends).
* *Answers that do not come*: every request times out after 15 s while its handler goes on.
* *Asynchronous functions over shared references*: the SOS screen has four of them and two timers.
* *At-least-once delivery*: outbox, stream and reclaim repeat what may already have happened.
* *Crashes between two writes*, with no log of intentions to recover from.

`PROJECT.json` lists these hazards one by one, at their lines, each with the properties
that watch it or a note on what is missing.

## 2. Plan

Order of importance: a session decides whether the app works at all; a position that
vanishes and an SOS that does not arrive are what the product must not do; then what other
people receive in the user's name; then relations between users; then the ways into an
account; then what friends are told and shown.

| # | Modules | Runs | Proved |
|---|---|---|---|
| 1 | `Session`, `SessionProofs` | `session`, `session_stale` | types, one active session, the cache, ended sessions, "it was not me" |
| 2 | `Refresh`, `RefreshProofs` | `server`, `refresh_overlap` | types, token known, no silent logout, old tokens gone |
| 3 | `LocationPipeline`, `FixRegister`, `LocationProofs` | `location` | types, nothing vanishes, the newest is shown, the pipeline implements the register |
| 4 | `Sos`, `Alarm`, `SosProofs` | `sos`, `sos_cancel` | types, alarm first, sent is heard, cancel is final and heard, no late news, safe means closed, the screen and the service implement the alarm |
| 5 | `Scheduled`, `ScheduledProofs` | `scheduled`, `scheduled_twice` | types, one-shot once, list, ends with the friendship, daily goes on |
| 6 | `Friends` (requests, friendships, blocks, row locks), `Friendship`, `FriendsProofs` | `friends`, `friends_blocked` | types, mutual friendship, one answer, consent, the calls implement the friendship |
| 7 | `SignUp`, `Guardian`, `DeviceCheck`, `AccountProofs` | `server` | proven phones, consent kept, let in once |
| 8 | `SosSms`, `Gallery`, `Zones`, `ServerProofs` | `server`, `gallery_recording` | the SOS screen, photos stay, crossings told once |
| 9 | `Anomaly`, `Watch`, `Tracking` (also in `ServerProofs`) | `server` | told once and listed, the phone follows, collected as told |
| 10 | `Groups` (also in `ServerProofs`) | `server` | one owner, limit of members |
| 11 | `Chat`, `Journey`, both over `Lists` (also in `ServerProofs`) | `server` | shown once, every day told |

Three abstract specifications say what a component promises, without how. Each is
implemented under a mapping: a run checks this on an instance, a theorem proves it.

| Specification | What it says | Implemented by | Mapping |
|---|---|---|---|
| `FixRegister` | of every fix whether it is unmeasured, on the phone, with the server, saved or given up | `LocationPipeline` (`location`, `ImplementsRegister`) | forgets where on its way a fix is (`Place`) |
| `Alarm` | an SOS is raised once, told once, ends once, in one way and only if somebody knows of it, and its end is told to those who were alarmed | `Sos` (`sos`, `ImplementsAlarm`) | keeps the status of the rows and what each friend heard last (`Heard`) |
| `Friendship` | a request, an acceptance with the request that crossed it, a refusal, a cancellation, a removal: each as a whole or not at all | `Friends` (`friends`, `ImplementsFriendship`) | keeps the committed tables of requests and friends |

## 3. Modules

Each component module declares its constants with a named assumption, one action for each
step between two points where other actors may act (a statement or transaction of a
database, a command of Redis, an `await`), `Next`, `Spec`, `FairSpec` and the properties.
The `MC…` modules only extend them, so that configurations can give the constants values;
`MCServer` puts thirteen modules side by side. To be extended together these carry their
name in those of their constants and actions (`GroupCalls`, `ZoneNext`, `SosSmsSpec`).
Definitions preceded by *Mutation:* are deliberately wrong variants of the definition that
follows them; `PROJECT.json` says which property each one breaks. They are used by nothing.

### Session

One user; every key of the code carries the user, and nothing relates two of them.
A handler is a record `req[r]` with what it read and where it is.

| Code | Model |
|---|---|
| `createSession`: transaction under the lock of the user row | `LoginTx` |
| `cacheActive`: SET, its failure and the DEL that follows | `CacheSet`, `CacheSetFails`, `CacheDel` |
| `assertActive`: hit; miss, database, SET NX | `GuardHit`; `GuardMiss`, `GuardFill` |
| `revoke` by logout | `LogoutTx` |
| `notMe`: revoke mine, restore the last replaced one on another device | `NotMeTx`, `Restorable`, `LastReplaced` |
| `ACTIVE_CACHE_SEC`, `expires_at`, the window of 30 minutes | `CacheExpires`, `SessionExpires`, `WindowPasses` |
| a server dies before the cache write | `Crash` |

Timestamps are reduced to what the code compares: the order of replacements and whether the
window is over. `known` holds the sessions whose tokens an app has. `fresh` (in a handler
and in the key) is a history variable: the value was computed from the latest transaction.
Left out: push tokens deleted with the old device, and the push to it.

### Refresh

One session. `row` is its row, `calls` are requests on their way, and `stored`, `access`,
`waiting`, `closed` are the app: secure storage, memory, the shared promise, the reason of
an `endSession`. `ReadSession` is the query of `refresh()` with all its refusals,
`ReplaceToken` the guarded update, `RevokeReused` the answer to a reused token. The access
token is not looked at by the server here, so it is only "none", "ok" or "stale". Tokens are
numbered in the order they are issued and never repeat (hashes of 256 random bits).

A request the app has given up (`TimesOut`, `Killed`) stays where it is: on its way, or in
the hands of its handler, which reads and updates the row as if somebody waited. Only its
answer goes nowhere (`Answer`). `overtaken` is a history variable: such an update took effect
behind a later refresh, one whose row the server had read or whose answer had arrived by
then (`LeftBehind`, with the mark `passed`). The app's handling of a login while a refresh
of the session before is in flight is not modelled.

### LocationPipeline

Fixes of one user, numbered in the order measured, which is also their order in the outbox.

| Code | Model |
|---|---|
| `enqueueLocation` with eviction at `MAX_QUEUE` | `Measure`, `Kept` |
| `flushLocationOutbox` | `Upload`, `Answered`, `GiveUp` |
| `endSession` empties the outbox | `EndSession` |
| `upload`: schema, time check, refusal, then `updateCurrent`, then `enqueue` | `Accept`, `TakeIn`, `SetCurrent`, `Enqueue`, `HandlerFails` |
| XADD with MAXLEN | `Trimmed` |
| `loop`: reclaim or take, save each, acknowledge the saved ones | `Reclaim`, `TakeNew`, `Save`, `WriteStatus`, `SaveFails`, `Ack`, `WorkerDies` |

`letGo` records what some step gave up on purpose, `raced` that a read-compare-write was
overtaken by another one; both are history variables. The checks the worker calls after a
save never throw (they catch everything), so they are not steps here; `Zones` has them.
`Place` maps the state to that of `FixRegister`.

### Sos

The screen and the service together. `phase`, `timer`, `mic`, `promise`, `sosId`, `banner`
are the state and the references of the screen. `finishing`, `cancelling` and `resolving`
say where the functions of that name are awaiting. Send `n` creates event `n`; `closing`
and `audio` are the requests about it. `Choose`, `InsertEvent`, `InsertDeliveries`,
`Notify` and `Answer` are the steps of `send`; between any two of them the app may give
up, the server die, a recipient delete the account.

Abstractions: the ten seconds of a timer are one step; the slide takes effect at once (its
animation of 80 ms is not modelled); a recording is either attached or not; text messages
have no effect on the rest. `EarlyCancel` says whether the user may cancel while the
microphone is being prepared; with it one press only is allowed, since the timer of the
first press could then meet the second and the model does not tell them apart. The text
messages go out behind the answer and are a module of their own, `SosSms`. `Leave` is the
screen left while nothing is awaited; left in the middle of an `await`, its functions go on
over the same references as if it were there. A recorder that throws when it is stopped is
not modelled. `Notify` and `TellEnd` count a push that fails as told: the event on the socket
goes out as well, and the code does not look at either.
`Received` maps the state to that of `Alarm`: everything of the screen is forgotten.

### Scheduled

Messages of one user to one friend. `lock` is the row lock, held from `Take` (FOR UPDATE
SKIP LOCKED) to `Settle` (commit). `StartRun` is the query of the due identifiers, `Push` the
push after the commit. `checked` is the request of the user between `assertFriend` and
the statement that follows. `late` counts what a server has pushed since the friend was
removed (history). Time is counted in units with `Day` of them in a day; the
conversion from a recipient's local time happens before `nextOccurrence` and is not modelled.

### Friends

Two users; every row these calls touch names the two, and the limit of requests a day is the
only thing that counts over several people. A call is a record `call[c]` with the statement
it is at and what that statement has found and not come to yet.

| Code | Model |
|---|---|
| `send`: blocks, friendship, a request of the other one, insert under the unique index | `Send`, `SendFriends`, `SendReverse`, `SendInsert` |
| `accept`, `reject`, `cancel`: `lockPending` and the update | `Answer`, `LockPending` |
| `accept`: the crossing request, the two friendship rows, the share settings | `Crossing`, `InsertRow` (twice), `Shares` |
| `remove`: the delete row by row, its cascade, 404 when nothing was there | `Remove`, `StartDelete`, `DeleteRow`, `EndDelete` |
| `block`: the note, `remove` with every failure swallowed, the closing update; `unblock` | `Block`, `NextStatement`, `StartClose`, `CloseRow`; `Unblock` |
| the ends of a transaction; a database that breaks a deadlock; a failing statement or server | `Commit`, `Rollback`; `Deadlock`; `Fail` |

A transaction's changes are not kept apart from its locks: a locked friendship or share row
is one that will come or go, a locked request one that will be answered, and `Commit` applies
this. The database runs in its default mode, READ COMMITTED: a statement sees what is
committed when it starts, waits for a row somebody else has changed, and then looks at that
row again, so a row deleted meanwhile drops out of it (`gone` in `Commit`). In which order
a delete meets its rows is not laid down, so the model takes any. `Agreement` maps the state
to that of `Friendship`, by forgetting calls and locks. An acceptance that found the two
friends already inserts nothing, and a removal may be committed before it: then a request is
accepted and the two are no friends, which `Friendship` says openly. The statements `remove`
runs on other tables are not modelled; `Scheduled` has the one that matters to it.

### Groups

One group or direct room. What a call may do is read before its transaction, as in the code,
and so is the number of members; `job[c]` keeps what it read and which statement is next.
The row of the group is locked for `owner_id`, its deletion, and `updated_at`, which every
transaction on the members writes before its commit (`GroupFree`).

| Code | Model |
|---|---|
| `create`, direct rooms too | `Create` |
| `invite`; `joinByInvite` | `Invite`; `Accept`; both then `Count`, `Insert` |
| `leave`; `kick` | `Leave`, `Kick`, then `DeleteMember`, `HandOver` to the `Heir`, `Message`, or `Erase` when nobody is left |
| `transferOwner`; `setRole` | `ForOwner`, then `Target`, `Self`; `SetRole` |
| `updateSettings`; `remove` | `Settings`; `Erase` |
| links: create, revoke, use again, expire | `Link`, `Revoke`, `Reuse`, `Expire` |
| the end of a transaction; a failing statement or server | `GroupCommit`; `GroupFail` |

Two departures or changes of owner at a time can leave a group with no owner or with two,
because the owner is asked for outside the transaction; `overlap` notes that this has
happened, and `GroupHolds` speaks of all other interleavings. Two members who leave a direct
room at the same time leave it empty and there, although `groups.service.ts:197` says that
it goes with the last one. The rooms of the sockets are joined and left after the commit, in
any order; they are not modelled.

### Zones

One person, the row of a place of theirs and the row of somebody who watches it. Positions
are classes: in the radius, between the radius and the margin, outside, too inexact to say.
`judge[w]` is a worker that judges one row after the other; `Judge` starts one for any
position measured, so that a batch may be delivered again, late, or on two servers at once.
`Crossing` is `judgeCrossing`, `Settle` is `settleCrossing`, `Same` the condition of the
update. `judged` and `orderly` are history: for which positions a row was judged while this
happened in turn. Left out: the geometry itself, changes of the place of a zone, its switch,
the hours in which notices are wanted. Facts the model shows and no property calls wrong: an inexact position
takes back a crossing that waits; the update does not compare `pending_since`; a crash
between the update and `recordEvent` loses the crossing.

### Anomaly

One user and the sweeps under way at one time: of several servers, or of one server whose
timer goes off before its last sweep is through, since `setInterval(() => void this.run())`
(`anomaly.module.ts:28`) waits for nothing. `Detect` is `detect` with its three rules,
`Fetched` the query that preselects, `status` what the worker wrote of the phone, by classes
of age and battery. A sweep reads the open events, fetches, opens (`Opened`, the insert with
its unique index), tells, and clears. Time passes, positions arrive and the user comes and
goes between any two of these steps; `sees` (history) says that what a sweep goes by is
still so: no half hour has passed since it began, and no sweep has cleared that did not see.
Two sweeps may both notify, as the comment in `anomaly.module.ts:26` admits; a crash after
the insert tells nobody. A sweep that fetched in one half hour and clears in the next may
clear the only event of a lost signal: the list is empty until the next sweep.

### Watch

The friends' sockets on several servers, the registry in Redis with its time to live, the
note each server keeps of what it said last, and the phone, which leaves the mode without a
signal. A socket has one `watch` and one `stop` handler under way at most. Redis carries out
the commands of one server in order, so a command is a step at the moment it is given. A
handler ends within one heartbeat, and `Minute` lets time pass only then. An `unwatch`
handled while a `watch` awaits its friends leaves the socket watching until it closes
(`chat.gateway.ts:112-133`), and a note that is out of date holds back an "on" until the
next heartbeat; `PhoneFollows` therefore allows three heartbeats.

### Chat

One room on one phone: `screen` is the list in the query cache, `store` the rows in SQLite,
`table` the server's. `Send`, `Succeed`, `Fail` are the app's mutation; `Hear` is the socket;
`Ask`, `List`, `ListArrives`, `ListFails` are the query with its merge; `Forget` is
`forgetRoom`. One page; messages are numbered by time. A retry after a lost answer stores the
message twice on the server: two messages, each shown once. A list under way drops failed
messages and those the socket brought meanwhile from the screen (`queries.ts:47-57`).
`Merged` sorts with `InOrder` of `Lists`, which holds the two operators that `Chat` and
`Journey` have in common: the members of a set in order, and the members of a list picked
out in their order.

### Journey

`buildJourney` as operators on a sequence of fixes on a line: `Clusters`, `Joined`, `Route`
(with `MergeStay`), `Stops`, `Told`. Each loop of the code is a recursive function of the
number of rounds, so that it can be proved about. The state is only the day so far, so a run
tries every day of six fixes. Fixes are sorted by the query, and no two of a person have one
time, since it is in the key of their rows (`Gaps` has no 0). `stay-detection.ts:141` looks for the last
segment by the length before the merge: after a merge the last stop is never shown as where
the user still is, against the comment in line 91. `Stops` has it as it is.

### SignUp, Guardian, DeviceCheck

Three ways into an account. In `SignUp` and `DeviceCheck` the state is one object in Redis
that each call reads as a whole, may wait for a text message, and writes back as a whole:
`signing[c].form` and `checking[c].read` are the copies a call holds, `CodeSent` and
`WithText` what it will write, `SaveForm` and `SaveChallenge` the write. `proven` are the
phones a code of which was entered, `logins` how often a challenge has let in. Two wrong
codes at once count as one attempt. `SignUp` leaves out nicknames, which are checked and
indexed like phones; `DeviceCheck` is one day.

`Guardian` is statement by statement over the row locks: `LockConsent`, `NoteConsent`,
`Activate`, `SettleConsent` of a consent against `DeleteChild`, `Cascade`, `CommitPurge` of
the hourly job, which takes the two rows in the other order, and `GuardianFails` for the
victim of the deadlock, a failure or a crash. One guardian who asked for the SOS link.

### SosSms

The rows and messages of one SOS. `StartForSos` inserts the rows within the limits,
`SendSms` is one round of the loop in `sendAll`, whose answer may be lost, `NoteOutcome` its
update, `UpdateFails` and `TextingDies` what can go wrong around it, `Resend` the check of the
status and `MarkSending` the update that follows. A crash in `sendAll` leaves rows at
'sending' that `resend` refuses; 'failed' may have been delivered, when the answer was lost;
two resends at once text twice. `lost` counts the first, and `ScreenIsRight` claims nothing
of the others.

### Gallery

The files of one user. `UploadTargets`, `RemoveStale`, `CheckDeclared`, `InsertTargets` are
`uploadTargets` with `dropStalePending`; `PutFile` is the app's upload; `CreatePost` to
`ShowPhotos` are `createPost` for several rooms; `SendPhoto`, `MarkPhoto`, `InsertMessage`
a photo in a chat, `AttachAudio`, `ReferRecording` a recording of an SOS, `RemovePost` the
removal. A call may end after any statement. All files are of one size; an address is
used once, since the app's retry starts over; the life of an address (10 minutes) and the
age at which a row is stale (1 hour) are one. A failure in `createPost` leaves a post without
photos, and a retry after a lost answer makes the post twice. Photos of chats are not
checked again against the quota. The deletion of all messages of a room
(`clearRoomMessages`) and of groups is left out.

### Tracking

The collection of positions while the app is not looked at. `os` is what the operating
system does, `wanted` what the app has stored of the user's wish, `applied` the rate the app
believes in. `run[r]` is how far each asynchronous function has come: the task that handles
positions, what the user last tapped, and a resumption.

| Code | Model |
|---|---|
| `startUpdates` and the note of the rate after it | `Check`, `StopOld`, `Start`; `Verified`, `NotRunning`, or `Refused` |
| `defineTask` and `taskQueue` | `Deliver`, `Handle`, `TaskFails` |
| `applyAdaptiveInterval` | `Adapt` |
| `startBackgroundTracking` | `TurnOn`, `AskedUser`, `Want` |
| `stopBackgroundTracking` | `TurnOff`, `SwitchOff`, `SwitchFails`, `Unwant` |
| `resumeBackgroundTrackingIfWanted` | `Resume`, `AskedResume`, `Permitted` |
| the app comes and goes; its process ends | `ToFront`, `ToBack`; `ProcessEnds` |

Three things the code does are kept as history, and the property claims nothing of them.
A switch-off while positions are handled, or wait, is followed by `applyAdaptiveInterval`,
which starts the collection again with 'off' stored (`raced`). Two functions that change the
collection at a time may leave a rate noted that is not the one measured at (`mixed`). In
front, a change of the rate stops before it starts: if the start is refused, or the app has
left the front by then, the collection is over until the app comes to the front again
(`ended`), although the comment in `backgroundTask.ts:355` says that what ran goes on. Left
out: permissions, how `decideState` finds the rate, sensors, the anchor of a stay.

## 4. Runs

| Run | Bounds | Distinct states |
|---|---|---|
| `session` | 3 sessions, 2 devices, 2 handlers, Redis may fail | 1,044,949 |
| `location` | 4 fixes (1 malformed, 1 of an impossible time), batch 2, outbox 2, 2 uploads, 3 entries, stream of 2, 2 workers, 1 fault | 293,140 |
| `sos` | 2 friends, 2 presses, 2 sends, 1 fault | 231,740 |
| `scheduled` | 2 messages, 2 servers, a day of 2, clock to 2, batch 1, 1 crash | 495,095 |
| `friends` | 2 calls at a time, 2 requests, failures of any number | 352,936 |
| `server` | one part at a time, see below | 5,486,847 |
| `session_stale`, `scheduled_twice`, `sos_cancel`, `friends_blocked`, `gallery_recording`, `refresh_overlap` | see their configurations | until the violation |

Why these bounds are enough to meet the interesting cases. *Sessions*: three are needed for
a restoration to have a choice and for a write to be overtaken twice; two handlers for any
of the races, which are all between two of them. *Refresh*: two calls are a refresh
the app gave up and its retry, in every order of their steps; four tokens allow two lost
answers in a row, the case that distinguishes keeping the previous token from moving it.
*Location*: the outbox of two evicts, a batch can be split over two uploads, the stream of
two trims, and the one fault hits any step. *SOS*: the second press meets what the first
left behind, two friends tell "some" from "all". *Scheduled*: a batch of one of two due
messages leaves one waiting; a crash can hit either side of the commit.
*Friends*: two calls are every race of two statements, and two requests cross each other or
follow one another; a search with three calls and no liveness (11.9 million states, too
long to keep as a run) found the same and no deadlock of more than two.

The run `server` checks thirteen parts that share no state. Its behaviours pick one part at
the start (`part`), and the others stay as they begin; the view `Moving` leaves out what
is at rest, so that states are those of the part alone. This is thirteen runs in one, not a
composition: nothing would be gained by interleaving parts that never meet.

| Part | Bounds | Distinct states (about) |
|---|---|---|
| groups | 4 people, room for 2, 1 invited at a time, 2 calls at a time, 4 in all | 413,000 |
| zones | 2 workers, 3 positions, dwell of 1 | 270,000 |
| anomaly | 2 sweeps at a time, 2 stages of a lost signal, 3 levels of the battery or none, 2 changes, 2 events each | 578,000 |
| watch | 2 sockets, 2 servers, time to live of 2 heartbeats, 2 looks, 1 fault | 1,460,000 |
| chat | 2 typed messages, 1 fetch at a time, 2 messages stored | 435,000 |
| journey | every day of 6 fixes on 3 spots, 2 lengths of time between, 1 rough | 190,000 |
| sign-up | 2 phones, 2 calls at a time, 4 in all, 2 texts, 1 attempt | 295,000 |
| guardian | 3 consents or deletions at a time, 1 resend | 600 |
| device check | 2 challenges, 2 calls at a time, 5 checks, 2 texts each and a day | 189,000 |
| text messages | 3 contacts, 2 within the limit, 2 calls, 3 resends, 1 loss | 9,000 |
| gallery | 2 photos, 1 recording, 2 rooms, 2 calls at a time, quota of 1 | 487,000 |
| tracking | 2 rates, 1 resumption at a time, 1 batch waiting | 249,000 |
| refresh | 2 calls, 4 tokens | 907,000 |

*Groups*: with four people two calls can both add one beyond the limit, and an owner, an
administrator, a member and somebody outside all exist; four calls are enough for a
transfer, a departure and two joins between them. *Zones*: three positions are one before,
one at and one after the dwell. *Anomaly*: two changes are a stage that is
crossed and a report, or two stages, and either may fall between any two steps of a sweep. *Watch*: two sockets on one server or on two are the two
ways a note can be stale. *Journey*: six fixes are two stays with a way between them that a
merge swallows, and one more at either end. *Device check*: two challenges share the day's
counter and each has a race of two calls. *Tracking*: the task, the user and one resumption
are the three kinds of functions that can meet, and one batch can wait while another is
handled. The remaining bounds are the smallest at which two calls can meet on the limit in
question.

No symmetry is used: the runs are small enough, and most of them check liveness, where
symmetry would be unsound.

### What the properties say

*Session.* `OneActive`: never two unrevoked sessions, so the unique index never makes a
login fail. `CacheReportsLastTx`: a cached value is wrong only while it is older than the
rows. `EndedStaysEnded`, `UndoesTheLogin`: "it was not me" brings back exactly the session
the disowned login displaced, and never one somebody ended. `CacheHeals`: however writes are
lost or reordered, the key ends up right.

*Refresh.* `AppTokenKnown`: wherever a refresh is cut short, and though the server goes on
with it, the stored token is the current one or the one before. `NoSilentLogout`: the app
does not lose a live session to its own retries, and a session is ended for a reused token
only after a refresh without the installation id. Both exempt what follows a given-up
refresh that took effect behind a later one (`overtaken`): then they fail, which the run
`refresh_overlap` shows. `OldTokensStayOld`: whatever crosses, the token before is one the
row had just before the update, so none the server has let go is taken again, and a revoked
session gets no new token; this rests on the comparison in the update alone.

*LocationPipeline.* `NothingVanishes`: every measured fix is in the outbox, in the stream, in
the database, or was given up on purpose. `NewestWins`: late and repeated data never turns
the current position or the status back, unless two read-compare-writes overlap.
`FixSettles`: every fix comes to an end of its way, also behind one the server refuses.
`IsRegister`: the pipeline as a whole is the register of fixes.

*Sos.* `IsAlarm`: in which order people hear what, told by `Alarm` in four actions; that the
end never overtakes the alarm (`AlarmComesFirst`) follows. `SentReachesSomebody`,
`CancelIsFinal`, `CancelReaches`, `NoNewsAfterEnd`, `ResolveCloses`, `EndIsHeard`: what the
screen may say, and what a cancel means; `CancelReaches` includes that the recording of a cancelled SOS is not handed on.

*Scheduled.* `OneShotOnce`, `SentAsListed`, `DailyMovesOn`, `DueIsHandled`. `LateByOne`: the
sender looks at the friendship when it takes a message and pushes after the commit
(`scheduled-sender.service.ts:118-127`), so a friend removed in between still gets that
message; no server sends more than this one, neither from the rest of its list nor what a
request inserts that had asked for the friendship before.

*Friends.* `BothWays`: friendship is two rows and their share settings or nothing, as
`friends.module.ts` says of `remove`. `IsFriendship`: statement by statement, with locks,
deadlocks and failures, the calls do what `Friendship` does in one step each; so however many
calls saw a request pending, one answers it (`AnsweredOnce`). `FriendsByConsent`: only a
pending one makes friends, at the hand of who received it. `CallsEnd`:
every call ends, also after a deadlock.

*Server.* `GroupHolds`: groups have the one owner their calls assume, and the count outside
the transaction is off by no more than the other calls of the moment.
`RealCrossingsToldOnce`: a crossing is told by the one worker that took the row across, and
after a dwell in which nothing spoke against it. `ToldOnceAndListed`: no sweep tells of an
event that it, or the one before it in its place, has told of; and who is lost stays on the
list through every change of stage and every overlap of sweeps, except for a sweep that
clears by what it read before a half hour passed (or after one that did).
`PhoneFollows`: the phone measures often while somebody looks, and not for long when nobody
does. `ShownOnce`: four sources feed one list. `DayTold`: what four passes make of a day is
that day, with no two stays left that the rule would join. `AccountIsProven`, `ConsentKept`,
`OneLoginEach`: the ways into an account under concurrent calls. `ScreenIsRight`: what the
result screen of an SOS may claim. `ShownStays`: a photo that is shown stays in the store,
whoever clears away meanwhile. `CollectsAsTold`: positions are collected from the moment the
user is told so until they are told the opposite, whatever the task, a resumption and the
end of the process do in between.

### What the code does not do

Six runs are expected to violate their property; each is described under `findings`.

* `session_stale`: two logins, the delayed cache write of the first comes last. For up to an
  hour the device that logged in last is turned away and the replaced one is let in.
* `scheduled_twice`: a server with an older list of due messages takes a daily message that
  another server has sent and moved to tomorrow, and sends it again.
* `sos_cancel`: a cancel while the microphone is being prepared does not stop the recording
  function, which sends a new SOS after the screen said "cancelled".
* `friends_blocked`: the blocked user accepts a pending request between the removal and the
  closing of the requests; the block is answered, and the two are friends.
* `gallery_recording`: nothing ever sets `uploaded_at` of an SOS recording, so an hour later
  the next request for an address clears it away, from the SOS and from the store.
* `refresh_overlap`: the server goes on with a refresh the app gave up after 15 seconds; it
  wins against the retry, which is refused as unknown, and the app logs itself out of a
  session that lives on the same device.

### Fairness

* `Session`: Redis ends every time to live; a handler goes on (or dies, which also ends it).
* `LocationPipeline`: the app tries its outbox again and again (`flushIfDue` is called for
  every fix and by the timer of the background task); handlers and worker loops go on.
  No fairness for the user or for faults, which are bounded.
* `Sos`: intervals fire and promises resume; handlers go on. That a press comes to an end is
  not claimed: it needs the platform's position request to answer, and the code sets it no
  limit (`sos.tsx:141`, listed as a hazard).
* `Scheduled`: the interval of a server fires for ever and a run goes on.
* `Friends`: strong fairness of a call's steps, since whoever waits for a row stands in a
  queue of the database and cannot be passed over for ever. None for the users.
* `server`: none; its properties are invariants and action properties.

Deadlock is not checked where a bounded run really comes to its end: everything issued,
sent or settled (see the comment in each configuration).

## 5. Proofs

TLAPS proves the theorems below for all values of the constants that satisfy the named
assumptions; the runs check the same properties on the instances above.

| Module | Theorem | Invariant it rests on |
|---|---|---|
| `SessionProofs` | `TypeCorrect`, `OneActiveHolds`, `CacheIsRightWhenFresh`, `EndedForGood`, `NotMeUndoes` | `IInv` |
| `RefreshProofs` | `TypeCorrect`, `TokenStaysKnown`, `RetriesAreSafe`, `OldTokensGone` | `IInv` |
| `LocationProofs` | `TypeCorrect`, `NoFixVanishes`, `ImplementsRegister`; `NewestIsShown` | `IInv`; `CurrentFits`, `StatusFits` |
| `SosProofs` | `TypeCorrect`, `AlarmIsReliable`, `SentIsHeard`; `ImplementsAlarm` | `SafeInv`; `AlarmInv` |
| `SosProofs` | `CancelHolds`; `CancelIsHeard`, `NoLateNews`, `SafeMeansClosed` (all assuming no early cancel) | `CalmInv`; `EndInv` |
| `ScheduledProofs` | `TypeCorrect`, `OneShotsGoOnce`, `ListIsTrue`, `DailyGoesOn`; `EndsWithTheFriendship` | `IInv`; `LateInv` |
| `FriendsProofs` | `TypeCorrect`, `FriendshipIsMutual`, `AnsweredForGood`, `OnlyByConsent`; `ImplementsFriendship` | `RowsInv`, `LockedPending`, `Consent`; with `DeedInv` |
| `AccountProofs` | `PhonesAreProven`; `ConsentIsKept`; `LetInOnce` | `SignUpInv`; `GuardianInv`; `DeviceCheckInv` |
| `ServerProofs` | `ScreenHolds`; `PhotosStay`; `CrossingsToldOnce` | `SmsInv`; `GalleryInv`; `ZoneInv` |
| `ServerProofs` | `ToldOnceWhileListed`; `PhoneIsTold`; `CollectedAsTold` | `AnomalyInv`; `WatchInv`; `TrackingInv` |
| `ServerProofs` | `GroupIsKept` | `GroupInv` |
| `ServerProofs` | `MessagesShownOnce`; `EveryDayIsTold` | `ChatInv`; `JourneyInv`, with `MergedSoFar` of the loop |

*Session.* `CacheReportsLastTx` speaks of the key only, but the key is written by handlers
that read the rows earlier. `FreshIsRight` says the same of every value on its way. A
transaction that changes rows makes every other value old and its own right; a step that
leaves `status` alone leaves the answer of the database alone (`ActiveInDbStable`).
`UndoesTheLogin` needs the order of replacements: `Dated` says that no two replaced sessions
share a time, `DisplacedLast` that what the active login took the place of has the last one.

*Refresh.* `AppTokenKnown` breaks if the row moves on while the app, or a request it awaits,
goes by an older token. `OneToken` says that the requests sent since the last answer all
carry the token the app stores, however many were given up; so if one of these is handled
first, the row keeps their token as the one before, which the app and its next request still
hold. `AwaitedKnows` follows the awaited request: its token is known, what it has read is
still so, its answer is the current token. `InTurn` is all of this as long as nothing was
overtaken. `ReadBefore` holds always: what a handler has read is so, or the row has moved on
and its update fails, which gives `OldTokensStayOld`. `WithoutId` traces a reused token back
to the request that came without the installation id.

*LocationPipeline.* A fix is only ever let go by three hops, and each has its part of the
invariant: `Coverage` (what the app deletes is within the upload it awaits), `Answers` (what
was answered as received is in the stream or beyond), `Held` (what a worker acknowledges is
saved). `Handled` connects the first two: what the handler does not queue it has refused.
`ImplementsRegister` rests on the same invariant: every action moves the place of each fix
by a hop of the register or leaves it, and `NothingVanishes` is why none is "lost".
`NewestIsShown` is about two keys that are read, compared and written in steps of their own.
`CurrentFits` says that, until two uploads have overlapped there, what a handler has read is
what the key holds, and that nothing it goes on to queue is newer than the key, nor anything
in the stream. `StatusFits` says the same of the workers and of what they have saved, also
of an entry that another worker takes over.

*Sos.* `SafeSend` follows the handler: before the deliveries nobody was alarmed, an answer
implies the alarm, and only an answered send is ever closed, because the screen learns the
identifier from the answer. `ScreenFits` and `SendsFit` are what makes a cancel final: the
timer runs only in the phase it belongs to, the promise is the only send of this press
without a result, and whoever awaits a send awaits the promise. `EndInv` is about what comes
after: `EndSend` says of each event how far its recording and the requests that close it
are (nobody is told of a recording of an SOS that is over, and one that was cancelled is not
handed on), `EndWait` that, as long as nothing was lost, an SOS that went out is closed, or
some function still awaits the answer with which it will be, or the screen shows it as sent
or was left. For `ImplementsAlarm`, `EventFits` adds how far the row of a send is: nothing
ends before its answer, and a request that is about to tell of an end is the one that set
the status, the only one. Everything else the screen and its handlers do is a stutter of
`Alarm`.

*Scheduled.* `OneShotOnce` and `SentAsListed` are about a push that was committed, but a
server read what it pushes when it took the row. `LockedAsRead` says that the row in a
transaction is still what was read, because the user's statements wait for the lock;
`UnsentWaits` that nothing of a one-time message went out before it is marked, so the mark
counts to one; `BlankRows` that a deleted row is no daily one. That `nextOccurrence` gives a
time later than now and at most a day later is proved on the way (`NextIsSoon`), and that it
keeps the hour by the uniqueness of quotient and remainder (`SameHour`).
`LateInv` says that a server has pushed late only what it had committed while the two were
friends: afterwards what it takes is settled without a push.

*Friends.* `BothWays` is about committed rows, but a commit turns over whatever its call has
locked. `Holding` says what that is at each step: an accept holds rows that are not there
yet (`InsertsNew`), a removal has found and locked both rows or none (`DeletesBoth`), and at
the end a call holds both rows with their settings or none (`CommitsBoth`). That an accept
meeting one row and missing the other is impossible follows from `BothWays` itself.
`LockedPending` makes whoever locked a request the only one to answer it; `Consent` carries
from the lock to the commit whose request it was, and that a call which does not accept
holds only rows that are there. `ImplementsFriendship` needs to know what a commit does as a
whole, so `Deed` says of every call which requests it has locked (`AnswersOwn`: its own and
the one that crossed it, or those a block closes) and that at its commit only an acceptance
brings rows and only a removal takes some (`BringsOrTakes`). Every other step is a stutter.

*Accounts.* `HonestForms` says that a phone noted as verified in the form was proven,
`HonestCalls` the same of every copy a call still holds, which is what makes writing back an
old form harmless. For the consent, `LocksExclude` says that a row has one holder,
`HoldersKnow` what the holder of a row knows of it, `RowsAgree` how the rows of the consent
and the account go together between transactions. For the device, `OnceIn` says that a
challenge that has let somebody in is gone and is not put back, and `WithinDay` that the
texts sent and those counted (`Counted`) are within the limit.

*SOS text messages.* `SmsInv` says of each row in the hands of a call what has become of its
message; that the message to be sent next is one of these rows is the well-foundedness of the
naturals (`AtIsRow`).

*Gallery.* `ShownInStore` is the claim about states. It needs `Exclusive` (an address is in
the hands of one call) and `KnowsOf`, what a call may rely on although it looked earlier:
what it found in the store is still there unless its row was deleted, and only rows that are
left are marked and shown.

*Zones.* `InTurn` says that, as long as positions are judged one after the other, one worker
judges, nothing later was judged, and the row is as it was read or was reset by its watcher.
`WaitsOnOneSide` is the property in its inductive form: since a crossing began to wait, every
position judged lay on its side, except the one a worker has yet to act on. `WorkerMoves` is
the common part of the steps after which a worker goes on to the next row.

*Anomaly.* `TellsNew` says why an event is told once: a sweep that is about to tell of it
either found nothing open when it read, so that whatever it finds open now is new to it, or
has not told. `LossListed` says what the sweeps under way that still see know of a lost
signal: each of them fetched a status that is the current one, and no other event is open
but those of the loss. Whatever makes this untrue of a sweep, a half hour or the clearing by
one that does not see, marks it (`ClearOthers`, `MisledType`).

*Watch.* A friend who looks stays in the registry, because the entry is renewed in every
minute and lasts for two at least (`LookersListed`, where `WatchAssumption` is used). So no
handler that counts may find nobody, and after a minute none that counted before is left to
call the mode off (`NobodyCallsOff`); then the heartbeat of that minute reaches the phone
(`BeatArrives`) and lasts beyond the next one (`PhoneKeeps`). That it stops is `NotedFades`:
nothing that was noted lasts longer than its time since the last look.

*Tracking.* `StaysOff` says what a switch-off that nobody disturbed leaves behind: no
function under way that could start the collection again. `StaysOn` says who `Owes` the
collection while it is not there: a function that has stopped it to start it with another
rate, or one that will see that it ended from the front. `RateFits` is `CollectsAsTold`'s part
about the rate, with the function that has started it and has yet to note the rate.

*Groups.* What a call keeps back until its commit may not contradict what it read before its
transaction, though others commit in between. `CallFits` says, for each call, how far it is
and which rows it has changed by then. That it stays so under the commits of others is
`RowsLocked` (a row has been changed by one call at most), `GroupHeld` (while a call has
changed anything the group is there, and nobody else is deleting it) and `HandsAlone` (while
the group is handed over nobody departs: this is where the absence of overlap is used). The
limit is not inductive by itself, as a call inserts long after it counted. `RoomIsKept` counts
the members together with those who are `Expected`, and is renewed only by a count: then
those who are there and the newcomers fit, and each of the other calls brings at most
`MaxInvited` (`FewTogether`, by the least counterexample).

*Chat.* `ChatInv` says of the screen that nothing is on it twice, that a form is on it only
while its post is sent or has failed, and that a post the server has stored knows its row. So
whoever comes second, the answer, the socket or the list, finds the form or the row there and
replaces it. A merge gives the members of a set in order: `InOrder` of a set of numbers has
each of them once, because a number's place is its rank (`PlaceIsRank`, `RankIsPlace`).

*Journey.* The passes of `buildJourney` are loops over lists of any length. `LoopRuns` says
that such a loop, a recursive function on `0 .. n`, obeys its equation, and `EachRound` that
what holds before the first round and is kept by each holds after the last one: were there a
round after which it does not hold, there would be a first one (`LeastNumber`). This is
induction without a theorem that takes an operator. `Covers` is what every pass keeps: its
segments are intervals that follow one another from the first fix to the last one.
`MergedSoFar` is the loop invariant of the merge, which also says that two ways never follow
one another, that no two stays are left that the rule would join (although a merge takes
away a way that was already behind it), and that only short absences are swallowed.

Only model-checked: the liveness properties (`CacheHeals`, `FixSettles`,
`EndIsHeard`, `DueIsHandled`, `CallsEnd`), which need fairness and ENABLED and are out of
reach of the provers used here. Every invariant, action property and mapping of the passing
runs is stated by a theorem.

## 6. Not modelled

See `components` in `PROJECT.json` for every part and its reason. Left aside for good:
proxies of external services and identity providers, presentation, image work, lists and
search, validation of requests, generated types, and administration. They make up most of the
lines of the repository and hold no protocol between steps: what a model of them could say
is what each line says. Three parts do hold one and are left out:

* billing: the server asks the store, saves the answer, and works out the plan, in separate
  statements. A model with two accounts and two purchases passes five million states at one
  call at a time, which is too many beside the other parts. Reading it showed that a paid
  plan may stay for good (`PROJECT.json`, the hazard at `billing.module.ts:229`);
* retention and the deletion of a user's data against the pipeline: entries still in the
  stream and batches on their way save positions of a deleted account again. The code has no
  defence that a property could state;
* danger zones and speeding, whose cool-downs live in the memory of one server. Speeding is
  judged within a batch, and a batch of the usual 60 s never reaches the 120 s a guardian's
  notice asks for. With one server and no waiting there is nothing to interleave.

Of the modelled parts, wording and layout of notices, logs of provided positions, and the
contents of positions and messages are abstracted away; what else each module leaves out is
said in section 3 and in the note of its component.
