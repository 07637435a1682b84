-------------------------------- MODULE Watch --------------------------------
(***************************************************************************)
(* "Somebody is looking at my map" (ramupin-server/src/chat and the app):  *)
(* while a friend has the map open, the phone of the person on it measures *)
(* often.  One such person; the sockets of friends on several servers; the *)
(* registry in Redis that all servers share; the note each server keeps of *)
(* what it said last; and the phone, which forgets by itself.  Time passes *)
(* in heartbeats: a handler that has begun ends within one, and every      *)
(* server sends one in each.                                               *)
(***************************************************************************)
EXTENDS Naturals

CONSTANTS
  Sockets,  \* sockets of friends, each a connection at a time
  Gateways, \* servers
  WatchTTL, \* heartbeats an entry, and the mode of the phone, lasts (WATCH_TTL_MS, EXPIRE_MS)
  MaxLooks, \* bound: 'watch' messages
  MaxFaults \* bound: servers that die and connections of the phone that break

\* An entry outlives the heartbeat that should renew it.
ASSUME WatchAssumption ==
  /\ WatchTTL \in Nat \ {0, 1}
  /\ MaxLooks \in Nat
  /\ MaxFaults \in Nat

VARIABLES
  socket,   \* socket[k]: its server, open or not, client.data.watching, and for how long
  handler,  \* handler[k][h]: how far the handler of that message is
  registry, \* registry[k]: heartbeats for which the entry of k lasts
  said,     \* said[s]: watchMode, what the server s said last
  beat,     \* beat[s]: the heartbeat of s within this minute
  phone,    \* heartbeats for which the phone is still in watch mode
  linked,   \* heartbeats for which the phone has been connected (0: it is not)
  quiet,    \* heartbeats since anybody looked (history)
  looks,    \* 'watch' messages so far
  faults    \* faults so far

watchVars == <<socket, handler, registry, said, beat, phone, linked, quiet, looks, faults>>

Handlers == {"watch", "stop"}

HandlerStates == {"idle", "friends", "remove", "count", "on", "off"}

\* Longer times are not told apart.
Long == 3
Later(n) == IF n < Long THEN n + 1 ELSE n

SocketStates ==
  [server: Gateways, open: BOOLEAN, watching: BOOLEAN, since: 0 .. Long]

WatchTypeOK ==
  /\ socket \in [Sockets -> SocketStates]
  /\ handler \in [Sockets -> [Handlers -> HandlerStates]]
  /\ registry \in [Sockets -> 0 .. WatchTTL]
  /\ said \in [Gateways -> {"nothing", "on", "off"}]
  /\ beat \in [Gateways -> {"due", "touched", "sent"}]
  /\ phone \in 0 .. WatchTTL
  /\ linked \in 0 .. Long
  /\ quiet \in 0 .. WatchTTL
  /\ looks \in 0 .. MaxLooks
  /\ faults \in 0 .. MaxFaults

Quiet(k) == handler[k] = [h \in Handlers |-> "idle"]

Looking(k) == socket[k].open /\ socket[k].watching

WatchInit ==
  /\ \E s \in Gateways :
       socket = [k \in Sockets |->
                   [server |-> s, open |-> FALSE, watching |-> FALSE, since |-> 0]]
  /\ handler = [k \in Sockets |-> [h \in Handlers |-> "idle"]]
  /\ registry = [k \in Sockets |-> 0]
  /\ said = [s \in Gateways |-> "nothing"]
  /\ beat = [s \in Gateways |-> "due"]
  /\ phone = 0
  /\ linked = 0
  /\ quiet = 0
  /\ looks = 0
  /\ faults = 0

----------------------------------------------------------------------------
(* The friends' sockets.                                                   *)

\* A new connection, with a name nothing is left of.
Connect(k, s) ==
  /\ ~socket[k].open /\ Quiet(k) /\ registry[k] = 0
  /\ socket' = [socket EXCEPT ![k] = [server |-> s, open |-> TRUE, watching |-> FALSE, since |-> 0]]
  /\ UNCHANGED <<handler, registry, said, beat, phone, linked, quiet, looks, faults>>

\* 'watch' arrives: the friends among those named are looked up.
WatchFriends(k) ==
  /\ socket[k].open
  /\ handler[k]["watch"] = "idle"
  /\ looks < MaxLooks
  /\ handler' = [handler EXCEPT ![k]["watch"] = "friends"]
  /\ looks' = looks + 1
  /\ UNCHANGED <<socket, registry, said, beat, phone, linked, quiet, faults>>

\* The answer has come, perhaps after the socket is gone: the person is among
\* those to be looked at (touch), or is not: not named, no friend, hidden.  Redis
\* carries out the commands of one server in the order they were given.
Friends(k, among) ==
  /\ handler[k]["watch"] = "friends"
  /\ socket' = [socket EXCEPT ![k].watching = among,
                              ![k].since = IF among /\ socket[k].watching THEN @ ELSE 0]
  /\ registry' = IF among THEN [registry EXCEPT ![k] = WatchTTL] ELSE registry
  /\ handler' = [handler EXCEPT ![k]["watch"] =
                   CASE among -> "count" [] ~among /\ socket[k].watching -> "remove" [] OTHER -> "idle"]
  /\ quiet' = IF among THEN 0 ELSE quiet
  /\ UNCHANGED <<said, beat, phone, linked, looks, faults>>

\* A person no longer named is taken out once the others have been noted.
Drop(k) ==
  /\ handler[k]["watch"] = "remove"
  /\ handler' = [handler EXCEPT ![k]["watch"] = "count"]
  /\ registry' = [registry EXCEPT ![k] = 0]
  /\ UNCHANGED <<socket, said, beat, phone, linked, quiet, looks, faults>>

\* 'unwatch' arrives, or the socket closes: stopWatching.
Stop(k, stays) ==
  /\ socket[k].open
  /\ handler[k]["stop"] = "idle"
  /\ socket' = [socket EXCEPT ![k].open = stays, ![k].watching = FALSE, ![k].since = 0]
  /\ registry' = IF socket[k].watching THEN [registry EXCEPT ![k] = 0] ELSE registry
  /\ handler' = [handler EXCEPT ![k]["stop"] = IF socket[k].watching THEN "count" ELSE "idle"]
  /\ UNCHANGED <<said, beat, phone, linked, quiet, looks, faults>>

\* syncWatchMode: whoever is in the registry is counted ...
CountWatchers(k, h) ==
  /\ handler[k][h] = "count"
  /\ handler' = [handler EXCEPT ![k][h] = IF \E j \in Sockets : registry[j] > 0 THEN "on" ELSE "off"]
  /\ UNCHANGED <<socket, registry, said, beat, phone, linked, quiet, looks, faults>>

\* The phone hears it if it is connected, and notes it (setWatchMode).
Hears(mode) == IF linked = 0 THEN phone ELSE IF mode = "on" THEN WatchTTL ELSE 0

\* ... and the phone is told, unless this server has said the same before.
Sync(k, h) ==
  LET s == socket[k].server
      mode == handler[k][h]
  IN /\ mode \in {"on", "off"}
     /\ handler' = [handler EXCEPT ![k][h] = "idle"]
     /\ said' = [said EXCEPT ![s] = mode]
     /\ phone' = IF said[s] = mode THEN phone ELSE Hears(mode)
     /\ UNCHANGED <<socket, registry, beat, linked, quiet, looks, faults>>

----------------------------------------------------------------------------
(* Heartbeats.                                                             *)

\* Mutation: the heartbeat tells the phones and leaves the registry alone.
RenewedNot(s) == registry

\* The entries of the sockets on this server that are looking.
Renewed(s) ==
  [k \in Sockets |-> IF Looking(k) /\ socket[k].server = s THEN WatchTTL ELSE registry[k]]

Beat(s) ==
  /\ beat[s] = "due"
  /\ registry' = Renewed(s)
  /\ beat' = [beat EXCEPT ![s] =
                IF \E k \in Sockets : Looking(k) /\ socket[k].server = s THEN "touched" ELSE "sent"]
  /\ UNCHANGED <<socket, handler, said, phone, linked, quiet, looks, faults>>

\* The phone of everybody that was being looked at hears of it.
Emit(s) ==
  /\ beat[s] = "touched"
  /\ beat' = [beat EXCEPT ![s] = "sent"]
  /\ phone' = Hears("on")
  /\ UNCHANGED <<socket, handler, registry, said, linked, quiet, looks, faults>>

\* A server dies and another takes its place: nobody takes leave of its sockets.
Crash(s) ==
  /\ faults < MaxFaults
  /\ faults' = faults + 1
  /\ socket' = [k \in Sockets |->
                  IF socket[k].server = s
                  THEN [server |-> s, open |-> FALSE, watching |-> FALSE, since |-> 0]
                  ELSE socket[k]]
  /\ handler' = [k \in Sockets |->
                   IF socket[k].server = s THEN [h \in Handlers |-> "idle"] ELSE handler[k]]
  /\ said' = [said EXCEPT ![s] = "nothing"]
  /\ beat' = [beat EXCEPT ![s] = "sent"]
  /\ UNCHANGED <<registry, phone, linked, quiet, looks>>

\* The phone of the person looked at loses its connection, or has it back.
PhoneDrops ==
  /\ linked > 0
  /\ faults < MaxFaults
  /\ faults' = faults + 1
  /\ linked' = 0
  /\ UNCHANGED <<socket, handler, registry, said, beat, phone, quiet, looks>>

PhoneConnects ==
  /\ linked = 0
  /\ linked' = 1
  /\ UNCHANGED <<socket, handler, registry, said, beat, phone, quiet, looks, faults>>

\* Mutation: the phone waits to be told.
ForgetsNot(n) == n

Less(n) == IF n = 0 THEN 0 ELSE n - 1

\* isWatched: without a new signal the phone leaves watch mode by itself.
Forgets(n) == Less(n)

\* A minute has passed.
Minute ==
  /\ \A k \in Sockets : Quiet(k)
  /\ \A s \in Gateways : beat[s] = "sent"
  /\ beat' = [s \in Gateways |-> "due"]
  /\ registry' = [k \in Sockets |-> Less(registry[k])]
  /\ phone' = Forgets(phone)
  /\ socket' = [k \in Sockets |->
                  [socket[k] EXCEPT !.since = IF Looking(k) THEN Later(@) ELSE @]]
  /\ linked' = IF linked = 0 THEN 0 ELSE Later(linked)
  /\ quiet' = IF \E k \in Sockets : Looking(k) THEN 0
              ELSE IF quiet < WatchTTL THEN quiet + 1 ELSE quiet
  /\ UNCHANGED <<handler, said, looks, faults>>

WatchNext ==
  \/ \E k \in Sockets :
       \/ \E s \in Gateways : Connect(k, s)
       \/ WatchFriends(k) \/ Drop(k)
       \/ \E among \in BOOLEAN : Friends(k, among)
       \/ \E stays \in BOOLEAN : Stop(k, stays)
       \/ \E h \in Handlers : CountWatchers(k, h) \/ Sync(k, h)
  \/ \E s \in Gateways : Beat(s) \/ Emit(s) \/ Crash(s)
  \/ PhoneDrops \/ PhoneConnects
  \/ Minute

WatchSpec == WatchInit /\ [][WatchNext]_watchVars

----------------------------------------------------------------------------
(* Properties.                                                             *)

\* The phone follows those who look.  Whoever is looked at measures often, in
\* spite of signals that crossed, were lost, or were held back because a server
\* thought it had said so: when a friend has looked for three heartbeats, on a
\* server that lives, and the phone has been connected for two, it is in watch
\* mode.  And it does not measure often for nothing, though a server died
\* without a word or a signal was late: WatchTTL heartbeats after the last look
\* it has left watch mode, and the registry counts nobody.
PhoneFollows ==
  /\ (\E k \in Sockets : Looking(k) /\ socket[k].since = Long) /\ linked = Long => phone > 0
  /\ quiet = WatchTTL => phone = 0 /\ \A k \in Sockets : registry[k] = 0
=============================================================================
