------------------------------ MODULE Tracking ------------------------------
(***************************************************************************)
(* The collection of positions while the app is not looked at              *)
(* (features/location/backgroundTask.ts): the operating system measures at *)
(* a rate it was given, hands the positions over, and each handling of     *)
(* them may change the rate; the user switches the collection on and off;  *)
(* whenever the app comes to the front it is taken up again if it was      *)
(* wanted.  Android lets an app start it from the front only.              *)
(***************************************************************************)
EXTENDS Naturals

CONSTANTS
  Rates,      \* rates of measuring, each with its accuracy
  FirstRate,  \* INITIAL_INTERVAL_SEC with the balanced accuracy
  Off,        \* no rate
  Resumes,    \* attempts to take the collection up again that may overlap
  MaxHanded   \* bound: batches handed over and not yet handled

ASSUME TrackingAssumption ==
  /\ FirstRate \in Rates
  /\ Off \notin Rates
  /\ {"task", "user"} \cap Resumes = {}
  /\ MaxHanded \in Nat

VARIABLES
  os,      \* the rate the operating system measures at
  wanted,  \* WANT_TRACKING_KEY
  applied, \* appliedIntervalSec, appliedAccuracy
  front,   \* AppState.currentState is 'active'
  handed,  \* batches waiting in taskQueue
  run,     \* run[r]: how far the asynchronous function r is
  toast,   \* what the last call of the user ended with (showToast)
  raced,   \* another function ran while the user stopped the collection (history)
  mixed,   \* two functions changed the collection at a time (history)
  ended    \* the collection ended from the front or with the app (history)

trackingVars == <<os, wanted, applied, front, handed, run, toast, raced, mixed, ended>>

Runs == {"task", "user"} \cup Resumes

RunStates ==
  [pc: {"idle", "handle", "ask", "permit", "check", "stop", "start", "verify", "want",
        "switch", "unwant"},
   rate: Rates, left: BOOLEAN]

NoRun == [pc |-> "idle", rate |-> FirstRate, left |-> FALSE]

RunAt(pc) == [NoRun EXCEPT !.pc = pc]

TrackingTypeOK ==
  /\ os \in Rates \cup {Off}
  /\ wanted \in {"unset", "on", "off"}
  /\ applied \in Rates \cup {Off}
  /\ front \in BOOLEAN
  /\ handed \in 0 .. MaxHanded
  /\ run \in [Runs -> RunStates]
  /\ toast \in {"nothing", "started", "stopped", "error"}
  /\ raced \in BOOLEAN /\ mixed \in BOOLEAN /\ ended \in BOOLEAN

Stopping == run["user"].pc \in {"switch", "unwant"}

\* Inside startUpdates, or in the middle of stopping.
Changing(r) ==
  \/ run[r].pc \in {"check", "stop", "start", "verify"}
  \/ r = "user" /\ Stopping

\* A function has stopped the collection, or found it stopped, and starts it.
Between == os = Off /\ \E r \in Runs : run[r].pc \in {"start", "verify"}

TrackingInit ==
  /\ os = Off /\ wanted = "unset" /\ applied = Off
  /\ front = TRUE
  /\ handed = 0
  /\ run = [r \in Runs |-> NoRun]
  /\ toast = "nothing"
  /\ raced = FALSE /\ mixed = FALSE /\ ended = FALSE

----------------------------------------------------------------------------
(* startUpdates, called by each of the three.                              *)

\* Mutation: the collection is stopped and started again wherever the app is.
RestartsAnywhere(r) == os # Off /\ r \notin Resumes

\* running && canRestart
Restarts(r) == os # Off /\ r \notin Resumes /\ front

Check(r) ==
  /\ run[r].pc = "check"
  /\ run' = [run EXCEPT ![r].pc = IF Restarts(r) THEN "stop" ELSE "start"]
  /\ UNCHANGED <<os, wanted, applied, front, handed, toast, ended>>

StopOld(r) ==
  /\ run[r].pc = "stop"
  /\ os' = Off
  /\ run' = [run EXCEPT ![r].pc = "start"]
  /\ UNCHANGED <<wanted, applied, front, handed, toast, ended>>

\* From behind, what runs takes the new rate and what does not is not started.
Start(r) ==
  /\ run[r].pc = "start"
  /\ os' = IF os # Off \/ front THEN run[r].rate ELSE Off
  /\ run' = [run EXCEPT ![r].pc = "verify"]
  /\ UNCHANGED <<wanted, applied, front, handed, toast, ended>>

\* The function returns false.
GivesUp(r) ==
  /\ run' = [run EXCEPT ![r] = NoRun]
  /\ toast' = IF r = "user" THEN "error" ELSE toast
  /\ ended' = (ended \/ front \/ run[r].left)

\* The operating system refuses.
Refused(r) ==
  /\ run[r].pc \in {"stop", "start"}
  /\ GivesUp(r)
  /\ UNCHANGED <<os, wanted, applied, front, handed>>

NotRunning(r) ==
  /\ run[r].pc = "verify" /\ os = Off
  /\ GivesUp(r)
  /\ UNCHANGED <<os, wanted, applied, front, handed>>

\* Mutation: what is noted is the first rate, whatever was asked for.
NotedFirst(r) == FirstRate

Noted(r) == run[r].rate

\* It runs; the caller notes the rate.
Verified(r) ==
  /\ run[r].pc = "verify" /\ os # Off
  /\ applied' = Noted(r)
  /\ run' = [run EXCEPT ![r] = IF r = "user" THEN RunAt("want") ELSE NoRun]
  /\ ended' = FALSE
  /\ UNCHANGED <<os, wanted, front, handed, toast>>

----------------------------------------------------------------------------
(* Positions arrive: one batch after the other.                            *)

\* The task is called; its promise takes its place in the queue.
Deliver ==
  /\ os # Off
  /\ handed < MaxHanded
  /\ handed' = handed + 1
  /\ UNCHANGED <<os, wanted, applied, front, run, toast, ended>>

\* handleLocations; what goes wrong in it ends it and nothing else.
Handle ==
  /\ handed > 0 /\ run["task"].pc = "idle"
  /\ handed' = handed - 1
  /\ run' = [run EXCEPT !["task"] = RunAt("handle")]
  /\ UNCHANGED <<os, wanted, applied, front, toast, ended>>

TaskFails ==
  /\ run["task"].pc = "handle"
  /\ run' = [run EXCEPT !["task"] = NoRun]
  /\ UNCHANGED <<os, wanted, applied, front, handed, toast, ended>>

\* The positions are in the outbox: applyAdaptiveInterval for a state with this
\* rate, which does nothing where it is the one applied.
Adapt(rate) ==
  /\ run["task"].pc = "handle"
  /\ run' = [run EXCEPT !["task"] =
               IF applied = rate THEN NoRun ELSE [RunAt("check") EXCEPT !.rate = rate]]
  /\ UNCHANGED <<os, wanted, applied, front, handed, toast, ended>>

----------------------------------------------------------------------------
(* The user.                                                               *)

\* startBackgroundTracking, with the permissions given.
TurnOn ==
  /\ front /\ run["user"].pc = "idle"
  /\ run' = [run EXCEPT !["user"] = RunAt("ask")]
  /\ toast' = "nothing"
  /\ UNCHANGED <<os, wanted, applied, front, handed, ended>>

\* If it runs, that was all.
AskedUser ==
  /\ run["user"].pc = "ask"
  /\ IF os = Off
     THEN run' = [run EXCEPT !["user"] = RunAt("check")] /\ UNCHANGED <<toast, ended>>
     ELSE run' = [run EXCEPT !["user"] = NoRun] /\ toast' = "started" /\ ended' = FALSE
  /\ UNCHANGED <<os, wanted, applied, front, handed>>

Want ==
  /\ run["user"].pc = "want"
  /\ wanted' = "on"
  /\ run' = [run EXCEPT !["user"] = NoRun]
  /\ toast' = "started"
  /\ UNCHANGED <<os, applied, front, handed, ended>>

\* stopBackgroundTracking
TurnOff ==
  /\ front /\ run["user"].pc = "idle"
  /\ run' = [run EXCEPT !["user"] = RunAt("switch")]
  /\ toast' = "nothing"
  /\ UNCHANGED <<os, wanted, applied, front, handed, ended>>

SwitchOff ==
  /\ run["user"].pc = "switch"
  /\ os' = Off
  /\ applied' = Off
  /\ run' = [run EXCEPT !["user"].pc = "unwant"]
  /\ UNCHANGED <<wanted, front, handed, toast, ended>>

SwitchFails ==
  /\ run["user"].pc = "switch"
  /\ run' = [run EXCEPT !["user"] = NoRun]
  /\ UNCHANGED <<os, wanted, applied, front, handed, toast, ended>>

\* Mutation: that the user has switched it off is not kept.
RememberedNot == wanted

Remembered == "off"

Unwant ==
  /\ run["user"].pc = "unwant"
  /\ wanted' = Remembered
  /\ run' = [run EXCEPT !["user"] = NoRun]
  /\ toast' = "stopped"
  /\ UNCHANGED <<os, applied, front, handed, ended>>

----------------------------------------------------------------------------
(* resumeBackgroundTrackingIfWanted: at the launch, three seconds later, and *)
(* whenever the app comes to the front.                                    *)

Resume(r) ==
  /\ run[r].pc = "idle" /\ wanted = "on"
  /\ run' = [run EXCEPT ![r] = RunAt("ask")]
  /\ UNCHANGED <<os, wanted, applied, front, handed, toast, ended>>

AskedResume(r) ==
  /\ run[r].pc = "ask"
  /\ run' = [run EXCEPT ![r] = IF os = Off THEN RunAt("permit") ELSE NoRun]
  /\ UNCHANGED <<os, wanted, applied, front, handed, toast, ended>>

Permitted(r) ==
  /\ run[r].pc = "permit"
  /\ run' = [run EXCEPT ![r] = IF front THEN RunAt("check") ELSE NoRun]
  /\ UNCHANGED <<os, wanted, applied, front, handed, toast, ended>>

----------------------------------------------------------------------------
(* The app and the operating system.                                       *)

ToFront ==
  /\ ~front
  /\ front' = TRUE
  /\ UNCHANGED <<os, wanted, applied, handed, run, toast, ended>>

\* A function that found the app in front and has stopped the collection, or is
\* about to, is left without it.
ToBack ==
  /\ front
  /\ front' = FALSE
  /\ run' = [r \in Runs |-> IF run[r].pc \in {"stop", "start"}
                            THEN [run[r] EXCEPT !.left = TRUE] ELSE run[r]]
  /\ UNCHANGED <<os, wanted, applied, handed, toast, ended>>

\* The process ends.  The collection goes on without it and wakes it with the
\* next positions (killServiceOnDestroy is FALSE), unless the app was forced to stop.
ProcessEnds(forced) ==
  /\ os' = IF forced THEN Off ELSE os
  /\ applied' = Off
  /\ front' = FALSE
  /\ handed' = 0
  /\ run' = [r \in Runs |-> NoRun]
  /\ ended' = (ended \/ forced \/ Between)
  /\ UNCHANGED <<wanted, toast>>

TrackingSteps ==
  \/ \E r \in Runs :
       Check(r) \/ StopOld(r) \/ Start(r) \/ Refused(r) \/ NotRunning(r) \/ Verified(r)
  \/ Deliver \/ Handle \/ TaskFails
  \/ \E rate \in Rates : Adapt(rate)
  \/ TurnOn \/ AskedUser \/ Want
  \/ TurnOff \/ SwitchOff \/ SwitchFails \/ Unwant
  \/ \E r \in Resumes : Resume(r) \/ AskedResume(r) \/ Permitted(r)
  \/ ToFront \/ ToBack
  \/ \E forced \in BOOLEAN : ProcessEnds(forced)

\* What the history variables keep of a step.
Overlaps ==
  /\ raced' = (\/ raced /\ (toast' = "nothing" => toast = "nothing")
               \/ Stopping /\ (handed > 0 \/ \E r \in Runs \ {"user"} : run[r].pc # "idle"))
  /\ mixed' = (/\ ~(applied' = Off /\ \A r \in Runs : run'[r].pc = "idle")
               /\ \/ mixed
                  \/ \E r, q \in Runs : r # q /\ Changing(r)' /\ Changing(q)')

TrackingNext == TrackingSteps /\ Overlaps

TrackingSpec == TrackingInit /\ [][TrackingNext]_trackingVars

----------------------------------------------------------------------------
(* Properties.                                                             *)

\* The collection does what the user was told.  Once it is said to be switched
\* off it does not come back, by itself or after the app was closed and opened,
\* unless positions were being handled or a resumption was under way while it
\* was switched off.  Once it is said to be on it does not stop, except with the
\* app, or when a change of the rate made in front was refused or the app left
\* the front in the middle of it: nothing done behind stops it.  And the rate
\* the app takes for granted is the one measured at, unless two functions
\* changed it at a time; otherwise it would never be set right.
CollectsAsTold ==
  /\ toast = "stopped" /\ ~raced => os = Off
  /\ toast = "started" /\ os = Off => ended \/ Between
  /\ applied # Off /\ os # Off /\ ~mixed /\ (\A r \in Runs : ~Changing(r)) => applied = os
=============================================================================
