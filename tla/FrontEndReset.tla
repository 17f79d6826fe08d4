--------------------------- MODULE FrontEndReset ---------------------------
(***************************************************************************)
(* The Reset Front Ends command of crates/server/src/commands.rs:          *)
(* spawn_reset, reset_front_ends and the resend by push_all_front_ends.    *)
(*                                                                         *)
(* A reset cuts the trigger of every front-end box (one EVR output PV may  *)
(* feed several boxes), waits for the boxes to reboot while a countdown is *)
(* shown, switches the triggers back on and re-applies every device's      *)
(* selected sensitivity.  It runs as a task of its own, so several         *)
(* requests may be in flight: the flag RESET_IN_PROGRESS keeps the tasks   *)
(* apart.                                                                  *)
(*                                                                         *)
(* A write that fails may have landed all the same: epics::caput gives up  *)
(* after WRITE_TIMEOUT without knowing what became of its request, and so  *)
(* does the HTTP client with FRONT_END_HTTP_TIMEOUT.                       *)
(*                                                                         *)
(* An Ok of hardware::clear_calibration does not say that the box took its *)
(* settings: a box that misses the 500 ms probe, likely enough just after  *)
(* its reboot, is sent the legacy line, which nobody acknowledges and      *)
(* which an HTTP box refuses.                                              *)
(***************************************************************************)
EXTENDS Naturals

CONSTANTS
  Resets,      \* the ResetFrontEnds requests, one per click that ever arrives
  Triggers,    \* EVR output PVs that a device may name as its reset_trigger
  Devices,     \* devices whose box is pushed to: WCMs and FCUPs
  Levels,      \* integrator settings of a box (FB0 .. FB4)
  FB4,         \* the setting a box comes back with after a reboot
  NoPV,        \* a device configured without a reset_trigger
  RESET_WAIT,  \* seconds the trigger stays off
  MaxFaults,   \* bound: writes that fail in a behaviour
  MaxCrashes   \* bound: restarts of the server in a behaviour

ASSUME LevelsAssumption == FB4 \in Levels
ASSUME NamesAssumption == NoPV \notin Triggers \cup Devices /\ Triggers \cap Devices = {}
ASSUME WaitAssumption == RESET_WAIT \in Nat \ {0}
ASSUME BoundsAssumption == MaxFaults \in Nat /\ MaxCrashes \in Nat

VARIABLES
  resetTrigger,       \* configuration: the trigger PV of each device, or NoPV
  resetInProgress,    \* the static RESET_IN_PROGRESS
  pc,                 \* where the task of each request is
  todo,               \* of each task: the PVs its current loop has not reached
  zeroed,             \* of each task: PVs whose caput to 0 succeeded
  failing,            \* of each task: the PV a failed caput was for
  remaining,          \* of each task: seconds left of the countdown
  levels,             \* of each task: the resend's snapshot of the levels
  unsent,             \* of each task: devices the resend has not reached
  resetProgress,      \* InnerState.reset_progress, 0 for None
  announced,          \* the last ResetProgress sent to the clients
  currentSensitivity, \* server's idea of each device's level
  trigger,            \* external: is the EVR output on?
  box,                \* external: the integrator of each device's box
  named,              \* PVs and devices an error notification named, and
                      \* whose writes have not succeeded since
  unheard,            \* history: devices whose last Ok was for a legacy line
                      \* that their box did not take
  faults, crashes     \* how much of the two bounds is used up

server == <<resetInProgress, pc, todo, zeroed, failing, remaining, levels, unsent>>
shown  == <<resetProgress, announced>>
config == <<resetTrigger, currentSensitivity>>
plant  == <<trigger, box>>
bounds == <<faults, crashes>>
told   == <<named, unheard>>
vars   == <<server, shown, config, plant, told, bounds>>

TriggerPVs == {resetTrigger[d] : d \in Devices} \ {NoPV}

Init ==
  /\ resetTrigger \in [Devices -> Triggers \cup {NoPV}]
  /\ resetInProgress = FALSE
  /\ pc = [r \in Resets |-> "new"]
  /\ todo = [r \in Resets |-> {}]
  /\ zeroed = [r \in Resets |-> {}]
  /\ failing = [r \in Resets |-> NoPV]
  /\ remaining = [r \in Resets |-> 0]
  /\ levels = [r \in Resets |-> [d \in Devices |-> FB4]]
  /\ unsent = [r \in Resets |-> {}]
  /\ resetProgress = 0 /\ announced = 0
  /\ currentSensitivity \in [Devices -> Levels]
  /\ trigger = [pv \in Triggers |-> TRUE]
  /\ box = currentSensitivity
  /\ named = {} /\ unheard = {}
  /\ faults = 0 /\ crashes = 0

Goto(r, label) == pc' = [pc EXCEPT ![r] = label]

-----------------------------------------------------------------------------
(* Writes to the machine.  A trigger that comes back on is no longer amiss. *)

SwitchOff(pv) ==
  /\ trigger' = [trigger EXCEPT ![pv] = FALSE]
  /\ UNCHANGED <<box, told>>

SwitchOn(pv) ==
  /\ trigger' = [trigger EXCEPT ![pv] = TRUE]
  /\ named' = named \ {pv}
  /\ UNCHANGED <<box, unheard>>

(* A write that fails: a bounded number of them, each landed or not. *)

Fault == faults < MaxFaults /\ faults' = faults + 1 /\ UNCHANGED crashes

NothingWritten == UNCHANGED <<plant, told>>

-----------------------------------------------------------------------------
(* spawn_reset *)

\* swap(true) found the flag set: the click is answered with a warning.
Refuse(r) ==
  /\ pc[r] = "new"
  /\ resetInProgress
  /\ Goto(r, "done")
  /\ UNCHANGED <<resetInProgress, todo, zeroed, failing, remaining, levels, unsent,
                 shown, config, plant, told, bounds>>

\* Faulty: the flag is set without looking at it.
SpawnAnyway(r) ==
  /\ pc[r] = "new"
  /\ resetInProgress' = TRUE
  /\ Goto(r, "begin")
  /\ UNCHANGED <<todo, zeroed, failing, remaining, levels, unsent,
                 shown, config, plant, told, bounds>>

SpawnReset(r) ==
  /\ pc[r] = "new"
  /\ ~resetInProgress
  /\ resetInProgress' = TRUE
  /\ Goto(r, "begin")
  /\ UNCHANGED <<todo, zeroed, failing, remaining, levels, unsent,
                 shown, config, plant, told, bounds>>

\* Faulty: the task ends with the flag still set.
KeepFlag(r) ==
  /\ pc[r] = "release"
  /\ Goto(r, "done")
  /\ UNCHANGED <<resetInProgress, todo, zeroed, failing, remaining, levels, unsent,
                 shown, config, plant, told, bounds>>

\* The spawned task has returned from reset_front_ends.
Release(r) ==
  /\ pc[r] = "release"
  /\ resetInProgress' = FALSE
  /\ Goto(r, "done")
  /\ UNCHANGED <<todo, zeroed, failing, remaining, levels, unsent,
                 shown, config, plant, told, bounds>>

-----------------------------------------------------------------------------
(* reset_front_ends: collect the PVs and cut the triggers *)

Begin(r) ==
  /\ pc[r] = "begin"
  /\ Goto(r, IF TriggerPVs = {} THEN "fail" ELSE "cut")
  /\ todo' = [todo EXCEPT ![r] = TriggerPVs]
  /\ zeroed' = [zeroed EXCEPT ![r] = {}]
  /\ failing' = [failing EXCEPT ![r] = NoPV]
  /\ UNCHANGED <<resetInProgress, remaining, levels, unsent,
                 shown, config, plant, told, bounds>>

Cut(r, pv) ==
  /\ pc[r] = "cut" /\ pv \in todo[r]
  /\ SwitchOff(pv)
  /\ zeroed' = [zeroed EXCEPT ![r] = @ \cup {pv}]
  /\ todo' = [todo EXCEPT ![r] = @ \ {pv}]
  /\ Goto(r, IF todo'[r] = {} THEN "count" ELSE "cut")
  /\ remaining' = [remaining EXCEPT ![r] = RESET_WAIT]
  /\ UNCHANGED <<resetInProgress, failing, levels, unsent, shown, config, bounds>>

CutFails(r, pv) ==
  /\ pc[r] = "cut" /\ pv \in todo[r]
  /\ Fault /\ (SwitchOff(pv) \/ NothingWritten)
  /\ failing' = [failing EXCEPT ![r] = pv]
  /\ Goto(r, IF zeroed[r] = {} THEN "fail" ELSE "abort")
  /\ UNCHANGED <<resetInProgress, todo, zeroed, remaining, levels, unsent, shown, config>>

\* The abort path ignores the outcome of each restoring write.
AbortRestore(r, pv) ==
  /\ pc[r] = "abort" /\ pv \in zeroed[r]
  /\ \/ SwitchOn(pv) /\ UNCHANGED bounds
     \/ Fault /\ (SwitchOn(pv) \/ NothingWritten)
  /\ zeroed' = [zeroed EXCEPT ![r] = @ \ {pv}]
  /\ Goto(r, IF zeroed'[r] = {} THEN "fail" ELSE "abort")
  /\ UNCHANGED <<resetInProgress, todo, failing, remaining, levels, unsent, shown, config>>

\* Faulty: the error is only logged.
FailSilently(r) ==
  /\ pc[r] = "fail"
  /\ Goto(r, "release")
  /\ UNCHANGED <<resetInProgress, todo, zeroed, failing, remaining, levels, unsent,
                 shown, config, plant, told, bounds>>

\* The error returned to the task is notified: it names the PV that failed,
\* or says that no device has one.
Fail(r) ==
  /\ pc[r] = "fail"
  /\ named' = named \cup {failing[r]}
  /\ Goto(r, "release")
  /\ UNCHANGED <<resetInProgress, todo, zeroed, failing, remaining, levels, unsent,
                 shown, config, plant, unheard, bounds>>

-----------------------------------------------------------------------------
(* reset_front_ends: the countdown and the restore *)

\* Faulty: the count goes on to 0 inclusive.
CountDownToZero(r) ==
  /\ pc[r] = "count"
  /\ resetProgress' = remaining[r]
  /\ announced' = remaining[r]
  /\ remaining' = [remaining EXCEPT ![r] = @ - 1]
  /\ Goto(r, IF remaining[r] = 0 THEN "restore" ELSE "count")
  /\ todo' = [todo EXCEPT ![r] = TriggerPVs]
  /\ UNCHANGED <<resetInProgress, zeroed, failing, levels, unsent, config, plant, told, bounds>>

CountDown(r) ==
  /\ pc[r] = "count"
  /\ resetProgress' = remaining[r]
  /\ announced' = remaining[r]
  /\ remaining' = [remaining EXCEPT ![r] = @ - 1]
  /\ Goto(r, IF remaining[r] = 1 THEN "restore" ELSE "count")
  /\ todo' = [todo EXCEPT ![r] = TriggerPVs]
  /\ UNCHANGED <<resetInProgress, zeroed, failing, levels, unsent, config, plant, told, bounds>>

\* Faulty: the loop stops after one PV.
RestoredFirst(r, pv) ==
  /\ todo' = [todo EXCEPT ![r] = @ \ {pv}]
  /\ Goto(r, "clear")

\* One PV of the restore loop is finished with.
Restored(r, pv) ==
  /\ todo' = [todo EXCEPT ![r] = @ \ {pv}]
  /\ Goto(r, IF todo'[r] = {} THEN "clear" ELSE "restore")

Restore(r, pv) ==
  /\ pc[r] = "restore" /\ pv \in todo[r]
  /\ SwitchOn(pv)
  /\ Restored(r, pv)
  /\ UNCHANGED <<resetInProgress, zeroed, failing, remaining, levels, unsent,
                 shown, config, bounds>>

RestoreFails(r, pv) ==
  /\ pc[r] = "restore" /\ pv \in todo[r]
  /\ Fault /\ (SwitchOn(pv) \/ NothingWritten)
  /\ failing' = [failing EXCEPT ![r] = pv]
  /\ Goto(r, "retry")
  /\ UNCHANGED <<resetInProgress, todo, zeroed, remaining, levels, unsent, shown, config>>

Retry(r) ==
  /\ pc[r] = "retry"
  /\ SwitchOn(failing[r])
  /\ Restored(r, failing[r])
  /\ UNCHANGED <<resetInProgress, zeroed, failing, remaining, levels, unsent,
                 shown, config, bounds>>

\* Faulty: the failed retry is not reported.
RetryFailsSilently(r) ==
  LET pv == failing[r] IN
  /\ pc[r] = "retry"
  /\ Fault
  /\ trigger' = [trigger EXCEPT ![pv] = TRUE] \/ UNCHANGED trigger
  /\ Restored(r, pv)
  /\ UNCHANGED <<resetInProgress, zeroed, failing, remaining, levels, unsent,
                 shown, config, told, box>>

\* FAILED TO RE-ENABLE TRIGGER: shout, and carry on with the other PVs.
RetryFails(r) ==
  LET pv == failing[r] IN
  /\ pc[r] = "retry"
  /\ Fault
  /\ trigger' = [trigger EXCEPT ![pv] = TRUE] \/ UNCHANGED trigger
  /\ named' = named \cup {pv}
  /\ Restored(r, pv)
  /\ UNCHANGED <<resetInProgress, zeroed, failing, remaining, levels, unsent,
                 shown, config, unheard, box>>

\* Faulty: the shared countdown is cleared and nobody is told.
ClearUnannounced(r) ==
  /\ pc[r] = "clear"
  /\ resetProgress' = 0
  /\ Goto(r, "snapshot")
  /\ UNCHANGED <<resetInProgress, todo, zeroed, failing, remaining, levels, unsent,
                 announced, config, plant, told, bounds>>

ClearProgress(r) ==
  /\ pc[r] = "clear"
  /\ resetProgress' = 0 /\ announced' = 0
  /\ Goto(r, "snapshot")
  /\ UNCHANGED <<resetInProgress, todo, zeroed, failing, remaining, levels, unsent,
                 config, plant, told, bounds>>

-----------------------------------------------------------------------------
(* push_all_front_ends: the resend *)

Snapshot(r) ==
  /\ pc[r] = "snapshot"
  /\ levels' = [levels EXCEPT ![r] = currentSensitivity]
  /\ unsent' = [unsent EXCEPT ![r] = Devices]
  /\ Goto(r, IF Devices = {} THEN "release" ELSE "push")
  /\ UNCHANGED <<resetInProgress, todo, zeroed, failing, remaining,
                 shown, config, plant, told, bounds>>

Sent(r, d) ==
  /\ unsent' = [unsent EXCEPT ![r] = @ \ {d}]
  /\ Goto(r, IF unsent'[r] = {} THEN "release" ELSE "push")

Powered(d) == resetTrigger[d] = NoPV \/ trigger[resetTrigger[d]]

\* external: a box takes settings only while its trigger is on.
Settings(d, level) ==
  /\ box' = IF Powered(d) THEN [box EXCEPT ![d] = level] ELSE box
  /\ UNCHANGED trigger

\* Ok: the box has its settings, or it missed the probe and was sent a legacy line
\* that it did not take.
Push(r, d) ==
  /\ pc[r] = "push" /\ d \in unsent[r]
  /\ \/ Settings(d, levels[r][d]) /\ unheard' = unheard \ {d}
     \/ UNCHANGED plant /\ unheard' = unheard \cup {d}
  /\ named' = named \ {d}
  /\ Sent(r, d)
  /\ UNCHANGED <<resetInProgress, todo, zeroed, failing, remaining, levels,
                 shown, config, bounds>>

\* Faulty: the error is only logged.
PushFailsSilently(r, d) ==
  /\ pc[r] = "push" /\ d \in unsent[r]
  /\ Fault
  /\ Settings(d, levels[r][d]) \/ UNCHANGED plant
  /\ Sent(r, d)
  /\ UNCHANGED <<resetInProgress, todo, zeroed, failing, remaining, levels, shown, config, told>>

\* Best effort: the error names the device and the other boxes are still pushed.
PushFails(r, d) ==
  /\ pc[r] = "push" /\ d \in unsent[r]
  /\ Fault
  /\ Settings(d, levels[r][d]) \/ UNCHANGED plant
  /\ named' = named \cup {d}
  /\ Sent(r, d)
  /\ UNCHANGED <<resetInProgress, todo, zeroed, failing, remaining, levels, shown, config, unheard>>

-----------------------------------------------------------------------------
(* The environment *)

\* external: a box whose trigger is off may reboot, and forgets its setting.
Reboot(d) ==
  /\ ~Powered(d)
  /\ box' = [box EXCEPT ![d] = FB4]
  /\ UNCHANGED <<server, shown, config, trigger, told, bounds>>

Running(r) == pc[r] \notin {"new", "done"}

\* The server is stopped and started again (a deploy, a power cut): its tasks
\* and the transient state are gone, and the clients reconnect to a new Init.
Restart ==
  /\ crashes < MaxCrashes
  /\ crashes' = crashes + 1
  /\ resetInProgress' = FALSE
  /\ pc' = [r \in Resets |-> IF Running(r) THEN "done" ELSE pc[r]]
  /\ resetProgress' = 0 /\ announced' = 0
  /\ UNCHANGED <<todo, zeroed, failing, remaining, levels, unsent, config, plant, told, faults>>

\* One step of the task that serves request r.
Task(r) ==
  \/ Begin(r) \/ Fail(r) \/ CountDown(r) \/ ClearProgress(r) \/ Snapshot(r) \/ Release(r)
  \/ Retry(r) \/ RetryFails(r)
  \/ \E pv \in Triggers : \/ Cut(r, pv) \/ CutFails(r, pv) \/ AbortRestore(r, pv)
                          \/ Restore(r, pv) \/ RestoreFails(r, pv)
  \/ \E d \in Devices : Push(r, d) \/ PushFails(r, d)

Next ==
  \/ \E r \in Resets : Refuse(r) \/ SpawnReset(r) \/ Task(r)
  \/ \E d \in Devices : Reboot(d)
  \/ Restart

Spec == Init /\ [][Next]_vars

\* The runtime keeps polling a spawned task, and every await in it is bounded:
\* a sleep of one second, WRITE_TIMEOUT, FRONT_END_HTTP_TIMEOUT.
FairSpec == Spec /\ \A r \in Resets : WF_vars(Task(r))

-----------------------------------------------------------------------------
(* Properties *)

Labels == {"new", "begin", "cut", "abort", "fail", "count", "restore", "retry",
           "clear", "snapshot", "push", "release", "done"}

TypeOK ==
  /\ resetTrigger \in [Devices -> Triggers \cup {NoPV}]
  /\ resetInProgress \in BOOLEAN
  /\ pc \in [Resets -> Labels]
  /\ todo \in [Resets -> SUBSET Triggers]
  /\ zeroed \in [Resets -> SUBSET Triggers]
  /\ failing \in [Resets -> Triggers \cup {NoPV}]
  /\ remaining \in [Resets -> Nat]
  /\ levels \in [Resets -> [Devices -> Levels]]
  /\ unsent \in [Resets -> SUBSET Devices]
  /\ resetProgress \in Nat /\ announced \in Nat
  /\ currentSensitivity \in [Devices -> Levels]
  /\ trigger \in [Triggers -> BOOLEAN]
  /\ box \in [Devices -> Levels]
  /\ named \subseteq Triggers \cup Devices \cup {NoPV} /\ unheard \subseteq Devices
  /\ faults \in Nat /\ crashes \in Nat

\* No client is left looking at a countdown: when no reset is running, the
\* shared reset_progress is None and so is the last one that was announced.
NoStrayCountdown == ~resetInProgress => resetProgress = 0 /\ announced = 0

MachineRestored ==
  /\ \A pv \in TriggerPVs : trigger[pv]
  /\ \A d \in Devices \ unheard : box[d] = currentSensitivity[d]

\* A reset that ends without an error still standing has left the machine as
\* it found it: every trigger back on and every box at its selected level, but
\* for a box whose Ok was for a legacy line it did not take, of which the code
\* cannot know.  However many writes failed, whether or not they landed, and
\* however often the button was pressed, trouble is never silent otherwise,
\* unless the server was restarted in the middle.
NeverSilentlyBroken ==
  crashes = 0 /\ ~resetInProgress /\ named = {} => MachineRestored

\* A reset that gets to its end puts right what an earlier one left behind when
\* the server died in the middle of it, or when a box did not take its legacy
\* line: pressing the button again is the cure, for every box that hears it.
ResetRepairs ==
  [][\A r \in Resets :
       pc[r] = "push" /\ pc'[r] = "release" /\ named' = {} => MachineRestored']_vars

\* The boxes ignore settings pushed while their trigger is off, so a device is
\* pushed to only with its trigger back on, or with an error that names it.
ResendAfterTrigger ==
  [][\A d \in Devices :
       (\E r \in Resets : d \in unsent[r] /\ d \notin unsent'[r])
         => Powered(d) \/ resetTrigger[d] \in named]_vars

\* No second reset flips a trigger back on during the wait of the first.
TriggerOffForTheWait ==
  [][\A r \in Resets : pc[r] = "count" /\ pc'[r] = "count" => UNCHANGED trigger]_vars

\* A reset leaves a trigger off only with an error that names that trigger
\* (an aborted reset restores what it cut "rather than leaving the machine with
\* its triggers half off"; a failed re-enable is shouted).
NoTriggerLeftOffUnnamed ==
  ~resetInProgress => \A pv \in TriggerPVs : trigger[pv] \/ pv \in named

\* It does while no restart comes in between and every box hangs on one EVR
\* output, as they do today: there is then nothing to restore in an abort.
OneOutputIsSafe ==
  crashes = 0 /\ (\A p, q \in TriggerPVs : p = q) => NoTriggerLeftOffUnnamed

\* Every reset that starts comes to its end, and frees the button.
ResetEnds == \A r \in Resets : pc[r] = "begin" ~> pc[r] = "done" /\ ~resetInProgress
=============================================================================
