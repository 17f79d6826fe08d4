---------------------------- MODULE Sensitivity ----------------------------
(***************************************************************************)
(* The sensitivity (gain) of the front-end boxes and everything that moves *)
(* it: the commands SetSensitivity, ClearCalibration and RestoreDefaults   *)
(* (crates/server/src/commands.rs), the boxes' own front panels and web    *)
(* pages, and the listeners that follow each box's event stream            *)
(* (crates/server/src/fe_events.rs).                                       *)
(*                                                                         *)
(* Four places hold the level of a device and have to agree:               *)
(*   box      the integrator of the front-end box,                         *)
(*   sens     the server's current_sensitivity, with calibration_mismatch, *)
(*   cal      the calibration factor in the device's EPICS PV (corrA, or   *)
(*            DQcal of a :DQ device), which belongs to one level,          *)
(*   shown    what the last StateUpdate told the clients.                  *)
(* A :DQ device reads the box of its WCM.  A level stands for its index in *)
(* the device's list of sensitivities.                                     *)
(*                                                                         *)
(* An Ok of hardware.rs does not say that the box took the level: a box    *)
(* that misses the 500 ms probe is sent the legacy line, which nobody      *)
(* acknowledges and which an HTTP box refuses.                             *)
(***************************************************************************)
EXTENDS Naturals, Sequences

CONSTANTS
  Devices,        \* devices with a front-end box
  Boxes,          \* the boxes
  BoxOf,          \* the box of each device: a :DQ device has its WCM's
  CompanionOf,    \* the :DQ device of a WCM; NoDevice for the others
  NoDevice,
  Levels,         \* integrator settings of a box
  Sensitivities,  \* those among them a device offers
  NoLevel,
  Sessions,       \* command executors: WebSocket sessions, the auto-gain task
  Commanded,      \* devices a SetSensitivity is ever sent for
  MaxCommands, MaxExternal, MaxFaults, MaxAborts, MaxDrops   \* bounds

DQs == {CompanionOf[d] : d \in Devices} \ {NoDevice}

ASSUME DevicesAssumption ==
  /\ NoDevice \notin Devices /\ Commanded \subseteq Devices
  /\ BoxOf \in [Devices -> Boxes]
  /\ CompanionOf \in [Devices -> Devices \cup {NoDevice}]
  /\ \A d \in Devices : CompanionOf[d] # NoDevice =>
       BoxOf[CompanionOf[d]] = BoxOf[d] /\ CompanionOf[CompanionOf[d]] = NoDevice
ASSUME LevelsAssumption == Sensitivities \subseteq Levels /\ NoLevel \notin Levels
ASSUME BoundsAssumption ==
  {MaxCommands, MaxExternal, MaxFaults, MaxAborts, MaxDrops} \subseteq Nat

VARIABLES
  box, sens, mismatch, cal, shown,
  events,     \* frames of /events a device's listener has not handled yet
  stream,     \* is the listener connected?
  announce,   \* level a listener has recorded but not yet broadcast
  at,         \* where the command of a session is
  device, level,   \* its arguments
  levels, unsent,  \* the snapshot of push_all_front_ends, and what is left
  unheard,    \* history: devices a Post answered Ok for although the box did not
              \* take the level, until one finds the box at the level it records
  used        \* how much of each bound is used up, and (a history) how many
              \* commands began while another one was under way

hardware == <<box, events>>
server   == <<sens, mismatch>>
command  == <<device, level, levels, unsent>>
vars == <<hardware, server, cal, shown, stream, announce, at, command, unheard, used>>

View(d) == [level |-> sens[d], mismatch |-> mismatch[d]]

Init ==
  /\ box \in [Boxes -> Sensitivities]
  /\ sens = [d \in Devices |-> box[BoxOf[d]]]
  /\ mismatch = [d \in Devices |-> FALSE]
  /\ cal = sens
  /\ shown = [d \in Devices |-> View(d)]
  /\ events = [d \in Devices |-> <<>>]
  /\ stream = [d \in Devices |-> TRUE]
  /\ announce = [d \in Devices |-> NoLevel]
  /\ at = [s \in Sessions |-> "idle"]
  /\ device = [s \in Sessions |-> NoDevice]
  /\ level = [s \in Sessions |-> NoLevel]
  /\ levels = [s \in Sessions |-> sens]
  /\ unsent = [s \in Sessions |-> {}]
  /\ unheard = {}
  /\ used = [commands |-> 0, external |-> 0, faults |-> 0, aborts |-> 0, drops |-> 0,
            overlaps |-> 0]

Goto(s, label) == at' = [at EXCEPT ![s] = label]

Use(what, max) == used[what] < max /\ used' = [used EXCEPT ![what] = @ + 1]
Fault == Use("faults", MaxFaults)

-----------------------------------------------------------------------------
(* The box: external, as fe_events.rs and hardware.rs rely on it *)

\* The box streams its settings to every connected listener.
Stream(b, l) ==
  events' = [d \in Devices |-> IF BoxOf[d] = b /\ stream[d] THEN Append(events[d], l)
                                                           ELSE events[d]]

BoxTakes(b, l) ==
  /\ box' = [box EXCEPT ![b] = l]
  /\ IF l = box[b] THEN UNCHANGED events ELSE Stream(b, l)

\* Front panel, web page: the integrator or (l = box[b]) another setting.
External(b, l) ==
  /\ Use("external", MaxExternal)
  /\ box' = [box EXCEPT ![b] = l]
  /\ Stream(b, l)
  /\ UNCHANGED <<server, cal, shown, stream, announce, at, command, unheard>>

-----------------------------------------------------------------------------
(* fe_events.rs: one listener per device with an address *)

\* Faulty: any level the box reports is taken.
HandleAnyLevel(d) ==
  /\ events[d] # <<>> /\ announce[d] = NoLevel
  /\ events' = [events EXCEPT ![d] = Tail(@)]
  /\ LET l == Head(events[d]) IN
     IF l # sens[d]
     THEN /\ sens' = [sens EXCEPT ![d] = l]
          /\ mismatch' = [mismatch EXCEPT ![d] = TRUE]
          /\ announce' = [announce EXCEPT ![d] = l]
     ELSE UNCHANGED <<server, announce>>
  /\ UNCHANGED <<box, cal, shown, stream, at, command, used, unheard>>

\* Faulty: the level is taken and not flagged.
HandleUnflagged(d) ==
  /\ events[d] # <<>> /\ announce[d] = NoLevel
  /\ events' = [events EXCEPT ![d] = Tail(@)]
  /\ LET l == Head(events[d]) IN
     IF l \in Sensitivities \ {sens[d]}
     THEN sens' = [sens EXCEPT ![d] = l] /\ announce' = [announce EXCEPT ![d] = l]
     ELSE UNCHANGED <<sens, announce>>
  /\ UNCHANGED <<box, mismatch, cal, shown, stream, at, command, used, unheard>>

\* Faulty: a device that is flagged already is left alone.
HandleOnce(d) ==
  /\ events[d] # <<>> /\ announce[d] = NoLevel
  /\ events' = [events EXCEPT ![d] = Tail(@)]
  /\ LET l == Head(events[d]) IN
     IF l \in Sensitivities \ {sens[d]} /\ ~mismatch[d]
     THEN /\ sens' = [sens EXCEPT ![d] = l]
          /\ mismatch' = [mismatch EXCEPT ![d] = TRUE]
          /\ announce' = [announce EXCEPT ![d] = l]
     ELSE UNCHANGED <<server, announce>>
  /\ UNCHANGED <<box, cal, shown, stream, at, command, used, unheard>>

\* handle_settings, under the write lock.  A level the device does not offer
\* is ignored.
Handle(d) ==
  /\ events[d] # <<>> /\ announce[d] = NoLevel
  /\ events' = [events EXCEPT ![d] = Tail(@)]
  /\ LET l == Head(events[d]) IN
     IF l \in Sensitivities \ {sens[d]}
     THEN /\ sens' = [sens EXCEPT ![d] = l]
          /\ mismatch' = [mismatch EXCEPT ![d] = TRUE]
          /\ announce' = [announce EXCEPT ![d] = l]
     ELSE UNCHANGED <<server, announce>>
  /\ UNCHANGED <<box, cal, shown, stream, at, command, used, unheard>>

\* Faulty: the operators are warned, the clients' state is not updated.
AnnounceNothing(d) ==
  /\ announce[d] # NoLevel
  /\ announce' = [announce EXCEPT ![d] = NoLevel]
  /\ UNCHANGED <<hardware, server, cal, shown, stream, at, command, used, unheard>>

\* handle_settings, after the lock: StateUpdate and a warning.
Announce(d) ==
  /\ announce[d] # NoLevel
  /\ shown' = [shown EXCEPT ![d] = [level |-> announce[d], mismatch |-> TRUE]]
  /\ announce' = [announce EXCEPT ![d] = NoLevel]
  /\ UNCHANGED <<hardware, server, cal, stream, at, command, used, unheard>>

\* The stream ends; what it still carried is lost.
Disconnect(d) ==
  /\ stream[d] /\ announce[d] = NoLevel
  /\ Use("drops", MaxDrops)
  /\ stream' = [stream EXCEPT ![d] = FALSE]
  /\ events' = [events EXCEPT ![d] = <<>>]
  /\ UNCHANGED <<box, server, cal, shown, announce, at, command, unheard>>

\* listen, after the back-off.  The box sends no snapshot on connect.
Reconnect(d) ==
  /\ ~stream[d]
  /\ stream' = [stream EXCEPT ![d] = TRUE]
  /\ UNCHANGED <<hardware, server, cal, shown, announce, at, command, used, unheard>>

-----------------------------------------------------------------------------
(* handle_set_sensitivity.  Requests it refuses (an unknown device, an ICT,  *)
(* an index out of range) change nothing.                                    *)

Busy(s) == at[s] # "idle"

Start(s) ==
  /\ ~Busy(s)
  /\ used.commands < MaxCommands
  /\ used' = [used EXCEPT !.commands = @ + 1,
                          !.overlaps = IF \E x \in Sessions : Busy(x) THEN @ + 1 ELSE @]

\* Faulty: the level is recorded before the box is asked.
RecordFirst(s, d, l) ==
  /\ Start(s)
  /\ device' = [device EXCEPT ![s] = d]
  /\ level' = [level EXCEPT ![s] = l]
  /\ sens' = [sens EXCEPT ![d] = l]
  /\ Goto(s, "post")
  /\ UNCHANGED <<hardware, mismatch, cal, shown, stream, announce, levels, unsent, unheard>>

SetSensitivity(s, d, l) ==
  /\ Start(s)
  /\ device' = [device EXCEPT ![s] = d]
  /\ level' = [level EXCEPT ![s] = l]
  /\ Goto(s, "post")
  /\ UNCHANGED <<hardware, server, cal, shown, stream, announce, levels, unsent, unheard>>

\* hardware::set_sensitivity answers Ok: the box has the level, or it was sent a
\* legacy line that it did not take.
Post(s) ==
  /\ at[s] = "post"
  /\ \/ BoxTakes(BoxOf[device[s]], level[s]) /\ UNCHANGED unheard
     \/ UNCHANGED hardware /\ unheard' = unheard \cup {device[s]}
  /\ Goto(s, "record")
  /\ UNCHANGED <<server, cal, shown, stream, announce, command, used>>

\* The error is notified and the command ends; the box may have acted on it.
PostFails(s) ==
  /\ at[s] = "post"
  /\ Fault
  /\ BoxTakes(BoxOf[device[s]], level[s]) \/ UNCHANGED hardware
  /\ Goto(s, "idle")
  /\ UNCHANGED <<server, cal, shown, stream, announce, command, unheard>>

Record(s) ==
  LET d == device[s] IN
  /\ at[s] = "record"
  /\ sens' = [sens EXCEPT ![d] = level[s]]
  /\ mismatch' = [mismatch EXCEPT ![d] = FALSE]
  /\ unheard' = IF box[BoxOf[d]] = level[s] THEN unheard \ {d} ELSE unheard
  /\ Goto(s, IF d \in DQs THEN "tell" ELSE "corrA")
  /\ UNCHANGED <<hardware, cal, shown, stream, announce, command, used>>

\* A caput of device d's factor for level l; a failure is only logged, and the
\* write may have landed.
Caput(d, l) ==
  \/ cal' = [cal EXCEPT ![d] = l] /\ UNCHANGED used
  \/ Fault /\ (cal' = [cal EXCEPT ![d] = l] \/ UNCHANGED cal)

\* Faulty: a WCM's own factor is skipped.
CaputOnlyDQcal(s) ==
  /\ at[s] = "corrA"
  /\ Goto(s, IF CompanionOf[device[s]] = NoDevice THEN "tell" ELSE "DQcal")
  /\ UNCHANGED <<hardware, server, cal, shown, stream, announce, command, used, unheard>>

CaputCorrA(s) ==
  LET d == device[s] IN
  /\ at[s] = "corrA"
  /\ Caput(d, level[s])
  /\ Goto(s, IF CompanionOf[d] = NoDevice THEN "tell" ELSE "DQcal")
  /\ UNCHANGED <<hardware, server, shown, stream, announce, command, unheard>>

CaputDQcal(s) ==
  /\ at[s] = "DQcal"
  /\ Caput(CompanionOf[device[s]], level[s])
  /\ Goto(s, "tell")
  /\ UNCHANGED <<hardware, server, shown, stream, announce, command, unheard>>

\* StateUpdate with calibration_mismatch false, and the success message.
Tell(s) ==
  /\ at[s] = "tell"
  /\ shown' = [shown EXCEPT ![device[s]] = [level |-> level[s], mismatch |-> FALSE]]
  /\ Goto(s, "idle")
  /\ UNCHANGED <<hardware, server, cal, stream, announce, command, used, unheard>>

-----------------------------------------------------------------------------
(* handle_clear_calibration: push_all_front_ends skips the :DQ devices *)

ClearCalibration(s) ==
  /\ Start(s)
  /\ levels' = [levels EXCEPT ![s] = sens]
  /\ unsent' = [unsent EXCEPT ![s] = Devices \ DQs]
  /\ Goto(s, "push")
  /\ UNCHANGED <<hardware, server, cal, shown, stream, announce, device, level, unheard>>

\* hardware::clear_calibration for one device: Ok, with the level taken or in a
\* legacy line that is not; an error is notified.
Push(s, d) ==
  /\ at[s] = "push" /\ d \in unsent[s]
  /\ \/ (BoxTakes(BoxOf[d], levels[s][d]) \/ UNCHANGED hardware) /\ UNCHANGED used
     \/ Fault /\ (BoxTakes(BoxOf[d], levels[s][d]) \/ UNCHANGED hardware)
  /\ unsent' = [unsent EXCEPT ![s] = @ \ {d}]
  /\ Goto(s, IF unsent'[s] = {} THEN "idle" ELSE "push")
  /\ UNCHANGED <<server, cal, shown, stream, announce, device, level, levels, unheard>>

-----------------------------------------------------------------------------
(* handle_restore_defaults: the factor of the level read at the start *)

\* Faulty: one factor whatever the sensitivity.
RestoreOneFactor(s, d) ==
  /\ Start(s)
  /\ device' = [device EXCEPT ![s] = d]
  /\ level' = [level EXCEPT ![s] = CHOOSE l \in Sensitivities : TRUE]
  /\ Goto(s, "restore")
  /\ UNCHANGED <<hardware, server, cal, shown, stream, announce, levels, unsent, unheard>>

RestoreDefaults(s, d) ==
  /\ Start(s)
  /\ device' = [device EXCEPT ![s] = d]
  /\ level' = [level EXCEPT ![s] = sens[d]]
  /\ Goto(s, "restore")
  /\ UNCHANGED <<hardware, server, cal, shown, stream, announce, levels, unsent, unheard>>

Restore(s) ==
  /\ at[s] = "restore"
  /\ Caput(device[s], level[s])
  /\ Goto(s, "idle")
  /\ UNCHANGED <<hardware, server, shown, stream, announce, command, unheard>>

-----------------------------------------------------------------------------
(* ws.rs: when a client goes away its receive task is aborted at whatever    *)
(* await its command has reached.  A call in flight may have landed.         *)

Abort(s) ==
  LET d == device[s] IN
  /\ Busy(s) /\ at[s] # "tell"
  /\ Use("aborts", MaxAborts)
  /\ Goto(s, "idle")
  /\ \/ UNCHANGED <<hardware, cal>>
     \/ at[s] = "post" /\ BoxTakes(BoxOf[d], level[s]) /\ UNCHANGED cal
     \/ at[s] \in {"corrA", "restore"} /\ cal' = [cal EXCEPT ![d] = level[s]]
                                       /\ UNCHANGED hardware
     \/ at[s] = "DQcal" /\ cal' = [cal EXCEPT ![CompanionOf[d]] = level[s]]
                        /\ UNCHANGED hardware
     \/ at[s] = "push" /\ (\E x \in unsent[s] : BoxTakes(BoxOf[x], levels[s][x]))
                       /\ UNCHANGED cal
  /\ UNCHANGED <<server, shown, stream, announce, command, unheard>>

-----------------------------------------------------------------------------
Listener(d) == Handle(d) \/ Announce(d)

Command(s) ==
  \/ Post(s) \/ PostFails(s) \/ Record(s) \/ CaputCorrA(s) \/ CaputDQcal(s) \/ Tell(s)
  \/ Restore(s)
  \/ \E d \in Devices : Push(s, d)

Next ==
  \/ \E b \in Boxes, l \in Levels : External(b, l)
  \/ \E d \in Devices : Listener(d) \/ Disconnect(d) \/ Reconnect(d)
  \/ \E s \in Sessions :
       \/ \E d \in Commanded, l \in Sensitivities : SetSensitivity(s, d, l)
       \/ ClearCalibration(s)
       \/ \E d \in Devices : RestoreDefaults(s, d)
       \/ Command(s)
       \/ Abort(s)

Spec == Init /\ [][Next]_vars

\* Each listener is a task of its own that the runtime keeps polling; nothing
\* obliges an operator, a front panel or a command to move.
FairSpec == Spec /\ \A d \in Devices : WF_vars(Listener(d))

-----------------------------------------------------------------------------
(* Properties *)

TypeOK ==
  /\ box \in [Boxes -> Levels]
  /\ sens \in [Devices -> Sensitivities]
  /\ mismatch \in [Devices -> BOOLEAN]
  /\ cal \in [Devices -> Sensitivities]
  /\ shown \in [Devices -> [level : Sensitivities, mismatch : BOOLEAN]]
  /\ events \in [Devices -> Seq(Levels)]
  /\ stream \in [Devices -> BOOLEAN]
  /\ announce \in [Devices -> Sensitivities \cup {NoLevel}]
  /\ at \in [Sessions -> {"idle", "post", "record", "corrA", "DQcal", "tell", "push", "restore"}]
  /\ device \in [Sessions -> Devices \cup {NoDevice}]
  /\ level \in [Sessions -> Sensitivities \cup {NoLevel}]
  /\ levels \in [Sessions -> [Devices -> Sensitivities]]
  /\ unsent \in [Sessions -> SUBSET Devices]
  /\ unheard \subseteq Devices
  /\ used \in [{"commands", "external", "faults", "aborts", "drops", "overlaps"} -> Nat]

\* No frame waits for the listener of d.
Drained(d) == events[d] = <<>> /\ announce[d] = NoLevel

\* Nothing is under way: every command has ended and every frame is handled.
AtRest == (\A s \in Sessions : ~Busy(s)) /\ \A d \in Devices : Drained(d)

\* What has not happened so far.
Without(things) == \A t \in things : used[t] = 0

\* A device that is never commanded (a :DQ device) only follows its box: while
\* no stream drops, once its frames are handled the clients have what the server
\* has, and that is the box's level if the device offers it, whatever races the
\* commands of its WCM run.
FollowersAreCurrent ==
  Without({"drops"}) =>
    \A d \in Devices \ Commanded :
      Drained(d) => /\ shown[d] = View(d)
                    /\ box[BoxOf[d]] \in Sensitivities => sens[d] = box[BoxOf[d]]

\* The last that a command recorded or wrote for d, or for the WCM that d reads
\* along with, may be a level its box never heard of.
Misled(d) == \E e \in unheard : d \in {e, CompanionOf[e]}

\* At rest the server's level is the level of the box, whichever writes failed
\* and whoever left, if the commands ran one at a time and nobody else touched
\* the box; but for a device whose own box did not take what hardware.rs gave an
\* Ok for, until a command that the box does take.
RestingStateIsTrue ==
  AtRest /\ Without({"overlaps", "external", "drops"}) =>
    \A d \in Devices \ unheard : sens[d] = box[BoxOf[d]]

\* A :DQ device that is commanded itself gets no factor for it: the properties about
\* factors leave it out.
Calibratable == {d \in Devices : d \in DQs => d \notin Commanded}

\* No command to another device moves the box of d.
OwnsItsBox(d) == \A e \in Devices \ {d} : BoxOf[e] = BoxOf[d] => e \in DQs \ Commanded

\* At rest a device reads with the calibration factor of its box's level, or
\* its row is flagged, if commands ran one at a time to their end without a
\* failing write and nobody else touched the box: the readings go quietly wrong
\* only over a legacy line that the box did not take.  A lost stream does not
\* matter to a device that has a box of its own.
CalibratedOrFlagged ==
  AtRest /\ Without({"overlaps", "external", "faults", "aborts"}) =>
    \A d \in Calibratable :
      OwnsItsBox(d) \/ Without({"drops"}) => cal[d] = box[BoxOf[d]] \/ mismatch[d] \/ Misled(d)

\* At rest the server never holds a level whose factor has not been written
\* without flagging it, whatever the front panel did in the middle of a command;
\* for a device that is no :DQ device, whatever its stream lost and its box did
\* not take too.
StateMatchesFactors ==
  AtRest /\ Without({"overlaps", "faults", "aborts"}) =>
    \A d \in Calibratable :
      d \notin DQs \/ (Without({"drops"}) /\ ~Misled(d)) => cal[d] = sens[d] \/ mismatch[d]

\* "Only a change we didn't make produces a mismatch".
OwnWritesLeaveNoFlag ==
  AtRest /\ Without({"external"}) => \A d \in Devices : ~mismatch[d]

\* A level the box settles on reaches a device that only follows it.
SettledLevelIsFollowed ==
  \A d \in Devices \ Commanded, l \in Sensitivities :
    [](used.drops = 0) /\ <>[](box[BoxOf[d]] = l) => <>[](shown[d].level = l)
=============================================================================
