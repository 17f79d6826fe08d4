# Charge Overview: a TLA+ model

TLA+ modules, TLC configurations and TLAPS proofs for the Charge Overview
program: a Rust server that reads the beam charge monitors of an accelerator
over EPICS, drives their front-end boxes, and a browser front end (egui, wasm)
that any number of operators open at the same time.

Everything here is written from the source under `crates/`; line references are
in `PROJECT.json` (`map`). The Operator's Guide and the comments of the code are
quoted only where the code disagrees with them.

## 1. The system

### Parts, state and operations

| Component | State | Operations |
|---|---|---|
| **Server state** (`state.rs`) | one `RwLock<InnerState>`: devices (rolling buffer, `current_sensitivity`, `calibration_mismatch`, `connected`, `fe_alive`, `peak_misaligned`), `buffer_size`, `device_order`, `reset_progress`, `auto_gain` | taken and released by every task below; never held over network I/O |
| **Rolling buffer** (`state.rs`) | samples, capacity, running sums, cached extrema with a dirty flag, `total_pushed` | `push`, `set_capacity`, `clear`, `statistics` |
| **Command executor** (`commands.rs`) | the locals of each command between two awaits | one handler per `ClientMessage`; the commands of one session run one after the other, sessions run side by side; `ResetFrontEnds` and auto gain are tasks of their own |
| **Reset Front Ends** (`commands.rs`) | `RESET_IN_PROGRESS`, the countdown | cut the EVR triggers, wait 65 s, restore with one retry, resend every level |
| **Auto gain** (`commands.rs`) | last switch of each device | once per second: mean of the last samples against the saturation charge, one level less sensitive, cooldown |
| **Zero WCM, Sweep timing, Restore defaults** (`commands.rs`) | none beyond locals | read-modify-write sequences over PVs |
| **Front-end boxes** (`hardware.rs`) | external: integrator, input, name | HTTP `POST` with time-out, legacy TCP fallback |
| **Event-stream listeners** (`fe_events.rs`) | a stream per device | follow the box's settings, reconcile `current_sensitivity`, warn, reconnect with back-off |
| **EPICS monitors** (`epics.rs`) | a subscription per device, an unbounded update queue to one drain | monitor with a doubling retry delay; `caput`/`caget` with time-outs |
| **Chart broadcaster** (`ws.rs`) | `prev_cursors` | ten times a second, the samples since the last tick as a `ChartDelta` |
| **WebSocket sessions** (`ws.rs`) | a broadcast receiver, the times of recent commands | handshake (`Init`, `ChartData`), forwarding, rate limit, abort on disconnect |
| **Peak check** (`peak_check.rs`) | `peak_misaligned` | per device, compares waveform peak and window |
| **Watchdog, ping, persistence** (`main.rs`) | `connected`, `fe_alive`, `state.json` | periodic tasks |
| **Audit log** (`audit.rs`) | a log file with rotation | `log` from every session |
| **Browser** (`frontend/`) | `PointBuffer` per device (`shared/chart.rs`), mirrors of the server's settings, a socket with reconnect | `process_messages`, controls, drawing |

Components interact in three ways: through the shared state under its lock,
through one `tokio::sync::broadcast` channel that carries every server message
to every client (a client that falls 2048 messages behind loses the oldest), and
through external equipment that answers late, not at all, or after its caller
has given up.

### What is hard

* **Reading under the lock, acting after it.** Every handler copies what it needs,
  releases the lock and then does I/O or broadcasts. Chart snapshots and deltas,
  `StateUpdate`s and size changes may be sent in another order than their
  contents were read.
* **Four copies of one sensitivity.** The box, the server, the calibration factor
  in EPICS and the clients' view are moved by commands, echoes of commands, front
  panels, resends, lost streams and clients that disconnect half-way.
* **Failing writes that landed, and successes that did not.** `caput` and the HTTP
  client give up after a time-out without knowing what became of the request. A box that
  speaks HTTP but misses the 500 ms of the probe (`detect_api`), as one that is just
  rebooting does, is sent the legacy line, which it refuses and nobody acknowledges; the
  caller is told `Ok` (`hardware.rs:42-53`, `100-103`, `122-125`).
* **Long sequences on the machine.** A reset holds the trigger of the accelerator's
  charge monitors off for 65 seconds, during which the server may die, another
  operator may click again, and any restoring write may fail.
* **Incremental bookkeeping.** Statistics are never recomputed from the samples.
* **Decisions that age.** Auto gain decides for all devices and then switches them one
  by one over slow HTTP calls; Zero WCM counts pushes while readings of before its own
  zeroing may still be queued; the peak check judges a window that Sweep Timing is
  rewriting; `ensure_device_name` writes back settings it read earlier.
* **Endless tasks with memory.** A monitor that restarts, a queue that still holds its
  readings, a watchdog that clears what the queue sets again; a page that reconnects
  over sockets which close late or die in silence.
* **Files.** The audit log is rotated rename by rename by writers that decided outside
  the lock; `state.json` is written beside the original and renamed, while the server
  may die and the machine lose its power.

## 2. Modules

| Module | Models | Extended by |
|---|---|---|
| `FrontEndReset` | `spawn_reset`, `reset_front_ends`, `push_all_front_ends` after it, a server restart, boxes that reboot without a trigger | `MCFrontEndReset`, `FrontEndReset_proofs` |
| `Sensitivity` | `SetSensitivity`, `ClearCalibration`, the factor of `RestoreDefaults`, the event-stream listeners, the boxes, `handle_ws`'s abort | `MCSensitivity`, `Sensitivity_proofs` |
| `ChartStream` | `spawn_chart_broadcaster`, `ClearBuffer`, `SetBufferSize`, `broadcast_chart_reset`, the handshake, the broadcast channel, `PointBuffer` | `MCChartStream`, `ChartStream_proofs` |
| `RollingBuffer` | `push`, `evict_front`, `set_capacity`, `clear`, `statistics` with NaN | `MCRollingBuffer`, `MCReadings`, `RollingBuffer_proofs` |
| `EpicsLink` | `persistent_monitor`, `run_monitor`, the drain and the watchdog of `main`, the E dot of a page | `MCEpicsLink`, `MCReadings`, `Readings_proofs` |
| `FrontEndPing` | the ping rounds of `main`, `fe_alive` | `MCReadings`, `Readings_proofs` |
| `AutoGain` | `spawn_auto_gain` and the switch it makes | `MCReadings`, `Commands_proofs` |
| `ZeroWcm` | `handle_zero_wcm`, `sample_push_count`, `mean_of_last`, with `ClearBuffer`, `RestoreDefaults`, a client that leaves | `MCReadings`, `Commands_proofs` |
| `PeakWindow` | `handle_sweep_timing`, `compute_windows`, `peak_check_loop`, with `RestoreDefaults` | `MCReadings`, `Commands_proofs` |
| `RateLimiter` | the sliding window of the receive task of `handle_ws` | `MCSessions`, `Sessions_proofs` |
| `AuditLog` | `log`, `maybe_rotate`, `open` | `MCSessions`, `Files_proofs` |
| `AuditTrail` | abstract: what the audit log promises | (instantiated by `AuditLog`) |
| `Persistence` | `PersistedState::save` and `load`, the periodic save, `reconcile_device_order` | `MCSessions`, `Files_proofs` |
| `SharedSettings` | `SetBufferSize` and `SetAutoGain` from the control to every page | `MCSessions`, `Sessions_proofs` |
| `FrontEndBox` | `detect_api`, `set_sensitivity`, `clear_calibration`, `ensure_device_name`, the legacy blob | `MCSessions`, `Sessions_proofs` |
| `PageLink` | `WsClient` | `MCSessions`, `Sessions_proofs` |

One action stands for the code between two points at which another task can act:
an `.await`, a lock that is taken or released, a message handed to the channel.
A task's program counter (`pc`, `at`, `tick`) names the point it has reached and
its locals are variables indexed by the task.

`MCReadings` and `MCSessions` are small instances of several components at once: what
takes, keeps and judges readings, and what surrounds the sessions. The components
of each share no variable and no constant that couples them, so one of them
(`active`, chosen in the initial state) moves in a behaviour and the others stay
as they are. A property of one component holds in every behaviour of that
component iff it holds in every behaviour in which that component is active; where
it is not active, the property is about a state that never changes. That a composed
behaviour is one of each component is a theorem (`ReadingsMoveAlone`, `SessionsMoveAlone`). The fairness of
a component is stated for its steps while it is active (`Turn`). Properties that
belong together are conjoined there (`DeadHardwareIsNoticed`, `HardwareComesBack`, the
type invariants).

Definitions whose comment begins with *Faulty* are not part of any
specification. Each is a definition of the model with a bug of the kind that
code could have (a dropped test, a swapped order, a missing message), and with it
in place TLC finds a property violated: they show that the properties bite.

### FrontEndReset

`Resets` are the requests that ever arrive; each becomes a task or is refused by
the `swap` of `RESET_IN_PROGRESS`. `resetTrigger` (chosen freely in `Init`) wires
devices to EVR outputs, so one instance covers every wiring, including devices
without a `reset_trigger`. `todo` and `unsent` are what the loops of a task have
not reached; the code walks its PVs in name order and its devices in
configuration order, the model in any. A failed write goes through
`Fault`, which counts it, and either took effect or did not. `named` is a history
of what the error notifications named and no later success has overtaken: it is
how the properties say "the operator was told". A `Push` that ends with `Ok` may have
moved the box or left it (the legacy line to an HTTP box): `unheard` is a history of the
devices whose last `Ok` was of the second kind. The code cannot know them, so the
properties about boxes except them. `Restart` loses the tasks and
everything transient, not the plant. `currentSensitivity` does not change during
a reset here: commands that race a reset are left to a later composition with
`Sensitivity`.

### Sensitivity

`box`, `sens`, `cal` and `shown` are the four places that hold a level.
`events[d]` are the frames a device's listener has not handled; a box streams a
change to every connected listener, and a `:DQ` device listens to its WCM's box.
`at[s]` walks through `handle_set_sensitivity` (`post`, `record`, `corrA`,
`DQcal`, `tell`), `handle_clear_calibration` (`push`) or
`handle_restore_defaults` (`restore`). A calibration factor is named by the level
it belongs to. The program is taken to start with the four places in agreement.
A `:DQ` device has no controls according to the guide, but a page offers its selector
(`controls.rs:125`) and a command to it clears its flag and writes no factor: such a
device is outside `Calibratable`, which the properties about factors speak of. `OwnsItsBox(d)` says
that no command to another device moves the box of `d`.
`Post` and `Push` may end with `Ok` and leave the box as it was, as in `FrontEndReset`;
`unheard` keeps the devices for which a level was then recorded that the box never heard
of, until a command that the box does take, and `Misled(d)` says that the device of the
box or its `:DQ` companion is among them. The line is taken to do nothing: one that
arrives late, at a box of the old firmware, is in `FrontEndBox` only.
`used` counts faults, aborts, external changes and dropped streams against their
bounds, and records whether commands overlapped: `Without({...})` conditions a
property on what has not happened.

### ChartStream

A sample is its rank, so a run of samples is an interval and a statistic is named
by the interval it was computed from. The channel is a queue per subscriber that
drops its oldest message when it is full. One device is modelled: the charts of
two devices share only the messages that carry them, and `ClearAnother` gives the
effect of a reset for another device. `Settled(c)` is the state in which nothing
that concerns client `c` is under way; the properties about agreement are required there.

### RollingBuffer

Values are integers and NaN. Sums of integers are exact, so the model says
nothing about the rounding of `f64`; it says everything about which samples are
in the sums and when the extrema are recomputed. The scan that `StatisticsAreTrue`
compares with is `Total`, written as a function of how many samples have been added, so
that it can be reasoned about.

### EpicsLink and FrontEndPing

Only the age of a reading is kept, and every age the watchdog calls stale is one age.
`deaf` is a circuit that died without an error: the library never tells the monitor, so
it stays in `recv`. `MarkDisconnected` and the drain write the same flag from two
tasks, and a reading that is still queued sets it again. `eDots` is a page that learns
`connected` from `Init` and from no other message. A ping round of `FrontEndPing` asks
all boxes side by side and records what has answered when all have come back.

### AutoGain

A tick is a second. The mean of the last ten readings is the charge once all of them
were taken at the present level, and any charge before (`fresh` counts up to
`Refresh`). `todo` is the list of candidates of a round, which `Switch`, `Post`,
`Factor` work off one device at a time while `GainTick`, `Operator` and `Link` go on;
`due` are the ticks of the interval that wait, for tokio makes up for ticks it missed.
`disturbed` is a history of what the code does not guard against. A switch, or an operator's
command, may be one the box did not hear of (`unheard`): the mean is then any charge, since
readings of the old gain are scaled with the factor of the new one, and never counts as fresh.

### ZeroWcm

A reading is only whether it was taken at `corrB = 0`, an offset whether all it averages
were. Two sessions go through the steps of `handle_zero_wcm` side by side; readings are
on their way (`inFlight`) when one of them reads its baseline. `mixed` and `excused` are
histories of the two cases the code does not tell apart and of what was announced.

### PeakWindow

The peak lies at a multiple of half a sample, so the roundings of `compute_windows`
matter. Sweep Timing writes its four PVs one by one, in its order, while `RestoreDefaults`
and the checker of the same device go on. The base window that `compute_windows` writes is
narrower than the configured one by the width of the peak window (`commands.rs:413`,
both its bounds are laid from one anchor); nothing in the repository says what
it should be, so no property does.

### RateLimiter

The deque `command_times` is the set of the numbers of the messages whose times it
holds, `Retained` what `retain` leaves of it. A message that does not parse counts too.

### AuditLog and AuditTrail

Present files and their lines, the lock, and where each writer is: it writes a line
under the lock, looks at the size of the path without it (another writer may just
have renamed the file) and takes the lock again to rotate, one rename a step. The
server may die between two renames. `AuditTrail` knows lines and no files: one is added
at the end, some are forgotten from the front. `KeepsASuffix` is the refinement, with
`logged <- lines` and `kept <- Readable`, the union of the files. A rename of a file
that is there is taken to succeed. The code ignores one that fails (`let _`, `audit.rs:82`
and `85`) and goes on, so that the next rename replaces a file whose lines have not moved:
the refinement says nothing of that case, in which the log would lose newer lines before older ones.

### Persistence

`settings` is what `InnerState` holds, `past` all it ever was. The periodic task takes a
snapshot under the lock and writes and renames without it; a rename that fails is ignored.
A server that dies loses what was not saved. `save` flushes neither the file nor the
directory, so a loss of power, while the server is up or down, may undo the renames since
the last flush and bring any of the files before them back (`behind`), or leave a renamed
file without its contents (`Spoilt`); `Sync` is the system's own flush. `saved` is the place
in `past` of what the file holds, `flushed` that of what a loss of power leaves at least.
Every start may bring another configuration. `disk.kind` tells a file that is not there, one
that does not parse and one with settings apart. `Load` sets the second aside (`Garbage`
becomes `NoState`, unless that rename fails), and falls back on the defaults for the first
two and, as the code does on any error of the read, for a file that is there with good
settings in it (`unread`): it stays, and the next save replaces it.

### SharedSettings

A command goes from a control (`EditSize` shows what was typed at once) through the rate
limit to `Write`, `Announce` and the bounded queue each session forwards to its page. The two
settings differ in that the size is clamped and the page shows it before the server has it.

### FrontEndBox

The calls of `hardware.rs` as sequences of requests, each of which may be lost, fail, or
be carried out with its answer lost. `detect_api` may take an HTTP box for a legacy one
when the box misses 500 ms. `claim` is what the last call that returned `Ok` promised.

### PageLink

`WsClient` polled once per frame, over a socket that is returned before it is open and
reports by events. `connect` sets `connected` at once (`ws_client.rs:37`), so the
back-off applies only to a connect that fails in the call itself; a server that is
down is tried again as fast as its refusals come back. No text of the repository
promises otherwise, so this is a remark and not a finding.

## 3. Runs

Two actors of each kind are enough for every race of two steps, and none of the
handlers treats a third differently from a second. Bounds on commands, faults and
samples are a state constraint in the guards of the actions that consume them.

| Run | Bounds | Shows |
|---|---|---|
| `FrontEndReset_resets` | 2 requests, 2 EVR outputs, 2 boxes, wait of 2, 2 failing writes, boxes that do not hear, 1 restart; all wirings; fair | all safety and action properties of a reset, and that it ends |
| `Sensitivity_sessions` | WCM with its `:DQ`, 2 sessions, 2 commands, 1 external change (also to a level the devices do not offer), misleading `Ok`s, 1 fault, 1 abort, 1 lost stream | followers are right under any race; commands one at a time leave the true level |
| `Sensitivity_operator` | the same with 1 session, 3 commands, a level that the device does not offer; fair | factors match or the row is flagged; a settled level reaches the clients |
| `ChartStream_resets` | channel of 3, sizes 1 and 3, 2 samples, 2 sessions, 2 commands, 1 abort, a browser that joins twice | charts well formed under loss and reordering; size and clearing agree |
| `ChartStream_browsers` | 2 browsers (one stays), channel of 9, 3 samples, 1 command; fair | joining misses and repeats nothing; every sample arrives |
| `Readings` | `EpicsLink` with a channel, a page, staleness after 3 ticks, retry 1 to 4, 3 queued readings; 2 pinged boxes; samples -2..2 and NaN in buffers of 1, 2, 4; a meter of 3 levels, cooldown 3, window 2, 1 operator, 1 failing write; 2 zeroings of 2 samples in a buffer of 3 with 1 fault; 1 sweep, 1 restore, 1 fault, peaks on and off a whole sample; fair | readings arrive in order and statistics are those of a scan; hardware that is gone or back is noticed; auto gain relieves a charge and has reasons; offsets and windows are true |
| `Sessions` | 2 messages in 3 ticks over 7 ticks; 2 writers, 4 log files, 8 lines, 1 crash; 2 device names of which any may be configured, 1 change, 3 starts; 2 pages, queue of 1, 4 edits, sizes typed below and above the limits; 2 callers of a box of 3 levels; reconnect after 2 to 3 polls; fair page | the rate holds; the log loses lines from its front only; restored settings are real; no configured device is hidden; pages agree with the server; `Ok` means applied; a page comes back |

Why these bounds: two failing writes let a restore and its retry fail together, or a
cut and a push; an `Ok` that misleads is not counted; a wait of two seconds has a first, a last and an in-between
state of the countdown; sizes 1 and 3 with two samples fill, overflow, shrink and
grow a buffer, and leave room for a point drawn twice; a channel of three is overrun by two resets and a delta, one of
nine never is with the messages the bounds allow. The real values (65 s, 2048
messages, buffers of 10 to 10000 samples) enter no test of the code but the ones
modelled. In `Readings` the age of a reading passes the watchdog's limit with
readings still queued, a meter needs two switches to be relieved, a cooldown is longer
than the window and shorter than a slow switch, and the buffer of a zeroing is
larger than its samples and is cleared. In `Sessions` eight lines rotate every file
out, also twice in a row; three starts have a crash, a loss of power and two
changes of configuration between them, and room for a file that could not be read and was
then replaced; the settings of a start and a change make two saves that one loss of power can undo; a queue of one overflows with two announcements.
One meter is what TLC can afford; that a switch is justified with several of them, where
one waits for another, is a theorem (`SwitchesAreJustified`).

Deadlock checking is off where the bounds stop the system (no request, sample,
command, line or edit is left). Every component of `Readings` can always move and is checked
for it.

### Properties, in words

* `NeverSilentlyBroken`: until the server is restarted, when no reset runs and no
  error stands, every trigger is on and every box has its level, but for a box that did
  not hear of the last `Ok` given for it.
* `ResetRepairs`: a reset that gets to its end with no error standing has put the
  machine right, also after an earlier one died with its server or was not heard by a
  box; again but for a box that does not hear this one.
* `OneOutputIsSafe`: with one EVR output, as configured today, no trigger stays off
  without an error that names it.
* `ResendAfterTrigger`, `TriggerOffForTheWait`: no box is pushed to before its
  trigger is back; no request moves a trigger during the wait of another.
* `NoStrayCountdown`, `ResetEnds`: the countdown ends with the reset, and a reset
  that has begun ends and frees the button.
* `FollowersAreCurrent`, `SettledLevelIsFollowed`: a device that is never
  commanded has its box's level, and its clients too, once its frames are handled.
* `RestingStateIsTrue`, `CalibratedOrFlagged`, `StateMatchesFactors`: at rest, box
  and server agree; box and factor agree or the row is flagged; server and factor
  agree or the row is flagged. A box that did not hear of a command answered with `Ok` is
  excepted (`unheard`, `Misled`), and in `StateMatchesFactors` only for a `:DQ` device. Each names what else must not have happened: for the factor of
  a device that owns its box a lost stream does no harm, for a `:DQ` device it does.
* `ChartWellFormed`, `InSyncWithoutResets`, `NothingResurrected`, `SizeAgrees`,
  `EverySampleArrives`: what a browser draws.
* `ExtremaAreTrue`, `StatisticsAreTrue`: what the statistics say.
* `ReadingsInOrder`: no reading overtakes an older one of its device, however often the
  monitor restarted while readings were queued.
* `DeadHardwareIsNoticed`, `HardwareComesBack`: a link or a box that is gone for good
  ends up shown so, and one that is back, too; except a circuit that died in silence,
  which nobody subscribes anew.
* `SwitchIsJustified`, `SaturationIsRelieved`: a switch moves one level up on readings of
  the level it leaves; a charge that stays is relieved. `disturbed` excepts what the
  code does not guard against: an operator, readings that stop, a switch the box did not
  hear of, a write as long as the cooldown, a device that waited for another.
* `OffsetIsTrue`, `LeftAtZeroIsTold`: no reading of before the zeroing enters the offset
  (unless zeroings overlap or readings were on their way at the baseline: `mixed`); an offset
  left at 0 was announced, is that of a client that left, or was restored (`excused`).
* `SweepBracketsThePeak`, `VerdictSettles`: the window a whole sweep leaves has the peak in
  it; with beam the verdict shown becomes that of the window there is.
* `NeverOverTheRate`: no more than ten messages in any second, wherever it begins.
* `KeepsASuffix`: the log implements `AuditTrail`.
* `RestoredSettingsAreReal`: a start restores settings that were there once, all of
  one moment, none older than the last save or, after a loss of power, than the last save
  that was flushed; and the defaults only if the file holds no settings (none was ever
  saved or flushed, or a loss of power spoilt it) or they could not be read.
* `NoDeviceIsHidden`: the order a server starts with names every configured device and no
  other, whatever order was saved under whatever configuration.
* `MirrorsAgree`: at rest every page shows the server's settings, except a copy whose message
  was lost or whose setting two sessions changed at the same time (`offTrack`).
* `OkMeansApplied`: a box has what the last successful call promised, if that call ran
  alone, the probe took the box for what it is, and no legacy line is missing.
* `PageReconnects`: a page gets its connection back, unless its socket died in silence.

### Fairness

* `FrontEndReset`: weak fairness of each spawned task. Tokio keeps polling it, and
  every await in it is bounded (a one-second sleep, `WRITE_TIMEOUT`,
  `FRONT_END_HTTP_TIMEOUT`). Nothing makes an operator click.
* `Sensitivity`: weak fairness of each listener, an endless task. No command, box
  or operator is fair.
* `ChartStream`: weak fairness of the broadcaster's interval, of a command that
  only waits for the lock, and of a connected browser that reads. A slow browser
  is covered by the safety properties alone.
* `EpicsLink`: weak fairness of the clock, the drain, the watchdog, and for each channel of
  the steps its monitor can take by itself and of a PV that is there and posts. Nothing
  makes a dead circuit report an error, and no page is fair.
* `FrontEndPing`: weak fairness of the task, whose connects have a time-out.
* `AutoGain`: weak fairness of the clock, of the check and of a round. Each call of a
  switch is bounded by `FRONT_END_HTTP_TIMEOUT` or `WRITE_TIMEOUT`.
* `PeakWindow`: weak fairness of the checker, whose calls have time-outs. No sweep is fair.
* `PageLink`: weak fairness of the poll, which is called once per frame, and of a connect,
  which ends one way or the other. No server is fair.

### Disagreements with the code's own comments

Five runs end in a counterexample on purpose; `PROJECT.json` quotes the lines.

* `FrontEndReset_abort`: an aborted reset ignores whether its restoring writes
  succeed, so with two EVR outputs a trigger can stay off unreported.
* `Sensitivity_dq_echo`: any command on a WCM marks its `:DQ` device as changed from
  outside, for that device has a listener of its own and nobody records its level.
* `ChartStream_overtaken`: a reset snapshot sent after a newer delta rolls a chart
  back, and the sample in between never comes.
* `RollingBuffer_nan`: a NaN leaves the buffer but not the sums.
* `EpicsLink_dots`: the E dot of a page that stays open does not turn red when data
  stop, since the page learns `connected` from `Init` only.

The conditions of the passing properties mark further edges. Leave one out and
TLC shows the behaviour behind it: `Without({"overlaps"})` in `CalibratedOrFlagged`
(two operators' commands reach the box in one order and the factor in the other),
`{"faults"}` and `{"aborts"}` there (a factor write that fails is only logged; a
client that disconnects leaves the gain moved and the factor not), `{"drops"}` in
`RestingStateIsTrue` (changes made while the stream is down are never learnt),
`{"overlaps"}` in `SizeAgrees` and `NothingResurrected` (announcements of two
sessions cross), `Residents # {}` in `InSyncWithoutResets` (a first browser that
joins during a tick that saw none misses its samples), `crashes = 0` in
`NeverSilentlyBroken` (a restart during the wait leaves the triggers off in silence),
`unheard` in `MachineRestored` ("Front ends reset and sensitivities re-applied" is announced
with a box still at FB4, when it missed the probe of the resend) and in `RestingStateIsTrue`, `Misled(d)` in `CalibratedOrFlagged` (a level and a
factor recorded that the box never got, with no flag), and `unread'` in
`RestoredSettingsAreReal` (a passing read error costs all settings).

## 4. Proofs

`tlapm` checks the eight `*_proofs` modules. No theorem bounds the number of
requests, sessions, clients, devices, samples, messages, lines, faults or restarts. The assumptions
are the named `ASSUME`s of each module: that names of different kinds differ, that
the configuration maps devices to what exists, that capacities and waits are
positive, that the bounds are naturals. Some are of a placeholder: `Idle` is not a call,
`Nothing` not a change of a setting, `Unread` not a bound. Three say what the code or its
configuration makes so: a `:DQ` device has the box of its WCM and no companion of its own
(`Sensitivity`), a cooldown is at least as long as it takes to refresh the readings
(`AutoGain`), and the lower bound of a configured peak window is not above its upper one
(`PeakWindow`).

### FrontEndReset_proofs

* `TypeCorrect`. `TypeInv` adds that a running countdown is positive, without
  which `remaining - 1` may leave the naturals.
* `WaitUndisturbed`. Mutual exclusion: `OneReset` says that a running task implies
  the flag and that two running tasks are one. `TaskMoves` (a step of a task moves
  no other) makes it inductive.
* `TroubleIsReported`. `NeverSilentlyBroken` speaks of the end of a reset only, so
  `ResetInv` carries, as `Phase(r)`, what each loop has achieved so far: the triggers
  already visited by the restore are on or named, and so are the boxes already
  pushed to, or they are among `unheard`; a task about to release the flag leaves the machine restored or an
  error standing. `PushKeepsPhase` is the hard step: a push may fall on a box whose
  trigger is off (then an error names the trigger), a success takes back an error
  that named the box, and a success the box did not hear of puts it among `unheard`. `RebootHarmless`: a box reboots only without its trigger, so
  an error already stands.
* `ResendIsLate` and `RepairByReset` are action properties of the same invariant. They
  need no bound on restarts: a restart kills the tasks and with them every phase.
* `CountdownEnds`. `CountInv`: a countdown on display implies a task between its
  first second and `ClearProgress`; with `OneReset`, none runs when the flag is free.
* `OneOutputSafe`. `OneOutputInv`: with one trigger, a failing cut is the first, so
  the abort loop is never entered and the only trigger that can be off is the one
  the error is about to name.

### Sensitivity_proofs

* `TypeCorrect`. `Arguments` says what `device` and `level` are at each point of a
  command; without it no write has a type.
* `FollowersFollow`. `Follows(d)`: the stream is up, the last frame on its way carries
  the level of the box, and when none is on its way the server has that level. It is
  the invariant of a queue between a writer and a reader, and holds however the box
  is moved (`BoxKeepsFollows`) and when a frame is taken (`HandleKeepsFollows`).
  `Shows(d)`: the clients have the server's state, or an announcement of it is due.
  Devices that are commanded are excluded because `Record` writes their level
  behind the queue's back.
* `RestIsTrue`. `TrueInv` shows that `Record` is harmless for them too when commands
  do not overlap: between a `Post` that the box took and `Record` nobody moves the box
  (`Aims(s)`: `level[s]` is that of the box, or the device is `unheard`), so what is recorded
  is what the queue ends with. An `Ok` without effect breaks only the second half of
  `Follows(d)`, so `Knows(d)` keeps the first (`Tracks(d)`, the queue ends with the box's
  level) of every device and the second of those that are not `unheard`; a command that the
  box takes again restores it (`HeardAgain`).
* `FactorsMatch`. `FactorInv`: the level whose factor stands in EPICS, and the level of every
  command that is yet to write a factor, is what the server has, unless the row is
  flagged, or will be flagged by a frame on its way (`Told`). `Owes(s, d)` says from which point of a
  command on it is about to write the factor of `d`, for the device itself and for the `:DQ`
  device beside it. What makes it inductive is that a listener that hears of another
  level flags the row in the same step in which it changes the server's level, and that `Record`
  clears the flag only with a factor still to be written. No bound is set on how often a
  front panel is used meanwhile.
* `CalibrationHolds`. `OwnerInv` adds that the server knows the level of a box that only
  one device commands (`Known`), or a command is about to record it (`Meant`), streams or
  no streams, or that the device is `unheard`; for the others `TrueInv` says so as long as no stream drops. With
  `FactorInv` the factor is then that of the box.

### ChartStream_proofs

* `TypeCorrect`. `Locals`: a task about to send has something to send.
* `ChartsStayWellFormed`. `Fits(points, cursor, cap)` is inductive by itself, which is the
  content of the theorem: no assumption on what a message carries or on the order of
  messages is needed. `Joined` (what continues an ascending run beyond its bound
  ascends), `DeltaFits` (the overlap of a delta is skipped) and `NewestKeeps` (dropping
  the oldest) are its lemmas.
* The other three follow messages through the queues. `Base` is what they share: no queue
  is longer than the channel, nobody who is gone has one, and without overlaps at most
  one command runs (`Solo`). `Delivered`: what is sent while nobody lags is appended whole
  to every queue. `UsedStays`: what did not happen by the next state has not happened yet.
* `SizesAgree`. The last `BufferSizeChanged` on its way to a client says the size of the
  server; without one the client has it, unless a command is about to announce it.
  `TailSays` and `AppendSays` say what taking and adding a message does to "the last of a type".
* `ClearedStaysCleared`. `WipeInv`: with no command under way, the last snapshot on its way to a client
  carries nothing that was cleared and a cursor past the clearing, and without one the
  chart of the client is so. A delta may have been read before a clearing and be sent after
  the snapshot: it is skipped because its cursor is below the snapshot's
  (`ProcessKeepsAbove`), so nothing is asked of the deltas.
* `ChartsComeInSync`. `SyncInv` says it of clients that are not settled: a chart is the buffer as it was at
  the client's cursor (`Draws`), and the deltas in its queue, the one being sent and the
  next one continue it (`Continues`): each starts no later than the one before it
  ended, or than the buffer began at its own cursor (`Covers`). `DeltaDraws` is the
  hard lemma: the points of a chart at `k`, then the samples of a delta at `t` beyond
  `k`, cut to the size, are the buffer at `t`, whether or not samples between were
  evicted unseen. A client whose snapshot is ahead of its queue skips what it has
  (`ProcessDraws`). `Residents # {}` is needed where a tick looks for receivers.

### RollingBuffer_proofs

* `ExtremaStayTrue`. The invariant is the property itself, for a buffer within its
  capacity: the cached extrema are the least and greatest non-NaN sample, infinities
  when there is none, and no operation leaves them dirty. `LeastAndGreatestValue` (a non-empty finite set of integers
  has a least and a greatest member, from well-foundedness of the naturals),
  `LeastIs`/`GreatestIs` (the scan finds them), `ExtremaOfAppend` (a push moves an extreme
  or neither) and `ExtremaOfKept` (evicting samples strictly between the extremes
  moves neither) carry it over each operation.
* `StatisticsStayTrue`, with `TypeCorrect`. `SumsInv` says more than the property, which
  speaks of buffers without a NaN: `sum` and `sumSq` are both NaN or both the
  totals of the buffer. This is induction over the samples. The library's induction
  theorems cannot be applied here, so `InductionUpTo` states it of a set of numbers and
  has it from a least counterexample: `SumsExist`, the recursion defines a function;
  `TotalOfAppend`, one more sample; `TotalOfParts`, the total of a buffer is that of what was
  evicted and that of what stays, whether or not there is a NaN. So subtracting the evicted
  samples leaves the total of the rest.
* `NaNStaysUntilClear`: no push, eviction or new capacity gets a NaN out of the sum.

### Readings_proofs

* `LinkTypesHold`, `ReadingsStayInOrder`. `ReadingsInOrder` is inductive as it stands, given
  the types: a delivery is the youngest (`DeliverKeepsOrder`), the drain takes the oldest
  (`DrainKeepsOrder`), and capping ages keeps their order (`OlderIsMonotonic`).
* `PingTypesHold`: the front-end ping keeps its types, whoever answers.
* `ReadingsMoveAlone`: every behaviour of `MCReadings` is, for each component, a behaviour of
  its own specification, because a step of another one leaves it as it is. So the theorems
  about the components hold in the composition; `ReadingTypesHold` is the one for the types.

### Commands_proofs

* `GainTypesHold`. `InHand`: the device being switched is a candidate, without which the
  level that is recorded has no type.
* `SwitchesAreJustified`. `Settles(m)`: what an undisturbed device lacks of a fresh window is
  left of its cooldown (this is where `Refresh <= Cooldown` is needed). `Decided(m)`: a
  candidate that waits undisturbed still goes up by one, and with its cooldown over
  was decided on fresh readings. A second that passes during another device's switch
  disturbs those that wait, and a reading that comes while the device is `unheard` disturbs
  it (`TickKeepsReasons`).
* `ZeroTypesHold`, `OffsetStaysTrue`, `ZeroIsAnnounced`. `ZeroInv`: as long as nothing was `mixed`,
  one zeroing runs at a time, the offset in the PV is not a bad one, and of the zeroing under way
  (`Progress`) the readings on their way are fresh and so are the newest of the buffer, as
  many as were pushed since its baseline (`Fresh`). It holds when the buffer is cleared or
  drops its oldest reading, because only the newest count. `Told`: an offset at 0 is excused
  or belongs to a zeroing that is still to write it or to say why not.
* `PeakTypesHold`, `SweepLeavesPeakInside`. `OnPeak`: the writes of an aligned sweep so far
  are those of `compute_windows`, in their order, for the peak it located, and stay so
  after it (whatever else writes a bound takes `aligned` away). That the window
  computed has the peak in it is arithmetic of truncations, in halves of a sample, for all values.

### Sessions_proofs

* `RateTypesHold`, `RateIsKept`. `Ordered`: times ascend and lie in the past. `Forgotten`: what the window
  no longer holds is a second old, for it may be trimmed at any time (`Drop` trims without
  taking). So if the message that is `MaxPerSecond` before the next one is less than a
  second old, it and all since are still in the window, which is full
  (`WindowIsFull`, by the cardinality of an interval).
* `SettingsTypesHold`, `MirrorsComeToAgree`. `OnTrack(p, name)`, of a page and a setting whose
  messages were neither lost nor crossed: what is still to be announced is what the server
  uses (`Truthful`); when nothing is, the last message on its way says it (`Latest`), and
  without one (`Silent`) the page shows it or has asked for something else (`Asked`).
* `BoxTypesHold`, `OkStaysApplied`. `Solitude`: nothing runs beside a call that is alone, and a
  clearing that has got to its second request has had its first one applied. `Claimed`: while a promise
  stands, the box keeps it, or the one line on its way will (`Promised`), and the only call there
  may be is `ensure_device_name`, whose read has got the promised settings, so that writing
  them back does no harm.
* `PageTypesHold`: whatever the sockets report, and for sockets that were given up too.
* `SessionsMoveAlone` and `SessionTypesHold`, as for `MCReadings`; here the files of
  `Files_proofs` are among the components.

### Files_proofs

* `AuditTypesHold`, and `LogKeepsASuffix`, the refinement. `Separated`: for every file there is a number that
  separates the lines of it and the older files from those of the newer ones. `TargetIsFree`:
  a rename within a rotation finds no target, because the rename before it moved that
  away, so only the first one of a rotation, to the last file, drops lines. Then a rename is a
  stutter of `AuditTrail`, or `Forget` up to the separating number. A rotation
  that a crash cut short leaves a hole among the files, and the invariant allows it.
* `StoreTypesHold`, `RestoredIsReal`. `HoldsSince(f, low)`: a file holds settings from place `low` of the
  history on, or none at all, and then `low` is 0. `FileIsReal` says it of `state.json` with `saved`
  and of every file a loss of power may bring back with `flushed`, which is not above `saved`.
  `SnapshotIsReal`: a save under way holds the settings of one moment, not older than the
  last save, so that a rename (`RenameIsReal`) moves `saved` forward only; a loss of power
  (`LossIsReal`) falls back to `flushed` and a file that is set aside (`SetAsideIsReal`) held none.
  `Current`: the settings in use are the last ones of the history. Then what a start loads
  is one of the past, at or after `saved`, unless it loads the defaults.
* `EveryDeviceIsListed`. What a filter keeps of a list of any length is the wanted part of it
  (`FilterKeeps`, by the same induction as for the buffer's sums), so what
  `reconcile_device_order` returns lists the configured devices and no other
  (`ReconciledNames`). `OrdersAreLists`: every order there ever was is
  a list of known names, and what a start loads is of the past or the default.
* `SavedOrderIsKept`, of the operator itself: the devices that are still configured keep the order
  among themselves that was saved, the new ones come after them, and no one is listed
  twice if none was before.

### Model-checked only

* Liveness (`ResetEnds`, `SettledLevelIsFollowed`, `EverySampleArrives`,
  `DeadHardwareIsNoticed`, `HardwareComesBack`, `SaturationIsRelieved`, `VerdictSettles`,
  `PageReconnects`): fairness and `ENABLED` are beyond the prover. Every invariant and every action property
  of the passing runs is a theorem.
* The counterexample runs, by their nature.

## 5. Not modelled, and the plan

Left out for good:

* drawing (egui), and the browser's own device order and notification bar, which no
  other component reads;
* the configuration (sequential YAML validation, run once; its guarantees are
  assumptions here) and the wiring of tasks at the start;
* serde encodings of messages, except that a NaN has none (`RollingBuffer_nan`);
* the averaging and significance tests over waveforms, and the rounding of `f64`
  (numeric code without state);
* an audit log whose new file cannot be opened or of which a single rename fails
  (`audit.rs:82`, `85`), the boxes beside the levels restored at a start (a stream that
  connects reports changes only), a legacy line that arrives late except in `FrontEndBox`, a level of `state.json` beyond a list
  of sensitivities that has become shorter, a clock that is set back, and an HTTP request
  that is carried out after its caller gave up, in `FrontEndBox` (`Sensitivity` has
  writes that landed although they were reported failed).

What is left to do:

1. Composition of `FrontEndReset` and `Sensitivity`: commands, auto gain and echoes
   during a reset. Today a reset meets levels that do not change, and a command
   meets a push only as a change made from outside.
2. Refinement of `ChartStream` by the abstract window "the last samples, in order".
3. For the liveness properties, the safety facts that the code's progress rests on, as theorems.
