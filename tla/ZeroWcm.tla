------------------------------ MODULE ZeroWcm ------------------------------
(***************************************************************************)
(* The command ZeroWCM of one device: handle_zero_wcm and                  *)
(* sample_push_count (crates/server/src/commands.rs), with the commands    *)
(* that disturb it: another ZeroWCM, ClearBuffer, RestoreDefaults, and a   *)
(* client that leaves (crates/server/src/ws.rs).                           *)
(*                                                                         *)
(* The offset is the mean of readings taken with corrB at 0.  A reading is *)
(* TRUE when it was, and an offset is good when it averages such readings  *)
(* only.  Time is left out: the wait may time out whenever it is not over. *)
(***************************************************************************)
EXTENDS Naturals, Sequences

CONSTANTS
  Zeroers,      \* sessions that may zero the device at one time
  SampleCount,  \* ZERO_SAMPLE_COUNT
  Capacity,     \* of the rolling buffer, which may be below SampleCount
  MaxInFlight,  \* bound on the readings posted by the IOC and not yet pushed
  MaxZeroings, MaxZeroFaults   \* bounds

ASSUME ZeroAssumption ==
  /\ SampleCount \in Nat \ {0} /\ Capacity \in Nat \ {0}
  /\ {MaxInFlight, MaxZeroings, MaxZeroFaults} \subseteq Nat

VARIABLES
  corrB,      \* external: "old", "zero", "good" or "bad", as the charge PV is corrected
  inFlight,   \* readings on their way from the PV to the drain
  buffer,     \* the rolling buffer
  zeroing,    \* where a session is in handle_zero_wcm
  pushed,     \* its now - baseline, up to SampleCount
  offset,     \* its mean
  excused,    \* history: corrB was zeroed and an error was told, or a client left
              \* since, or RestoreDefaults did it, whose default is 0
  mixed,      \* history: zeroings overlapped, or readings of before were on
              \* their way when one of them took its baseline
  done        \* how much of each bound is used up

zeroVars == <<corrB, inFlight, buffer, zeroing, pushed, offset, excused, mixed, done>>

ZeroInit ==
  /\ corrB = "old"
  /\ inFlight = <<>> /\ buffer = <<>>
  /\ zeroing = [s \in Zeroers |-> "idle"]
  /\ pushed = [s \in Zeroers |-> 0]
  /\ offset = [s \in Zeroers |-> "none"]
  /\ excused = FALSE /\ mixed = FALSE
  /\ done = [zeroings |-> 0, faults |-> 0]

-----------------------------------------------------------------------------
(* The PV, the drain and the other commands *)

Reading ==
  /\ Len(inFlight) < MaxInFlight
  /\ inFlight' = Append(inFlight, corrB = "zero")
  /\ UNCHANGED <<corrB, buffer, zeroing, pushed, offset, excused, mixed, done>>

Pushed(s) == IF zeroing[s] = "wait" /\ pushed[s] < SampleCount THEN pushed[s] + 1 ELSE pushed[s]

PushReading ==
  /\ inFlight # <<>>
  /\ inFlight' = Tail(inFlight)
  /\ buffer' = LET longer == Append(buffer, Head(inFlight))
               IN  IF Len(buffer) < Capacity THEN longer ELSE Tail(longer)
  /\ pushed' = [s \in Zeroers |-> Pushed(s)]
  /\ UNCHANGED <<corrB, zeroing, offset, excused, mixed, done>>

ClearReadings ==
  /\ buffer # <<>> /\ buffer' = <<>>
  /\ UNCHANGED <<corrB, inFlight, zeroing, pushed, offset, excused, mixed, done>>

RestoreCorrB ==
  /\ corrB' = "zero" /\ excused' = TRUE
  /\ UNCHANGED <<inFlight, buffer, zeroing, pushed, offset, mixed, done>>

-----------------------------------------------------------------------------
(* handle_zero_wcm *)

Moves(s, from, to) == zeroing[s] = from /\ zeroing' = [zeroing EXCEPT ![s] = to]

StartZeroing(s) ==
  /\ Moves(s, "idle", "zero")
  /\ done.zeroings < MaxZeroings
  /\ done' = [done EXCEPT !.zeroings = @ + 1]
  /\ mixed' = (mixed \/ \E x \in Zeroers : zeroing[x] # "idle")
  /\ UNCHANGED <<corrB, inFlight, buffer, pushed, offset, excused>>

Zero(s) ==
  /\ Moves(s, "zero", "baseline")
  /\ corrB' = "zero" /\ excused' = FALSE
  /\ UNCHANGED <<inFlight, buffer, pushed, offset, mixed, done>>

Baseline(s) ==
  /\ Moves(s, "baseline", "wait")
  /\ pushed' = [pushed EXCEPT ![s] = 0]
  /\ mixed' = (mixed \/ \E i \in DOMAIN inFlight : ~inFlight[i])
  /\ UNCHANGED <<corrB, inFlight, buffer, offset, excused, done>>

\* Faulty: the wait looks for a buffer with enough readings in it.
FindEnough(s) ==
  /\ Moves(s, "wait", "mean")
  /\ Len(buffer) >= SampleCount
  /\ UNCHANGED <<corrB, inFlight, buffer, pushed, offset, excused, mixed, done>>

Enough(s) ==
  /\ Moves(s, "wait", "mean")
  /\ pushed[s] >= SampleCount
  /\ UNCHANGED <<corrB, inFlight, buffer, pushed, offset, excused, mixed, done>>

Ends(s, from) == Moves(s, from, "idle") /\ excused' = TRUE

\* Faulty: a wait that times out says nothing.
TimeOutQuietly(s) ==
  /\ Moves(s, "wait", "idle")
  /\ pushed[s] < SampleCount
  /\ UNCHANGED <<corrB, inFlight, buffer, pushed, offset, excused, mixed, done>>

TimeOut(s) ==
  /\ Ends(s, "wait")
  /\ pushed[s] < SampleCount
  /\ UNCHANGED <<corrB, inFlight, buffer, pushed, offset, mixed, done>>

\* mean_of_last: of fewer readings if the buffer holds fewer.
LastOnes == IF Len(buffer) <= SampleCount THEN DOMAIN buffer
            ELSE (Len(buffer) - SampleCount + 1) .. Len(buffer)

MeanOfLast(s) ==
  /\ Moves(s, "mean", "offset")
  /\ buffer # <<>>
  /\ offset' = [offset EXCEPT ![s] = IF \A i \in LastOnes : buffer[i] THEN "good" ELSE "bad"]
  /\ UNCHANGED <<corrB, inFlight, buffer, pushed, excused, mixed, done>>

NoReadings(s) ==
  /\ Ends(s, "mean")
  /\ buffer = <<>>
  /\ UNCHANGED <<corrB, inFlight, buffer, pushed, offset, mixed, done>>

SetOffset(s) ==
  /\ Moves(s, "offset", "idle")
  /\ corrB' = offset[s]
  /\ UNCHANGED <<inFlight, buffer, pushed, offset, excused, mixed, done>>

\* A write that fails has reached the PV all the same, or not.
WriteFails(s, from, value) ==
  /\ Ends(s, from)
  /\ done.faults < MaxZeroFaults
  /\ done' = [done EXCEPT !.faults = @ + 1]
  /\ corrB' \in {corrB, value}
  /\ UNCHANGED <<inFlight, buffer, pushed, offset, mixed>>

\* The task is aborted at any of its awaits; a write under way may still land.
ClientLeaves(s) ==
  /\ zeroing[s] # "idle" /\ zeroing' = [zeroing EXCEPT ![s] = "idle"]
  /\ corrB' \in {corrB} \cup (CASE zeroing[s] = "zero"   -> {"zero"}
                              [] zeroing[s] = "offset" -> {offset[s]}
                              [] OTHER                 -> {})
  /\ excused' = TRUE
  /\ UNCHANGED <<inFlight, buffer, pushed, offset, mixed, done>>

-----------------------------------------------------------------------------
ZeroNext ==
  \/ Reading \/ PushReading \/ ClearReadings \/ RestoreCorrB
  \/ \E s \in Zeroers :
       \/ StartZeroing(s) \/ Zero(s) \/ Baseline(s) \/ Enough(s) \/ TimeOut(s)
       \/ MeanOfLast(s) \/ NoReadings(s) \/ SetOffset(s)
       \/ WriteFails(s, "zero", "zero") \/ WriteFails(s, "offset", offset[s])
       \/ ClientLeaves(s)

ZeroSpec == ZeroInit /\ [][ZeroNext]_zeroVars

-----------------------------------------------------------------------------
(* Properties *)

ZeroTypeOK ==
  /\ corrB \in {"old", "zero", "good", "bad"}
  /\ inFlight \in Seq(BOOLEAN) /\ buffer \in Seq(BOOLEAN)
  /\ Len(buffer) <= Capacity
  /\ zeroing \in [Zeroers -> {"idle", "zero", "baseline", "wait", "mean", "offset"}]
  /\ pushed \in [Zeroers -> 0 .. SampleCount]
  /\ offset \in [Zeroers -> {"none", "good", "bad"}]
  /\ excused \in BOOLEAN /\ mixed \in BOOLEAN

\* "Set corrB to 0 first so that fresh charge readings reflect a zero offset": the
\* offset written averages no reading of before the zeroing, also when the buffer is
\* cleared or smaller than the number of samples, or a RestoreDefaults comes in
\* between.  Two zeroings that overlap, and readings on their way at the baseline,
\* are not told apart from fresh ones by the code.
OffsetIsTrue == corrB = "bad" => mixed

\* When no zeroing runs, an offset left at 0 was announced by an error, is that of a
\* client that left, or was restored on purpose.
LeftAtZeroIsTold ==
  corrB = "zero" /\ (\A s \in Zeroers : zeroing[s] = "idle") => excused
=============================================================================
