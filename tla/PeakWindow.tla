----------------------------- MODULE PeakWindow -----------------------------
(***************************************************************************)
(* The sample windows of one device: handle_sweep_timing and               *)
(* compute_windows (crates/server/src/commands.rs) move them to the peak,  *)
(* RestoreDefaults moves them back, and peak_check_loop                    *)
(* (crates/server/src/peak_check.rs) judges whether the peak lies within.  *)
(*                                                                         *)
(* The mean position of the peak over many waveforms need not be a whole   *)
(* sample: it is kept in half samples, and stays where it is during a      *)
(* behaviour.  A WCM is modelled, which has a base window too.             *)
(***************************************************************************)
EXTENDS Integers, Sequences

CONSTANTS
  Peaks,       \* where the peak may be, in half samples
  Defaults,    \* the configured windows, a record of Keys
  Unread,      \* a caget that has not come back; last_checked is None
  MaxSweeps, MaxRestores, MaxPeakFaults   \* bounds

Keys == {"peak_low", "peak_high", "base_low", "base_high"}

ASSUME PeakAssumption ==
  /\ Peaks \subseteq Nat /\ Peaks # {}
  /\ Defaults \in [Keys -> Int]
  /\ Defaults.peak_low <= Defaults.peak_high
  /\ Unread \notin Int
  /\ {MaxSweeps, MaxRestores, MaxPeakFaults} \subseteq Nat

VARIABLES
  peak,         \* external: the mean position of the peak, in half samples
  beam,         \* external: there is charge, and the pulse stands out
  window,       \* external: the window PVs
  sweep, next,  \* "idle", "collect" or "write", and then which of Order is next
  located,      \* the peak the sweep found
  aligned,      \* history: the last sweep saw beam, none of its writes failed, it was
                \* not cut short, and nobody else wrote since it began to write
  check,        \* "idle", "read", "judge" or "announce"
  low, high,    \* the window the checker has read
  lastChecked,  \* last_checked
  misaligned,   \* DeviceState.peak_misaligned
  shownMisaligned,   \* what the clients were told last
  counts        \* how much of each bound is used up

sweeper  == <<sweep, next, located, aligned>>
checker  == <<check, low, high, lastChecked, misaligned, shownMisaligned>>
peakVars == <<peak, beam, window, sweeper, checker, counts>>

PeakInit ==
  /\ peak \in Peaks
  /\ beam = FALSE
  /\ window = Defaults
  /\ sweep = "idle" /\ next = 1 /\ located = peak /\ aligned = FALSE
  /\ check = "idle" /\ low = Unread /\ high = Unread
  /\ lastChecked = <<Unread, Unread>>
  /\ misaligned = FALSE /\ shownMisaligned = FALSE
  /\ counts = [sweeps |-> 0, restores |-> 0, faults |-> 0]

Count(what, max) == counts[what] < max /\ counts' = [counts EXCEPT ![what] = @ + 1]

BeamTurns ==
  /\ beam' = ~beam
  /\ UNCHANGED <<peak, window, sweeper, checker, counts>>

\* One write of RestoreDefaults, which takes the PVs in any order.
RestoreWindow(key) ==
  /\ Count("restores", MaxRestores)
  /\ window' = [window EXCEPT ![key] = Defaults[key]]
  /\ aligned' = FALSE
  /\ UNCHANGED <<peak, beam, sweep, next, located, checker>>

-----------------------------------------------------------------------------
(* compute_windows *)

\* Half samples to samples, as `as i64` does: towards zero.
Truncated(halves) == IF halves >= 0 THEN halves \div 2 ELSE -((-halves) \div 2)

PeakOffset == (Defaults.peak_high - Defaults.peak_low) \div 2
Anchor     == located - 2 * PeakOffset

\* The windows in the order they are written in.  The upper base bound too is laid
\* from the anchor, by the distance of the upper bounds: the base window narrows by
\* the width of the peak window.
Order == <<"peak_low", "peak_high", "base_low", "base_high">>

\* Faulty: the upper bound is laid from the lower one.
FromAnchor(key) ==
  CASE key = "peak_low"  -> Truncated(Anchor)
    [] key = "peak_high" -> Truncated(Anchor) + PeakOffset
    [] key = "base_low"  -> Truncated(Anchor - 2 * (Defaults.peak_low - Defaults.base_low))
    [] key = "base_high" -> Truncated(Anchor - 2 * (Defaults.peak_high - Defaults.base_high))

ComputedWindow(key) ==
  CASE key = "peak_low"  -> Truncated(Anchor)
    [] key = "peak_high" -> Truncated(located + 2 * PeakOffset)
    [] key = "base_low"  -> Truncated(Anchor - 2 * (Defaults.peak_low - Defaults.base_low))
    [] key = "base_high" -> Truncated(Anchor - 2 * (Defaults.peak_high - Defaults.base_high))

-----------------------------------------------------------------------------
(* handle_sweep_timing *)

StartSweep ==
  /\ sweep = "idle" /\ sweep' = "collect"
  /\ Count("sweeps", MaxSweeps)
  /\ UNCHANGED <<peak, beam, window, next, located, aligned, checker>>

\* Without beam the peak of the waveforms is that of their noise.
Collect ==
  /\ sweep = "collect" /\ sweep' = "write" /\ next' = 1
  /\ located' \in IF beam THEN {peak} ELSE Peaks
  /\ aligned' = beam
  /\ UNCHANGED <<peak, beam, window, checker, counts>>

CollectFails ==
  /\ sweep = "collect" /\ sweep' = "idle"
  /\ Count("faults", MaxPeakFaults)
  /\ UNCHANGED <<peak, beam, window, next, located, aligned, checker>>

NextWrite ==
  /\ sweep = "write"
  /\ IF next = Len(Order) THEN sweep' = "idle" /\ UNCHANGED next
                          ELSE next' = next + 1 /\ UNCHANGED sweep

Written == [window EXCEPT ![Order[next]] = ComputedWindow(Order[next])]

WriteWindow ==
  /\ NextWrite
  /\ window' = Written
  /\ UNCHANGED <<peak, beam, located, aligned, checker, counts>>

\* A write that fails is logged, and the next one is tried.
WindowWriteFails ==
  /\ NextWrite
  /\ Count("faults", MaxPeakFaults)
  /\ window' \in {window, Written}
  /\ aligned' = FALSE
  /\ UNCHANGED <<peak, beam, located, checker>>

\* The client leaves and its command is aborted.
SweepCut ==
  /\ sweep # "idle" /\ sweep' = "idle"
  /\ Count("faults", MaxPeakFaults)
  /\ aligned' = FALSE
  /\ UNCHANGED <<peak, beam, window, next, located, checker>>

-----------------------------------------------------------------------------
(* peak_check_loop *)

Poll ==
  /\ check = "idle" /\ check' = "read"
  /\ low' = Unread /\ high' = Unread
  /\ UNCHANGED <<peak, beam, window, sweeper, lastChecked, misaligned, shownMisaligned, counts>>

\* The two PVs are read side by side.
ReadLow ==
  /\ check = "read" /\ low = Unread
  /\ low' = window.peak_low
  /\ UNCHANGED <<peak, beam, window, sweeper, check, high, lastChecked, misaligned, shownMisaligned, counts>>

ReadHigh ==
  /\ check = "read" /\ high = Unread
  /\ high' = window.peak_high
  /\ UNCHANGED <<peak, beam, window, sweeper, check, low, lastChecked, misaligned, shownMisaligned, counts>>

\* A window already judged is not judged again.
Compare ==
  /\ check = "read" /\ Unread \notin {low, high}
  /\ check' = IF lastChecked = <<low, high>> THEN "idle" ELSE "judge"
  /\ UNCHANGED <<peak, beam, window, sweeper, low, high, lastChecked, misaligned, shownMisaligned, counts>>

\* A caget or the waveforms time out.
CheckFails ==
  /\ check \in {"read", "judge"} /\ check' = "idle"
  /\ Count("faults", MaxPeakFaults)
  /\ UNCHANGED <<peak, beam, window, sweeper, low, high, lastChecked, misaligned, shownMisaligned>>

\* Faulty: the window counts as checked although there was no beam to check it with.
JudgeInTheDark ==
  /\ check = "judge"
  /\ lastChecked' = <<low, high>>
  /\ IF beam
     THEN /\ misaligned' = (peak < 2 * low \/ peak > 2 * high)
          /\ check' = IF misaligned' # misaligned THEN "announce" ELSE "idle"
     ELSE check' = "idle" /\ UNCHANGED misaligned
  /\ UNCHANGED <<peak, beam, window, sweeper, low, high, shownMisaligned, counts>>

Judge ==
  /\ check = "judge"
  /\ IF beam
     THEN /\ lastChecked' = <<low, high>>
          /\ misaligned' = (peak < 2 * low \/ peak > 2 * high)
          /\ check' = IF misaligned' # misaligned THEN "announce" ELSE "idle"
     ELSE check' = "idle" /\ UNCHANGED <<lastChecked, misaligned>>
  /\ UNCHANGED <<peak, beam, window, sweeper, low, high, shownMisaligned, counts>>

Announce ==
  /\ check = "announce" /\ check' = "idle"
  /\ shownMisaligned' = misaligned
  /\ UNCHANGED <<peak, beam, window, sweeper, low, high, lastChecked, misaligned, counts>>

-----------------------------------------------------------------------------
SweepStep == Collect \/ CollectFails \/ WriteWindow \/ WindowWriteFails \/ SweepCut
CheckStep == Poll \/ ReadLow \/ ReadHigh \/ Compare \/ CheckFails \/ Judge \/ Announce

PeakNext ==
  \/ BeamTurns \/ StartSweep \/ SweepStep \/ CheckStep
  \/ \E key \in Keys : RestoreWindow(key)

PeakSpec == PeakInit /\ [][PeakNext]_peakVars

\* The checker is an endless task and every call it makes is bounded by a time-out.
FairPeakSpec == PeakSpec /\ WF_peakVars(CheckStep)

-----------------------------------------------------------------------------
(* Properties *)

PeakTypeOK ==
  /\ peak \in Peaks /\ located \in Peaks
  /\ beam \in BOOLEAN
  /\ window \in [Keys -> Int]
  /\ sweep \in {"idle", "collect", "write"} /\ next \in 1 .. Len(Order)
  /\ aligned \in BOOLEAN
  /\ check \in {"idle", "read", "judge", "announce"}
  /\ {low, high} \subseteq Int \cup {Unread}
  /\ lastChecked \in (Int \cup {Unread}) \X (Int \cup {Unread})
  /\ misaligned \in BOOLEAN /\ shownMisaligned \in BOOLEAN
  /\ counts \in [{"sweeps", "restores", "faults"} -> Nat]

Bracketed == 2 * window.peak_low <= peak /\ peak <= 2 * window.peak_high

\* A sweep that saw beam, whose writes all went through and which nobody interfered
\* with leaves a window that the peak lies in, rounded and truncated as it is; and the
\* base window starts as far ahead of it as configured.  The configured peak window
\* must be two samples wide at least, and the base window within the waveform.
SweepBracketsThePeak ==
  aligned /\ sweep = "idle" /\ PeakOffset >= 1 =>
    /\ Bracketed
    /\ Anchor >= 2 * (Defaults.peak_low - Defaults.base_low) /\ Anchor >= 0 =>
         window.peak_low - window.base_low = Defaults.peak_low - Defaults.base_low

\* With beam, the verdict the clients see ends up true of the window as it is, although
\* its bounds are read and rewritten one by one, and a window is judged only once.
VerdictSettles ==
  <>[]beam => <>[](misaligned = ~Bracketed /\ shownMisaligned = misaligned)
=============================================================================
