----------------------------- MODULE MCReadings -----------------------------
(* A small instance of everything that takes, keeps and judges readings: the     *)
(* components share no variable, so in each behaviour one of them moves and the  *)
(* others stay as they are.  A property of one component holds in all behaviours *)
(* iff it holds in those where that component moves.                             *)
EXTENDS EpicsLink, FrontEndPing, RollingBuffer, AutoGain, ZeroWcm, PeakWindow

VARIABLE active

Saturations == [l \in Levels |-> l]
PulseCharges == {-2, 0, 1}
Windows == [peak_low |-> 2, peak_high |-> 4, base_low |-> 0, base_high |-> 2]
AllValues == -2 .. 2
WithNaN == AllValues \cup {NaN}

noLink == <<pingVars, vars, gainVars, zeroVars, peakVars>>
noPing == <<linkVars, vars, gainVars, zeroVars, peakVars>>
noBuffer == <<linkVars, pingVars, gainVars, zeroVars, peakVars>>
noGain == <<linkVars, pingVars, vars, zeroVars, peakVars>>
noZero == <<linkVars, pingVars, vars, gainVars, peakVars>>
noPeak == <<linkVars, pingVars, vars, gainVars, zeroVars>>

Turn(component, others) == active = component /\ UNCHANGED <<active, others>>

ReadingsInit ==
  /\ LinkInit /\ PingInit /\ Init /\ GainInit /\ ZeroInit /\ PeakInit
  /\ active \in {"link", "ping", "buffer", "gain", "zero", "peak"}
  /\ active # "buffer" => capacity = CHOOSE n \in Capacities : TRUE
  /\ active # "peak" => peak = CHOOSE p \in Peaks : TRUE

ReadingsNext ==
  \/ Turn("link", noLink) /\ LinkNext
  \/ Turn("ping", noPing) /\ PingNext
  \/ Turn("buffer", noBuffer) /\ Next
  \/ Turn("gain", noGain) /\ GainNext
  \/ Turn("zero", noZero) /\ ZeroNext
  \/ Turn("peak", noPeak) /\ PeakNext

readingsVars == <<active, noLink, linkVars>>

\* The fairness of FairLinkSpec, FairPingSpec, FairGainSpec and FairPeakSpec.
ReadingsFairness ==
  /\ WF_readingsVars(Turn("link", noLink) /\ LinkTick)
  /\ WF_readingsVars(Turn("link", noLink) /\ Drain)
  /\ WF_readingsVars(Turn("link", noLink) /\ Watchdog)
  /\ \A c \in Channels : /\ WF_readingsVars(Turn("link", noLink) /\ Connection(c))
                         /\ WF_readingsVars(Turn("link", noLink) /\ Deliver(c))
  /\ WF_readingsVars(Turn("ping", noPing) /\ PingTask)
  /\ WF_readingsVars(Turn("gain", noGain) /\ GainTick)
  /\ WF_readingsVars(Turn("gain", noGain) /\ Check)
  /\ WF_readingsVars(Turn("gain", noGain) /\ Round)
  /\ WF_readingsVars(Turn("peak", noPeak) /\ CheckStep)

ReadingsSpec == ReadingsInit /\ [][ReadingsNext]_readingsVars /\ ReadingsFairness

-----------------------------------------------------------------------------
\* Every component keeps its types.
ReadingsTypeOK ==
  LinkTypeOK /\ PingTypeOK /\ TypeOK /\ GainTypeOK /\ ZeroTypeOK /\ PeakTypeOK

\* Hardware that is gone for good ends up shown as gone: the E dot by the drain and the
\* watchdog, the F dot by the ping.
DeadHardwareIsNoticed == DeadLinkIsNoticed /\ DeadBoxIsNoticed

\* Hardware that is back for good ends up shown as there.
HardwareComesBack == LinkComesBack /\ BoxComesBack
=============================================================================
