\* One channel and a page, two boxes, one meter with three levels, two sessions
\* that zero, one sweep, and a rolling buffer of up to four samples.
CONSTANTS
  Channels = {c1}
  Pages = {p1}
  Stale = 3
  InitialRetryDelay = 1
  MaxRetryDelay = 4
  NoPage = NoPage
  MaxUpdates = 3
  Boxes = {b1, b2}
  Values <- AllValues
  NaN = NaN
  Samples <- WithNaN
  Infinity = 99
  Capacities = {1, 2, 4}
  Meters = {m1}
  LastLevel = 2
  SaturationCharge <- Saturations
  Charges <- PulseCharges
  Cooldown = 3
  Refresh = 2
  Idle = Idle
  MaxOperator = 1
  MaxFailures = 1
  MaxDue = 2
  Zeroers = {s1, s2}
  SampleCount = 2
  Capacity = 3
  MaxInFlight = 1
  MaxZeroings = 2
  MaxZeroFaults = 1
  Peaks = {1, 7}
  Defaults <- Windows
  Unread = Unread
  MaxSweeps = 1
  MaxRestores = 1
  MaxPeakFaults = 1
SPECIFICATION ReadingsSpec
INVARIANTS
  ReadingsTypeOK
  ReadingsInOrder
  ExtremaAreTrue StatisticsAreTrue
  OffsetIsTrue LeftAtZeroIsTold
  SweepBracketsThePeak
PROPERTIES
  DeadHardwareIsNoticed HardwareComesBack
  SwitchIsJustified SaturationIsRelieved
  VerdictSettles
