\* A connection that may take two messages in three ticks, two writers of four log
\* files, two devices of which any may be configured, two pages, two callers of one
\* box, and one page and its socket.  Counters are bounded: a behaviour may end.
CONSTANTS
  MaxPerSecond = 2
  Second = 3
  MaxClock = 7
  MaxTaken = 6
  Writers = {w1, w2}
  LastFile = 3
  MaxFileLines = 1
  Nobody = Nobody
  MaxLines = 8
  MaxAuditCrashes = 1
  d1 = d1
  d2 = d2
  AllNames <- TwoNames
  TopLevel = 1
  MaxChanges = 1
  MaxStarts = 3
  Tabs = {p1, p2}
  Typed = {1, 3}
  MinSize = 2
  MaxSize = 3
  Capacity = 1
  Nothing = Nothing
  MaxEdits = 4
  Callers = {c1, c2}
  TopFB = 2
  Idle = Idle
  NoClaim = NoClaim
  AnyInput = AnyInput
  InitialReconnectDelay = 2
  MaxReconnectDelay = 3
  MaxRefusals = 3
SPECIFICATION SessionsSpec
INVARIANTS
  SessionsTypeOK
  NeverOverTheRate
  MirrorsAgree
  OkMeansApplied
PROPERTIES
  KeepsASuffix
  RestoredSettingsAreReal
  NoDeviceIsHidden
  PageReconnects
CHECK_DEADLOCK FALSE
