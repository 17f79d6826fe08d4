\* Two sessions, the front panel, failing writes, a client that leaves, a stream that drops.
CONSTANTS
  w = w  q = q  f = f  boxA = boxA  s1 = s1  s2 = s2
  Devices = {w, q}
  Commanded = {w}
  Sessions = {s1, s2}
  Levels = {0, 3, 4}
  Sensitivities = {3, 4}
  Boxes = {boxA}
  BoxOf <- OneBox
  CompanionOf <- Companions
  NoDevice = NoDevice
  NoLevel = NoLevel
  MaxCommands = 2
  MaxExternal = 1
  MaxFaults = 1
  MaxAborts = 1
  MaxDrops = 1
SPECIFICATION Spec
INVARIANTS FollowersAreCurrent RestingStateIsTrue
SYMMETRY Symmetric
CHECK_DEADLOCK FALSE
