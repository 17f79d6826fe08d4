\* One operator; the box is moved from outside at any time, also to a level not offered.
CONSTANTS
  w = w  q = q  f = f  boxA = boxA  s1 = s1  s2 = s2
  Devices = {w, q}
  Commanded = {w}
  Sessions = {s1}
  Levels = {0, 3, 4}
  Sensitivities = {3, 4}
  Boxes = {boxA}
  BoxOf <- OneBox
  CompanionOf <- Companions
  NoDevice = NoDevice
  NoLevel = NoLevel
  MaxCommands = 3
  MaxExternal = 1
  MaxFaults = 1
  MaxAborts = 0
  MaxDrops = 0
SPECIFICATION FairSpec
INVARIANTS TypeOK CalibratedOrFlagged StateMatchesFactors
PROPERTIES SettledLevelIsFollowed
CHECK_DEADLOCK FALSE
