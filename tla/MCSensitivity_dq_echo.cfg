\* One session, one command to a WCM that has a :DQ device.
CONSTANTS
  w = w  q = q  f = f  boxA = boxA  s1 = s1  s2 = s2
  Devices = {w, q}
  Commanded = {w}
  Sessions = {s1}
  Levels = {3, 4}
  Sensitivities = {3, 4}
  Boxes = {boxA}
  BoxOf <- OneBox
  CompanionOf <- Companions
  NoDevice = NoDevice
  NoLevel = NoLevel
  MaxCommands = 1
  MaxExternal = 0
  MaxFaults = 0
  MaxAborts = 0
  MaxDrops = 0
SPECIFICATION Spec
INVARIANTS OwnWritesLeaveNoFlag
CHECK_DEADLOCK FALSE
