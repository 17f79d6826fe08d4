\* A reset snapshot against the broadcaster.
CONSTANTS
  c1 = c1  c2 = c2  h1 = h1  h2 = h2
  Clients = {c1}
  Residents = {c1}
  Handlers = {h1}
  Sizes = {2}
  ChanCap = 9
  None = None
  MaxSamples = 2
  MaxCommands = 1
  MaxJoins = 0
  MaxAborts = 0
SPECIFICATION Spec
INVARIANTS InSync
CHECK_DEADLOCK FALSE
