\* A short channel, commands of two sessions, one of them cut short, a browser that comes and goes.
CONSTANTS
  c1 = c1  c2 = c2  h1 = h1  h2 = h2
  Clients = {c1}
  Residents = {}
  Handlers = {h1, h2}
  Sizes = {1, 3}
  ChanCap = 3
  None = None
  MaxSamples = 2
  MaxCommands = 2
  MaxJoins = 2
  MaxAborts = 1
SPECIFICATION Spec
SYMMETRY Symmetric
INVARIANTS TypeOK ChartWellFormed NothingResurrected SizeAgrees
CHECK_DEADLOCK FALSE
