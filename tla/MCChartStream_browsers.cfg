\* A browser joins while another one stays; at most one command.
CONSTANTS
  c1 = c1  c2 = c2  h1 = h1  h2 = h2
  Clients = {c1, c2}
  Residents = {c1}
  Handlers = {h1}
  Sizes = {2}
  ChanCap = 9
  None = None
  MaxSamples = 3
  MaxCommands = 1
  MaxJoins = 1
  MaxAborts = 0
SPECIFICATION FairSpec
INVARIANTS InSyncWithoutResets
PROPERTIES EverySampleArrives
CHECK_DEADLOCK FALSE
