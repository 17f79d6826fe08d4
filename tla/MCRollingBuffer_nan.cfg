\* One NaN among the samples.
CONSTANTS
  Values <- AllValues
  NaN = NaN
  Samples <- WithNaN
  Infinity = 99
  Capacities = {1, 2, 4}
SPECIFICATION Spec
INVARIANTS SumsFollowTheSamples
