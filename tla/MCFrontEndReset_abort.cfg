\* Two EVR outputs: the cut of the second fails, and so does the restore of the first.
CONSTANTS
  r1 = r1  r2 = r2
  t1 = t1  t2 = t2
  d1 = d1  d2 = d2
  FB3 = FB3  FB4 = FB4
  Resets = {r1}
  Triggers = {t1, t2}
  Devices = {d1, d2}
  Levels = {FB3, FB4}
  NoPV = NoPV
  RESET_WAIT = 2
  MaxFaults = 2
  MaxCrashes = 0
SPECIFICATION Spec
INVARIANTS NoTriggerLeftOffUnnamed
CHECK_DEADLOCK FALSE
