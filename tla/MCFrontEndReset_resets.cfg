\* Two clicks on the button, one or two EVR outputs, two boxes, failing writes
\* that may have landed and a restart of the server.
CONSTANTS
  r1 = r1  r2 = r2
  t1 = t1  t2 = t2
  d1 = d1  d2 = d2
  FB3 = FB3  FB4 = FB4
  Resets = {r1, r2}
  Triggers = {t1, t2}
  Devices = {d1, d2}
  Levels = {FB3, FB4}
  NoPV = NoPV
  RESET_WAIT = 2
  MaxFaults = 2
  MaxCrashes = 1
SPECIFICATION FairSpec
INVARIANTS TypeOK NoStrayCountdown NeverSilentlyBroken OneOutputIsSafe
PROPERTIES ResendAfterTrigger TriggerOffForTheWait ResetRepairs ResetEnds
CHECK_DEADLOCK FALSE
