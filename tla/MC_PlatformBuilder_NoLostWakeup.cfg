\* As MC_PlatformBuilder.cfg, with no failures: the lost wakeup needs none.
CONSTANTS
  MaxTime = 5
  Delta = 1
  StakeDuration = 2
  BatchSize = 1
  MaxTxs = 2
  MayFail = FALSE
SPECIFICATION Spec
CHECK_DEADLOCK FALSE
INVARIANT
  NoLostWakeup
