\* As MC_ProposerVM.cfg, without repair failures: can a restart fail to find
\* a block on its repair walk?
CONSTANTS
  MaxHeight = 6
  InnerTs <- MCInnerTs
  Oracle = {1, 4}
  Activation = 1
  SyncBound = 1
  MaxNow = 5
  InnerLossBound = 1
  MaxCrashes = 2
  RepairMayFail = FALSE
  SetPrefMayFail = FALSE
SPECIFICATION Spec
CHECK_DEADLOCK FALSE
INVARIANT
  NoRepairLookupFailure
