\* As MC_ProposerVM.cfg, without crashes, but the inner block at height 2,
\* the first one stamped at the activation time, is an oracle block.
CONSTANTS
  MaxHeight = 6
  InnerTs <- MCInnerTs
  Oracle = {2}
  Activation = 1
  SyncBound = 1
  MaxNow = 5
  InnerLossBound = 0
  MaxCrashes = 0
  RepairMayFail = FALSE
  SetPrefMayFail = FALSE
SPECIFICATION Spec
CHECK_DEADLOCK FALSE
PROPERTY
  ReachesLastBlock
