\* Seven inner blocks stamped 0, 0, 1, 1, 2, 2, 3; activation at 1: the
\* block at height 3, child of the first block stamped 1, is the first
\* post-fork block. Oracle blocks at 1 (its options come before the fork)
\* and 4 (post-fork, so its options are post-fork options). Two stops; a
\* crash may lose one inner accept; repair may fail.
CONSTANTS
  MaxHeight = 6
  InnerTs <- MCInnerTs
  Oracle = {1, 4}
  Activation = 1
  SyncBound = 1
  MaxNow = 5
  InnerLossBound = 1
  MaxCrashes = 2
  RepairMayFail = TRUE
  SetPrefMayFail = TRUE
SPECIFICATION Spec
\* The chain ends at MaxHeight and the clock at MaxNow.
CHECK_DEADLOCK FALSE
INVARIANTS
  TypeOK
  RunningInSync
  ForkAtActivation
  TimestampsSane
PROPERTIES
  
  AcceptedNeverReplaced
  ReachesLastBlock
