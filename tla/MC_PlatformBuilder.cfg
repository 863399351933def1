\* Local time 0..4, a genesis validator ending at 2, add-validator txs
\* staking for 2, Delta 1, batches of up to 2 of the two decision/atomic
\* txs, and every failure path of BuildBlock enabled.
CONSTANTS
  MaxTime = 5
  Delta = 1
  StakeDuration = 2
  BatchSize = 2
  MaxTxs = 2
  MayFail = TRUE
SPECIFICATION Spec
CHECK_DEADLOCK FALSE
INVARIANTS
  TypeOK
  StakerTimesConsistent
PROPERTIES
  ChainTimeMonotonic
