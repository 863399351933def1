\* Three dialers on a throttler with throttleLimit 1 (one token, one more per
\* tick) and incremental backoff 1 + attempt ticks, over eight ticks.
CONSTANTS
  Callers = {c1, c2, c3}
  Limit = 1
  Backoff <- MCBackoff
  MaxTime = 8
SYMMETRY Perms
SPECIFICATION Spec
CHECK_DEADLOCK FALSE
INVARIANTS
  TypeOK
  RateBound
  CancelLatencyBounded
