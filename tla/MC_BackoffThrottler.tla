------------------------- MODULE MC_BackoffThrottler -------------------------
EXTENDS BackoffThrottler, TLC

\* NewIncrementalBackoffThrottler with a one-tick backoff growing by one
\* tick per attempt.
Perms == Permutations(Callers)

MCBackoff(a) == IncrementalBackoff(1, 1, a)

====
