--------------------------- MODULE BackoffThrottler ---------------------------
(***************************************************************************)
(* The connection-attempt throttler of src/network/throttler.go.           *)
(*                                                                         *)
(* Several dialing goroutines call backoffThrottler.Acquire on one shared  *)
(* throttler. Each iteration of its loop checks the context, asks the      *)
(* token-bucket limiter for a token (rate.Limiter.Allow, which holds the   *)
(* limiter's mutex), and on refusal sleeps for the policy's backoff. The   *)
(* sleep is not interrupted by a cancellation (the TODO at line 100).      *)
(*                                                                         *)
(* Time is discrete: one tick is 1/throttleLimit seconds, the interval in  *)
(* which rate.Limit(throttleLimit) adds one token, and the bucket holds     *)
(* Limit (= throttleLimit) tokens. Steps of a goroutine that does not sleep *)
(* take no time: a tick only happens when every running Acquire sleeps.    *)
(***************************************************************************)
EXTENDS Naturals, TLC

CONSTANTS
  Callers,        \* goroutines calling Acquire (model values)
  Limit,          \* throttleLimit: burst size and tokens per second
  Backoff(_),     \* the policy: Backoff(attempt) is the set of sleep lengths in ticks
  MaxTime         \* bound on the clock

ASSUME Limit \in Nat \ {0} /\ MaxTime \in Nat

NoTime == MaxTime + 1

VARIABLES
  now,       \* the clock, in ticks
  tokens,    \* the limiter's bucket
  pc,        \* per caller: "idle", "ctx" (top of the loop), "allow", "sleep", "ok", "cancelled"
  attempt,   \* per caller: Acquire's local attempt counter
  wakeAt,    \* per caller: end of the current sleep
  sleepLen,  \* per caller: length of the current sleep
  cancelAt,  \* per caller: when its ctx was cancelled, NoTime if it was not
  granted    \* tokens handed out so far

vars == <<now, tokens, pc, attempt, wakeAt, sleepLen, cancelAt, granted>>

\* The three backoffPolicy implementations, a sleep length in ticks per attempt.
StaticBackoff(d, a) == {d}
IncrementalBackoff(d, inc, a) == {d + inc * a}
RandomisedBackoff(lo, hi, a) == IF lo < hi THEN lo..(hi - 1) ELSE {lo}

Running == {c \in Callers : pc[c] \in {"ctx", "allow", "sleep"}}

-----------------------------------------------------------------------------

Init ==
  /\ now = 0
  /\ tokens = Limit
  /\ pc = [c \in Callers |-> "idle"]
  /\ attempt = [c \in Callers |-> 0]
  /\ wakeAt = [c \in Callers |-> 0]
  /\ sleepLen = [c \in Callers |-> 0]
  /\ cancelAt = [c \in Callers |-> NoTime]
  /\ granted = 0

\* A dialer calls Acquire.
Call(c) ==
  /\ pc[c] = "idle"
  /\ pc' = (c :> "ctx") @@ pc
  /\ UNCHANGED <<now, tokens, attempt, wakeAt, sleepLen, cancelAt, granted>>

\* The dialer's context is cancelled while its Acquire runs.
Cancel(c) ==
  /\ c \in Running
  /\ cancelAt[c] = NoTime
  /\ cancelAt' = (c :> now) @@ cancelAt
  /\ UNCHANGED <<now, tokens, pc, attempt, wakeAt, sleepLen, granted>>

\* select on ctx.Done() with a default case.
CheckCtx(c) ==
  /\ pc[c] = "ctx"
  /\ pc' = (c :> IF cancelAt[c] # NoTime THEN "cancelled" ELSE "allow") @@ pc
  /\ UNCHANGED <<now, tokens, attempt, wakeAt, sleepLen, cancelAt, granted>>

\* Variant: the limiter grants a token when the bucket is exactly empty.
AllowEmptyBucket(c) ==
  /\ pc[c] = "allow"
  /\ IF tokens >= 0
       THEN /\ tokens' = tokens - 1
            /\ granted' = granted + 1
            /\ pc' = (c :> "ok") @@ pc
            /\ UNCHANGED <<wakeAt, sleepLen>>
       ELSE \E d \in Backoff(attempt[c]) :
              /\ pc' = (c :> "sleep") @@ pc
              /\ wakeAt' = (c :> now + d) @@ wakeAt
              /\ sleepLen' = (c :> d) @@ sleepLen
              /\ UNCHANGED <<tokens, granted>>
  /\ UNCHANGED <<now, attempt, cancelAt>>

\* t.limiter.Allow(): take a token and leave the loop, or back off.
Allow(c) ==
  /\ pc[c] = "allow"
  /\ IF tokens > 0
       THEN /\ tokens' = tokens - 1
            /\ granted' = granted + 1
            /\ pc' = (c :> "ok") @@ pc
            /\ UNCHANGED <<wakeAt, sleepLen>>
       ELSE \E d \in Backoff(attempt[c]) :
              /\ pc' = (c :> "sleep") @@ pc
              /\ wakeAt' = (c :> now + d) @@ wakeAt
              /\ sleepLen' = (c :> d) @@ sleepLen
              /\ UNCHANGED <<tokens, granted>>
  /\ UNCHANGED <<now, attempt, cancelAt>>

\* Variant: after a backoff the loop goes on without checking the context again.
WakeSkipCtx(c) ==
  /\ pc[c] = "sleep"
  /\ wakeAt[c] <= now
  /\ pc' = (c :> "allow") @@ pc
  /\ attempt' = (c :> attempt[c] + 1) @@ attempt
  /\ UNCHANGED <<now, tokens, wakeAt, sleepLen, cancelAt, granted>>

\* Variant: a backoff ends the loop as if a token had been taken.
WakeProceed(c) ==
  /\ pc[c] = "sleep"
  /\ wakeAt[c] <= now
  /\ pc' = (c :> "ok") @@ pc
  /\ granted' = granted + 1
  /\ attempt' = (c :> attempt[c] + 1) @@ attempt
  /\ UNCHANGED <<now, tokens, wakeAt, sleepLen, cancelAt>>

\* The sleep ends: attempt += 1 and back to the top of the loop.
Wake(c) ==
  /\ pc[c] = "sleep"
  /\ wakeAt[c] <= now
  /\ pc' = (c :> "ctx") @@ pc
  /\ attempt' = (c :> attempt[c] + 1) @@ attempt
  /\ UNCHANGED <<now, tokens, wakeAt, sleepLen, cancelAt, granted>>

\* A tick: the limiter earns a token, up to the burst size. Only sleeping
\* goroutines let time pass.
Tick ==
  /\ now < MaxTime
  /\ \A c \in Running : pc[c] = "sleep" /\ wakeAt[c] > now
  /\ now' = now + 1
  /\ tokens' = IF tokens < Limit THEN tokens + 1 ELSE tokens
  /\ UNCHANGED <<pc, attempt, wakeAt, sleepLen, cancelAt, granted>>

Next ==
  \/ Tick
  \/ \E c \in Callers :
       Call(c) \/ Cancel(c) \/ CheckCtx(c) \/ Allow(c) \/ Wake(c)

Spec == Init /\ [][Next]_vars

-----------------------------------------------------------------------------

TypeOK ==
  /\ now \in 0..MaxTime /\ tokens \in 0..Limit /\ granted \in Nat
  /\ pc \in [Callers -> {"idle", "ctx", "allow", "sleep", "ok", "cancelled"}]
  /\ attempt \in [Callers -> Nat] /\ wakeAt \in [Callers -> Nat]
  /\ sleepLen \in [Callers -> Nat] /\ cancelAt \in [Callers -> 0..NoTime]

(* However the dialers interleave, the throttler lets at most              *)
(* throttleLimit connection attempts through at once and one more per      *)
(* 1/throttleLimit seconds after: Acquire returns nil only after Allow     *)
(* granted it a token.                                                     *)
RateBound ==
  granted <= Limit + now

(* A cancelled Acquire returns no later than the end of the backoff it was *)
(* sleeping when its context was cancelled: the sleep itself is not        *)
(* interrupted (the TODO), but the next iteration must see ctx.Done().     *)
CancelLatencyBounded ==
  \A c \in Running :
    cancelAt[c] # NoTime => now <= cancelAt[c] + sleepLen[c]

====
