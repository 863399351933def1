--------------------------- MODULE PlatformBuilder ---------------------------
(***************************************************************************)
(* Block building in the platform VM (src/unnamed/part_004): issueTx,      *)
(* BuildBlock, resetTimer, SetPreference and the timer callback.           *)
(*                                                                         *)
(* The VM holds unissued decision and atomic txs and unissued add-         *)
(* validator txs (events). resetTimer decides whether a block can be built *)
(* now, and if so calls NotifyBlockReady; otherwise it arms the timer for  *)
(* the next validator-set change. The engine answers a notification by     *)
(* calling BuildBlock and issuing the block, which extends the preferred   *)
(* tip and so becomes preferred: SetPreference(new block) -> resetTimer.   *)
(*                                                                         *)
(* Everything runs under the context lock, so every handler is one action. *)
(* The preferred block's database (its onAccept state) is abstracted to    *)
(* the chain timestamp and the default subnet's pending and current        *)
(* stakers, each a [start, end] record; txs are counted, not named.        *)
(***************************************************************************)
EXTENDS Naturals, FiniteSets

CONSTANTS
  MaxTime,        \* maxTime: later than any time the model reaches
  Delta,          \* the synchrony bound Delta
  StakeDuration,  \* end time minus start time of an add-validator tx
  BatchSize,      \* BatchSize
  MaxTxs,         \* bound on the decision and atomic txs issued
  MayFail         \* whether block construction, Verify or PutBlock may fail

ASSUME MaxTime \in Nat /\ Delta \in Nat /\ StakeDuration \in Nat \ {0}
       /\ BatchSize \in Nat \ {0} /\ MaxTxs \in Nat /\ MayFail \in BOOLEAN

Times == 0..(MaxTime - 1)
NoTimer == MaxTime
Staker == [start : 0..MaxTime, end : 0..(MaxTime + StakeDuration)]

VARIABLES
  local,      \* vm.clock.Time()
  decQ,       \* len(vm.unissuedDecisionTxs)
  atomQ,      \* len(vm.unissuedAtomicTxs)
  events,     \* vm.unissuedEvents: start times of unissued add-validator txs
  issued,     \* decision and atomic txs issued so far (bounded by MaxTxs)
  chainTs,    \* timestamp in the preferred block's database
  pend,       \* pending default-subnet stakers in that database
  cur,        \* current default-subnet stakers in that database
  notified,   \* a NotifyBlockReady is outstanding (the engine will call BuildBlock)
  timerAt     \* the time the timer is armed for, NoTimer if it is not armed

vars == <<local, decQ, atomQ, events, issued, chainTs, pend, cur, notified, timerAt>>

MinOf(S) == IF S = {} THEN MaxTime ELSE CHOOSE t \in S : \A u \in S : t <= u

\* nextValidatorChangeTime(db, true) and (db, false), and their minimum.
NextStart(p) == MinOf({v.start : v \in p})
NextEnd(c) == MinOf({v.end : v \in c})
NextChange(p, c) == MinOf({NextStart(p), NextEnd(c)})

\* The events resetTimer and BuildBlock keep: start time not before local + Delta.
\* Variant: the synchrony bound Delta is left out.
TimelyNoDelta(ev) == {t \in ev : t >= local}

Timely(ev) == {t \in ev : t >= local + Delta}

(* resetTimer, given the queues and the preferred state: the resulting      *)
(* notification flag, timer and event heap (it drops untimely events).      *)
ResetTimer(dq, aq, ev, ts, p, c, tm) ==
  CASE dq > 0 \/ aq > 0 ->
         [notify |-> TRUE, timer |-> tm, events |-> ev]
    [] ts = NextEnd(c) ->
         [notify |-> TRUE, timer |-> tm, events |-> ev]
    [] local >= NextChange(p, c) ->
         [notify |-> TRUE, timer |-> tm, events |-> ev]
    [] Timely(ev) # {} ->
         [notify |-> TRUE, timer |-> tm, events |-> Timely(ev)]
    [] OTHER ->
         [notify |-> FALSE, timer |-> NextChange(p, c), events |-> {}]

\* Commit the result of resetTimer together with the other assignments.
Reset(dq, aq, ev, ts, p, c, tm) ==
  LET r == ResetTimer(dq, aq, ev, ts, p, c, tm) IN
  /\ notified' = (notified \/ r.notify)
  /\ timerAt' = r.timer
  /\ events' = r.events

(* Moving the chain time to t: calculateValidators moves stakers whose     *)
(* start time has come from pending to current.                            *)
Advance(t) ==
  [ts |-> t, pend |-> {v \in pend : v.start > t},
   cur |-> cur \cup {v \in pend : v.start <= t}]

-----------------------------------------------------------------------------

Init ==
  /\ local = 0 /\ decQ = 0 /\ atomQ = 0 /\ events = {} /\ issued = 0
  /\ chainTs = 0
  /\ pend = {} /\ cur = {[start |-> 0, end |-> StakeDuration]}
  /\ notified = FALSE
  /\ timerAt = NextChange({}, {[start |-> 0, end |-> StakeDuration]})

(* issueTx: queue the tx, then resetTimer.                                  *)
IssueDecision ==
  /\ issued < MaxTxs
  /\ decQ' = decQ + 1 /\ issued' = issued + 1
  /\ Reset(decQ + 1, atomQ, events, chainTs, pend, cur, timerAt)
  /\ UNCHANGED <<local, atomQ, chainTs, pend, cur>>

IssueAtomic ==
  /\ issued < MaxTxs
  /\ atomQ' = atomQ + 1 /\ issued' = issued + 1
  /\ Reset(decQ, atomQ + 1, events, chainTs, pend, cur, timerAt)
  /\ UNCHANGED <<local, decQ, chainTs, pend, cur>>

IssueEvent(t) ==
  /\ t \notin events
  /\ Reset(decQ, atomQ, events \cup {t}, chainTs, pend, cur, timerAt)
  /\ UNCHANGED <<local, decQ, atomQ, issued, chainTs, pend, cur>>

(* Local time passes.                                                      *)
Tick ==
  /\ local < MaxTime - 1
  /\ local' = local + 1
  /\ UNCHANGED <<decQ, atomQ, events, issued, chainTs, pend, cur, notified, timerAt>>

(* The timer goroutine's timeout: the callback takes the lock and calls    *)
(* resetTimer; the timeout that fired is no longer armed.                  *)
TimerFire ==
  /\ timerAt <= local
  /\ Reset(decQ, atomQ, events, chainTs, pend, cur, NoTimer)
  /\ UNCHANGED <<local, decQ, atomQ, issued, chainTs, pend, cur>>

-----------------------------------------------------------------------------

(* The engine answers a notification: BuildBlock, then the new block is    *)
(* issued and preferred, SetPreference(new block) -> resetTimer on the new *)
(* preferred state. A BuildBlock error is returned to the engine, which    *)
(* gives up on this notification; only some error paths call resetTimer.  *)
Built(dq, aq, ev, st) ==
  /\ decQ' = dq /\ atomQ' = aq
  /\ chainTs' = st.ts /\ pend' = st.pend /\ cur' = st.cur
  /\ LET r == ResetTimer(dq, aq, ev, st.ts, st.pend, st.cur, timerAt) IN
     /\ notified' = r.notify /\ timerAt' = r.timer /\ events' = r.events

Failed(dq, aq, ev) ==
  /\ decQ' = dq /\ atomQ' = aq /\ events' = ev
  /\ notified' = FALSE
  /\ UNCHANGED <<chainTs, pend, cur, timerAt>>

Unchanged == [ts |-> chainTs, pend |-> pend, cur |-> cur]

\* Variant: a batch of BatchSize txs is taken even when fewer are queued.
BuildDecisionWholeBatch ==
  Built(decQ - BatchSize, atomQ, events, Unchanged)

BuildDecision ==
  LET n == IF BatchSize < decQ THEN BatchSize ELSE decQ IN
  \* success, or newStandardBlock/Verify/PutBlock failing: both call resetTimer
  Built(decQ - n, atomQ, events, Unchanged)

BuildAtomic ==
  \/ Built(decQ, atomQ - 1, events, Unchanged)
  \/ MayFail /\ Failed(decQ, atomQ - 1, events)   \* newAtomicBlock or PutBlock error

BuildReward ==
  \E v \in {w \in cur : w.end = NextEnd(cur)} :
     \/ Built(decQ, atomQ, events, [Unchanged EXCEPT !.cur = cur \ {v}])
     \/ MayFail /\ Failed(decQ, atomQ, events)

\* Variant: the chain time is advanced to the next start time only, ignoring end times.
BuildAdvanceTimeStartOnly ==
  \/ Built(decQ, atomQ, events, Advance(NextStart(pend)))
  \/ MayFail /\ Failed(decQ, atomQ, events)

BuildAdvanceTime ==
  \/ Built(decQ, atomQ, events, Advance(NextChange(pend, cur)))
  \/ MayFail /\ Failed(decQ, atomQ, events)

BuildAddValidator ==
  LET t == MinOf(Timely(events))
      rest == Timely(events) \ {t}
  IN \/ Built(decQ, atomQ, rest,
              [Unchanged EXCEPT !.pend = pend \cup {[start |-> t, end |-> t + StakeDuration]}])
     \/ MayFail /\ Failed(decQ, atomQ, rest)

\* Variant: the advance-time branch is taken one tick before the change is due.
EngineBuildEarlyAdvance ==
  /\ notified
  /\ CASE decQ > 0 -> BuildDecision
       [] atomQ > 0 -> BuildAtomic
       [] chainTs = NextEnd(cur) -> BuildReward
       [] local + 1 >= NextChange(pend, cur) -> BuildAdvanceTime
       [] Timely(events) # {} -> BuildAddValidator
       [] OTHER -> Failed(decQ, atomQ, {})
  /\ UNCHANGED <<local, issued>>

EngineBuild ==
  /\ notified
  /\ CASE decQ > 0 -> BuildDecision
       [] atomQ > 0 -> BuildAtomic
       [] chainTs = NextEnd(cur) -> BuildReward
       [] local >= NextChange(pend, cur) -> BuildAdvanceTime
       [] Timely(events) # {} -> BuildAddValidator
       [] OTHER -> Failed(decQ, atomQ, {})           \* errNoPendingBlocks
  /\ UNCHANGED <<local, issued>>

Next ==
  \/ IssueDecision \/ IssueAtomic \/ \E t \in Times : IssueEvent(t)
  \/ Tick \/ TimerFire \/ EngineBuild

Spec == Init /\ [][Next]_vars

-----------------------------------------------------------------------------

TypeOK ==
  /\ local \in Times /\ chainTs \in Times
  /\ decQ \in 0..MaxTxs /\ atomQ \in 0..MaxTxs /\ issued \in 0..MaxTxs
  /\ events \subseteq Times
  /\ pend \subseteq Staker /\ cur \subseteq Staker
  /\ notified \in BOOLEAN /\ timerAt \in 0..MaxTime

\* BuildBlock would return a block now rather than errNoPendingBlocks.
Buildable ==
  \/ decQ > 0 \/ atomQ > 0
  \/ chainTs = NextEnd(cur)
  \/ local >= NextChange(pend, cur)
  \/ Timely(events) # {}

(* No lost wakeup: whenever BuildBlock could build a block, the engine has *)
(* been notified or the timer is due; and when nothing can be built yet,   *)
(* the timer is armed no later than the next validator-set change. Every   *)
(* path through issueTx, BuildBlock, the timer callback and SetPreference  *)
(* has to leave a notification or an armed timer behind.                   *)
NoLostWakeup ==
  ~notified =>
    LET wake == IF Buildable THEN local ELSE NextChange(pend, cur)
    IN  wake < MaxTime => timerAt <= wake

(* The staker schedule stays consistent with the chain time: no current  *)
(* default-subnet validator has an end time before it (BuildBlock must      *)
(* issue its reward proposal first, so an advance-time block stops at the   *)
(* earlier of the next start and the next end), and every pending staker    *)
(* starts strictly after it (add-validator blocks only take txs at least    *)
(* Delta past the local clock, which the chain time never passes).          *)
StakerTimesConsistent ==
  /\ \A v \in cur : v.end >= chainTs
  /\ \A v \in pend : v.start > chainTs

(* The preferred chain's timestamp never moves backwards, and only moves    *)
(* to a validator-set change time the local clock has reached: BuildBlock   *)
(* proposes an advance only when !localTime.Before(nextValidatorSetChange). *)
ChainTimeMonotonic ==
  [][chainTs' # chainTs => chainTs < chainTs' /\ chainTs' <= local]_vars

====
