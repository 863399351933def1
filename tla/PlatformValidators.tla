-------------------------- MODULE PlatformValidators --------------------------
(***************************************************************************)
(* The staker-set computations of the platform VM (src/unnamed/part_004):  *)
(* calculateValidators, which advances a subnet's current and pending      *)
(* staker heaps to a new chain timestamp, and getValidators, which sums    *)
(* the stake weight of each node in a heap.                                *)
(*                                                                         *)
(* calculateValidators is a loop over two EventHeaps, modelled one         *)
(* iteration per step so that a loop that makes no progress shows up as a  *)
(* behaviour that never finishes. A heap is the set of its staker txs;     *)
(* Peek is any staker with the least key, which leaves the heap's          *)
(* tie-break open.                                                         *)
(***************************************************************************)
EXTENDS Naturals, FiniteSets, FiniteSetsExt

CONSTANTS
  Stakers,   \* staker txs (model values)
  Kind,      \* Kind[s]: "defaultValidator", "defaultDelegator" or "subnetValidator"
  NodeOf,    \* NodeOf[s]: the node id of the tx's Vdr()
  Start,     \* Start[s]: StartTime()
  End,       \* End[s]: EndTime()
  Weight,    \* Weight[s]: Vdr().Weight()
  Times,     \* chain timestamps the loop may be asked to advance to
  WordBits   \* width of the weight counter (uint64 in the code)

MaxWord == 2^WordBits - 1

ASSUME /\ \A s \in Stakers : Kind[s] \in {"defaultValidator", "defaultDelegator", "subnetValidator"}
       /\ \A s \in Stakers : Start[s] < End[s] /\ Weight[s] \in 0..MaxWord

\* The stakers a subnet's heaps can hold: the default subnet holds validators
\* and delegators, any other subnet holds its subnet validators.
SubnetStakers(sub) ==
  IF sub = "default" THEN {s \in Stakers : Kind[s] # "subnetValidator"}
  ELSE {s \in Stakers : Kind[s] = "subnetValidator"}

VARIABLES
  subnet,     \* "default" or "other": the subnetID argument
  timestamp,  \* the timestamp argument
  current,    \* the current heap (ordered by end time)
  pending,    \* the pending heap (ordered by start time)
  started,    \* started ids
  stopped,    \* stopped ids
  pc,         \* "removeEnded", "addStarted" or "done"
  current0,   \* the heaps as read from the database, kept for the reference
  pending0

vars == <<subnet, timestamp, current, pending, started, stopped, pc, current0, pending0>>

\* EventHeap.Peek of the current heap: a staker with the earliest end time.
PeekEnd(h) == {s \in h : \A o \in h : End[s] <= End[o]}

\* EventHeap.Peek of the pending heap: a staker with the earliest start time.
PeekStart(h) == {s \in h : \A o \in h : Start[s] <= Start[o]}

-----------------------------------------------------------------------------

(* getCurrentValidators and getPendingValidators return any two disjoint   *)
(* heaps of the subnet's stakers.                                          *)
Init ==
  /\ subnet \in {"default", "other"}
  /\ timestamp \in Times
  /\ current0 \in SUBSET SubnetStakers(subnet)
  /\ pending0 \in SUBSET (SubnetStakers(subnet) \ current0)
  /\ current = current0
  /\ pending = pending0
  /\ started = {} /\ stopped = {}
  /\ pc = "removeEnded"

\* Variant: stopped records the staker tx id instead of the validator's node id.
RemoveEndedTxID ==
  /\ pc = "removeEnded"
  /\ IF subnet = "default" \/ current = {}
       THEN pc' = "addStarted" /\ UNCHANGED <<current, stopped>>
       ELSE \E next \in PeekEnd(current) :
              IF timestamp < End[next]
                THEN pc' = "addStarted" /\ UNCHANGED <<current, stopped>>
                ELSE /\ current' = current \ {next}
                     /\ stopped' = stopped \cup {next}
                     /\ UNCHANGED pc
  /\ UNCHANGED <<subnet, timestamp, pending, started, current0, pending0>>

\* Variant: a validator ending exactly at timestamp is kept.
RemoveEndedInclusive ==
  /\ pc = "removeEnded"
  /\ IF subnet = "default" \/ current = {}
       THEN pc' = "addStarted" /\ UNCHANGED <<current, stopped>>
       ELSE \E next \in PeekEnd(current) :
              IF timestamp <= End[next]
                THEN pc' = "addStarted" /\ UNCHANGED <<current, stopped>>
                ELSE /\ current' = current \ {next}
                     /\ stopped' = stopped \cup {NodeOf[next]}
                     /\ UNCHANGED pc
  /\ UNCHANGED <<subnet, timestamp, pending, started, current0, pending0>>

(* The first loop: for a subnet other than the default one, remove current *)
(* validators whose end time is not after timestamp, earliest first.       *)
RemoveEnded ==
  /\ pc = "removeEnded"
  /\ IF subnet = "default" \/ current = {}
       THEN pc' = "addStarted" /\ UNCHANGED <<current, stopped>>
       ELSE \E next \in PeekEnd(current) :
              IF timestamp < End[next]
                THEN pc' = "addStarted" /\ UNCHANGED <<current, stopped>>
                ELSE /\ current' = current \ {next}
                     /\ stopped' = stopped \cup {NodeOf[next]}
                     /\ UNCHANGED pc
  /\ UNCHANGED <<subnet, timestamp, pending, started, current0, pending0>>

(* The second loop: move pending stakers whose start time is not after     *)
(* timestamp to the current heap. Its `break` statements leave the type    *)
(* switch, not the for loop, so a staker that has not started yet, or a    *)
(* delegator (no case of the switch), leaves every variable as it was and  *)
(* the loop runs again on the same heap.                                   *)
AddStarted ==
  /\ pc = "addStarted"
  /\ IF pending = {}
       THEN pc' = "done" /\ UNCHANGED <<current, pending, started>>
       ELSE \E next \in PeekStart(pending) :
              IF Kind[next] \in {"defaultValidator", "subnetValidator"}
                 /\ ~(timestamp < Start[next])
                THEN /\ current' = current \cup {next}
                     /\ pending' = pending \ {next}
                     /\ started' = started \cup {NodeOf[next]}
                     /\ UNCHANGED pc
                ELSE UNCHANGED <<current, pending, started, pc>>
  /\ UNCHANGED <<subnet, timestamp, stopped, current0, pending0>>

Next == RemoveEnded \/ AddStarted

Spec == Init /\ [][Next]_vars /\ WF_vars(Next)

-----------------------------------------------------------------------------

(* safemath.Add64, with the overflow error mapped to math.MaxUint64.       *)
SatAdd(a, b) == IF a + b > MaxWord THEN MaxWord ELSE a + b

(* getValidators: one Validator per node id, whose weight is the           *)
(* overflow-saturated sum of the weights of that node's txs in the heap.   *)
GetValidators(h) ==
  [n \in {NodeOf[s] : s \in h} |->
     FoldSet(LAMBDA s, acc : SatAdd(acc, Weight[s]), 0, {s \in h : NodeOf[s] = n})]

-----------------------------------------------------------------------------

TypeOK ==
  /\ subnet \in {"default", "other"} /\ timestamp \in Times
  /\ current \subseteq Stakers /\ pending \subseteq Stakers
  /\ started \subseteq {NodeOf[s] : s \in Stakers}
  /\ stopped \subseteq {NodeOf[s] : s \in Stakers}
  /\ pc \in {"removeEnded", "addStarted", "done"}

(* What calculateValidators promises (its doc comment): when it returns,   *)
(* current and pending are the subnet's heaps with the chain time advanced *)
(* to timestamp -- non-default validators whose end time has come removed, *)
(* stakers whose start time has come moved from pending to current -- and *)
(* started/stopped name exactly the nodes moved.                           *)
EndedAt(h) == IF subnet = "default" THEN {} ELSE {c \in h : End[c] <= timestamp}
StartedBy(h) == {p \in h : Start[p] <= timestamp}

ReturnsAdvancedSets ==
  pc = "done" =>
    /\ current = (current0 \ EndedAt(current0)) \cup StartedBy(pending0)
    /\ pending = pending0 \ StartedBy(pending0)
    /\ stopped = {NodeOf[c] : c \in EndedAt(current0)}
    /\ started = {NodeOf[p] : p \in StartedBy(pending0)}

(* calculateValidators returns: every call eventually finishes, whatever   *)
(* the heaps hold (the loop runs under the engine's context lock, so a     *)
(* call that never returns stalls the chain).                              *)
Terminates == <>(pc = "done")

====
