----------------------------- MODULE ProposerFork -----------------------------
(***************************************************************************)
(* The fork boundary of the proposer VM (src/vms/proposervm): which blocks *)
(* a chain of pre-fork blocks may be extended with, and what BuildBlock    *)
(* builds, around activationTime.                                          *)
(*                                                                         *)
(* A pre-fork block is the inner VM's block itself; a post-fork block      *)
(* wraps an inner block with its own timestamp. A block's children are    *)
(* judged by the parent: pre-fork children are accepted only while the     *)
(* parent's timestamp is before activationTime, post-fork children only    *)
(* once it is not. The inner chain is given: InnerTs[h] is the timestamp   *)
(* of the inner block at height h, and an inner block in Oracle is an      *)
(* OracleBlock (a platform-chain proposal block), whose only children are  *)
(* its two options.                                                        *)
(*                                                                         *)
(* The model follows the preferred chain the engine extends: at each       *)
(* height the first block that passes Verify. Blocks come from the local   *)
(* BuildBlock, from peers (ParseBlock, any timestamp), and from Options()  *)
(* of a verified oracle block. The engine is single-threaded: each call is *)
(* one action, and a block that fails Verify is dropped.                   *)
(***************************************************************************)
EXTENDS Naturals, TLC

CONSTANTS
  MaxHeight,     \* height of the last inner block
  InnerTs,       \* InnerTs[h]: the inner block's Timestamp()
  Oracle,        \* heights of inner blocks that are OracleBlocks
  Activation,    \* activationTime
  SyncBound,     \* syncBound
  MaxNow         \* bound on the proposer VM's clock

Heights == 0..MaxHeight
Times == 0..(MaxNow + SyncBound + 1)

ASSUME /\ InnerTs \in [Heights -> 0..MaxNow]
       /\ \A h \in 1..MaxHeight : InnerTs[h - 1] <= InnerTs[h]
       /\ Oracle \subseteq 0..(MaxHeight - 1)

VARIABLES
  now,   \* vm.Time()
  tip,   \* height of the preferred chain's last verified block
  kind,  \* kind[h]: "pre", "post" (postForkBlock), "postOption" or "none"
  pts    \* pts[h]: a post-fork block's timestamp

vars == <<now, tip, kind, pts>>

\* Block.Timestamp(): the inner block's for a pre-fork block.
TsOf(h) == IF kind[h] = "pre" THEN InnerTs[h] ELSE pts[h]

IsPost(h) == kind[h] \in {"post", "postOption"}

\* Variant: a parent stamped exactly at activationTime still takes pre-fork children.
VerifyPreForkChildInclusive(h) ==
  /\ ~IsPost(h)
  /\ TsOf(h) <= Activation

(* Verify of a pre-fork child of the block at h: preForkBlock.Verify ->    *)
(* parent.verifyPreForkChild. A post-fork parent refuses an unsigned       *)
(* child.                                                                  *)
VerifyPreForkChild(h) ==
  /\ ~IsPost(h)
  /\ TsOf(h) < Activation

\* Variant: errTimeNotMonotonic is never returned.
VerifyPostForkChildNoMonotonic(h, t) ==
  /\ IF IsPost(h) THEN TRUE ELSE TsOf(h) >= Activation
  /\ t <= now + SyncBound

(* Verify of a post-fork child with timestamp t of the block at h.         *)
(* The inner parent is the parent's inner block by construction; the      *)
(* signature and the inner block's Verify succeed.                         *)
VerifyPostForkChild(h, t) ==
  /\ IF IsPost(h) THEN TRUE ELSE TsOf(h) >= Activation
  /\ t >= TsOf(h)
  /\ t <= now + SyncBound

(* Verify of a post-fork option of the block at h: a pre-fork parent      *)
(* refuses every option (errProposersActivated).                           *)
VerifyPostForkOption(h) ==
  IsPost(h)

\* Extend the preferred chain with a verified block at height tip + 1.
Extend(k, t) ==
  /\ tip' = tip + 1
  /\ kind' = (tip + 1 :> k) @@ kind
  /\ pts' = (tip + 1 :> t) @@ pts
  /\ UNCHANGED now

-----------------------------------------------------------------------------

Init ==
  /\ now = 0
  /\ tip = 0
  /\ kind = [h \in Heights |-> IF h = 0 THEN "pre" ELSE "none"]
  /\ pts = [h \in Heights |-> 0]

\* Variant: buildChild still builds a pre-fork block on a parent stamped at activationTime.
BuildBlockInclusive ==
  /\ tip < MaxHeight
  /\ tip \notin Oracle
  /\ IF ~IsPost(tip) /\ TsOf(tip) <= Activation
       THEN VerifyPreForkChild(tip) /\ Extend("pre", 0)
       ELSE LET t == IF now < TsOf(tip) THEN TsOf(tip) ELSE now
            IN  VerifyPostForkChild(tip, t) /\ Extend("post", t)

(* vm.BuildBlock: the inner VM builds on the preferred tip (never on an    *)
(* oracle block, whose children are options), and preferredBlock.buildChild *)
(* wraps it: a pre-fork parent before activationTime yields a pre-fork     *)
(* block, any other parent a post-fork block stamped max(vm.Time(), the    *)
(* parent's timestamp). The engine then calls Verify on it.                *)
BuildBlock ==
  /\ tip < MaxHeight
  /\ tip \notin Oracle
  /\ IF ~IsPost(tip) /\ TsOf(tip) < Activation
       THEN VerifyPreForkChild(tip) /\ Extend("pre", 0)
       ELSE LET t == IF now < TsOf(tip) THEN TsOf(tip) ELSE now
            IN  VerifyPostForkChild(tip, t) /\ Extend("post", t)

(* vm.ParseBlock of a peer's block for height tip + 1, then Verify:         *)
(* either the inner block's bytes (a pre-fork block) or a post-fork block  *)
(* wrapping it with any timestamp.                                         *)
ReceivePreFork ==
  /\ tip < MaxHeight
  /\ tip \notin Oracle
  /\ VerifyPreForkChild(tip)
  /\ Extend("pre", 0)

ReceivePostFork ==
  /\ tip < MaxHeight
  /\ tip \notin Oracle
  /\ \E t \in Times : VerifyPostForkChild(tip, t) /\ Extend("post", t)

(* The engine issues the options of a verified oracle block:                *)
(* preForkBlock.Options wraps the inner options as pre-fork blocks; a      *)
(* post-fork oracle yields post-fork options stamped with its timestamp.   *)
(* Peers may also send post-fork options of a pre-fork oracle.             *)
IssueOptions ==
  /\ tip \in Oracle
  /\ \/ ~IsPost(tip) /\ VerifyPreForkChild(tip) /\ Extend("pre", 0)
     \/ VerifyPostForkOption(tip) /\ Extend("postOption", TsOf(tip))

\* Variant: the clock is not bounded.
TickUnbounded ==
  /\ now' = now + 1
  /\ UNCHANGED <<tip, kind, pts>>

\* vm.Time() advances.
Tick ==
  /\ now < MaxNow
  /\ now' = now + 1
  /\ UNCHANGED <<tip, kind, pts>>

Next == BuildBlock \/ ReceivePreFork \/ ReceivePostFork \/ IssueOptions \/ Tick

(* The engine builds whenever the VM is ready, issues the options of every *)
(* verified oracle block, and the clock runs.                              *)
Fairness == WF_vars(BuildBlock) /\ WF_vars(IssueOptions) /\ WF_vars(Tick)

Spec == Init /\ [][Next]_vars /\ Fairness

-----------------------------------------------------------------------------

TypeOK ==
  /\ now \in 0..MaxNow /\ tip \in Heights
  /\ kind \in [Heights -> {"pre", "post", "postOption", "none"}]
  /\ pts \in [Heights -> Times]

(* The chain forks exactly once and at the activation time: a block is     *)
(* post-fork if and only if its parent's timestamp is at or after          *)
(* activationTime, whichever of BuildBlock, a peer or Options produced it. *)
ForkAtActivation ==
  \A h \in 1..tip : IsPost(h) <=> TsOf(h - 1) >= Activation

(* Block timestamps never decrease along the chain, and no post-fork block *)
(* is ahead of the local clock by more than syncBound.                     *)
TimestampsSane ==
  \A h \in 1..tip :
    /\ TsOf(h) >= TsOf(h - 1)
    /\ IsPost(h) => TsOf(h) <= now + SyncBound

(* The chain can always be extended: the preferred chain eventually        *)
(* reaches the inner VM's last block, across the fork.                     *)
ReachesLastBlock ==
  <>(tip = MaxHeight)

====
