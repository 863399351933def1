------------------------------ MODULE ProposerVM ------------------------------
(***************************************************************************)
(* The proposer VM (src/vms/proposervm/vm.go): the fork boundary of        *)
(* ProposerFork composed with acceptance and crash recovery.               *)
(*                                                                         *)
(* The engine extends the preferred chain (ProposerFork's tip, kind, pts)  *)
(* and accepts its blocks oldest first. A pre-fork block's Accept is the   *)
(* inner VM's; accepting a post-fork block commits the proposer's last     *)
(* accepted id first and then accepts the inner block, so a crash in       *)
(* between, or an inner VM that loses its most recent accepts, leaves the  *)
(* inner chain behind the proposer chain. Initialize calls                 *)
(* repairAcceptedChain, which walks back from the proposer's last accepted *)
(* block until it finds an inner block that is accepted, then verifies    *)
(* and accepts the missing inner blocks oldest first. Which heights are    *)
(* pre-fork blocks, post-fork blocks or options is what the fork boundary  *)
(* produced. A crash loses every verified block above the last accepted.   *)
(*                                                                         *)
(* The accepted chain is a prefix of the preferred chain, so a block is    *)
(* named by its height.                                                    *)
(***************************************************************************)
EXTENDS Naturals, Sequences

CONSTANTS MaxHeight, InnerTs, Oracle, Activation, SyncBound, MaxNow
CONSTANTS
  InnerLossBound,  \* how many of its latest accepts the inner VM may lose in a crash
  MaxCrashes,      \* bound on the node's stops: crashes and failed Initializes
  RepairMayFail,   \* whether inner Verify/Accept may return an error during repair
  SetPrefMayFail   \* whether SetPreference's calls may return an error

ASSUME InnerLossBound \in Nat /\ MaxCrashes \in Nat /\ RepairMayFail \in BOOLEAN
ASSUME SetPrefMayFail \in BOOLEAN

VARIABLES now, tip, kind, pts
VARIABLES
  outer,     \* height of the proposer's persisted last accepted block, or NotFound
  inner,     \* height of the inner VM's last accepted block
  phase,     \* "running", "accepting" (outer accepted, inner not yet), "down", "repairing"
  toAccept,  \* repairAcceptedChain's toAccept, in the order the walk appends
  initErr,   \* error the last Initialize returned, "none" if it succeeded
  crashes
VARIABLES
  preferred, \* vm.preferred: the height of the block it names, or NoPreference
  innerPref  \* the inner VM's preference: the height of its preferred block

Fork == INSTANCE ProposerFork

chainVars == <<now, tip, kind, pts>>
repairVars == <<outer, inner, phase, toAccept, initErr, crashes>>
prefVars == <<preferred, innerPref>>
vars == <<chainVars, repairVars, prefVars>>

Heights == 0..MaxHeight

\* The value of State.GetLastAccepted when nothing is indexed (ErrNotFound).
NotFound == 0

\* vm.preferred of a new VM: ids.Empty, the id of no block of the chain.
NoPreference == MaxHeight + 1

\* Variant: LastAccepted always asks the inner VM.
LastAcceptedHeightInner(o, i) == i

(* VM.LastAccepted: the proposer's State.GetLastAccepted, or the inner     *)
(* VM's LastAccepted when that is ErrNotFound.                             *)
LastAcceptedHeight(o, i) == IF o = NotFound THEN i ELSE o

(* getPostForkBlock then getPostForkOption on an id, after a restart when  *)
(* verifiedBlocks is empty: the block comes from State.GetBlock, an option *)
(* from State.GetOption, and a pre-fork id is in neither (ErrNotFound).    *)
GetPostFork(h) ==
  CASE kind[h] = "pre"        -> "notFound"
    [] kind[h] = "postOption" -> "option"
    [] OTHER                  -> "block"

(* The loop of repairAcceptedChain: look the id up, stop at the first block *)
(* whose inner block is accepted, else append it and move to its parent.   *)
RECURSIVE WalkStopEarly(_, _)
\* Variant: the walk stops at the child of the inner VM's last accepted block.
WalkStopEarly(id, acc) ==
  IF GetPostFork(id) = "notFound" THEN [ok |-> FALSE, err |-> "notFound", plan |-> acc]
  ELSE IF id <= inner + 1 THEN [ok |-> TRUE, err |-> "none", plan |-> acc]
  ELSE WalkStopEarly(id - 1, Append(acc, id))

RECURSIVE Walk(_, _)
Walk(id, acc) ==
  IF GetPostFork(id) = "notFound" THEN [ok |-> FALSE, err |-> "notFound", plan |-> acc]
  ELSE IF id <= inner THEN [ok |-> TRUE, err |-> "none", plan |-> acc]
  ELSE Walk(id - 1, Append(acc, id))

-----------------------------------------------------------------------------

Init ==
  /\ Fork!Init
  /\ outer = NotFound
  /\ inner = 0
  /\ phase = "running"
  /\ toAccept = <<>>
  /\ initErr = "none"
  /\ crashes = 0
  /\ preferred = NoPreference
  /\ innerPref = 0

(* A call of the engine on a running node (BuildBlock, ParseBlock and      *)
(* Verify, Options); the engine holds the context lock, so none runs in    *)
(* the middle of an Accept. Every handler that changes the engine's       *)
(* preference ends with SetPreference, so the next one starts with        *)
(* vm.preferred naming the preferred tip.                                  *)
Engine(A) == phase = "running" /\ preferred = tip /\ A /\ UNCHANGED <<repairVars, prefVars>>

\* The proposer VM's clock runs whatever the node does.
Clock == Fork!Tick /\ UNCHANGED <<repairVars, prefVars>>

(* A pre-fork block is accepted by the inner VM only: preForkBlock embeds  *)
(* snowman.Block and so its Accept is the inner block's.                   *)
AcceptPreFork ==
  /\ phase = "running"
  /\ outer = NotFound
  /\ inner < tip
  /\ kind[inner + 1] = "pre"
  /\ inner' = inner + 1
  /\ UNCHANGED <<chainVars, outer, phase, toAccept, initErr, crashes, prefVars>>

(* Accepting a post-fork block or option: the proposer's last accepted id  *)
(* is committed first ...                                                  *)
AcceptOuter ==
  /\ phase = "running"
  /\ inner < tip
  /\ Fork!IsPost(inner + 1)
  /\ outer' = inner + 1
  /\ phase' = "accepting"
  /\ UNCHANGED <<chainVars, inner, toAccept, initErr, crashes, prefVars>>

(* ... and then the inner block is accepted.                               *)
AcceptInner ==
  /\ phase = "accepting"
  /\ inner' = outer
  /\ phase' = "running"
  /\ UNCHANGED <<chainVars, outer, toAccept, initErr, crashes, prefVars>>

(* The chain stops until the node restarts. The proposer's State is       *)
(* committed (versiondb) and survives; toAccept, verifiedBlocks and the    *)
(* preferred chain above the last accepted block are lost; the inner VM   *)
(* keeps its accepts except the last k of them. The restarted engine       *)
(* prefers LastAccepted: the proposer's, or the inner VM's if none.        *)
StopChain(k) ==
  /\ crashes < MaxCrashes
  /\ LET in == IF inner >= k THEN inner - k ELSE 0
         top == LastAcceptedHeight(outer, in)
     IN /\ inner' = in
        /\ tip' = top
        /\ kind' = [h \in Heights |-> IF h <= top THEN kind[h] ELSE "none"]
        /\ pts' = [h \in Heights |-> IF h <= top THEN pts[h] ELSE 0]
  /\ phase' = "down"
  /\ toAccept' = <<>>
  /\ crashes' = crashes + 1
  /\ UNCHANGED <<now, outer, initErr>>

(* The process crashes; the inner VM may lose up to InnerLossBound of its  *)
(* latest accepts.                                                         *)
Crash ==
  /\ phase \in {"running", "accepting", "repairing"}
  /\ \E k \in 0..InnerLossBound : StopChain(k)
  /\ UNCHANGED prefVars

(* VM.SetPreference(tip): the engine calls it at the end of every handler  *)
(* that changed its preference, and at start with LastAccepted. An id     *)
(* equal to vm.preferred returns at once. Otherwise vm.preferred is set    *)
(* first; a post-fork block or option passes its inner block to the inner *)
(* VM, a pre-fork id is passed as it is: either way the inner block at the *)
(* same height. The scheduler is then reset to the block's timestamp plus *)
(* the windower's delay. An error (the inner VM's, the option's P-chain    *)
(* height, the windower's) goes back to the engine, whose handler shuts    *)
(* the chain down until the node restarts.                                 *)
SetPreference ==
  /\ phase = "running"
  /\ preferred # tip
  /\ preferred' = tip
  /\ \/ /\ innerPref' = tip
        /\ UNCHANGED <<chainVars, repairVars>>
     \/ /\ SetPrefMayFail
        /\ StopChain(0)
        /\ UNCHANGED innerPref

(* Initialize: with no indexed last accepted block there is nothing to     *)
(* repair; otherwise the walk either fails, and Initialize returns its     *)
(* error, or yields the inner blocks to accept.                            *)
Restart ==
  /\ phase = "down"
  /\ IF outer = NotFound
       THEN /\ phase' = "running" /\ initErr' = "none" /\ toAccept' = <<>>
       ELSE LET w == Walk(outer, <<>>) IN
            /\ phase' = IF ~w.ok THEN "down"
                        ELSE IF w.plan = <<>> THEN "running" ELSE "repairing"
            /\ initErr' = w.err
            /\ toAccept' = IF w.ok THEN w.plan ELSE <<>>
  /\ preferred' = NoPreference
  /\ innerPref' = inner
  /\ UNCHANGED <<chainVars, outer, inner, crashes>>

RepairStepAcceptChild ==
  /\ phase = "repairing"
  /\ toAccept # <<>>
  /\ inner' = toAccept[Len(toAccept)] + 1
  /\ toAccept' = SubSeq(toAccept, 1, Len(toAccept) - 1)
  /\ phase' = IF Len(toAccept) = 1 THEN "running" ELSE "repairing"
  /\ UNCHANGED <<chainVars, outer, crashes, initErr, prefVars>>

(* One iteration of the second loop: toAccept[i] for i from len-1 down to  *)
(* 0 is verified and accepted; an error aborts Initialize, and the node    *)
(* stops.                                                                  *)
RepairStep ==
  /\ phase = "repairing"
  /\ toAccept # <<>>
  /\ \/ /\ inner' = toAccept[Len(toAccept)]
        /\ toAccept' = SubSeq(toAccept, 1, Len(toAccept) - 1)
        /\ phase' = IF Len(toAccept) = 1 THEN "running" ELSE "repairing"
        /\ UNCHANGED <<initErr, crashes>>
     \/ /\ RepairMayFail /\ crashes < MaxCrashes
        /\ phase' = "down"
        /\ toAccept' = <<>>
        /\ initErr' = "repairFailed"
        /\ crashes' = crashes + 1
        /\ UNCHANGED inner
  /\ UNCHANGED <<chainVars, outer, prefVars>>

Next ==
  \/ Engine(Fork!BuildBlock) \/ Engine(Fork!ReceivePreFork)
  \/ Engine(Fork!ReceivePostFork) \/ Engine(Fork!IssueOptions) \/ Clock
  \/ AcceptPreFork \/ AcceptOuter \/ AcceptInner
  \/ SetPreference
  \/ Crash \/ Restart \/ RepairStep

(* The engine builds whenever the VM is ready and issues the options of    *)
(* every verified oracle block; the clock runs; an Accept, once started,   *)
(* completes; Initialize runs to its end; a stopped node is restarted.     *)
Fairness ==
  /\ WF_vars(Engine(Fork!BuildBlock)) /\ WF_vars(Engine(Fork!IssueOptions))
  /\ WF_vars(SetPreference) /\ WF_vars(Clock) /\ WF_vars(AcceptInner)
  /\ WF_vars(Restart) /\ WF_vars(RepairStep)

Spec == Init /\ [][Next]_vars /\ Fairness

-----------------------------------------------------------------------------

TypeOK ==
  /\ Fork!TypeOK
  /\ outer \in Heights /\ inner \in Heights
  /\ phase \in {"running", "accepting", "down", "repairing"}
  /\ toAccept \in Seq(Heights)
  /\ initErr \in {"none", "notFound", "repairFailed"}
  /\ crashes \in 0..MaxCrashes
  /\ preferred \in Heights \cup {NoPreference} /\ innerPref \in Heights

(* Once Initialize has returned and the node is running, the inner VM has *)
(* accepted every block the proposer VM reports as accepted: the repair    *)
(* walk collects every inner block between the inner VM's last accepted   *)
(* block and the proposer's, and the second loop accepts all of them.     *)
RunningInSync ==
  phase = "running" /\ outer # NotFound => inner = outer

ForkAtActivation == Fork!ForkAtActivation

(* Block timestamps never decrease along the chain, and no post-fork block *)
(* is ahead of the local clock by more than syncBound.                     *)
TimestampsSane == Fork!TimestampsSane

(* A block the proposer VM has accepted stays on the chain: no crash,      *)
(* restart or later extension puts another block at its height. After a   *)
(* restart the engine must resume from VM.LastAccepted, the proposer's     *)
(* last accepted block, not the inner VM's, which may lag behind it.       *)
AcceptedNeverReplaced ==
  [][\A h \in 1..outer : kind'[h] = kind[h] /\ pts'[h] = pts[h]]_vars

(* The chain can always be extended: the preferred chain eventually        *)
(* reaches the inner VM's last block, across the fork and any crashes,     *)
(* unless a restart failed to find a block (NoRepairLookupFailure).        *)
ReachesLastBlock ==
  <>(tip = MaxHeight \/ initErr = "notFound")

(* A restart never fails because the repair walk looked up a block that   *)
(* neither State.GetBlock nor State.GetOption knows (vm.go:128-137): the  *)
(* node must be able to restart after any crash.                          *)
NoRepairLookupFailure ==
  initErr # "notFound"

=============================================================================
