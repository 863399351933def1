--------------------------- MODULE PlatformImport ---------------------------
(***************************************************************************)
(* Import of AVAX from the X-chain into the P-chain                        *)
(* (src/vms/platformvm/verifiable_import_tx.go).                           *)
(*                                                                         *)
(* The X-chain exports UTXOs into the shared memory it shares with the     *)
(* P-chain. A wallet builds an import tx (newImportTx) from what shared   *)
(* memory holds then; the tx waits in the mempool, is put in a block on   *)
(* the tip of the processing chain and verified there (SemanticVerify     *)
(* against the parent block's state), and when the block is accepted the *)
(* imported UTXOs are removed from shared memory (Accept). SemanticVerify *)
(* does not record the imported UTXOs in the versioned state: a block's   *)
(* verification sees only the accepted shared memory, and the block layer *)
(* refuses a tx whose InputUTXOs overlap those of a processing ancestor.   *)
(*                                                                         *)
(* Until the node has bootstrapped it replays blocks the network accepted, *)
(* and SemanticVerify skips the shared-memory lookup and the flow check:   *)
(* the local X-chain may not have replayed the export yet. Shared memory  *)
(* (chains/atomic) then records a removal of a UTXO it does not hold, and  *)
(* drops the UTXO when the export puts it later.                           *)
(*                                                                         *)
(* Amounts are small naturals and MaxUint stands for the largest uint64.   *)
(* P-chain UTXOs are records [id, amt]: id 0 is the wallet's initial UTXO, *)
(* id i the output of the i-th built tx.                                   *)
(***************************************************************************)
EXTENDS Naturals, Sequences, SequencesExt, FiniteSetsExt

CONSTANTS
  AtomicUTXO,   \* UTXOs the X-chain may export to the P-chain
  Amount,       \* Amount[u]
  AVAX,         \* the atomic UTXOs of asset vm.ctx.AVAXAssetID
  Owned,        \* the atomic UTXOs kc.Spend can spend with the wallet's keys
  InitShared,   \* exported before the start
  InitLocal,    \* the wallet's P-chain UTXOs at the start
  TxFee,        \* vm.TxFee
  MaxUint,      \* the largest uint64, scaled down
  MaxTxs        \* bound on built transactions

ASSUME /\ Amount \in [AtomicUTXO -> 1..MaxUint]
       /\ AVAX \cup Owned \cup InitShared \subseteq AtomicUTXO
       /\ TxFee \in 1..MaxUint

TxIds == 1..MaxTxs
LocalUTXO == [id : 0..MaxTxs, amt : 1..MaxUint]
ImportTx == [id : TxIds, imported : SUBSET AtomicUTXO, ins : SUBSET LocalUTXO,
             out : 0..MaxUint]

VARIABLES
  shared,    \* the P-chain's view of shared memory: UTXOs exported and not removed
  exported,  \* UTXOs the X-chain has exported so far
  local,     \* the wallet's UTXOs in the last accepted P-chain state
  mempool,   \* built import txs not yet in a block
  chain,     \* the processing blocks (one tx each), oldest first
  nextId,    \* id of the next tx newImportTx builds
  burned,    \* value consumed and not produced by accepted txs (fees)
  bootstrapped, \* vm.bootstrapped
  removed,   \* shared memory's removal markers: UTXOs removed before they were put
  others     \* value the network's replayed imports paid to other owners

vars == <<shared, exported, local, mempool, chain, nextId, burned, bootstrapped, removed, others>>
bootVars == <<bootstrapped, removed, others>>

LAmt(r) == r.amt
AAmt(u) == Amount[u]
LocalSum(S) == MapThenSumSet(LAmt, S)
AtomicSum(S) == MapThenSumSet(AAmt, S)

\* Variant: InputUTXOs misses the imported inputs.
InputUTXOsNone(tx) == {}

\* InputUTXOs: the ids of the imported inputs.
InputUTXOs(tx) == tx.imported

\* Variant: an output is produced even when the amount is zero.
OutputsAlways(tx) == {[id |-> tx.id, amt |-> tx.out]}

\* consumeInputs and produceOutputs on a state.
Outputs(tx) == IF tx.out > 0 THEN {[id |-> tx.id, amt |-> tx.out]} ELSE {}

Apply(st, tx) == (st \ tx.ins) \cup Outputs(tx)

\* The state of the tip of the processing chain.
TipState == FoldLeft(Apply, local, chain)

(* SemanticVerify on a block whose parent state is `parent`: the          *)
(* syntactic check (errNoImportInputs), every local input in the parent   *)
(* state (GetUTXO), every imported UTXO in shared memory (SharedMemory.Get *)
(* and the flow check of semanticVerifySpendUTXOs, both only when          *)
(* bootstrapped.                                                           *)
SemanticVerify(tx, parent, boot) ==
  /\ tx.imported # {}
  /\ tx.ins \subseteq parent
  /\ boot => /\ tx.imported \subseteq shared
             /\ LocalSum(tx.ins) + AtomicSum(tx.imported) >= tx.out + TxFee

(* SharedMemory.Apply with RemoveRequests: a UTXO it holds is deleted, one *)
(* it does not hold yet gets a removal marker.                             *)
RemoveUTXOs(I) ==
  /\ shared' = shared \ I
  /\ removed' = removed \cup (I \ shared)

\* The atomic UTXOs some accepted import has consumed.
Consumed == (exported \ shared) \cup removed

\* The UTXOs newImportTx collects: atomic UTXOs of the AVAX asset that kc.Spend can spend.
Importable == {u \in shared : u \in AVAX /\ u \in Owned}

\* Variant: importedAmount summed with a plain +, which wraps around.
ImportedAmountWrapped(S) == [sum |-> AtomicSum(S) % (MaxUint + 1), ok |-> TRUE]

\* importedAmount, accumulated with math.Add64 (an error on overflow).
ImportedAmount(S) == [sum |-> AtomicSum(S), ok |-> AtomicSum(S) <= MaxUint]

(* The inputs and outputs that pay the fee: vm.stake burns the missing    *)
(* part of the fee from local UTXOs and returns the change, or the excess *)
(* of the imported amount goes to `to` as one output.                      *)
FeePlans(amt) ==
  IF amt < TxFee
  THEN {[ins |-> ins, out |-> LocalSum(ins) - (TxFee - amt)] :
          ins \in {S \in SUBSET local :
                     /\ LocalSum(S) >= TxFee - amt
                     /\ \A r \in S : LocalSum(S \ {r}) < TxFee - amt}}
  ELSE {[ins |-> {}, out |-> amt - TxFee]}

-----------------------------------------------------------------------------

Init ==
  /\ shared = InitShared
  /\ exported = InitShared
  /\ local = InitLocal
  /\ mempool = {}
  /\ chain = <<>>
  /\ nextId = 1
  /\ burned = 0
  /\ bootstrapped = FALSE
  /\ removed = {}
  /\ others = 0

(* newImportTx, then issued to the mempool. It returns an error on an      *)
(* overflowing importedAmount, on errNoFunds, and when stake finds too     *)
(* little; a step that fails changes nothing.                               *)
NewImportTx ==
  /\ nextId <= MaxTxs
  /\ LET a == ImportedAmount(Importable)
     IN /\ a.ok
        /\ a.sum # 0
        /\ \E p \in FeePlans(a.sum) :
             mempool' = mempool \cup {[id |-> nextId, imported |-> Importable,
                                      ins |-> p.ins, out |-> p.out]}
  /\ nextId' = nextId + 1
  /\ UNCHANGED <<shared, exported, local, chain, burned, bootVars>>

(* The X-chain accepts (or replays) an export tx: the UTXO is put in       *)
(* shared memory, unless a removal marker for it is there, which the put  *)
(* consumes instead.                                                       *)
Export ==
  /\ \E u \in AtomicUTXO \ exported :
       /\ exported' = exported \cup {u}
       /\ IF u \in removed
            THEN removed' = removed \ {u} /\ UNCHANGED shared
            ELSE shared' = shared \cup {u} /\ UNCHANGED removed
  /\ UNCHANGED <<local, mempool, chain, nextId, burned, bootstrapped, others>>

(* A block with tx is built on the tip and verified: SemanticVerify on the *)
(* tip's state and no overlap with the InputUTXOs of a processing block.   *)
(* A tx that fails is dropped.                                              *)
IssueBlock ==
  /\ bootstrapped
  /\ \E tx \in mempool :
       /\ mempool' = mempool \ {tx}
       /\ IF /\ SemanticVerify(tx, TipState, bootstrapped)
             /\ \A i \in 1..Len(chain) : InputUTXOs(tx) \cap InputUTXOs(chain[i]) = {}
          THEN chain' = Append(chain, tx)
          ELSE UNCHANGED chain
  /\ UNCHANGED <<shared, exported, local, nextId, burned, bootVars>>

(* The oldest processing block is accepted: its state is committed and     *)
(* Accept removes its imported UTXOs from shared memory (SharedMemory.Apply *)
(* with RemoveRequests) in the same batch.                                  *)
AcceptBlock ==
  /\ chain # <<>>
  /\ LET tx == Head(chain) IN
       /\ local' = Apply(local, tx)
       /\ RemoveUTXOs(tx.imported)
       /\ burned' = burned + LocalSum(tx.ins) + AtomicSum(tx.imported) - tx.out
  /\ chain' = Tail(chain)
  /\ UNCHANGED <<exported, mempool, nextId, bootstrapped, others>>

(* A processing block is rejected, and with it its descendants.            *)
RejectBlock ==
  /\ \E i \in 1..Len(chain) : chain' = SubSeq(chain, 1, i - 1)
  /\ UNCHANGED <<shared, exported, local, mempool, nextId, burned, bootVars>>

(* While bootstrapping, a block the network accepted is replayed: it is    *)
(* verified with vm.bootstrapped unset and accepted. Its import tx spends  *)
(* AVAX UTXOs the X-chain exported and no accepted import has consumed,    *)
(* pays the fee and sends the rest to another owner.                       *)
ReplayBlock ==
  /\ ~bootstrapped
  /\ chain = <<>>
  /\ \E I \in SUBSET (AVAX \ Consumed) :
       LET tx == [imported |-> I, ins |-> {}, out |-> AtomicSum(I) - TxFee]
       IN /\ AtomicSum(I) >= TxFee
          /\ SemanticVerify(tx, local, bootstrapped)
          /\ RemoveUTXOs(I)
          /\ burned' = burned + TxFee
          /\ others' = others + tx.out
  /\ UNCHANGED <<exported, local, mempool, chain, nextId, bootstrapped>>

\* The chain's bootstrapping finishes: the VM's Bootstrapped().
Bootstrapped ==
  /\ ~bootstrapped
  /\ bootstrapped' = TRUE
  /\ UNCHANGED <<shared, exported, local, mempool, chain, nextId, burned, removed, others>>

Next == NewImportTx \/ Export \/ IssueBlock \/ AcceptBlock \/ RejectBlock
          \/ ReplayBlock \/ Bootstrapped

Spec == Init /\ [][Next]_vars

-----------------------------------------------------------------------------

TypeOK ==
  /\ shared \subseteq exported /\ exported \subseteq AtomicUTXO
  /\ local \subseteq LocalUTXO
  /\ mempool \subseteq ImportTx /\ chain \in Seq(ImportTx)
  /\ nextId \in 1..(MaxTxs + 1) /\ burned \in Nat
  /\ bootstrapped \in BOOLEAN /\ removed \subseteq AtomicUTXO /\ others \in Nat

(* No value is created or lost across the two chains: what shared memory  *)
(* still holds, the wallet's accepted P-chain UTXOs, the fees burned and   *)
(* what is not yet exported always add up to the initial supply. An        *)
(* atomic UTXO imported twice (two processing blocks importing it, both    *)
(* verified against the same shared memory), or put in shared memory by an *)
(* export replayed after a bootstrapping block imported it, would break it.*)
ValueConserved ==
  AtomicSum(shared) + LocalSum(local) + burned + others
    + AtomicSum(AtomicUTXO \ (exported \cup removed))
    = AtomicSum(AtomicUTXO) + LocalSum(InitLocal)

(* Each accepted import burns exactly vm.TxFee: newImportTx hands the      *)
(* excess of the imported amount to `to` and stake's change back, so       *)
(* nothing else is lost, whatever shared memory held when it was built.    *)
FeeExact ==
  [][burned' # burned => burned' = burned + TxFee]_vars

=============================================================================
