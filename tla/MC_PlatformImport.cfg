\* Four exportable UTXOs, one initial P-chain UTXO of 2, three built txs.
CONSTANTS
  AtomicUTXO <- MCAtomicUTXO
  Amount <- MCAmount
  AVAX <- MCAVAX
  Owned <- MCAtomicUTXO
  InitShared = {"a1"}
  InitLocal <- MCInitLocal
  TxFee = 2
  MaxUint = 3
  MaxTxs = 3
SPECIFICATION Spec
CHECK_DEADLOCK FALSE
INVARIANTS
  TypeOK
  ValueConserved
PROPERTIES
  FeeExact
