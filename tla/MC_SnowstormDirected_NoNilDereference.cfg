\* The shape of MC_SnowstormDirected.cfg, except that txD has no dependency:
\* does any step dereference a missing node?
CONSTANTS
  Tx <- MCTx
  UTXO <- MCUTXO
  Inputs <- ConflictDepsInputs
  Deps <- OneDepDeps
  BetaVirtuous = 1
  BetaRogue = 2
  MaxPolls = 4
  VMVerify = TRUE
  Imported = {}
  MayFail = FALSE
SPECIFICATION Spec
CHECK_DEADLOCK FALSE
INVARIANT NoNilDereference
