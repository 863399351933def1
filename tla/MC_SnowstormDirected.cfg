\* Two conflict sets {txA,txB} on u1 and {txC,txD} on u2, txC depending on
\* txA, and a vacuous transaction txV; four polls, BetaVirtuous = 1,
\* BetaRogue = 2.
CONSTANTS
  Tx <- MCTx
  UTXO <- MCUTXO
  Inputs <- ConflictDepsInputs
  Deps <- ConflictDepsDeps
  BetaVirtuous = 1
  BetaRogue = 2
  MaxPolls = 3
  VMVerify = TRUE
  Imported <- MCImported
  MayFail = TRUE
SPECIFICATION Spec
CHECK_DEADLOCK FALSE
INVARIANTS
  TypeOK
  ConflictSafety
  EdgeSymmetry
  PreferredIffNoOuts
  
  NoAcceptWithUndecidedDeps
  BlockersConsistent
  VirtuousUnconflicted
  ImportsConsistent

PROPERTIES
  IssuedStable
  WinnerDecided
  Refines
