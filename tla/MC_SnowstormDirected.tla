----------------------- MODULE MC_SnowstormDirected -----------------------
(***************************************************************************)
(* Instances of SnowstormDirected for TLC.  Transaction and UTXO ids are   *)
(* small naturals (ids.ID is an opaque hash; only equality matters); each  *)
(* *Inputs / *Deps pair below is one shape of conflict and dependency      *)
(* structure, selected by a .cfg.                                          *)
(***************************************************************************)
EXTENDS SnowstormDirected

txA == 1  txB == 2  txC == 3  txD == 4  txV == 5
u1 == 1  u2 == 2

MCTx == {txA, txB, txC, txD, txV}
MCUTXO == {u1, u2}

\* u2 is an output of another chain: txC and txD import it.
MCImported == {u2}

\* txA and txB double-spend u1; txC spends u2 and depends on txA (it spends
\* an output of txA); txD double-spends u2 against txC and depends on txB;
\* txV has no inputs.  Whichever of txA, txB is accepted, the dependant of
\* the other is rejected by its rejector.
ConflictDepsInputs == [t \in Tx |->
                        CASE t = txA -> {u1} [] t = txB -> {u1}
                          [] t = txC -> {u2} [] t = txD -> {u2} [] t = txV -> {}]
ConflictDepsDeps == [t \in Tx |-> CASE t = txC -> {txA} [] t = txD -> {txB} [] OTHER -> {}]

\* txA spends u1 and u2; txB double-spends u1 against txA; txC spends u2
\* only.  Accepting txB rejects txA, whose entry in dg.utxos[u2] stays.
StaleInputs == [t \in Tx |->
                 CASE t = txA -> {u1, u2} [] t = txB -> {u1} [] t = txC -> {u2}]
NoDeps == [t \in Tx |-> {}]

\* As ConflictDepsDeps, but txD has no dependency: txD can be accepted while
\* the acceptance of its conflict txC still waits on txA.
OneDepDeps == [t \in Tx |-> IF t = txC THEN {txA} ELSE {}]
MCTxABC == {txA, txB, txC}

=============================================================================
