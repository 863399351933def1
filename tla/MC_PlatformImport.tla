-------------------------- MODULE MC_PlatformImport --------------------------
(***************************************************************************)
(* An instance of PlatformImport for TLC. a1..a3 are AVAX UTXOs the        *)
(* wallet owns, a4 another asset; only a1 is exported at the start. With  *)
(* TxFee = 2 the imported amount is below, at and above the fee as exports *)
(* arrive, and a2 with a3 (4) overflow MaxUint = 3.                        *)
(***************************************************************************)
EXTENDS PlatformImport

MCAtomicUTXO == {"a1", "a2", "a3", "a4"}
MCAmount == [u \in MCAtomicUTXO |-> IF u \in {"a2", "a3"} THEN 2 ELSE 1]
MCAVAX == {"a1", "a2", "a3"}
MCInitLocal == {[id |-> 0, amt |-> 2]}

=============================================================================
