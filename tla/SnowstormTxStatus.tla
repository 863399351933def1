------------------------- MODULE SnowstormTxStatus -------------------------
(***************************************************************************)
(* What the snowstorm conflict graph promises about each transaction: the *)
(* state machine of spec 4.5, with the error accumulator of spec 7.        *)
(*                                                                         *)
(* A transaction goes from Processing to Accepted or to Rejected, and a    *)
(* decision is final.  It is accepted only if no conflicting transaction  *)
(* is accepted and none of its dependencies is still processing (a tx     *)
(* with no inputs is accepted vacuously when added).  It is rejected only *)
(* because a conflicting transaction was accepted or a dependency was     *)
(* rejected, or in the step whose failed Accept / Reject callback is       *)
(* reported (ExternalDecisionFailure).  `failed` never goes back.          *)
(*                                                                         *)
(* Several transactions may be decided in one step: one poll's cascade.    *)
(***************************************************************************)
CONSTANTS Tx, Inputs, Deps

VARIABLES status, failed

Conflicting(x, y) == x # y /\ Inputs[x] \cap Inputs[y] # {}

MayAccept(t) ==
  /\ \A x \in Tx : Conflicting(x, t) => status'[x] # "Accepted"
  /\ Inputs[t] # {} => \A d \in Deps[t] : status'[d] # "Processing"

MayReject(t) ==
  \/ \E x \in Tx : Conflicting(x, t) /\ status'[x] = "Accepted"
  \/ \E d \in Deps[t] : status'[d] = "Rejected"
  \/ failed' /\ ~failed

Init ==
  /\ status = [t \in Tx |-> "Processing"]
  /\ failed = FALSE

Next ==
  /\ status' \in [Tx -> {"Processing", "Accepted", "Rejected"}]
  /\ failed' \in {failed, TRUE}
  /\ \A t \in Tx :
       status'[t] # status[t] =>
         /\ status[t] = "Processing"
         /\ status'[t] = "Accepted" => MayAccept(t)
         /\ status'[t] = "Rejected" => MayReject(t)

Spec == Init /\ [][Next]_<<status, failed>>

=============================================================================
