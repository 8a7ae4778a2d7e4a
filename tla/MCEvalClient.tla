---------------------------- MODULE MCEvalClient ----------------------------
(* An instance of EvalClient for TLC: variants that failed, as they should. *)
EXTENDS EvalClient

MCVerdict == [s \in Sessions |-> "failed"]
=============================================================================
