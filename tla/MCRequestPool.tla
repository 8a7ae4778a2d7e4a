--------------------------- MODULE MCRequestPool ---------------------------
(* An instance of RequestPool for TLC: every session has a failed attempt. *)
EXTENDS RequestPool

MCVerdict == [s \in Sessions |-> "failed"]
=============================================================================
