--------------------------- MODULE MCHintSession ---------------------------
(* Instances of HintSession for TLC. *)
EXTENDS HintSession, TLC

CONSTANTS failed, passed, malformed, absent

\* One session of each kind; a small run takes the failed one alone.
MCVerdict ==
  [s \in Sessions |->
     CASE s = failed -> "failed"
       [] s = passed -> "passed"
       [] s = malformed -> "malformed"
       [] OTHER -> "absent"]

Symmetry == Permutations(Requests)
=============================================================================
