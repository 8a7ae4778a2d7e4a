--------------------------- MODULE MCCorpusReseed ---------------------------
(* Two attempts at the problem, one of them by an earlier seeding. *)
EXTENDS CorpusReseed

CONSTANTS v1, v2

MCVariants == <<"variant1", "variant2">>
MCCode == [v \in Verifies |-> IF v = v1 THEN "variant1" ELSE "own"]
=============================================================================
