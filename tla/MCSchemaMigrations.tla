------------------------- MODULE MCSchemaMigrations -------------------------
(* Before the first revision, with the solver table only, before the hint table *)
(* and the embedding columns, and at the newest revision; and two clients of   *)
(* which one makes or deletes rows that the other refers to.                    *)
EXTENDS SchemaMigrations, TLC
MCStops == {0, 1, 4, 7}
MCCompanies == {{"solve", "verify"}, {"verify", "hint"}, {"verify", "reseed"}, {"solve", "reseed"}}
Symmetry == Permutations(Runners)
=============================================================================
