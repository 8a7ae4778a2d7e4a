----------------------------- MODULE HintLedger -----------------------------
(***************************************************************************)
(* What POST /hint promises of the hints of a verifier session: a sequence *)
(* that only grows at its end, one hint at a time, and is never longer     *)
(* than MostHints.  No hint is lost, overwritten, reordered or doubled.    *)
(***************************************************************************)
EXTENDS Naturals, Sequences

CONSTANTS Sessions, Texts, MostHints

VARIABLE ledger  \* the hints of each session, oldest first

Init == ledger = [s \in Sessions |-> <<>>]

AddHint(s, text) ==
  /\ Len(ledger[s]) < MostHints
  /\ ledger' = [ledger EXCEPT ![s] = Append(@, text)]

Next == \E s \in Sessions, text \in Texts : AddHint(s, text)

Spec == Init /\ [][Next]_ledger
=============================================================================
