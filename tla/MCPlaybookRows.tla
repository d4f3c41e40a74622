--------------------------- MODULE MCPlaybookRows ---------------------------
(* A model-checking instance of PlaybookRows in per-example mode, where an *)
(* example is its own key.                                                 *)
EXTENDS PlaybookRows, TLC

OwnKey == [e \in Examples |-> e]

KeySymmetry == Permutations(Keys)
=============================================================================
