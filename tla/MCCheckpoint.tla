----------------------------- MODULE MCCheckpoint -----------------------------
(* Instances of Checkpoint for TLC; the ranks are interchangeable. *)
EXTENDS Checkpoint, TLC

CONSTANTS r1, r2

MCRanks == {r1, r2}

Symmetry == Permutations(MCRanks)
=============================================================================
