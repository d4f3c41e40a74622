----------------------------- MODULE MCPlaybook -----------------------------
(* A model-checking instance of Playbook; the .cfg file chooses the sizes. *)
EXTENDS Playbook
=============================================================================
