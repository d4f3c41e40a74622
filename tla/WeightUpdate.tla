----------------------------- MODULE WeightUpdate -----------------------------
(***************************************************************************)
(* What a weight update promises to the rollout servers: each of them      *)
(* loads the weights of a version in the order of the model, some at a     *)
(* time and each once, and the update ends when all of them have them all. *)
(***************************************************************************)
EXTENDS Integers

CONSTANTS
    Servers,  \* the inference workers
    Count     \* weights in the model

VARIABLES
    version,  \* the version that is being transferred
    loaded    \* how many weights of it each server has

state == <<version, loaded>>

Init == version = 1 /\ loaded = [s \in Servers |-> 0]

Load(s) ==
    /\ \E n \in loaded[s]+1 .. Count : loaded' = [loaded EXCEPT ![s] = n]
    /\ UNCHANGED version

End ==
    /\ \A s \in Servers : loaded[s] = Count
    /\ version' = version + 1
    /\ loaded' = [s \in Servers |-> 0]

Next == End \/ \E s \in Servers : Load(s)

Spec == Init /\ [][Next]_state

=============================================================================
