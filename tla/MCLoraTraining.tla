-------------------------- MODULE MCLoraTraining --------------------------
(* Instances of LoraTraining for TLC. *)
EXTENDS LoraTraining, TLC

Symmetry ==
    Permutations(Trainings) \cup Permutations(Evaluations)
        \cup Permutations(Procs) \cup Permutations(Requests)
===========================================================================
