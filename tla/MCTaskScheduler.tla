-------------------------- MODULE MCTaskScheduler --------------------------
(***************************************************************************)
(* Instances of TaskScheduler for TLC.                                     *)
(***************************************************************************)
EXTENDS TaskScheduler, TLC

\* Task ids are interchangeable.
TaskSymmetry == Permutations(Tasks)

===========================================================================
