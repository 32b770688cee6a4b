--------------------------- MODULE MCModelCache ---------------------------
(* Instances of ModelCache for TLC. *)
EXTENDS ModelCache, TLC

\* The models take one, two and three gigabytes.
Sizes == [k \in Keys |-> CASE k = "a" -> 1 [] k = "b" -> 2 [] OTHER -> 3]
===========================================================================
