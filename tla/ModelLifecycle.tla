--------------------------- MODULE ModelLifecycle ---------------------------
(***************************************************************************)
(* What the cache promises of the models it is given, with no keys, slots, *)
(* budget or order: a model goes one way.  It is new, then kept, then      *)
(* leaving with the one call that took it out, then released for good.     *)
(* Only a model in whose place another is put is lost without a release.   *)
(***************************************************************************)
CONSTANTS Models

VARIABLES place     \* where each model is

Places == {"new", "kept", "leaving", "released", "lost"}

KeptModels == {m \in Models : place[m] = "kept"}

Init == place = [m \in Models |-> "new"]

\* A model is put; some leave for it and at most one is replaced by it.
Put(m, gone, old) ==
    /\ place[m] = "new"
    /\ gone \cap old = {} /\ \A x, y \in old : x = y
    /\ place' = [x \in Models |->
                    IF x = m THEN "kept"
                    ELSE IF x \in gone THEN "leaving"
                    ELSE IF x \in old THEN "lost" ELSE place[x]]

\* A miss, the purge or an eviction takes models out.
TakeOut(gone) == place' = [x \in Models |-> IF x \in gone THEN "leaving" ELSE place[x]]

Release(m) ==
    /\ place[m] = "leaving"
    /\ place' = [place EXCEPT ![m] = "released"]

Next ==
    \/ \E m \in Models : \E gone \in SUBSET KeptModels :
            \E old \in SUBSET KeptModels : Put(m, gone, old)
    \/ \E gone \in SUBSET KeptModels : TakeOut(gone)
    \/ \E m \in Models : Release(m)

Spec == Init /\ [][Next]_place

=============================================================================
