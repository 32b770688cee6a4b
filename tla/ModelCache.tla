---------------------------- MODULE ModelCache ----------------------------
(***************************************************************************)
(* The cache of loaded models: src/backend/engine/cache.py, with the       *)
(* callers in src/backend/engine/pipelines/ that get a model or load and   *)
(* put it, the purge on the event loop, and unload_all, which a change of  *)
(* settings or the start of a LoRA worker calls.                           *)
(*                                                                         *)
(* What a call does under the lock is one step.  The models it took out of *)
(* the cache are released after the lock was given back, one by one, and   *)
(* the steps of others come between.  A cache has one slot (the models of  *)
(* the server) or several and a budget (the experts of a Wan MoE model).   *)
(***************************************************************************)
EXTENDS Naturals, FiniteSets, FiniteSetsExt

CONSTANTS
    Keys, Models,    \* cache keys; the models that are loaded, each one new
    Threads, Loop,   \* the threads of engines; the event loop
    None,
    Size,            \* the gigabytes of the model of a key
    MaxEntries,
    Limit,           \* _limit_gb
    Ttls,            \* model_cache_ttl_minutes, in steps of the clock
    MaxIdle          \* bound: an age beyond every time to live

ASSUME FiniteAssumption == IsFiniteSet(Keys) /\ IsFiniteSet(Threads)
ASSUME NamesAssumption == None \notin Keys \cup Models /\ Loop \notin Threads
ASSUME NumbersAssumption ==
    /\ Size \in [Keys -> Nat]
    /\ MaxEntries \in Nat \ {0} /\ Limit \in Nat
    /\ Ttls \subseteq Nat \ {0}
    /\ MaxIdle \in Nat /\ \A n \in Ttls : n < MaxIdle

VARIABLES
    model,      \* _cache: the model kept under a key
    idle,       \* how long ago its entry was last used
    older,      \* the keys before it, in the order of _cache
    total,      \* _total_gb
    ttl,        \* _ttl_minutes
    use,        \* what each thread does
    pending,    \* models an actor has taken out and not released yet
    unloading,  \* the actors in unload_all
    leaving,    \* the keys each of them has still to evict
    \* What happened to the models that were loaded.
    loaded, released,
    dropped,    \* replaced under their own key
    fresh       \* for an actor in unload_all: the keys put since it began

cache == <<model, idle, older, total>>
calls == <<pending, unloading, leaving>>
history == <<loaded, released, dropped, fresh>>
vars == <<cache, ttl, use, calls, history>>

Actors == Threads \cup {Loop}
Cached == {k \in Keys : model[k] # None}
Gb(S) == MapThenSumSet(LAMBDA k : Size[k], S)
Expired(k) == k \in Cached /\ idle[k] > ttl

NoUse == [pc |-> "free", key |-> None, model |-> None]

Init ==
    /\ model = [k \in Keys |-> None]
    /\ idle = [k \in Keys |-> 0]
    /\ older = [k \in Keys |-> {}]
    /\ total = 0
    /\ ttl \in Ttls
    /\ use = [t \in Threads |-> NoUse]
    /\ pending = [a \in Actors |-> {}]
    /\ unloading = {}
    /\ leaving = [a \in Actors |-> {}]
    /\ loaded = {} /\ released = {} /\ dropped = {}
    /\ fresh = [a \in Actors |-> {}]

---------------------------------------------------------------------------
(* The cache.                                                              *)

\* The actor has returned from its last call.
Returned(a) == pending[a] = {} /\ a \notin unloading

\* Mutant: of the entries that go only the newest is remembered for its release.
PopsForNewest(a, gone) ==
    /\ model' = [k \in Keys |-> IF k \in gone THEN None ELSE model[k]]
    /\ older' = [k \in Keys |-> IF k \in gone THEN {} ELSE older[k] \ gone]
    /\ idle' = [k \in Keys |-> IF k \in gone THEN 0 ELSE idle[k]]
    /\ total' = total - Gb(gone)
    /\ pending' = [pending EXCEPT ![a] =
                      {model[k] : k \in {j \in gone : \A i \in gone : j \notin older[i]}}]

\* _pop_entry_unlocked of some entries, to be released by a.
Pops(a, gone) ==
    /\ model' = [k \in Keys |-> IF k \in gone THEN None ELSE model[k]]
    /\ older' = [k \in Keys |-> IF k \in gone THEN {} ELSE older[k] \ gone]
    /\ idle' = [k \in Keys |-> IF k \in gone THEN 0 ELSE idle[k]]
    /\ total' = total - Gb(gone)
    /\ pending' = [pending EXCEPT ![a] = {model[k] : k \in gone}]

\* Mutant: a model is released while the cache still has it.
ReleasesKept(a) ==
    \E m \in pending[a] \cup {model[k] : k \in Cached} :
        /\ released' = released \cup {m}
        /\ pending' = [pending EXCEPT ![a] = @ \ {m}]
        /\ UNCHANGED <<cache, ttl, use, unloading, leaving, loaded, dropped, fresh>>

\* Mutant: a model that is in use is not released.
ReleasesUnused(a) ==
    \E m \in pending[a] \ {use[t].model : t \in Threads} :
        /\ released' = released \cup {m}
        /\ pending' = [pending EXCEPT ![a] = @ \ {m}]
        /\ UNCHANGED <<cache, ttl, use, unloading, leaving, loaded, dropped, fresh>>

\* _release_entry, outside the lock.
Releases(a) ==
    \E m \in pending[a] :
        /\ released' = released \cup {m}
        /\ pending' = [pending EXCEPT ![a] = @ \ {m}]
        /\ UNCHANGED <<cache, ttl, use, unloading, leaving, loaded, dropped, fresh>>

---------------------------------------------------------------------------
(* A thread that needs a model.                                            *)

\* Mutant: a hit does not move the entry to the end.
TouchesInPlace(k) == idle' = [idle EXCEPT ![k] = 0] /\ UNCHANGED older

Touches(k) ==
    /\ idle' = [idle EXCEPT ![k] = 0]
    /\ older' = [j \in Keys |-> IF j = k THEN Cached \ {k} ELSE older[j] \ {k}]

\* get returns the model ...
GetHits(t, k) ==
    /\ Returned(t) /\ use[t].pc = "free"
    /\ k \in Cached /\ ~Expired(k)
    /\ Touches(k)
    /\ use' = [use EXCEPT ![t] = [pc |-> "using", key |-> k, model |-> model[k]]]
    /\ UNCHANGED <<model, total, ttl, calls, history>>

\* ... or nothing, and the thread begins to load it.
GetMisses(t, k) ==
    /\ Returned(t) /\ use[t].pc = "free"
    /\ k \notin Cached \/ Expired(k)
    /\ Pops(t, Cached \cap {k})
    /\ use' = [use EXCEPT ![t] = [pc |-> "loading", key |-> k, model |-> None]]
    /\ UNCHANGED <<ttl, unloading, leaving, history>>

Newer(k) == {j \in Cached : k \in older[j]}

\* What a put of k leaves of the others: first the slots ...
KeptBySlots(k) ==
    IF k \in Cached THEN Cached \ {k}
    ELSE {j \in Cached : Cardinality(Newer(j)) + 1 < MaxEntries}

\* Mutant: the new model does not count for the budget.
KeptWithoutIt(k) ==
    IF MaxEntries = 1 THEN KeptBySlots(k)
    ELSE LET freed == Gb(Cached \ KeptBySlots(k))
             before(j) == KeptBySlots(k) \ (Newer(j) \cup {j})
         IN  {j \in KeptBySlots(k) : total - freed - Gb(before(j)) <= Limit}

\* ... then the budget, for which the oldest entries go as long as it is exceeded.
Kept(k) ==
    IF MaxEntries = 1 THEN KeptBySlots(k)
    ELSE LET freed == Gb(Cached \ KeptBySlots(k))
             before(j) == KeptBySlots(k) \ (Newer(j) \cup {j})
         IN  {j \in KeptBySlots(k) : total - freed - Gb(before(j)) + Size[k] <= Limit}

\* The thread has loaded its model and puts it.
Put(t) ==
    LET k == use[t].key
        kept == Kept(k)
        gone == Cached \ (kept \cup {k})
    IN  /\ use[t].pc = "loading" /\ Returned(t)
        /\ \E m \in Models \ loaded :
            /\ loaded' = loaded \cup {m}
            /\ model' = [j \in Keys |-> IF j = k THEN m ELSE IF j \in kept THEN model[j] ELSE None]
            /\ use' = [use EXCEPT ![t] = [@ EXCEPT !.pc = "using", !.model = m]]
        /\ older' = [j \in Keys |->
                        IF j = k THEN kept ELSE IF j \in kept THEN older[j] \cap kept ELSE {}]
        /\ idle' = [j \in Keys |-> IF j \in kept THEN idle[j] ELSE 0]
        /\ total' = total - Gb(Cached \ kept) + Size[k]
        /\ pending' = [pending EXCEPT ![t] = {model[j] : j \in gone}]
        /\ dropped' = dropped \cup {model[j] : j \in Cached \cap {k}}
        /\ fresh' = [a \in Actors |-> IF a \in unloading THEN fresh[a] \cup {k} ELSE {}]
        /\ UNCHANGED <<ttl, unloading, leaving, released>>

\* The load fails, or the thread is done with its model.
Ends(t) ==
    /\ use[t].pc # "free" /\ Returned(t)
    /\ use' = [use EXCEPT ![t] = NoUse]
    /\ UNCHANGED <<cache, ttl, calls, history>>

---------------------------------------------------------------------------
(* Purge and unload.                                                       *)

\* Mutant: what the purge takes out is not released.
PurgesUnreleased ==
    /\ Returned(Loop)
    /\ \E k \in Keys : Expired(k)
    /\ LET gone == {k \in Keys : Expired(k)}
       IN  /\ model' = [k \in Keys |-> IF k \in gone THEN None ELSE model[k]]
           /\ older' = [k \in Keys |-> IF k \in gone THEN {} ELSE older[k] \ gone]
           /\ idle' = [k \in Keys |-> IF k \in gone THEN 0 ELSE idle[k]]
           /\ total' = total - Gb(gone)
    /\ UNCHANGED <<ttl, use, calls, loaded, released, dropped, fresh>>

\* purge_idle, on the event loop.
PurgeIdle ==
    /\ Returned(Loop)
    /\ \E k \in Keys : Expired(k)
    /\ Pops(Loop, {k \in Keys : Expired(k)})
    /\ UNCHANGED <<ttl, use, unloading, leaving, loaded, released, dropped, fresh>>

Asks(a) == unloading' = unloading \cup {a} /\ leaving' = [leaving EXCEPT ![a] = Cached]

\* unload_all by a thread, before a LoRA worker or a VLM audit ...
UnloadAll(t) ==
    /\ Returned(t) /\ use[t].pc = "free"
    /\ Asks(t)
    /\ UNCHANGED <<cache, ttl, use, pending, history>>

\* ... or as the settings change.
SettingsChange(n) ==
    /\ Returned(Loop)
    /\ ttl' = n
    /\ Asks(Loop)
    /\ UNCHANGED <<cache, use, pending, history>>

\* Mutant: unload_all goes through the entries there are at the moment.
EvictsOne(a) ==
    /\ a \in unloading /\ pending[a] = {}
    /\ \E k \in leaving[a] :
        /\ leaving' = [leaving EXCEPT ![a] = {}]
        /\ Pops(a, Cached \cap {k})
    /\ UNCHANGED <<ttl, use, unloading, history>>

\* evict, for each key there was.
Evicts(a) ==
    /\ a \in unloading /\ pending[a] = {}
    /\ \E k \in leaving[a] :
        /\ leaving' = [leaving EXCEPT ![a] = @ \ {k}]
        /\ Pops(a, Cached \cap {k})
    /\ UNCHANGED <<ttl, use, unloading, history>>

Unloaded(a) ==
    /\ a \in unloading /\ pending[a] = {} /\ leaving[a] = {}
    /\ unloading' = unloading \ {a}
    /\ fresh' = [fresh EXCEPT ![a] = {}]
    /\ UNCHANGED <<cache, ttl, use, pending, leaving, loaded, released, dropped>>

\* A minute passes.
Tick ==
    /\ idle' = [k \in Keys |-> IF k \in Cached /\ idle[k] < MaxIdle THEN idle[k] + 1 ELSE idle[k]]
    /\ UNCHANGED <<model, older, total, ttl, use, calls, history>>

---------------------------------------------------------------------------
Next ==
    \/ \E t \in Threads :
        \/ \E k \in Keys : GetHits(t, k) \/ GetMisses(t, k)
        \/ Put(t) \/ Ends(t) \/ UnloadAll(t)
    \/ PurgeIdle
    \/ \E n \in Ttls : SettingsChange(n)
    \/ \E a \in Actors : Releases(a) \/ Evicts(a) \/ Unloaded(a)
    \/ Tick

Spec == Init /\ [][Next]_vars

\* A call that has begun goes on.
Fairness == \A a \in Actors : WF_vars(Releases(a)) /\ WF_vars(Evicts(a)) /\ WF_vars(Unloaded(a))
FairSpec == Spec /\ Fairness

---------------------------------------------------------------------------
(* Properties.                                                             *)

\* Every variable has its type; the count of gigabytes is never negative.
TypeOK ==
    /\ model \in [Keys -> Models \cup {None}]
    /\ idle \in [Keys -> 0..MaxIdle]
    /\ older \in [Keys -> SUBSET Keys]
    /\ total \in Nat
    /\ ttl \in Ttls
    /\ use \in [Threads -> [pc : {"free", "loading", "using"}, key : Keys \cup {None},
                            model : Models \cup {None}]]
    /\ pending \in [Actors -> SUBSET Models]
    /\ unloading \subseteq Actors
    /\ leaving \in [Actors -> SUBSET Keys]
    /\ loaded \cup released \cup dropped \subseteq Models
    /\ fresh \in [Actors -> SUBSET Keys]

\* Every model is at one place: under one key, with one actor that will release it,
\* or released.  Two actors never take out the same model, and none releases a model
\* that can still be got.
OnePlace ==
    /\ \A j, k \in Cached : model[j] = model[k] => j = k
    /\ \A a, b \in Actors : a # b => pending[a] \cap pending[b] = {}
    /\ \A a \in Actors : pending[a] \cap ({model[k] : k \in Cached} \cup released) = {}
    /\ released \cap {model[k] : k \in Cached} = {}

\* No model is forgotten: what is neither cached nor to be released was released, or
\* replaced under its own key.
NothingForgotten ==
    loaded = {model[k] : k \in Cached} \cup (UNION {pending[a] : a \in Actors})
                \cup released \cup dropped

\* The cache has no more entries than slots, and stays within its budget unless one
\* model alone exceeds it; the running total is the gigabytes of the entries, whatever
\* took some of them out in between.
Fits ==
    /\ total = Gb(Cached)
    /\ Cardinality(Cached) <= MaxEntries
    /\ MaxEntries > 1 => Gb(Cached) <= Limit \/ Cardinality(Cached) = 1

\* The order in which entries go is that of their last use.
OldestFirst ==
    \A j, k \in Cached : j # k =>
        /\ j \in older[k] <=> k \notin older[j]
        /\ j \in older[k] => idle[j] >= idle[k]

\* unload_all leaves nothing that was there when it began: what is cached is still to
\* be evicted or was put since.
UnloadsAll == \A a \in unloading : Cached \subseteq leaving[a] \cup fresh[a]

\* With one thread that loads, no model is replaced under its own key, which would
\* leave it unreleased.
NothingDropped == Cardinality(Threads) = 1 => dropped = {}

\* No model that was loaded is lost, on whatever way it leaves the cache: by a miss, a
\* put, the purge, an eviction or unload_all.
NothingLost == NothingForgotten /\ NothingDropped

\* Where each model is, as a refinement mapping.
Place == [m \in Models |->
    IF \E k \in Cached : model[k] = m THEN "kept"
    ELSE IF \E a \in Actors : m \in pending[a] THEN "leaving"
    ELSE IF m \in released THEN "released"
    ELSE IF m \in loaded THEN "lost" ELSE "new"]

Lifecycle == INSTANCE ModelLifecycle WITH place <- Place

\* The cache does to a model only what the life cycle of models allows: none comes back
\* once it was taken out, none is released but by the call that took it out, and only
\* one in whose place another is put under its key goes without a release.
ImplementsLifecycle == Lifecycle!Spec

\* What was taken out is released.
Released == \A m \in Models : (\E a \in Actors : m \in pending[a]) ~> m \in released

===========================================================================
