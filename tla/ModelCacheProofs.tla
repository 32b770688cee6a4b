------------------------- MODULE ModelCacheProofs -------------------------
(***************************************************************************)
(* The invariants of ModelCache, for every set of keys, models and threads,*)
(* every number of slots and every budget.                                 *)
(***************************************************************************)
EXTENDS ModelCache, FiniteSetTheorems, WellFoundedInduction, TLAPS

---------------------------------------------------------------------------
(* The sum of the sizes.  It is defined by recursion over the set; as the  *)
(* number of the gigabytes of the set, each an element, it is a            *)
(* cardinality, of which the facts below follow.                           *)

\* The gigabytes of the models of some keys, each an element.
Units(S) == {u \in Keys \X Nat : u[1] \in S /\ u[2] \in 1..Size[u[1]]}

LEMMA UnitsOfOne ==
    ASSUME NEW k \in Keys
    PROVE  IsFiniteSet(Units({k})) /\ Cardinality(Units({k})) = Size[k]
<1>1. Size[k] \in Nat
  BY NumbersAssumption
<1>2. Units({k}) = {k} \X (1..Size[k])
  BY <1>1 DEF Units
<1>3. IsFiniteSet({k}) /\ Cardinality({k}) = 1
  BY FS_Singleton
<1>4. IsFiniteSet(1..Size[k]) /\ Cardinality(1..Size[k]) = Size[k]
  <2>1. 1 \in Int /\ Size[k] \in Int
    BY <1>1
  <2>2. IsFiniteSet(1..Size[k]) /\ Cardinality(1..Size[k]) = IF 1 > Size[k] THEN 0 ELSE Size[k] - 1 + 1
    BY <2>1, FS_Interval
  <2> QED
    BY <1>1, <2>2
<1>5. /\ IsFiniteSet({k} \X (1..Size[k]))
      /\ Cardinality({k} \X (1..Size[k])) = Cardinality({k}) * Cardinality(1..Size[k])
  BY <1>3, <1>4, FS_Product
<1>6. Cardinality({k}) * Cardinality(1..Size[k]) = 1 * Size[k]
  BY <1>3, <1>4
<1>7. 1 * Size[k] = Size[k]
  BY <1>1
<1> QED
  BY <1>2, <1>5, <1>6, <1>7

LEMMA UnitsFinite ==
    ASSUME NEW S \in SUBSET Keys
    PROVE  IsFiniteSet(Units(S)) /\ Cardinality(Units(S)) \in Nat
<1>1. IsFiniteSet(S)
  BY FiniteAssumption, FS_Subset
<1>2. IsFiniteSet({Units({k}) : k \in S})
  <2> DEFINE f == [k \in S |-> Units({k})]
  <2>1. f \in Surjection(S, {Units({k}) : k \in S})
    BY DEF Surjection
  <2> QED
    BY <1>1, <2>1, FS_Surjection
<1>3. Units(S) = UNION {Units({k}) : k \in S}
  BY DEF Units
<1>4. \A T \in {Units({k}) : k \in S} : IsFiniteSet(T)
  BY UnitsOfOne
<1> HIDE DEF Units
<1>5. IsFiniteSet(Units(S))
  BY <1>2, <1>3, <1>4, FS_UNION
<1> QED
  BY <1>5, FS_CardinalityType

LEMMA UnitsOfUnion ==
    ASSUME NEW S \in SUBSET Keys, NEW T \in SUBSET Keys, S \cap T = {}
    PROVE  Cardinality(Units(S \cup T)) = Cardinality(Units(S)) + Cardinality(Units(T))
<1>1. Units(S \cup T) = Units(S) \cup Units(T) /\ Units(S) \cap Units(T) = {}
  BY DEF Units
<1>2. IsFiniteSet(Units(S)) /\ IsFiniteSet(Units(T))
  BY UnitsFinite
<1>3. Cardinality({}) = 0
  BY FS_EmptySet
<1>4. Cardinality(Units(S)) \in Nat /\ Cardinality(Units(T)) \in Nat
  BY UnitsFinite
<1> QED
  <2>1. Cardinality(Units(S) \cup Units(T))
            = Cardinality(Units(S)) + Cardinality(Units(T)) - Cardinality(Units(S) \cap Units(T))
    BY <1>2, FS_Union
  <2>2. Cardinality(Units(S) \cap Units(T)) = 0
    BY <1>1, <1>3
  <2>3. Cardinality(Units(S \cup T)) = Cardinality(Units(S) \cup Units(T))
    BY <1>1
  <2> QED
    BY <1>4, <2>1, <2>2, <2>3

\* The equation that MapThenSumSet takes its function from.
Recursion(S, f) ==
    f = [T \in SUBSET S |-> IF T = {} THEN 0
                            ELSE LET k == CHOOSE k \in T : TRUE IN Size[k] + f[T \ {k}]]

\* The count of the units solves the equation that defines the sum ...
LEMMA UnitsRecursion ==
    ASSUME NEW S \in SUBSET Keys
    PROVE  Recursion(S, [T \in SUBSET S |-> Cardinality(Units(T))])
<1> DEFINE g == [T \in SUBSET S |-> Cardinality(Units(T))]
<1>1. ASSUME NEW T \in SUBSET S
      PROVE  g[T] = IF T = {} THEN 0
                    ELSE LET k == CHOOSE k \in T : TRUE IN Size[k] + g[T \ {k}]
  <2>1. CASE T = {}
    <3>1. Units({}) = {}
      BY DEF Units
    <3> QED
      BY <2>1, <3>1, FS_EmptySet
  <2>2. CASE T # {}
    <3> DEFINE k == CHOOSE k \in T : TRUE
    <3>1. k \in T
      BY <2>2
    <3> HIDE DEF k
    <3>2. {k} \in SUBSET Keys /\ T \ {k} \in SUBSET Keys /\ {k} \cup (T \ {k}) = T
      BY <3>1
    <3>3. Cardinality(Units({k} \cup (T \ {k}))) = Cardinality(Units({k})) + Cardinality(Units(T \ {k}))
      BY <3>2, UnitsOfUnion
    <3>4. Cardinality(Units({k})) = Size[k]
      BY <3>2, UnitsOfOne
    <3>5. g[T] = Cardinality(Units(T)) /\ g[T \ {k}] = Cardinality(Units(T \ {k}))
      OBVIOUS
    <3>6. g[T] = Size[k] + g[T \ {k}]
      BY <3>2, <3>3, <3>4, <3>5
    <3> QED
      BY <2>2, <3>6 DEF k
  <2> QED
    BY <2>1, <2>2
<1> QED
  BY <1>1 DEF Recursion

\* ... and is its only solution: a set without a smaller one on which two differ is
\* empty, or has an element without which they differ as well.
LEMMA GbIsUnits ==
    ASSUME NEW S \in SUBSET Keys
    PROVE  Gb(S) = Cardinality(Units(S))
<1> DEFINE f == CHOOSE f : Recursion(S, f)
           g == [T \in SUBSET S |-> Cardinality(Units(T))]
           Differ == {T \in SUBSET S : f[T] # g[T]}
<1>1. Gb(S) = f[S]
  BY DEF Gb, MapThenSumSet, MapThenFoldSet, Recursion
<1>2. Recursion(S, f) /\ Recursion(S, g)
  BY UnitsRecursion
<1> HIDE DEF f, g
<1>3. ASSUME NEW T \in SUBSET S, NEW h, Recursion(S, h)
      PROVE  h[T] = IF T = {} THEN 0
                    ELSE LET k == CHOOSE k \in T : TRUE IN Size[k] + h[T \ {k}]
  BY <1>3 DEF Recursion
<1>4. ASSUME Differ # {} PROVE FALSE
  <2>1. IsWellFoundedOn(StrictSubsetOrdering(S), SUBSET S)
    <3>1. IsFiniteSet(S)
      BY FiniteAssumption, FS_Subset
    <3> QED
      BY <3>1, FS_StrictSubsetOrderingWellFounded, FS_FiniteSubsetsOfFinite
  <2>2. PICK T \in Differ : \A U \in Differ : <<U, T>> \notin StrictSubsetOrdering(S)
    BY <1>4, <2>1, WFMin
  <2>3. T # {}
    BY <1>2, <1>3
  <2> DEFINE k == CHOOSE k \in T : TRUE
  <2>4. k \in T
    BY <2>3
  <2>5. f[T] = Size[k] + f[T \ {k}] /\ g[T] = Size[k] + g[T \ {k}]
    BY <1>2, <1>3, <2>3
  <2> HIDE DEF k
  <2>6. <<T \ {k}, T>> \in StrictSubsetOrdering(S)
    BY <2>4 DEF StrictSubsetOrdering
  <2>7. T \ {k} \notin Differ
    BY <2>2, <2>6
  <2>8. f[T \ {k}] = g[T \ {k}]
    BY <2>7
  <2> QED
    BY <2>5, <2>8
<1>5. f[S] = g[S]
  BY <1>4
<1> QED
  BY <1>1, <1>5 DEF g

\* What the sum of the sizes is on the sets that the steps make.
LEMMA GbLemma ==
    /\ \A S \in SUBSET Keys : Gb(S) \in Nat
    /\ Gb({}) = 0
    /\ \A k \in Keys : Gb({k}) = Size[k]
    /\ \A S, T \in SUBSET Keys : S \cap T = {} => Gb(S \cup T) = Gb(S) + Gb(T)
    /\ \A S \in SUBSET Keys, T \in SUBSET Keys :
          T \subseteq S => Gb(S \ T) = Gb(S) - Gb(T) /\ Gb(T) <= Gb(S)
<1>1. \A S \in SUBSET Keys : Gb(S) \in Nat
  BY GbIsUnits, UnitsFinite
<1>2. Gb({}) = 0
  <2>1. Units({}) = {}
    BY DEF Units
  <2> QED
    BY <2>1, GbIsUnits, FS_EmptySet
<1>3. \A k \in Keys : Gb({k}) = Size[k]
  BY GbIsUnits, UnitsOfOne
<1>4. \A S, T \in SUBSET Keys : S \cap T = {} => Gb(S \cup T) = Gb(S) + Gb(T)
  BY GbIsUnits, UnitsOfUnion
<1>5. ASSUME NEW S \in SUBSET Keys, NEW T \in SUBSET Keys, T \subseteq S
      PROVE  Gb(S \ T) = Gb(S) - Gb(T) /\ Gb(T) <= Gb(S)
  <2>1. (S \ T) \cap T = {} /\ (S \ T) \cup T = S
    BY <1>5
  <2>2. Gb((S \ T) \cup T) = Gb(S \ T) + Gb(T)
    BY <1>4, <2>1
  <2>3. Gb(S) = Gb(S \ T) + Gb(T)
    BY <2>1, <2>2
  <2> QED
    BY <1>1, <2>3
<1> QED
  BY <1>1, <1>2, <1>3, <1>4, <1>5

---------------------------------------------------------------------------
(* The invariant.                                                          *)

Types ==
    /\ model \in [Keys -> Models \cup {None}]
    /\ idle \in [Keys -> 0..MaxIdle]
    /\ older \in [Keys -> SUBSET Keys]
    /\ ttl \in Ttls
    /\ use \in [Threads -> [pc : {"free", "loading", "using"}, key : Keys \cup {None},
                            model : Models \cup {None}]]
    /\ pending \in [Actors -> SUBSET Models]
    /\ unloading \subseteq Actors
    /\ leaving \in [Actors -> SUBSET Keys]
    /\ fresh \in [Actors -> SUBSET Keys]
    /\ loaded \subseteq Models /\ released \subseteq Models /\ dropped \subseteq Models

\* A key that is not cached has no place in the order, which is transitive.
Ordered == \A k \in Keys :
    /\ older[k] \subseteq Cached \ {k} /\ (k \notin Cached => older[k] = {})
    /\ \A j \in older[k] : older[j] \subseteq older[k]

\* A thread that loads a model looks for one that is not cached, if nobody else puts.
Loading == \A t \in Threads : use[t].pc = "loading" =>
    /\ use[t].key \in Keys
    /\ Cardinality(Threads) = 1 => use[t].key \notin Cached

IInv ==
    /\ Types /\ Ordered /\ Loading
    /\ OnePlace /\ NothingForgotten /\ OldestFirst /\ UnloadsAll /\ NothingDropped
    /\ Fits

LEMMA InitLemma == ASSUME Init PROVE IInv
<1>1. Cached = {}
  BY DEF Init, Cached
<1>2. Fits
  BY <1>1, GbLemma, FS_EmptySet, NumbersAssumption DEF Init, Fits
<1>3. Types
  BY NumbersAssumption DEF Init, Types, NoUse
<1> QED
  BY <1>1, <1>2, <1>3
     DEF Init, IInv, Ordered, Loading, OnePlace, NothingForgotten, OldestFirst, UnloadsAll,
         NothingDropped, NoUse

\* Entries that go keep the cache within its slots and its budget.
LEMMA FitsLemma ==
    ASSUME IInv, NEW gone \in SUBSET Cached,
           Cached' = Cached \ gone, total' = total - Gb(gone)
    PROVE  Fits'
<1> USE NumbersAssumption
<1>1. Cached \subseteq Keys /\ gone \subseteq Keys
  BY DEF Cached
<1>2. IsFiniteSet(Cached) /\ IsFiniteSet(Cached')
  BY <1>1, FiniteAssumption, FS_Subset
<1>3. Cardinality(Cached') <= Cardinality(Cached) /\ Cardinality(Cached) \in Nat /\ Cardinality(Cached') \in Nat
  BY <1>2, FS_Subset, FS_CardinalityType
<1>4. Gb(Cached \ gone) = Gb(Cached) - Gb(gone) /\ Gb(gone) <= Gb(Cached) /\ Gb(gone) \in Nat /\ Gb(Cached) \in Nat
  BY <1>1, GbLemma
<1>5. total' = Gb(Cached')
  BY <1>4 DEF IInv, Fits
<1>6. Cardinality(Cached') <= MaxEntries
  BY <1>3 DEF IInv, Fits
<1>7. Gb(Cached') <= Gb(Cached)
  BY <1>4
<1>8. Cardinality(Cached') = 0 => Gb(Cached') = 0
  BY <1>2, GbLemma, FS_EmptySet
<1>9. MaxEntries > 1 => Gb(Cached') <= Limit \/ Cardinality(Cached') = 1
  <2>1. MaxEntries > 1 => Gb(Cached) <= Limit \/ Cardinality(Cached) = 1
    BY DEF IInv, Fits
  <2>2. Gb(Cached') \in Nat
    BY <1>4
  <2> QED
    BY <1>3, <1>4, <1>7, <1>8, <2>1, <2>2
<1> QED
  BY <1>5, <1>6, <1>9 DEF Fits

\* Of some entries one is the oldest.
LEMMA OldestLemma ==
    ASSUME IInv, NEW S \in SUBSET Cached, S # {}
    PROVE  \E j \in S : S \subseteq Newer(j) \cup {j}
<1> DEFINE Befores == {older[i] : i \in S}
<1>1. S \subseteq Keys /\ Cached \subseteq Keys
  BY DEF Cached
<1>2. Befores \subseteq SUBSET Keys /\ Befores # {}
  BY <1>1 DEF IInv, Types
<1>3. IsWellFoundedOn(StrictSubsetOrdering(Keys), SUBSET Keys)
  BY FiniteAssumption, FS_StrictSubsetOrderingWellFounded, FS_FiniteSubsetsOfFinite
<1>4. PICK B \in Befores : \A C \in Befores : <<C, B>> \notin StrictSubsetOrdering(Keys)
  BY <1>2, <1>3, WFMin
<1>5. PICK j \in S : B = older[j]
  BY <1>4
<1>6. ASSUME NEW i \in S, i \in older[j] PROVE FALSE
  <2>1. older[i] \subseteq older[j] /\ i \notin older[i]
    BY <1>1, <1>6 DEF IInv, Ordered
  <2>2. older[i] \in SUBSET Keys /\ older[j] \in SUBSET Keys
    BY <1>1 DEF IInv, Types
  <2>3. <<older[i], older[j]>> \in StrictSubsetOrdering(Keys)
    BY <1>6, <2>1, <2>2 DEF StrictSubsetOrdering
  <2> QED
    BY <1>4, <1>5, <2>3
<1>7. \A i \in S : i # j => i \in Newer(j)
  BY <1>6 DEF IInv, OldestFirst, Newer
<1> QED
  BY <1>7

\* What a put leaves of the others has room for the new model.
LEMMA KeptLemma ==
    ASSUME IInv, NEW k \in Keys
    PROVE  /\ Kept(k) \subseteq KeptBySlots(k) /\ KeptBySlots(k) \subseteq Cached \ {k}
           /\ Cardinality(Kept(k) \cup {k}) <= MaxEntries
           /\ MaxEntries > 1 => \/ Gb(Kept(k)) + Size[k] <= Limit
                               \/ Cardinality(Kept(k) \cup {k}) = 1
<1> USE NumbersAssumption
<1>1. KeptBySlots(k) \subseteq Cached \ {k} /\ Kept(k) \subseteq KeptBySlots(k)
  BY DEF Kept, KeptBySlots
<1>2. Cached \subseteq Keys /\ IsFiniteSet(Cached) /\ Cardinality(Cached) \in Nat
  BY FiniteAssumption, FS_Subset, FS_CardinalityType DEF Cached
<1>3. \A S \in SUBSET Cached : IsFiniteSet(S) /\ Cardinality(S) \in Nat /\ Cardinality(S) <= Cardinality(Cached)
  BY <1>2, FS_Subset, FS_CardinalityType
<1>4. Cardinality(KeptBySlots(k)) < MaxEntries
  <2>1. CASE k \in Cached
    <3>1. KeptBySlots(k) = Cached \ {k}
      BY <2>1 DEF KeptBySlots
    <3>2. Cardinality(Cached \ {k}) = Cardinality(Cached) - 1
      BY <1>2, <2>1, FS_RemoveElement
    <3> QED
      BY <1>2, <3>1, <3>2 DEF IInv, Fits
  <2>2. CASE k \notin Cached /\ KeptBySlots(k) # {}
    <3>1. PICK j \in KeptBySlots(k) : KeptBySlots(k) \subseteq Newer(j) \cup {j}
      BY <1>1, <2>2, OldestLemma
    <3>2. j \in Cached /\ Cardinality(Newer(j)) + 1 < MaxEntries
      BY <2>2, <3>1 DEF KeptBySlots
    <3>3. Newer(j) \subseteq Cached /\ j \notin Newer(j)
      BY <1>2, <3>2 DEF IInv, Ordered, Newer
    <3>4. IsFiniteSet(Newer(j)) /\ Cardinality(Newer(j)) \in Nat
      BY <1>3, <3>3
    <3>5. IsFiniteSet(Newer(j) \cup {j}) /\ Cardinality(Newer(j) \cup {j}) = Cardinality(Newer(j)) + 1
      BY <3>3, <3>4, FS_AddElement
    <3>6. Cardinality(KeptBySlots(k)) <= Cardinality(Newer(j) \cup {j})
      BY <3>1, <3>5, FS_Subset
    <3>7. Cardinality(KeptBySlots(k)) \in Nat
      BY <1>1, <1>3
    <3> QED
      BY <3>2, <3>4, <3>5, <3>6, <3>7
  <2>3. CASE KeptBySlots(k) = {}
    BY <2>3, FS_EmptySet
  <2> QED
    BY <2>1, <2>2, <2>3
<1>5. IsFiniteSet(Kept(k)) /\ Cardinality(Kept(k)) \in Nat /\ Cardinality(Kept(k)) <= Cardinality(KeptBySlots(k))
  <2>1. IsFiniteSet(KeptBySlots(k)) /\ Kept(k) \in SUBSET Cached
    BY <1>1, <1>3
  <2> QED
    BY <1>1, <1>3, <2>1, FS_Subset
<1>6. Cardinality(Kept(k) \cup {k}) = Cardinality(Kept(k)) + 1
  BY <1>1, <1>5, FS_AddElement
<1>7. Cardinality(Kept(k) \cup {k}) <= MaxEntries
  <2>1. Cardinality(KeptBySlots(k)) \in Nat
    BY <1>1, <1>3
  <2> QED
    BY <1>4, <1>5, <1>6, <2>1
<1>8. ASSUME MaxEntries > 1, Kept(k) # {} PROVE Gb(Kept(k)) + Size[k] <= Limit
  <2> DEFINE before(j) == KeptBySlots(k) \ (Newer(j) \cup {j})
  <2>1. PICK j \in Kept(k) : Kept(k) \subseteq Newer(j) \cup {j}
    BY <1>1, <1>8, OldestLemma
  <2>2. total - Gb(Cached \ KeptBySlots(k)) - Gb(before(j)) + Size[k] <= Limit
    BY <1>8, <2>1 DEF Kept
  <2>3. Kept(k) \subseteq KeptBySlots(k) \ before(j) /\ before(j) \subseteq KeptBySlots(k)
    BY <1>1, <2>1
  <2>4. Kept(k) \subseteq Keys /\ KeptBySlots(k) \subseteq Keys /\ before(j) \subseteq Keys
    BY <1>1, <1>2
  <2>5. KeptBySlots(k) \ before(j) \in SUBSET Keys
    BY <2>4
  <2> HIDE DEF before
  <2>6. Gb(Cached \ KeptBySlots(k)) = Gb(Cached) - Gb(KeptBySlots(k))
    BY <1>1, <1>2, <2>4, GbLemma
  <2>7. Gb(KeptBySlots(k) \ before(j)) = Gb(KeptBySlots(k)) - Gb(before(j))
    BY <2>3, <2>4, GbLemma
  <2>8. Gb(Kept(k)) <= Gb(KeptBySlots(k) \ before(j))
    BY <2>3, <2>4, <2>5, GbLemma
  <2>9. /\ Gb(Kept(k)) \in Nat /\ Gb(KeptBySlots(k)) \in Nat
        /\ Gb(before(j)) \in Nat /\ Gb(Cached) \in Nat
    BY <1>2, <2>4, GbLemma
  <2>10. total = Gb(Cached)
    BY DEF IInv, Fits
  <2>11. Size[k] \in Nat
    OBVIOUS
  <2> QED
    BY <2>2, <2>6, <2>7, <2>8, <2>9, <2>10, <2>11
<1>9. Kept(k) = {} => Cardinality(Kept(k) \cup {k}) = 1
  BY <1>6, FS_EmptySet
<1> QED
  BY <1>1, <1>7, <1>8, <1>9

\* What taking entries out does to the invariant, whoever does it.
LEMMA PopsLemma ==
    ASSUME IInv, NEW a \in Actors, NEW gone \in SUBSET Cached, pending[a] = {},
           Pops(a, gone)
    PROVE  /\ model' \in [Keys -> Models \cup {None}]
           /\ idle' \in [Keys -> 0..MaxIdle]
           /\ older' \in [Keys -> SUBSET Keys]
           /\ pending' \in [Actors -> SUBSET Models]
           /\ Cached' = Cached \ gone
           /\ Ordered' /\ OldestFirst' /\ Fits'
           /\ UNCHANGED released => OnePlace'
           /\ UNCHANGED <<loaded, released, dropped>> => NothingForgotten'
<1> USE NamesAssumption, NumbersAssumption
<1>1. model' \in [Keys -> Models \cup {None}]
  BY DEF Pops, IInv, Types
<1>2. idle' \in [Keys -> 0..MaxIdle]
  BY DEF Pops, IInv, Types
<1>3. older' \in [Keys -> SUBSET Keys]
  BY DEF Pops, IInv, Types
<1>4. \A k \in gone : model[k] \in Models
  BY DEF Cached, IInv, Types
<1>5. /\ pending' \in [Actors -> SUBSET Models]
      /\ pending'[a] = {model[k] : k \in gone}
      /\ \A b \in Actors : b # a => pending'[b] = pending[b]
  BY <1>4 DEF Pops, IInv, Types
<1>6. Cached' = Cached \ gone
  BY DEF Pops, Cached
<1>7. \A k \in Cached' : model'[k] = model[k]
  BY <1>6 DEF Pops, Cached
<1>8. Ordered'
  <2>1. \A k \in Keys : older'[k] = IF k \in gone THEN {} ELSE older[k] \ gone
    BY DEF Pops
  <2>2. \A k \in Keys : older[k] \subseteq Cached \ {k} /\ (k \notin Cached => older[k] = {})
    BY DEF Ordered, IInv
  <2>3. ASSUME NEW k \in Keys
        PROVE  older'[k] \subseteq Cached' \ {k} /\ (k \notin Cached' => older'[k] = {})
    <3>1. CASE k \in gone
      BY <2>1, <3>1
    <3>2. CASE k \notin gone
      <4>1. older'[k] = older[k] \ gone
        BY <2>1, <3>2
      <4> QED
        BY <1>6, <2>2, <3>2, <4>1
    <3> QED
      BY <3>1, <3>2
  <2>4. ASSUME NEW k \in Keys, NEW j \in older'[k] PROVE older'[j] \subseteq older'[k]
    <3>1. k \notin gone /\ j \notin gone /\ j \in older[k]
      BY <2>1, <2>4
    <3>2. j \in Keys
      BY <2>2, <3>1 DEF Cached
    <3>3. older[j] \subseteq older[k]
      BY <3>1 DEF Ordered, IInv
    <3> QED
      BY <2>1, <3>1, <3>2, <3>3
  <2> QED
    BY <2>3, <2>4 DEF Ordered
<1>9. OldestFirst'
  <2>1. \A k \in Cached' : idle'[k] = idle[k] /\ older'[k] = older[k] \ gone
    BY <1>6 DEF Pops, Cached
  <2> QED
    BY <1>6, <2>1 DEF OldestFirst, IInv
<1>10. {model[k] : k \in Cached} = {model'[k] : k \in Cached'} \cup pending'[a]
  BY <1>5, <1>6, <1>7
<1>11. ASSUME UNCHANGED released PROVE OnePlace'
  <2>1. \A j, k \in Cached' : model'[j] = model'[k] => j = k
    BY <1>6, <1>7 DEF OnePlace, IInv
  <2>2. pending'[a] \cap {model'[k] : k \in Cached'} = {}
    BY <1>5, <1>6, <1>7 DEF OnePlace, IInv
  <2>3. \A b \in Actors : b # a =>
            pending[b] \cap ({model'[k] : k \in Cached'} \cup pending'[a] \cup released) = {}
    BY <1>10 DEF OnePlace, IInv
  <2>4. released \cap (pending'[a] \cup {model'[k] : k \in Cached'}) = {}
    BY <1>10 DEF OnePlace, IInv
  <2>5. \A b, c \in Actors : b # c => pending'[b] \cap pending'[c] = {}
    BY <1>5, <2>3 DEF OnePlace, IInv
  <2>6. \A b \in Actors :
            pending'[b] \cap ({model'[k] : k \in Cached'} \cup released') = {}
    BY <1>5, <1>11, <2>2, <2>3, <2>4
  <2> QED
    BY <1>11, <2>1, <2>4, <2>5, <2>6 DEF OnePlace
<1>12. ASSUME UNCHANGED <<loaded, released, dropped>> PROVE NothingForgotten'
  <2>1. UNION {pending'[b] : b \in Actors} = (UNION {pending[b] : b \in Actors}) \cup pending'[a]
    BY <1>5
  <2> QED
    BY <1>10, <1>12, <2>1 DEF NothingForgotten, IInv
<1>13. Fits'
  BY <1>6, FitsLemma DEF Pops
<1> QED
  BY <1>1, <1>2, <1>3, <1>5, <1>6, <1>8, <1>9, <1>11, <1>12, <1>13

\* A step that takes nothing in keeps the rest of the invariant.
LEMMA ReleasesStep == ASSUME IInv, NEW a \in Actors, Releases(a) PROVE IInv'
<1>1. PICK m \in pending[a] :
          /\ released' = released \cup {m}
          /\ pending' = [pending EXCEPT ![a] = @ \ {m}]
          /\ UNCHANGED <<cache, ttl, use, unloading, leaving, loaded, dropped, fresh>>
  BY DEF Releases
<1>2. m \in Models
  BY DEF IInv, Types
<1>3. Cached' = Cached
  BY <1>1 DEF Cached, cache
<1>4. pending'[a] = pending[a] \ {m} /\ \A b \in Actors : b # a => pending'[b] = pending[b]
  BY <1>1 DEF IInv, Types
<1>5. Types'
  BY <1>1, <1>2 DEF IInv, Types, cache
<1>6. OnePlace'
  BY <1>1, <1>3, <1>4 DEF IInv, OnePlace, cache
<1>7. NothingForgotten'
  <2>1. (UNION {pending'[b] : b \in Actors}) \cup {m} = UNION {pending[b] : b \in Actors}
    BY <1>4 DEF IInv, OnePlace
  <2> QED
    BY <1>1, <1>3, <2>1 DEF IInv, NothingForgotten, cache
<1> QED
  BY <1>1, <1>3, <1>5, <1>6, <1>7
     DEF IInv, Ordered, Loading, OldestFirst, UnloadsAll, NothingDropped, Fits, cache

LEMMA HitsStep == ASSUME IInv, NEW t \in Threads, NEW k \in Keys, GetHits(t, k) PROVE IInv'
<1> USE NamesAssumption, NumbersAssumption
<1>1. Cached' = Cached
  BY DEF GetHits, Cached
<1>2. Types'
  BY DEF GetHits, Touches, IInv, Types, Cached, calls, history
<1>3. Ordered'
  <2>1. older'[k] = Cached \ {k} /\ \A j \in Keys : j # k => older'[j] = older[j] \ {k}
    BY DEF GetHits, Touches
  <2>2. k \in Cached /\ Cached \subseteq Keys
    BY DEF GetHits, Cached
  <2> QED
    BY <1>1, <2>1, <2>2 DEF IInv, Ordered
<1>4. Loading'
  BY <1>1 DEF GetHits, IInv, Loading, Types
<1>5. OldestFirst'
  <2>1. idle'[k] = 0 /\ \A j \in Keys : j # k => idle'[j] = idle[j]
    BY DEF GetHits, Touches, IInv, Types
  <2>2. older'[k] = Cached \ {k} /\ \A j \in Keys : j # k => older'[j] = older[j] \ {k}
    BY DEF GetHits, Touches
  <2> QED
    BY <1>1, <2>1, <2>2 DEF IInv, OldestFirst, Types, Cached
<1> QED
  BY <1>1, <1>2, <1>3, <1>4, <1>5
     DEF IInv, GetHits, OnePlace, NothingForgotten, UnloadsAll, NothingDropped, Fits, calls, history

LEMMA MissesStep == ASSUME IInv, NEW t \in Threads, NEW k \in Keys, GetMisses(t, k) PROVE IInv'
<1>1. t \in Actors /\ pending[t] = {} /\ Pops(t, Cached \cap {k})
  BY DEF GetMisses, Returned, Actors
<1>2. UNCHANGED <<ttl, unloading, leaving, history>>
  BY DEF GetMisses
<1>3. Cached' = Cached \ {k}
  BY <1>1, PopsLemma
<1>4. use' \in [Threads -> [pc : {"free", "loading", "using"}, key : Keys \cup {None},
                            model : Models \cup {None}]]
  BY DEF GetMisses, IInv, Types
<1>5. Types'
  BY <1>1, <1>2, <1>4, PopsLemma DEF IInv, Types, history
<1>6. Loading'
  BY <1>3 DEF GetMisses, IInv, Loading, Types
<1>7. Ordered' /\ OldestFirst' /\ OnePlace' /\ NothingForgotten' /\ Fits'
  BY <1>1, <1>2, PopsLemma DEF history
<1> QED
  BY <1>2, <1>3, <1>5, <1>6, <1>7 DEF IInv, UnloadsAll, NothingDropped, history

LEMMA PutStep == ASSUME IInv, NEW t \in Threads, Put(t) PROVE IInv'
<1> USE NamesAssumption, NumbersAssumption
<1> DEFINE k == use[t].key
           kept == Kept(k)
           gone == Cached \ (kept \cup {k})
<1>1. k \in Keys /\ t \in Actors /\ pending[t] = {} /\ t \notin unloading
  BY DEF Put, Returned, IInv, Loading, Actors
<1>2. kept \subseteq Cached \ {k}
  BY <1>1, KeptLemma
<1>3. PICK m \in Models \ loaded :
          /\ loaded' = loaded \cup {m}
          /\ model' = [j \in Keys |-> IF j = k THEN m
                                      ELSE IF j \in kept THEN model[j] ELSE None]
          /\ use' = [use EXCEPT ![t] = [@ EXCEPT !.pc = "using", !.model = m]]
  BY DEF Put
<1>4. /\ older' = [j \in Keys |->
                        IF j = k THEN kept ELSE IF j \in kept THEN older[j] \cap kept ELSE {}]
      /\ idle' = [j \in Keys |-> IF j \in kept THEN idle[j] ELSE 0]
      /\ pending' = [pending EXCEPT ![t] = {model[j] : j \in gone}]
      /\ dropped' = dropped \cup {model[j] : j \in Cached \cap {k}}
      /\ fresh' = [a \in Actors |-> IF a \in unloading THEN fresh[a] \cup {k} ELSE {}]
      /\ UNCHANGED <<ttl, unloading, leaving, released>>
  BY DEF Put
<1>5. use[t].pc = "loading" /\ total' = total - Gb(Cached \ kept) + Size[k]
  BY DEF Put
<1> HIDE DEF k, kept, gone
<1>6. Cached' = kept \cup {k}
  BY <1>1, <1>2, <1>3 DEF Cached
<1>7. model'[k] = m /\ \A j \in kept : model'[j] = model[j]
  BY <1>1, <1>2, <1>3 DEF Cached
<1>8. gone \subseteq Cached /\ gone \cap kept = {} /\ k \notin gone
  BY DEF gone
<1>9. /\ pending'[t] = {model[j] : j \in gone}
      /\ \A a \in Actors : a # t => pending'[a] = pending[a]
  <2>1. pending \in [Actors -> SUBSET Models]
    BY DEF IInv, Types
  <2>2. pending' = [pending EXCEPT ![t] = {model[j] : j \in gone}]
    BY <1>4
  <2> QED
    BY <1>1, <2>1, <2>2
<1>10. \A j \in gone : model[j] \in Models
  BY <1>8 DEF Cached, IInv, Types
<1>11. m \notin released /\ (\A j \in Cached : model[j] # m) /\ (\A a \in Actors : m \notin pending[a])
  BY <1>3 DEF IInv, NothingForgotten
<1>12. use' \in [Threads -> [pc : {"free", "loading", "using"}, key : Keys \cup {None},
                             model : Models \cup {None}]]
  <2>1. use \in [Threads -> [pc : {"free", "loading", "using"}, key : Keys \cup {None},
                             model : Models \cup {None}]]
    BY DEF IInv, Types
  <2> QED
    BY <1>3, <2>1
<1>13. Types'
  <2>1. model' \in [Keys -> Models \cup {None}]
    BY <1>3 DEF IInv, Types
  <2>2. idle' \in [Keys -> 0..MaxIdle] /\ older' \in [Keys -> SUBSET Keys]
    BY <1>2, <1>4 DEF IInv, Types, Cached
  <2>3. pending' \in [Actors -> SUBSET Models]
    <3>1. pending'[t] \in SUBSET Models
      BY <1>9, <1>10
    <3> QED
      BY <1>4, <1>9, <3>1 DEF IInv, Types
  <2>4. fresh' \in [Actors -> SUBSET Keys]
    BY <1>1, <1>4 DEF IInv, Types
  <2>5. dropped' \subseteq Models
    BY <1>4 DEF IInv, Types, Cached
  <2> QED
    BY <1>3, <1>4, <1>12, <2>1, <2>2, <2>3, <2>4, <2>5 DEF IInv, Types
<1>14. Ordered'
  <2>1. older'[k] = kept /\ \A j \in kept : older'[j] = older[j] \cap kept
    BY <1>1, <1>2, <1>4 DEF Cached
  <2>2. \A j \in Keys : j # k /\ j \notin kept => older'[j] = {}
    BY <1>1, <1>4
  <2>3. kept \subseteq Keys
    BY <1>2 DEF Cached
  <2>4. \A j \in Keys : older'[j] \subseteq Cached' \ {j} /\ (j \notin Cached' => older'[j] = {})
    BY <1>2, <1>6, <2>1, <2>2, <2>3 DEF IInv, Ordered
  <2>5. \A j \in kept : \A i \in older[j] \cap kept : older'[i] \subseteq older'[j]
    BY <2>1, <2>3 DEF IInv, Ordered
  <2>6. \A j \in Keys : \A i \in older'[j] : older'[i] \subseteq older'[j]
    BY <2>1, <2>2, <2>5
  <2> QED
    BY <2>4, <2>6 DEF Ordered
<1>15. OldestFirst'
  <2>1. older'[k] = kept /\ \A j \in kept : older'[j] = older[j] \cap kept
    BY <1>1, <1>2, <1>4 DEF Cached
  <2>2. idle'[k] = 0 /\ \A j \in kept : idle'[j] = idle[j]
    BY <1>1, <1>2, <1>4 DEF Cached
  <2> QED
    BY <1>2, <1>6, <2>1, <2>2 DEF IInv, OldestFirst, Types, Cached
<1>16. OnePlace'
  <2>1. \A i, j \in Cached' : model'[i] = model'[j] => i = j
    BY <1>2, <1>6, <1>7, <1>11 DEF IInv, OnePlace
  <2>2. pending'[t] \cap ({model'[j] : j \in Cached'} \cup released) = {}
    BY <1>2, <1>6, <1>7, <1>8, <1>9, <1>11 DEF IInv, OnePlace
  <2>3. \A a \in Actors : a # t =>
            pending[a] \cap ({model'[j] : j \in Cached'} \cup released \cup pending'[t]) = {}
    BY <1>2, <1>6, <1>7, <1>8, <1>9, <1>11 DEF IInv, OnePlace
  <2>4. released \cap {model'[j] : j \in Cached'} = {}
    BY <1>2, <1>6, <1>7, <1>11 DEF IInv, OnePlace
  <2>5. \A a, b \in Actors : a # b => pending'[a] \cap pending'[b] = {}
    BY <1>9, <2>3 DEF IInv, OnePlace
  <2>6. \A a \in Actors : pending'[a] \cap ({model'[j] : j \in Cached'} \cup released) = {}
    BY <1>9, <2>2, <2>3
  <2> QED
    BY <1>4, <2>1, <2>4, <2>5, <2>6 DEF OnePlace
<1>17. NothingForgotten'
  <2>1. Cached = kept \cup gone \cup (Cached \cap {k})
    BY <1>2 DEF gone
  <2>2. {model[j] : j \in Cached} \cup {m} =
            {model'[j] : j \in Cached'} \cup pending'[t] \cup {model[j] : j \in Cached \cap {k}}
    BY <1>6, <1>7, <1>9, <2>1
  <2>3. UNION {pending'[a] : a \in Actors} = (UNION {pending[a] : a \in Actors}) \cup pending'[t]
    BY <1>1, <1>9
  <2> QED
    BY <1>3, <1>4, <2>2, <2>3 DEF IInv, NothingForgotten
<1>18. UnloadsAll'
  BY <1>2, <1>4, <1>6 DEF IInv, UnloadsAll, Types
<1>19. \A s \in Threads : use'[s].pc = "loading" => s # t /\ use'[s] = use[s]
  BY <1>3 DEF IInv, Types
<1>20. Cardinality(Threads) = 1 => \A s \in Threads : s = t
  <2>1. Cardinality(Threads) = 1 => \E s : Threads = {s}
    BY FiniteAssumption, FS_Singleton
  <2> QED
    BY <2>1
<1>21. Loading'
  BY <1>19, <1>20 DEF IInv, Loading
<1>22. NothingDropped'
  BY <1>4, <1>5 DEF IInv, NothingDropped, Loading, k
<1>23. Fits'
  <2>1. Cached \subseteq Keys /\ kept \subseteq Cached /\ kept \cap {k} = {} /\ {k} \subseteq Keys
    BY <1>1, <1>2 DEF Cached
  <2>2. Gb(kept \cup {k}) = Gb(kept) + Size[k]
    BY <1>1, <2>1, GbLemma
  <2>3. Gb(Cached \ kept) = Gb(Cached) - Gb(kept) /\ Gb(kept) \in Nat /\ Gb(Cached) \in Nat
    BY <2>1, GbLemma
  <2>4. total' = Gb(Cached')
    BY <1>1, <1>5, <1>6, <2>2, <2>3 DEF IInv, Fits
  <2>5. Cardinality(Cached') <= MaxEntries
    BY <1>1, <1>6, KeptLemma DEF kept
  <2>6. MaxEntries > 1 => Gb(Cached') <= Limit \/ Cardinality(Cached') = 1
    BY <1>1, <1>6, <2>2, KeptLemma DEF kept
  <2> QED
    BY <2>4, <2>5, <2>6 DEF Fits
<1> QED
  BY <1>13, <1>14, <1>15, <1>16, <1>17, <1>18, <1>21, <1>22, <1>23 DEF IInv

LEMMA EndsStep == ASSUME IInv, NEW t \in Threads, Ends(t) PROVE IInv'
<1>1. Cached' = Cached
  BY DEF Ends, Cached, cache
<1>2. UNCHANGED <<cache, ttl, calls, history>>
  BY DEF Ends
<1>3. Types'
  BY <1>2 DEF Ends, NoUse, IInv, Types, cache, calls, history
<1>4. Loading'
  BY <1>1 DEF Ends, NoUse, IInv, Loading, Types
<1> QED
  BY <1>1, <1>2, <1>3, <1>4
     DEF IInv, Ordered, OnePlace, NothingForgotten, OldestFirst, UnloadsAll, NothingDropped,
         Fits, cache, calls, history

LEMMA PurgeStep == ASSUME IInv, PurgeIdle PROVE IInv'
<1> DEFINE gone == {k \in Keys : Expired(k)}
<1>1. Loop \in Actors /\ pending[Loop] = {} /\ Pops(Loop, gone) /\ gone \subseteq Cached
  BY DEF PurgeIdle, Returned, Actors, Expired
<1>2. UNCHANGED <<ttl, use, unloading, leaving, loaded, released, dropped, fresh>>
  BY DEF PurgeIdle
<1> HIDE DEF gone
<1>3. Cached' = Cached \ gone
  BY <1>1, PopsLemma
<1>4. Types'
  BY <1>1, <1>2, PopsLemma DEF IInv, Types
<1>5. Ordered' /\ OldestFirst' /\ OnePlace' /\ NothingForgotten' /\ Fits'
  BY <1>1, <1>2, PopsLemma
<1> QED
  BY <1>2, <1>3, <1>4, <1>5 DEF IInv, Loading, UnloadsAll, NothingDropped

LEMMA AsksStep ==
    ASSUME IInv, NEW a \in Actors, Returned(a), Asks(a), ttl' \in Ttls,
           UNCHANGED <<cache, use, pending, history>>
    PROVE  IInv'
<1>1. Cached' = Cached
  BY DEF Cached, cache
<1>2. Types'
  BY DEF Asks, IInv, Types, cache, history, Cached
<1>3. UnloadsAll'
  BY <1>1 DEF Asks, IInv, UnloadsAll, Types, history
<1> QED
  BY <1>1, <1>2, <1>3
     DEF IInv, Ordered, Loading, OnePlace, NothingForgotten, OldestFirst, NothingDropped,
         Fits, cache, history

LEMMA EvictsStep == ASSUME IInv, NEW a \in Actors, Evicts(a) PROVE IInv'
<1>1. PICK k \in leaving[a] :
          leaving' = [leaving EXCEPT ![a] = @ \ {k}] /\ Pops(a, Cached \cap {k})
  BY DEF Evicts
<1>2. pending[a] = {} /\ UNCHANGED <<ttl, use, unloading, history>>
  BY DEF Evicts
<1>3. Cached' = Cached \ {k}
  BY <1>1, <1>2, PopsLemma
<1>4. Types'
  BY <1>1, <1>2, PopsLemma DEF IInv, Types, history
<1>5. Ordered' /\ OldestFirst' /\ OnePlace' /\ NothingForgotten' /\ Fits'
  BY <1>1, <1>2, PopsLemma DEF history
<1>6. UnloadsAll'
  BY <1>1, <1>2, <1>3 DEF IInv, UnloadsAll, Types, history
<1> QED
  BY <1>2, <1>3, <1>4, <1>5, <1>6 DEF IInv, Loading, NothingDropped, history

LEMMA UnloadedStep == ASSUME IInv, NEW a \in Actors, Unloaded(a) PROVE IInv'
<1>1. UNCHANGED <<cache, ttl, use, pending, leaving, loaded, released, dropped>>
  BY DEF Unloaded
<1>2. Cached' = Cached
  BY <1>1 DEF Cached, cache
<1>3. Types'
  BY <1>1 DEF Unloaded, IInv, Types, cache
<1>4. UnloadsAll'
  BY <1>1, <1>2 DEF Unloaded, IInv, UnloadsAll, Types
<1> QED
  BY <1>1, <1>2, <1>3, <1>4
     DEF IInv, Ordered, Loading, OnePlace, NothingForgotten, OldestFirst, NothingDropped, Fits,
         cache

LEMMA TickStep == ASSUME IInv, Tick PROVE IInv'
<1> USE NumbersAssumption
<1>1. UNCHANGED <<model, older, total, ttl, use, calls, history>>
  BY DEF Tick
<1>2. Cached' = Cached
  BY <1>1 DEF Cached
<1>3. Types'
  BY <1>1 DEF Tick, IInv, Types, calls, history
<1>4. OldestFirst'
  <2>1. ASSUME NEW j \in Cached, NEW k \in Cached, idle[j] >= idle[k]
        PROVE  idle'[j] >= idle'[k]
    BY <2>1 DEF Tick, IInv, Types, Cached
  <2> QED
    BY <1>1, <1>2, <2>1 DEF IInv, OldestFirst
<1> QED
  BY <1>1, <1>2, <1>3, <1>4
     DEF IInv, Ordered, Loading, OnePlace, NothingForgotten, UnloadsAll, NothingDropped,
         Fits, calls, history

LEMMA NextLemma == ASSUME IInv, [Next]_vars PROVE IInv'
<1>1. CASE UNCHANGED vars
  <2>1. Cached' = Cached
    BY <1>1 DEF Cached, vars, cache
  <2> QED
    BY <1>1, <2>1
       DEF IInv, Types, Ordered, Loading, OnePlace, NothingForgotten, OldestFirst, UnloadsAll,
           NothingDropped, Fits, vars, cache, calls, history
<1>2. CASE Next
  <2>1. ASSUME NEW t \in Threads, UnloadAll(t) PROVE IInv'
    BY <2>1, AsksStep DEF UnloadAll, Actors, IInv, Types
  <2>2. ASSUME NEW n \in Ttls, SettingsChange(n) PROVE IInv'
    BY <2>2, AsksStep DEF SettingsChange, Actors
  <2> QED
    BY <1>2, <2>1, <2>2, ReleasesStep, HitsStep, MissesStep, PutStep, EndsStep, PurgeStep,
       EvictsStep, UnloadedStep, TickStep DEF Next
<1> QED
  BY <1>1, <1>2

\* The invariant that the others follow from.
THEOREM Invariance == Spec => []IInv
BY InitLemma, NextLemma, PTL DEF Spec

\* Every variable has its type; _total_gb never becomes negative (cache.py,
\* _pop_entry_unlocked and put).
THEOREM TypeCorrect == Spec => []TypeOK
<1>1. ASSUME IInv PROVE TypeOK
  <2>1. total \in Nat
    <3>1. Cached \in SUBSET Keys
      BY DEF Cached
    <3> QED
      BY <1>1, <3>1, GbLemma DEF IInv, Fits
  <2> QED
    BY <1>1, <2>1 DEF IInv, Types, TypeOK
<1> QED
  BY <1>1, Invariance, PTL

\* The cache is within its slots and, unless one model alone exceeds it, its budget; its
\* running total is the gigabytes of its entries (cache.py, put and _pop_entry_unlocked).
THEOREM BudgetKept == Spec => []Fits
<1>1. IInv => Fits
  BY DEF IInv
<1> QED
  BY <1>1, Invariance, PTL

\* Two calls never take out one model, and none releases a model that can still be got
\* (cache.py, _pop_entry_unlocked under the lock and _release_entry after it).
THEOREM ReleasedOnce == Spec => []OnePlace
<1>1. IInv => OnePlace
  BY DEF IInv
<1> QED
  BY <1>1, Invariance, PTL

\* Every model that was loaded is cached, to be released, or released, and one engine
\* thread replaces none under its own key (cache.py, get, put, evict and purge_idle).
THEOREM NothingIsLost == Spec => []NothingLost
<1>1. IInv => NothingLost
  BY DEF IInv, NothingLost
<1> QED
  BY <1>1, Invariance, PTL

\* The order of _cache is that of the last uses (cache.py, move_to_end in get and put).
THEOREM LeastRecentlyUsed == Spec => []OldestFirst
<1>1. IInv => OldestFirst
  BY DEF IInv
<1> QED
  BY <1>1, Invariance, PTL

\* unload_all evicts whatever was there when it began.
THEOREM UnloadIsComplete == Spec => []UnloadsAll
<1>1. IInv => UnloadsAll
  BY DEF IInv
<1> QED
  BY <1>1, Invariance, PTL

---------------------------------------------------------------------------
(* The life cycle of models.                                               *)

\* A step of the life cycle, or none.
LStep == Lifecycle!Next \/ UNCHANGED Place

\* Where a model is decides what Place says of it.
LEMMA PlaceLemma ==
    ASSUME IInv, NEW m \in Models
    PROVE  /\ (\E k \in Cached : model[k] = m) <=> Place[m] = "kept"
           /\ (\E a \in Actors : m \in pending[a]) <=> Place[m] = "leaving"
           /\ m \in released <=> Place[m] = "released"
           /\ m \notin loaded => Place[m] = "new"
<1>1. \A k \in Cached : model[k] = m => m \notin released /\ \A a \in Actors : m \notin pending[a]
  BY DEF IInv, OnePlace
<1>2. \A a \in Actors : m \in pending[a] => m \notin released
  BY DEF IInv, OnePlace
<1>3. m \notin loaded => /\ \A k \in Cached : model[k] # m
                         /\ \A a \in Actors : m \notin pending[a]
                         /\ m \notin released
  BY DEF IInv, NothingForgotten
<1> QED
  BY <1>1, <1>2, <1>3 DEF Place

\* What taking entries out does to the places.
LEMMA PopsPlaces ==
    ASSUME IInv, NEW a \in Actors, NEW gone \in SUBSET Cached, pending[a] = {},
           Pops(a, gone), UNCHANGED <<loaded, released>>
    PROVE  LStep
<1> DEFINE G == {model[k] : k \in gone}
<1>1. Cached' = Cached \ gone /\ \A k \in Cached' : model'[k] = model[k]
  <2>1. Cached' = Cached \ gone
    BY PopsLemma
  <2> QED
    BY <2>1 DEF Pops, Cached
<1>2. pending'[a] = G /\ \A b \in Actors : b # a => pending'[b] = pending[b]
  BY DEF Pops, IInv, Types
<1>3. \A k \in gone : model[k] \in Models
  BY DEF Cached, IInv, Types
<1>4. \A j, k \in Cached : model[j] = model[k] => j = k
  BY DEF IInv, OnePlace
<1> HIDE DEF G
<1>5. ASSUME NEW m \in Models
      PROVE  Place'[m] = IF m \in G THEN "leaving" ELSE Place[m]
  <2>1. CASE m \in G
    <3>1. ~ \E k \in Cached' : model'[k] = m
      BY <1>1, <1>4, <2>1 DEF G
    <3>2. m \in pending'[a]
      BY <1>2, <2>1
    <3> QED
      BY <2>1, <3>1, <3>2 DEF Place
  <2>2. CASE m \notin G
    <3>1. (\E k \in Cached' : model'[k] = m) <=> \E k \in Cached : model[k] = m
      BY <1>1, <2>2 DEF G
    <3>2. (\E b \in Actors : m \in pending'[b]) <=> \E b \in Actors : m \in pending[b]
      BY <1>2, <2>2
    <3> QED
      BY <2>2, <3>1, <3>2 DEF Place
  <2> QED
    BY <2>1, <2>2
<1>6. G \in SUBSET Lifecycle!KeptModels
  BY <1>3, PlaceLemma DEF G, Lifecycle!KeptModels
<1>7. Lifecycle!TakeOut(G)
  <2>1. Place' = [m \in Models |-> Place'[m]]
    BY DEF Place
  <2> QED
    BY <1>5, <2>1 DEF Lifecycle!TakeOut
<1> QED
  BY <1>6, <1>7 DEF LStep, Lifecycle!Next

LEMMA ReleasesPlaces == ASSUME IInv, NEW a \in Actors, Releases(a) PROVE LStep
<1>1. PICK m \in pending[a] :
          /\ released' = released \cup {m}
          /\ pending' = [pending EXCEPT ![a] = @ \ {m}]
          /\ UNCHANGED <<cache, loaded>>
  BY DEF Releases
<1>2. m \in Models /\ Place[m] = "leaving"
  <2>1. m \in Models
    BY DEF IInv, Types
  <2> QED
    BY <2>1, PlaceLemma
<1>3. pending'[a] = pending[a] \ {m} /\ \A b \in Actors : b # a => pending'[b] = pending[b]
  BY <1>1 DEF IInv, Types
<1>4. Cached' = Cached /\ model' = model /\ loaded' = loaded
  BY <1>1 DEF Cached, cache
<1>5. /\ \A k \in Cached : model[k] # m
      /\ \A b \in Actors : b # a => m \notin pending[b]
  BY DEF IInv, OnePlace
<1>6. Place'[m] = "released"
  BY <1>1, <1>2, <1>3, <1>4, <1>5 DEF Place
<1>7. ASSUME NEW x \in Models, x # m PROVE Place'[x] = Place[x]
  <2>1. (\E b \in Actors : x \in pending'[b]) <=> \E b \in Actors : x \in pending[b]
    BY <1>3, <1>7
  <2> QED
    BY <1>1, <1>4, <1>7, <2>1 DEF Place
<1>8. Lifecycle!Release(m)
  <2>1. Place' = [x \in Models |-> Place'[x]] /\ Place = [x \in Models |-> Place[x]]
    BY DEF Place
  <2> QED
    BY <1>2, <1>6, <1>7, <2>1 DEF Lifecycle!Release
<1> QED
  BY <1>2, <1>8 DEF LStep, Lifecycle!Next

LEMMA PutPlaces == ASSUME IInv, NEW t \in Threads, Put(t) PROVE LStep
<1> USE NamesAssumption
<1> DEFINE k == use[t].key
           kept == Kept(k)
           gone == Cached \ (kept \cup {k})
           G == {model[j] : j \in gone}
           Old == {model[j] : j \in Cached \cap {k}}
<1>1. k \in Keys /\ t \in Actors /\ pending[t] = {}
  BY DEF Put, Returned, IInv, Loading, Actors
<1>2. kept \subseteq Cached \ {k}
  BY <1>1, KeptLemma
<1>3. PICK m \in Models \ loaded :
          /\ loaded' = loaded \cup {m}
          /\ model' = [j \in Keys |-> IF j = k THEN m
                                      ELSE IF j \in kept THEN model[j] ELSE None]
  BY DEF Put
<1>4. pending' = [pending EXCEPT ![t] = G] /\ released' = released
  BY DEF Put
<1> HIDE DEF k, kept
<1>5. Cached' = kept \cup {k} /\ model'[k] = m /\ \A j \in kept : model'[j] = model[j]
  BY <1>1, <1>2, <1>3 DEF Cached
<1>6. Cached = kept \cup gone \cup (Cached \cap {k})
  BY <1>2
<1>7. gone \cap kept = {} /\ k \notin kept /\ k \notin gone
  BY <1>2
<1> HIDE DEF gone
<1>8. pending'[t] = G /\ \A a \in Actors : a # t => pending'[a] = pending[a]
  BY <1>1, <1>4 DEF IInv, Types
<1>9. \A i, j \in Cached : model[i] = model[j] => i = j
  BY DEF IInv, OnePlace
<1>10. \A x \in G \cup Old : x \in Models /\ \E j \in Cached : model[j] = x
  BY <1>6 DEF Cached, IInv, Types
<1>11. G \in SUBSET Lifecycle!KeptModels /\ Old \in SUBSET Lifecycle!KeptModels
  BY <1>10, PlaceLemma DEF Lifecycle!KeptModels
<1>12. G \cap Old = {} /\ \A x, y \in Old : x = y
  BY <1>6, <1>7, <1>9
<1>13. Place[m] = "new"
  BY <1>3, PlaceLemma
<1>14. ASSUME NEW x \in Models
       PROVE  Place'[x] = IF x = m THEN "kept"
                          ELSE IF x \in G THEN "leaving"
                          ELSE IF x \in Old THEN "lost" ELSE Place[x]
  <2>1. CASE x = m
    BY <1>5, <2>1 DEF Place
  <2>2. CASE x # m /\ x \in G
    <3>1. ~ \E j \in Cached' : model'[j] = x
      BY <1>5, <1>6, <1>7, <1>9, <2>2
    <3>2. x \in pending'[t]
      BY <1>8, <2>2
    <3> QED
      BY <1>1, <2>2, <3>1, <3>2 DEF Place
  <2>3. CASE x # m /\ x \notin G /\ x \in Old
    <3>1. ~ \E j \in Cached' : model'[j] = x
      BY <1>5, <1>6, <1>7, <1>9, <2>3
    <3>2. x \notin released /\ \A a \in Actors : x \notin pending[a]
      BY <1>10, <2>3 DEF IInv, OnePlace
    <3>3. x \in loaded
      BY <1>10, <2>3 DEF IInv, NothingForgotten
    <3>4. ~ \E a \in Actors : x \in pending'[a]
      BY <1>8, <2>3, <3>2
    <3> QED
      BY <1>3, <1>4, <2>3, <3>1, <3>2, <3>3, <3>4 DEF Place
  <2>4. CASE x # m /\ x \notin G /\ x \notin Old
    <3>1. (\E j \in Cached' : model'[j] = x) <=> \E j \in Cached : model[j] = x
      BY <1>5, <1>6, <2>4
    <3>2. (\E a \in Actors : x \in pending'[a]) <=> \E a \in Actors : x \in pending[a]
      BY <1>1, <1>8, <2>4
    <3>3. x \in loaded' <=> x \in loaded
      BY <1>3, <2>4
    <3> QED
      BY <1>4, <2>4, <3>1, <3>2, <3>3 DEF Place
  <2> QED
    BY <2>1, <2>2, <2>3, <2>4
<1>15. Lifecycle!Put(m, G, Old)
  <2>1. Place' = [x \in Models |-> Place'[x]]
    BY DEF Place
  <2> HIDE DEF G, Old
  <2> QED
    BY <1>12, <1>13, <1>14, <2>1 DEF Lifecycle!Put
<1> QED
  BY <1>3, <1>11, <1>15 DEF LStep, Lifecycle!Next

\* A step that moves no model.
LEMMA SamePlaces ==
    ASSUME UNCHANGED <<model, pending, loaded, released>>
    PROVE  LStep
<1>1. Cached' = Cached
  BY DEF Cached
<1> QED
  BY <1>1 DEF LStep, Place

\* Every step of the cache is a step of the life cycle or moves no model.
LEMMA LifecycleStep == ASSUME IInv, [Next]_vars PROVE LStep
<1>1. ASSUME NEW t \in Threads, NEW k \in Keys, GetMisses(t, k) PROVE LStep
  <2>1. t \in Actors /\ pending[t] = {} /\ Pops(t, Cached \cap {k})
    BY <1>1 DEF GetMisses, Returned, Actors
  <2>2. UNCHANGED <<loaded, released>>
    BY <1>1 DEF GetMisses, history
  <2> QED
    BY <2>1, <2>2, PopsPlaces
<1>2. ASSUME PurgeIdle PROVE LStep
  <2> DEFINE gone == {k \in Keys : Expired(k)}
  <2>1. Loop \in Actors /\ pending[Loop] = {} /\ Pops(Loop, gone) /\ gone \in SUBSET Cached
    BY <1>2 DEF PurgeIdle, Returned, Actors, Expired
  <2>2. UNCHANGED <<loaded, released>>
    BY <1>2 DEF PurgeIdle
  <2> HIDE DEF gone
  <2> QED
    BY <2>1, <2>2, PopsPlaces
<1>3. ASSUME NEW a \in Actors, Evicts(a) PROVE LStep
  <2>1. PICK k \in leaving[a] : Pops(a, Cached \cap {k})
    BY <1>3 DEF Evicts
  <2>2. pending[a] = {} /\ UNCHANGED <<loaded, released>>
    BY <1>3 DEF Evicts, history
  <2> QED
    BY <2>1, <2>2, PopsPlaces
<1>4. ASSUME NEW t \in Threads, NEW k \in Keys, GetHits(t, k) PROVE LStep
  BY <1>4, SamePlaces DEF GetHits, calls, history
<1>5. ASSUME NEW t \in Threads, Ends(t) \/ UnloadAll(t) PROVE LStep
  BY <1>5, SamePlaces DEF Ends, UnloadAll, cache, calls, history
<1>6. ASSUME NEW n \in Ttls, SettingsChange(n) PROVE LStep
  BY <1>6, SamePlaces DEF SettingsChange, cache, history
<1>7. ASSUME NEW a \in Actors, Unloaded(a) PROVE LStep
  BY <1>7, SamePlaces DEF Unloaded, cache
<1>8. CASE Tick \/ UNCHANGED vars
  BY <1>8, SamePlaces DEF Tick, vars, cache, calls, history
<1> QED
  BY <1>1, <1>2, <1>3, <1>4, <1>5, <1>6, <1>7, <1>8, PutPlaces, ReleasesPlaces DEF Next

\* Whatever threads, purge and unload_all do in between, the cache does to a model only
\* what the life cycle of models allows (cache.py, put, _pop_entry_unlocked and
\* _release_entry).
THEOREM Refinement == Spec => ImplementsLifecycle
<1>1. Init => Lifecycle!Init
  BY NamesAssumption DEF Init, Lifecycle!Init, Place, Cached
<1>2. IInv /\ [Next]_vars => [Lifecycle!Next]_Place
  BY LifecycleStep DEF LStep
<1> QED
  BY <1>1, <1>2, Invariance, PTL DEF Spec, ImplementsLifecycle, Lifecycle!Spec

===========================================================================
