------------------------ MODULE TaskSchedulerProofs ------------------------
(***************************************************************************)
(* Proofs about TaskScheduler, for every set of tasks, every query limit   *)
(* and every bound.                                                        *)
(***************************************************************************)
EXTENDS TaskScheduler, FiniteSetTheorems, TLAPS

---------------------------------------------------------------------------
(* Sorting.                                                                *)

\* The number of elements of S created no later than t.
Rank(S, t) == Cardinality({u \in S : created[u] <= created[t]})

\* Ranks count from 1 to the size of the set and follow the order of creation.
LEMMA RankLemma ==
    ASSUME NEW S \in SUBSET Tasks, created \in [Tasks -> Nat]
    PROVE  /\ Cardinality(S) \in Nat
           /\ \A t \in S : Rank(S, t) \in 1..Cardinality(S)
           /\ \A t, u \in S : created[t] < created[u] => Rank(S, t) < Rank(S, u)
<1>1. IsFiniteSet(S)
  BY TasksAssumption, FS_Subset
<1>2. Cardinality(S) \in Nat
  BY <1>1, FS_CardinalityType
<1>3. ASSUME NEW t \in S
      PROVE  Rank(S, t) \in 1..Cardinality(S)
  <2> DEFINE R == {u \in S : created[u] <= created[t]}
  <2>1. R \in SUBSET S /\ t \in R
    OBVIOUS
  <2>2. IsFiniteSet(R) /\ Cardinality(R) <= Cardinality(S)
    BY <1>1, <2>1, FS_Subset
  <2>3. Cardinality(R) \in Nat /\ Cardinality(R) # 0
    BY <2>1, <2>2, FS_CardinalityType, FS_EmptySet
  <2> QED
    BY <1>2, <2>2, <2>3 DEF Rank
<1>4. ASSUME NEW t \in S, NEW u \in S, created[t] < created[u]
      PROVE  Rank(S, t) < Rank(S, u)
  <2> DEFINE R == {v \in S : created[v] <= created[t]}
             Q == {v \in S : created[v] <= created[u]}
  <2>1. R \in SUBSET Q
    BY <1>4
  <2>2. u \in Q /\ u \notin R
    BY <1>4
  <2>3. IsFiniteSet(Q)
    BY <1>1, FS_Subset
  <2>4. Cardinality(R) <= Cardinality(Q) /\ Cardinality(R) # Cardinality(Q)
    BY <2>1, <2>2, <2>3, FS_Subset
  <2>5. Cardinality(R) \in Nat /\ Cardinality(Q) \in Nat
    BY <2>1, <2>3, FS_Subset, FS_CardinalityType
  <2> QED
    BY <2>4, <2>5 DEF Rank
<1> QED
  BY <1>2, <1>3, <1>4

\* rows.sort() returns all the rows, in the order of their creation.
LEMMA SortedLemma ==
    ASSUME NEW S \in SUBSET Tasks, created \in [Tasks -> Nat],
           \A t, u \in S : created[t] = created[u] => t = u
    PROVE  LET s == Sorted(S) IN
           /\ Cardinality(S) \in Nat
           /\ s \in [1..Cardinality(S) -> S]
           /\ \A i, j \in 1..Cardinality(S) : i < j => created[s[i]] < created[s[j]]
           /\ \A t \in S : \E i \in 1..Cardinality(S) : s[i] = t
<1> DEFINE n == Cardinality(S)
           r == [t \in S |-> Rank(S, t)]
           IsSorted(s) == \A i, j \in DOMAIN s : i < j => created[s[i]] < created[s[j]]
<1>1. /\ IsFiniteSet(S)
      /\ n \in Nat
      /\ r \in [S -> 1..n]
      /\ \A t, u \in S : created[t] < created[u] => r[t] < r[u]
  BY TasksAssumption, FS_Subset, RankLemma
<1>2. IsFiniteSet(1..n) /\ Cardinality(1..n) = n
  BY <1>1, FS_Interval
<1>3. \A t, u \in S : r[t] = r[u] => t = u
  <2> SUFFICES ASSUME NEW t \in S, NEW u \in S, t # u
               PROVE  r[t] # r[u]
    OBVIOUS
  <2>1. created[t] \in Nat /\ created[u] \in Nat /\ created[t] # created[u]
    OBVIOUS
  <2>2. created[t] < created[u] \/ created[u] < created[t]
    BY <2>1
  <2>3. r[t] \in Nat /\ r[u] \in Nat
    BY <1>1
  <2> QED
    BY <1>1, <2>2, <2>3
<1>4. r \in Injection(S, 1..n)
  BY <1>1, <1>3 DEF Injection, IsInjective
<1>5. r \in Surjection(S, 1..n)
  BY <1>1, <1>2, <1>4, FS_Injection
<1>6. \A i \in 1..n : \E t \in S : r[t] = i
  BY <1>5 DEF Surjection
<1>7. \E s \in [1..n -> S] : IsSorted(s)
  <2> DEFINE s == [i \in 1..n |-> CHOOSE t \in S : r[t] = i]
  <2>1. \A i \in 1..n : s[i] \in S /\ r[s[i]] = i
    BY <1>6
  <2>2. s \in [1..n -> S]
    BY <2>1
  <2> HIDE DEF s
  <2>3. ASSUME NEW i \in 1..n, NEW j \in 1..n, i < j
        PROVE  created[s[i]] < created[s[j]]
    <3>1. s[i] \in S /\ s[j] \in S /\ r[s[i]] = i /\ r[s[j]] = j
      BY <2>1
    <3>2. created[s[i]] \in Nat /\ created[s[j]] \in Nat
      BY <3>1
    <3>3. s[i] # s[j]
      BY <3>1, <2>3
    <3>4. ~(created[s[j]] < created[s[i]])
      BY <1>1, <3>1, <2>3
    <3>5. created[s[i]] # created[s[j]]
      BY <3>1, <3>3
    <3> QED
      BY <3>2, <3>4, <3>5
  <2> QED
    BY <2>2, <2>3
<1>8. Sorted(S) \in [1..n -> S] /\ IsSorted(Sorted(S))
  BY <1>7 DEF Sorted
<1> DEFINE z == Sorted(S)
<1>9. \A i, j \in 1..n : i < j => created[z[i]] < created[z[j]]
  BY <1>8
<1>10. \A i, j \in 1..n : z[i] = z[j] => i = j
  <2> SUFFICES ASSUME NEW i \in 1..n, NEW j \in 1..n, i # j
               PROVE  z[i] # z[j]
    OBVIOUS
  <2>1. i < j \/ j < i
    BY <1>1
  <2>2. created[z[i]] \in Nat /\ created[z[j]] \in Nat
    BY <1>8
  <2> QED
    BY <1>9, <2>1, <2>2
<1>11. z \in Injection(1..n, S)
  BY <1>8, <1>10 DEF Injection, IsInjective
<1>12. z \in Surjection(1..n, S)
  BY <1>1, <1>2, <1>11, FS_Injection
<1> QED
  BY <1>1, <1>8, <1>9, <1>12 DEF Surjection

---------------------------------------------------------------------------
(* Heaps.                                                                  *)

\* What IInv says of the heap, for any heap h and any columns of the table.
WellFormed(h, st, pr, cr) ==
    /\ h \in [Bands -> Seq(Tasks)]
    /\ \A b \in Bands : \A i \in DOMAIN h[b] :
          /\ st[h[b][i]] = "queued"
          /\ b = 0 <=> pr[h[b][i]] = "high"
          /\ \A j \in DOMAIN h[b] : i < j => cr[h[b][i]] < cr[h[b][j]]
    /\ \A b, c \in Bands : \A i \in DOMAIN h[b], j \in DOMAIN h[c] :
          h[b][i] = h[c][j] => b = c /\ i = j

Holds(h, t) == \E b \in Bands : \E i \in DOMAIN h[b] : h[b][i] = t

\* A limit the queue does not exceed cuts nothing off.
LEMMA NewestLemma ==
    ASSUME NEW S \in SUBSET Tasks, created \in [Tasks -> Nat],
           Cardinality(S) <= QueryLimit
    PROVE  Newest(S, QueryLimit) = S
<1> SUFFICES ASSUME NEW t \in S
             PROVE  Cardinality({u \in S : created[u] > created[t]}) < QueryLimit
  BY DEF Newest
<1> DEFINE R == {u \in S : created[u] > created[t]}
<1>1. IsFiniteSet(S)
  BY TasksAssumption, FS_Subset
<1>2. R \in SUBSET S /\ t \notin R
  OBVIOUS
<1>3. Cardinality(R) <= Cardinality(S) /\ Cardinality(R) # Cardinality(S)
  BY <1>1, <1>2, FS_Subset
<1>4. Cardinality(R) \in Nat /\ Cardinality(S) \in Nat
  BY <1>1, <1>2, FS_Subset, FS_CardinalityType
<1> HIDE DEF R
<1>5. Cardinality(R) < QueryLimit
  BY <1>3, <1>4, LimitAssumption
<1> QED
  BY <1>5 DEF R

\* A rebuilt heap is well formed, whatever the heap was before, and holds every
\* queued row when the limit cuts nothing off.
LEMMA RebuiltLemma ==
    ASSUME created \in [Tasks -> Nat],
           NEW st \in [Tasks -> Statuses \cup {"absent"}],
           NEW pr \in [Tasks -> Priorities],
           NEW fl,
           \A t, u \in Queued(st) : created[t] = created[u] => t = u
    PROVE  LET h == Rebuilt(st, pr, fl) IN
           /\ WellFormed(h, st, pr, created)
           /\ Cardinality(Queued(st)) <= QueryLimit =>
                \A t \in Queued(st) \ fl : Holds(h, t)
<1> DEFINE h == Rebuilt(st, pr, fl)
           rows == Newest(Queued(st), QueryLimit) \ fl
           In(b) == {t \in rows : QueueBand(kind[t], pr[t]) = b}
<1>1. rows \subseteq Queued(st) /\ Queued(st) \subseteq Tasks
  BY DEF Newest, Queued
<1>2. \A b \in Bands : h[b] = Sorted(In(b))
  BY DEF Rebuilt
<1>3. ASSUME NEW b \in Bands
      PROVE  /\ Cardinality(In(b)) \in Nat
             /\ h[b] \in [1..Cardinality(In(b)) -> In(b)]
             /\ \A i, j \in 1..Cardinality(In(b)) :
                   i < j => created[h[b][i]] < created[h[b][j]]
             /\ \A t \in In(b) : \E i \in 1..Cardinality(In(b)) : h[b][i] = t
  <2>1. In(b) \in SUBSET Tasks /\ \A t, u \in In(b) : created[t] = created[u] => t = u
    BY <1>1
  <2> HIDE DEF In, h
  <2> QED
    BY <1>2, <2>1, SortedLemma
<1>4. \A b \in Bands : \A t \in In(b) :
         /\ t \in Tasks
         /\ st[t] = "queued"
         /\ b = 0 <=> pr[t] = "high"
         /\ QueueBand(kind[t], pr[t]) = b
  BY <1>1 DEF Queued, QueueBand, Bands
<1>5. DOMAIN h = Bands /\ h = [b \in Bands |-> h[b]]
  BY DEF Rebuilt
<1> HIDE DEF In, h
<1>6. \A b \in Bands : h[b] \in Seq(Tasks)
  <2> SUFFICES ASSUME NEW b \in Bands PROVE h[b] \in Seq(Tasks)
    OBVIOUS
  <2>1. PICK n \in Nat : h[b] \in [1..n -> In(b)]
    BY <1>3
  <2>2. In(b) \subseteq Tasks
    BY <1>4
  <2>3. h[b] \in [1..n -> Tasks]
    BY <2>1, <2>2
  <2> QED
    BY <2>1, <2>3
<1>7. h \in [Bands -> Seq(Tasks)]
  BY <1>5, <1>6
<1>8. \A b \in Bands : DOMAIN h[b] = 1..Cardinality(In(b))
  BY <1>3
<1>9. \A b \in Bands : \A i \in DOMAIN h[b] : h[b][i] \in In(b)
  BY <1>3, <1>8
<1>10. \A b, c \in Bands : \A i \in DOMAIN h[b], j \in DOMAIN h[c] :
         h[b][i] = h[c][j] => b = c /\ i = j
  <2> SUFFICES ASSUME NEW b \in Bands, NEW c \in Bands, NEW i \in DOMAIN h[b],
                      NEW j \in DOMAIN h[c], h[b][i] = h[c][j]
               PROVE  b = c /\ i = j
    OBVIOUS
  <2>1. b = c
    BY <1>4, <1>9
  <2>2. created[h[b][i]] \in Nat
    BY <1>4, <1>9
  <2>3. i \in 1..Cardinality(In(b)) /\ j \in 1..Cardinality(In(b)) /\ Cardinality(In(b)) \in Nat
    BY <1>3, <1>8, <2>1
  <2>4. ~(i < j) /\ ~(j < i)
    BY <1>3, <2>1, <2>2, <2>3
  <2> QED
    BY <2>1, <2>3, <2>4
<1>11. WellFormed(h, st, pr, created)
  BY <1>3, <1>4, <1>7, <1>8, <1>9, <1>10 DEF WellFormed
<1>12. ASSUME Cardinality(Queued(st)) <= QueryLimit, NEW t \in Queued(st) \ fl
       PROVE  Holds(h, t)
  <2>1. t \in rows
    BY <1>1, <1>12, NewestLemma
  <2>2. PICK b \in Bands : QueueBand(kind[t], pr[t]) = b
    BY DEF QueueBand, Bands
  <2>3. t \in In(b)
    BY <2>1, <2>2 DEF In
  <2> QED
    BY <1>3, <1>8, <2>3 DEF Holds
<1> QED
  BY <1>11, <1>12 DEF h

\* Putting a task that is not in the heap, created after all that are.
LEMMA PutLemma ==
    ASSUME NEW h, NEW st, NEW pr, NEW cr, WellFormed(h, st, pr, cr),
           NEW band \in Bands, NEW t \in Tasks, ~Holds(h, t),
           NEW st2, NEW pr2, NEW cr2,
           \A u \in Tasks : Holds(h, u) =>
               st2[u] = st[u] /\ pr2[u] = pr[u] /\ cr2[u] = cr[u] /\ cr2[u] < cr2[t],
           st2[t] = "queued",
           band = 0 <=> pr2[t] = "high"
    PROVE  /\ WellFormed(Put(h, band, t), st2, pr2, cr2)
           /\ \A u \in Tasks : Holds(Put(h, band, t), u) <=> Holds(h, u) \/ u = t
<1> DEFINE g == Put(h, band, t)
           n == Len(h[band])
<1>1. h \in [Bands -> Seq(Tasks)]
  BY DEF WellFormed
<1>2. /\ g \in [Bands -> Seq(Tasks)]
      /\ \A b \in Bands \ {band} : g[b] = h[b]
      /\ n \in Nat
      /\ DOMAIN h[band] = 1..n
      /\ DOMAIN g[band] = 1..(n + 1)
      /\ g[band][n + 1] = t
      /\ \A i \in 1..n : g[band][i] = h[band][i]
  BY <1>1 DEF Put
<1>3. \A b \in Bands : \A i \in DOMAIN h[b] :
         /\ h[b][i] \in Tasks /\ h[b][i] # t /\ Holds(h, h[b][i])
         /\ i \in DOMAIN g[b] /\ g[b][i] = h[b][i]
  <2> SUFFICES ASSUME NEW b \in Bands, NEW i \in DOMAIN h[b]
               PROVE  /\ h[b][i] \in Tasks /\ h[b][i] # t /\ Holds(h, h[b][i])
                      /\ i \in DOMAIN g[b] /\ g[b][i] = h[b][i]
    OBVIOUS
  <2>1. h[b] \in Seq(Tasks)
    BY <1>1
  <2>2. h[b][i] \in Tasks
    BY <2>1
  <2>3. Holds(h, h[b][i])
    BY DEF Holds
  <2> HIDE DEF g, n
  <2>4. i \in DOMAIN g[b] /\ g[b][i] = h[b][i]
    BY <1>2
  <2> QED
    BY <2>2, <2>3, <2>4
<1>4. \A b \in Bands : \A i \in DOMAIN g[b] :
         \/ i \in DOMAIN h[b] /\ g[b][i] = h[b][i]
         \/ b = band /\ i = n + 1 /\ g[b][i] = t
  BY <1>2
<1> HIDE DEF g, n
<1>5. ASSUME NEW b \in Bands, NEW i \in DOMAIN g[b]
      PROVE  /\ st2[g[b][i]] = "queued"
             /\ b = 0 <=> pr2[g[b][i]] = "high"
  <2>1. CASE i \in DOMAIN h[b] /\ g[b][i] = h[b][i]
    <3>1. st2[g[b][i]] = st[h[b][i]] /\ pr2[g[b][i]] = pr[h[b][i]]
      BY <1>3, <2>1
    <3> QED
      BY <2>1, <3>1 DEF WellFormed
  <2>2. CASE b = band /\ g[b][i] = t
    BY <2>2
  <2> QED
    BY <1>4, <2>1, <2>2
<1>6. ASSUME NEW b \in Bands, NEW i \in DOMAIN g[b], NEW j \in DOMAIN g[b], i < j
      PROVE  cr2[g[b][i]] < cr2[g[b][j]]
  <2>1. i \in DOMAIN h[b] /\ g[b][i] = h[b][i]
    BY <1>2, <1>4, <1>6
  <2>2. CASE j \in DOMAIN h[b] /\ g[b][j] = h[b][j]
    <3>1. cr[h[b][i]] < cr[h[b][j]]
      BY <1>6, <2>1, <2>2 DEF WellFormed
    <3>2. cr2[h[b][i]] = cr[h[b][i]] /\ cr2[h[b][j]] = cr[h[b][j]]
      BY <1>3, <2>1, <2>2
    <3> QED
      BY <2>1, <2>2, <3>1, <3>2
  <2>3. CASE g[b][j] = t
    BY <1>3, <2>1, <2>3
  <2> QED
    BY <1>4, <2>2, <2>3
<1>7. ASSUME NEW b \in Bands, NEW c \in Bands, NEW i \in DOMAIN g[b], NEW j \in DOMAIN g[c],
             g[b][i] = g[c][j]
      PROVE  b = c /\ i = j
  <2>1. CASE g[b][i] = t
    <3>1. \A a \in Bands : \A l \in DOMAIN g[a] : g[a][l] = t => a = band /\ l = n + 1
      BY <1>3, <1>4
    <3> QED
      BY <1>7, <2>1, <3>1
  <2>2. CASE g[b][i] # t
    <3>1. i \in DOMAIN h[b] /\ g[b][i] = h[b][i]
      BY <1>4, <2>2, Zenon
    <3>2. j \in DOMAIN h[c] /\ g[c][j] = h[c][j]
      BY <1>4, <1>7, <2>2, Zenon
    <3>3. h[b][i] = h[c][j]
      BY <1>7, <3>1, <3>2
    <3>4. \A l \in DOMAIN h[b] : \A m \in DOMAIN h[c] : h[b][l] = h[c][m] => b = c /\ l = m
      BY Zenon DEF WellFormed
    <3>5. h[b][i] = h[c][j] => b = c /\ i = j
      BY <3>1, <3>2, <3>4, Zenon
    <3> QED
      BY <3>3, <3>5
  <2> QED
    BY <2>1, <2>2
<1>8. WellFormed(g, st2, pr2, cr2)
  BY <1>2, <1>5, <1>6, <1>7 DEF WellFormed
<1>9. ASSUME NEW u \in Tasks
      PROVE  Holds(g, u) <=> Holds(h, u) \/ u = t
  <2>1. Holds(g, u) => Holds(h, u) \/ u = t
    BY <1>4 DEF Holds
  <2>2. Holds(h, u) => Holds(g, u)
    BY <1>3 DEF Holds
  <2>3. Holds(g, t)
    <3>1. n + 1 \in DOMAIN g[band] /\ g[band][n + 1] = t
      BY <1>2
    <3> QED
      BY <3>1 DEF Holds
  <2> QED
    BY <2>1, <2>2, <2>3
<1> QED
  BY <1>8, <1>9 DEF g

\* Popping the first entry of a band.
LEMMA PopLemma ==
    ASSUME NEW h, NEW st, NEW pr, NEW cr, WellFormed(h, st, pr, cr),
           NEW band \in Bands, h[band] # <<>>,
           NEW st2, \A u \in Tasks \ {Head(h[band])} : st2[u] = st[u]
    PROVE  LET g == [h EXCEPT ![band] = Tail(@)]
               t == Head(h[band])
           IN  /\ t \in Tasks /\ Holds(h, t)
               /\ WellFormed(g, st2, pr, cr)
               /\ \A u \in Tasks : Holds(g, u) <=> Holds(h, u) /\ u # t
<1> DEFINE g == [h EXCEPT ![band] = Tail(@)]
           t == Head(h[band])
           n == Len(h[band])
           At(b, i) == IF b = band THEN i + 1 ELSE i
<1>1. h \in [Bands -> Seq(Tasks)]
  BY DEF WellFormed
<1>2. /\ g \in [Bands -> Seq(Tasks)]
      /\ n \in Nat /\ n > 0
      /\ DOMAIN h[band] = 1..n
      /\ t = h[band][1] /\ t \in Tasks
      /\ DOMAIN g[band] = 1..(n - 1)
      /\ \A i \in 1..(n - 1) : g[band][i] = h[band][i + 1]
      /\ \A b \in Bands \ {band} : g[b] = h[b]
  BY <1>1
<1>3. 1 \in DOMAIN h[band] /\ Holds(h, t)
  BY <1>2 DEF Holds
<1>4. \A b \in Bands : \A i \in DOMAIN g[b] :
         At(b, i) \in DOMAIN h[b] /\ g[b][i] = h[b][At(b, i)] /\ i \in Nat
  BY <1>1, <1>2
<1>5. \A b \in Bands : \A i \in DOMAIN h[b] :
         \/ b = band /\ i = 1 /\ h[b][i] = t
         \/ \E j \in DOMAIN g[b] : i = At(b, j)
  <2> SUFFICES ASSUME NEW b \in Bands, NEW i \in DOMAIN h[b], ~(b = band /\ i = 1)
               PROVE  \E j \in DOMAIN g[b] : i = At(b, j)
    BY <1>2
  <2>1. CASE b = band
    <3>1. i - 1 \in DOMAIN g[b] /\ i = At(b, i - 1)
      BY <1>2, <2>1
    <3> QED
      BY <3>1
  <2>2. CASE b # band
    BY <1>2, <2>2
  <2> QED
    BY <2>1, <2>2
<1>6. \A b \in Bands : \A i \in DOMAIN g[b] : g[b][i] # t /\ g[b][i] \in Tasks
  <2> SUFFICES ASSUME NEW b \in Bands, NEW i \in DOMAIN g[b]
               PROVE  g[b][i] # t /\ g[b][i] \in Tasks
    OBVIOUS
  <2>1. At(b, i) \in DOMAIN h[b] /\ g[b][i] = h[b][At(b, i)] /\ i \in Nat
    BY <1>4
  <2>2. ~(b = band /\ At(b, i) = 1)
    BY <1>2, <2>1
  <2> HIDE DEF At
  <2> QED
    BY <1>1, <1>2, <1>3, <2>1, <2>2 DEF WellFormed
<1> HIDE DEF g, t, n
<1>7. ASSUME NEW b \in Bands, NEW i \in DOMAIN g[b], NEW j \in DOMAIN g[b], i < j
      PROVE  cr[g[b][i]] < cr[g[b][j]]
  <2>1. At(b, i) < At(b, j)
    BY <1>4, <1>7
  <2> HIDE DEF At
  <2> QED
    BY <1>4, <2>1 DEF WellFormed
<1>8. ASSUME NEW b \in Bands, NEW c \in Bands, NEW i \in DOMAIN g[b], NEW j \in DOMAIN g[c],
             g[b][i] = g[c][j]
      PROVE  b = c /\ i = j
  <2>1. b = c /\ At(b, i) = At(c, j)
    <3> HIDE DEF At
    <3> QED
      BY <1>4, <1>8 DEF WellFormed
  <2> QED
    BY <1>4, <2>1
<1>9. ASSUME NEW b \in Bands, NEW i \in DOMAIN g[b]
      PROVE  st2[g[b][i]] = "queued" /\ (b = 0 <=> pr[g[b][i]] = "high")
  <2> HIDE DEF At
  <2>1. st2[g[b][i]] = st[g[b][i]]
    BY <1>6 DEF t
  <2> QED
    BY <1>4, <2>1 DEF WellFormed
<1>10. WellFormed(g, st2, pr, cr)
  BY <1>2, <1>7, <1>8, <1>9 DEF WellFormed
<1>11. ASSUME NEW u \in Tasks
       PROVE  Holds(g, u) <=> Holds(h, u) /\ u # t
  <2> HIDE DEF At
  <2>1. Holds(g, u) => Holds(h, u) /\ u # t
    BY <1>4, <1>6 DEF Holds
  <2>2. Holds(h, u) /\ u # t => Holds(g, u)
    BY <1>4, <1>5 DEF Holds
  <2> QED
    BY <2>1, <2>2
<1> QED
  BY <1>2, <1>3, <1>10, <1>11 DEF g, t

\* The band the worker pops from.
LEMMA FirstBandLemma ==
    ASSUME NonEmpty # {}
    PROVE  FirstBand \in Bands /\ heap[FirstBand] # <<>>
<1>1. \E b \in NonEmpty : \A c \in NonEmpty : b <= c
  BY DEF NonEmpty, Bands
<1>2. FirstBand \in NonEmpty
  BY <1>1 DEF FirstBand
<1> QED
  BY <1>2 DEF NonEmpty

---------------------------------------------------------------------------
(* The inductive invariant.                                                *)

\* The conjuncts of IInv that do not speak of the heap.
RowsInv ==
    /\ CreationOrder
    /\ WorkerState
    /\ OneTaskRuns
    /\ CancelReachesEngine
    /\ QueuedTokenIsLive

HeapInv == WellFormed(heap, status, priority, created)

\* The two ways of stating IInv.
LEMMA IInvSplit == IInv <=> TypeOK /\ RowsInv /\ HeapInv
<1>1. ASSUME TypeOK, RowsInv, HeapInv
      PROVE  HeapIsQueued /\ NoDuplicates /\ HeapOrder
  <2>1. HeapIsQueued
    BY <1>1 DEF HeapIsQueued, HeapInv, WellFormed, InHeap
  <2>2. NoDuplicates
    <3>1. \A t \in inFlight : ~InHeap(t)
      BY <1>1, <2>1 DEF HeapIsQueued, RowsInv, WorkerState, TypeOK
    <3> QED
      BY <1>1, <3>1 DEF NoDuplicates, HeapInv, WellFormed
  <2>3. HeapOrder
    BY <1>1 DEF HeapOrder, HeapInv, WellFormed
  <2> QED
    BY <2>1, <2>2, <2>3
<1>2. ASSUME TypeOK, HeapIsQueued, NoDuplicates, HeapOrder
      PROVE  HeapInv
  <2>1. \A b \in Bands : \A i \in DOMAIN heap[b] : heap[b][i] \in Tasks /\ InHeap(heap[b][i])
    <3> SUFFICES ASSUME NEW b \in Bands, NEW i \in DOMAIN heap[b]
                 PROVE  heap[b][i] \in Tasks /\ InHeap(heap[b][i])
      OBVIOUS
    <3>1. heap[b] \in Seq(Tasks)
      BY <1>2 DEF TypeOK
    <3> QED
      BY <3>1 DEF InHeap
  <2>2. \A b \in Bands : \A i \in DOMAIN heap[b] : status[heap[b][i]] = "queued"
    BY <1>2, <2>1 DEF HeapIsQueued
  <2> QED
    BY <1>2, <2>2 DEF HeapInv, WellFormed, NoDuplicates, HeapOrder, TypeOK
<1> QED
  BY <1>1, <1>2 DEF IInv, RowsInv

\* The initial states: nothing is queued and nothing runs.
LEMMA InitLemma == Init => IInv
<1> SUFFICES ASSUME Init PROVE IInv
  OBVIOUS
<1>1. heap \in [Bands -> Seq(Tasks)] /\ \A b \in Bands : heap[b] = <<>>
  BY DEF Init, EmptyHeap
<1>2. TypeOK
  BY <1>1 DEF Init, TypeOK, Kinds, Statuses, Priorities, NoTokens
<1>3. RowsInv
  BY DEF Init, RowsInv, CreationOrder, WorkerState, OneTaskRuns, CancelReachesEngine,
         QueuedTokenIsLive, Working
<1>4. HeapInv
  BY <1>1 DEF HeapInv, WellFormed
<1> QED
  BY <1>2, <1>3, <1>4, IInvSplit

\* What a rebuild of the heap gives in a step that changes rows but no created_at.
LEMMA RebuildStep ==
    ASSUME IInv, NEW st \in [Tasks -> Statuses \cup {"absent"}],
           NEW pr \in [Tasks -> Priorities],
           \A t \in Tasks : st[t] = "queued" => status[t] # "absent"
    PROVE  LET h == Rebuilt(st, pr, inFlight) IN
           /\ h \in [Bands -> Seq(Tasks)]
           /\ WellFormed(h, st, pr, created)
           /\ Cardinality(Queued(st)) <= QueryLimit =>
                \A t \in Queued(st) \ inFlight : Holds(h, t)
<1>1. created \in [Tasks -> Nat]
  BY DEF IInv, TypeOK
<1>2. \A t, u \in Queued(st) : created[t] = created[u] => t = u
  BY DEF IInv, CreationOrder, Queued
<1>3. ASSUME NEW h, WellFormed(h, st, pr, created)
      PROVE  h \in [Bands -> Seq(Tasks)]
  BY <1>3 DEF WellFormed
<1> QED
  BY <1>1, <1>2, <1>3, RebuiltLemma

\* What an insertion gives: the new row and its entry in the heap.
LEMMA InsertStep ==
    ASSUME IInv, NEW st, NEW k, NEW e \in Tasks, NEW kd \in Kinds, NEW p \in Priorities,
           Insert(st, k, e, kd, p),
           st \in [Tasks -> Statuses \cup {"absent"}],
           k \in [Tasks -> {"none", "live", "cancelled"}],
           \A u \in Tasks : status[u] = "queued" => st[u] = "queued",
           \A u \in Tasks : st[u] # "absent" => status[u] # "absent"
    PROVE  /\ status[e] = "absent"
           /\ heap' \in [Bands -> Seq(Tasks)]
           /\ HeapInv'
           /\ CreationOrder'
           /\ \A u \in Tasks : Holds(heap', u) <=> Holds(heap, u) \/ u = e
<1>1. TypeOK /\ HeapInv /\ CreationOrder
  BY IInvSplit DEF RowsInv
<1>2. status[e] = "absent"
  BY <1>1 DEF Insert, CreationOrder
<1>3. /\ clock' = clock + 1
      /\ created' = [created EXCEPT ![e] = clock + 1]
      /\ status' = [st EXCEPT ![e] = "queued"]
      /\ priority' = [priority EXCEPT ![e] = p]
      /\ heap' = Put(heap, QueueBand(kd, p), e)
  BY DEF Insert
<1>4. CreationOrder'
  <2>1. clock \in Nat /\ created \in [Tasks -> Nat]
    BY <1>1 DEF TypeOK
  <2> QED
    BY <1>1, <1>2, <1>3, <2>1 DEF CreationOrder
<1>5. QueueBand(kd, p) \in Bands /\ (QueueBand(kd, p) = 0 <=> p = "high")
  BY DEF QueueBand, Bands
<1>6. \A u \in Tasks : Holds(heap, u) => status[u] = "queued"
  BY <1>1 DEF Holds, HeapInv, WellFormed
<1>7. \A u \in Tasks : Holds(heap, u) =>
         /\ status'[u] = status[u] /\ priority'[u] = priority[u]
         /\ created'[u] = created[u] /\ created'[u] < created'[e]
  BY <1>1, <1>2, <1>3, <1>6 DEF TypeOK, CreationOrder
<1>8. ~Holds(heap, e) /\ status'[e] = "queued" /\ priority'[e] = p
  BY <1>1, <1>2, <1>3, <1>6 DEF TypeOK
<1>9. /\ WellFormed(heap', status', priority', created')
      /\ \A u \in Tasks : Holds(heap', u) <=> Holds(heap, u) \/ u = e
  <2> DEFINE g == Put(heap, QueueBand(kd, p), e)
  <2>1. WellFormed(heap, status, priority, created)
    BY <1>1 DEF HeapInv
  <2>2. QueueBand(kd, p) = 0 <=> priority'[e] = "high"
    BY <1>5, <1>8
  <2>3. /\ WellFormed(g, status', priority', created')
        /\ \A u \in Tasks : Holds(g, u) <=> Holds(heap, u) \/ u = e
    BY <1>5, <1>7, <1>8, <2>1, <2>2, PutLemma
  <2> QED
    BY <1>3, <2>3
<1> QED
  BY <1>2, <1>4, <1>9 DEF HeapInv, WellFormed

\* No queued row is missing from the heap.
NoneStranded == Working => \A t \in Queued(status) : Holds(heap, t)

\* The table queries cut nothing off.
QueueFits == Cardinality(Queued(status)) <= QueryLimit

\* What each action has to establish.
Preserves ==
    /\ TypeOK'
    /\ RowsInv'
    /\ HeapInv'
    /\ NoneStranded /\ QueueFits' => NoneStranded'

\* A step that leaves the heap and the queued rows alone.
LEMMA KeepStep ==
    ASSUME TypeOK, HeapInv, UNCHANGED <<heap, priority, created>>,
           \A u \in Tasks : status[u] = "queued" => status'[u] = "queued"
    PROVE  HeapInv'
<1>1. \A b \in Bands : \A i \in DOMAIN heap[b] : heap[b][i] \in Tasks
  <2> SUFFICES ASSUME NEW b \in Bands, NEW i \in DOMAIN heap[b]
               PROVE  heap[b][i] \in Tasks
    OBVIOUS
  <2>1. heap[b] \in Seq(Tasks)
    BY DEF TypeOK
  <2> QED
    BY <2>1
<1> QED
  BY <1>1 DEF HeapInv, WellFormed

\* A submission appends the newest row to its band.
LEMMA SubmitStep ==
    ASSUME IInv, NEW t \in Tasks, NEW kd \in SubmitKinds, NEW p \in Priorities,
           Submit(t, kd, p)
    PROVE  Preserves
<1>1. TypeOK /\ RowsInv /\ HeapInv /\ kd \in Kinds
  BY IInvSplit, KindsAssumption
<1>2. Insert(status, tokens, t, kd, p) /\ UNCHANGED <<inFlight, worker, imageFirst, bounds>>
  BY DEF Submit
<1>3. /\ status[t] = "absent"
      /\ heap' \in [Bands -> Seq(Tasks)]
      /\ HeapInv'
      /\ CreationOrder'
      /\ \A u \in Tasks : Holds(heap', u) <=> Holds(heap, u) \/ u = t
  BY <1>1, <1>2, InsertStep DEF TypeOK
<1>4. TypeOK'
  BY <1>1, <1>2, <1>3 DEF TypeOK, Statuses, Priorities, Insert, bounds
<1>5. RowsInv'
  BY <1>1, <1>2, <1>3 DEF TypeOK, Insert, RowsInv, CreationOrder, WorkerState, OneTaskRuns,
         CancelReachesEngine, QueuedTokenIsLive, Working, Executing, Up
<1>6. NoneStranded => NoneStranded'
  BY <1>1, <1>2, <1>3 DEF TypeOK, NoneStranded, Queued, Insert, Working
<1> QED
  BY <1>3, <1>4, <1>5, <1>6 DEF Preserves

\* A cancellation of a queued row rebuilds the heap without it; of a running one it
\* leaves the heap alone.
LEMMA CancelStep ==
    ASSUME IInv, NEW t \in Tasks, Cancel(t)
    PROVE  Preserves
<1>1. TypeOK /\ RowsInv /\ HeapInv
  BY IInvSplit
<1>2. CASE status[t] = "queued"
  <2>1. /\ status' = [status EXCEPT ![t] = "cancelled"]
        /\ heap' = Rebuilt(status', priority, inFlight)
        /\ tokens' = TokenCancelled(t)
        /\ UNCHANGED <<kind, priority, created, clock, inFlight, worker, imageFirst, bounds>>
    BY <1>2 DEF Cancel, Terminal
  <2>2. /\ status' \in [Tasks -> Statuses \cup {"absent"}]
        /\ \A u \in Tasks : status'[u] = "queued" => status[u] # "absent"
    BY <1>1, <2>1 DEF TypeOK, Statuses
  <2>3. /\ heap' \in [Bands -> Seq(Tasks)]
        /\ WellFormed(heap', status', priority', created')
        /\ QueueFits' => \A u \in Queued(status') \ inFlight : Holds(heap', u)
    BY <1>1, <2>1, <2>2, RebuildStep DEF TypeOK, QueueFits, Queued
  <2>4. TypeOK'
    BY <1>1, <2>1, <2>2, <2>3 DEF TypeOK, TokenCancelled, bounds
  <2>5. RowsInv'
    BY <1>1, <1>2, <2>1 DEF TypeOK, TokenCancelled, RowsInv, CreationOrder, WorkerState, OneTaskRuns,
         CancelReachesEngine, QueuedTokenIsLive, Working, Executing, Up
  <2>6. QueueFits' => NoneStranded'
    BY <2>3, <2>4, <2>5, <2>1 DEF NoneStranded, RowsInv, WorkerState, Queued
  <2> QED
    BY <2>3, <2>4, <2>5, <2>6 DEF Preserves, HeapInv
<1>3. CASE status[t] # "queued"
  <2>1. /\ status' = [status EXCEPT ![t] = IF @ = "running" THEN "cancelled" ELSE @]
        /\ heap' = heap
        /\ tokens' = TokenCancelled(t)
        /\ UNCHANGED <<kind, priority, created, clock, inFlight, worker, imageFirst, bounds>>
    BY <1>1, <1>3 DEF Cancel, Terminal, TypeOK, Statuses
  <2>2. TypeOK'
    BY <1>1, <2>1 DEF TypeOK, Statuses, Priorities, TokenCancelled, bounds
  <2>3. RowsInv'
    BY <1>1, <1>3, <2>1 DEF TypeOK, TokenCancelled, Cancel, Terminal, RowsInv, CreationOrder, WorkerState, OneTaskRuns,
         CancelReachesEngine, QueuedTokenIsLive, Working, Executing, Up
  <2>4. HeapInv'
    <3>1. \A u \in Tasks : status[u] = "queued" => status'[u] = "queued"
      BY <1>1, <1>3, <2>1 DEF TypeOK
    <3> QED
      BY <1>1, <2>1, <3>1, KeepStep
  <2>5. NoneStranded => NoneStranded'
    BY <1>1, <1>3, <2>1 DEF TypeOK, NoneStranded, Queued, Working
  <2> QED
    BY <2>2, <2>3, <2>4, <2>5 DEF Preserves
<1> QED
  BY <1>2, <1>3

\* A deleted row was terminal, hence in no band and in no flight.
LEMMA DeleteTaskStep ==
    ASSUME IInv, NEW t \in Tasks, DeleteTask(t)
    PROVE  Preserves
<1>1. TypeOK /\ RowsInv /\ HeapInv
  BY IInvSplit
<1>2. TypeOK'
  BY <1>1 DEF TypeOK, Statuses, Priorities, DeleteTask, bounds
<1>3. RowsInv'
  BY <1>1 DEF TypeOK, DeleteTask, NotInFlight, Terminal, RowsInv, CreationOrder, WorkerState, OneTaskRuns,
         CancelReachesEngine, QueuedTokenIsLive, Working, Executing, Up
<1>4. HeapInv'
  BY <1>1, KeepStep DEF TypeOK, DeleteTask, Terminal
<1>5. NoneStranded => NoneStranded'
  BY <1>1 DEF TypeOK, NoneStranded, Queued, Working, DeleteTask, Terminal
<1> QED
  BY <1>2, <1>3, <1>4, <1>5 DEF Preserves

\* The rebuild moves the row to the band of its new priority.
LEMMA UpdateQueuedPriorityStep ==
    ASSUME IInv, NEW t \in Tasks, NEW p \in Priorities, UpdateQueuedPriority(t, p)
    PROVE  Preserves
<1>1. TypeOK /\ RowsInv /\ HeapInv
  BY IInvSplit
<1>2. /\ status[t] = "queued"
      /\ priority' = [priority EXCEPT ![t] = p]
      /\ heap' = Rebuilt(status, priority', inFlight)
      /\ UNCHANGED <<status, kind, created, clock, inFlight, tokens, worker, imageFirst, bounds>>
  BY DEF UpdateQueuedPriority
<1>3. /\ heap' \in [Bands -> Seq(Tasks)]
      /\ WellFormed(heap', status', priority', created')
      /\ QueueFits => \A u \in Queued(status) \ inFlight : Holds(heap', u)
  <2>1. priority' \in [Tasks -> Priorities]
    BY <1>1, <1>2 DEF TypeOK
  <2>2. \A u \in Tasks : status[u] = "queued" => status[u] # "absent"
    OBVIOUS
  <2>3. status \in [Tasks -> Statuses \cup {"absent"}]
    BY <1>1 DEF TypeOK
  <2> QED
    BY <1>2, <2>1, <2>2, <2>3, RebuildStep DEF QueueFits
<1>4. TypeOK'
  BY <1>1, <1>2, <1>3 DEF TypeOK, Statuses, Priorities, bounds
<1>5. RowsInv'
  BY <1>1, <1>2 DEF TypeOK, RowsInv, CreationOrder, WorkerState, OneTaskRuns,
         CancelReachesEngine, QueuedTokenIsLive, Working, Executing, Up
<1>6. QueueFits' => NoneStranded'
  BY <1>1, <1>2, <1>3 DEF TypeOK, NoneStranded, RowsInv, WorkerState, Queued, QueueFits
<1> QED
  BY <1>3, <1>4, <1>5, <1>6 DEF Preserves, HeapInv

\* The rebuild puts the continued training back at the place of its creation.
LEMMA ContinueLoraTrainingStep ==
    ASSUME IInv, NEW t \in Tasks, NEW p \in Priorities, ContinueLoraTraining(t, p)
    PROVE  Preserves
<1>1. TypeOK /\ RowsInv /\ HeapInv
  BY IInvSplit
<1>2. /\ status[t] \in {"cancelled", "failed"} /\ t \notin inFlight
      /\ status' = [status EXCEPT ![t] = "queued"]
      /\ priority' = [priority EXCEPT ![t] = p]
      /\ tokens' = [tokens EXCEPT ![t] = "live"]
      /\ heap' = Rebuilt(status', priority', inFlight)
      /\ continues' = continues + 1
      /\ UNCHANGED <<kind, created, clock, inFlight, worker, imageFirst, faults, restarts>>
  BY DEF ContinueLoraTraining, NotInFlight, TokenRenewed
<1>3. /\ status' \in [Tasks -> Statuses \cup {"absent"}]
      /\ priority' \in [Tasks -> Priorities]
      /\ \A u \in Tasks : status'[u] = "queued" => status[u] # "absent"
  BY <1>1, <1>2 DEF TypeOK, Statuses
<1>4. /\ heap' \in [Bands -> Seq(Tasks)]
      /\ WellFormed(heap', status', priority', created')
      /\ QueueFits' => \A u \in Queued(status') \ inFlight : Holds(heap', u)
  BY <1>2, <1>3, RebuildStep DEF QueueFits, Queued
<1>5. TypeOK'
  <2>1. tokens' \in [Tasks -> {"none", "live", "cancelled"}]
    BY <1>1, <1>2 DEF TypeOK
  <2>2. continues' \in Nat
    BY <1>1, <1>2 DEF TypeOK
  <2>3. UNCHANGED <<kind, created, clock, inFlight, worker, imageFirst, faults, restarts>>
    BY <1>2
  <2> QED
    BY <1>1, <1>3, <1>4, <2>1, <2>2, <2>3 DEF TypeOK
<1>6. RowsInv'
  BY <1>1, <1>2 DEF TypeOK, RowsInv, CreationOrder, WorkerState, OneTaskRuns,
         CancelReachesEngine, QueuedTokenIsLive, Working, Executing, Up
<1>7. QueueFits' => NoneStranded'
  BY <1>2, <1>4, <1>5, <1>6 DEF TypeOK, NoneStranded, RowsInv, WorkerState, Queued
<1> QED
  BY <1>4, <1>5, <1>6, <1>7 DEF Preserves, HeapInv

\* A settings update leaves the rows and the heap alone.
LEMMA ToggleImageFirstStep ==
    ASSUME IInv, ToggleImageFirst
    PROVE  Preserves
<1>1. TypeOK /\ RowsInv /\ HeapInv
  BY IInvSplit
<1>2. UNCHANGED <<table, memory, bounds>> /\ imageFirst' = ~imageFirst
  BY DEF ToggleImageFirst
<1>3. HeapInv'
  BY <1>1, <1>2, KeepStep DEF table, memory
<1>4. TypeOK' /\ RowsInv' /\ (NoneStranded => NoneStranded')
  BY <1>1, <1>2 DEF TypeOK, NoneStranded, Queued, table, memory, bounds,
         RowsInv, CreationOrder, WorkerState, OneTaskRuns,
         CancelReachesEngine, QueuedTokenIsLive, Working, Executing, Up
<1> QED
  BY <1>3, <1>4 DEF Preserves

\* What the worker pops was queued, and the rest of the heap is as it was.
LEMMA PoppedLemma ==
    ASSUME IInv, NEW t \in Tasks, NonEmpty # {}, t = Head(heap[FirstBand]), heap' = Popped,
           UNCHANGED <<priority, created>>,
           \A u \in Tasks \ {t} : status'[u] = status[u]
    PROVE  /\ status[t] = "queued"
           /\ heap' \in [Bands -> Seq(Tasks)]
           /\ HeapInv'
           /\ \A u \in Tasks : Holds(heap', u) <=> Holds(heap, u) /\ u # t
<1>1. FirstBand \in Bands /\ heap[FirstBand] # <<>>
  BY FirstBandLemma
<1>2. WellFormed(heap, status, priority, created)
  BY IInvSplit DEF HeapInv
<1>3. /\ Holds(heap, t)
      /\ WellFormed(heap', status', priority, created)
      /\ \A u \in Tasks : Holds(heap', u) <=> Holds(heap, u) /\ u # t
  BY <1>1, <1>2, PopLemma DEF Popped
<1>4. status[t] = "queued"
  BY <1>2, <1>3 DEF Holds, WellFormed
<1>5. WellFormed(heap', status', priority', created')
  BY <1>3
<1> QED
  BY <1>3, <1>4, <1>5 DEF HeapInv, WellFormed

\* The worker takes one entry, the row of which starts to run.
LEMMA WorkerTakesStep ==
    ASSUME IInv, NEW t \in Tasks, WorkerTakes(t)
    PROVE  Preserves
<1>1. TypeOK /\ RowsInv /\ HeapInv
  BY IInvSplit
<1>2. /\ worker = "idle"
      /\ NonEmpty # {} /\ t = Head(heap[FirstBand]) /\ heap' = Popped
      /\ UNCHANGED <<kind, priority, created, clock, imageFirst, bounds>>
  BY DEF WorkerTakes
<1>3. \A u \in Tasks \ {t} : status'[u] = status[u]
  BY <1>1 DEF WorkerTakes, TypeOK
<1>4. /\ status[t] = "queued"
      /\ heap' \in [Bands -> Seq(Tasks)]
      /\ HeapInv'
      /\ \A u \in Tasks : Holds(heap', u) <=> Holds(heap, u) /\ u # t
  BY <1>2, <1>3, PoppedLemma
<1>5. /\ status' = [status EXCEPT ![t] = "running"]
      /\ tokens' = [tokens EXCEPT ![t] = "live"]
      /\ inFlight' = inFlight \cup {t}
      /\ worker' = "busy"
  BY <1>1, <1>4 DEF WorkerTakes, RowsInv, QueuedTokenIsLive
<1>6. TypeOK'
  BY <1>1, <1>2, <1>4, <1>5 DEF TypeOK, Statuses, Priorities, bounds
<1>7. RowsInv'
  BY <1>1, <1>2, <1>4, <1>5 DEF TypeOK, RowsInv, CreationOrder, WorkerState, OneTaskRuns,
         CancelReachesEngine, QueuedTokenIsLive, Working, Executing, Up
<1>8. NoneStranded => NoneStranded'
  BY <1>1, <1>2, <1>4, <1>5 DEF TypeOK, NoneStranded, Queued, Working
<1> QED
  BY <1>4, <1>6, <1>7, <1>8 DEF Preserves

\* The end of an execution writes a terminal status and forgets the token.
LEMMA EndStep ==
    ASSUME IInv, NEW t \in Tasks, NEW st \in Terminal, Executing(t), End(t, st)
    PROVE  Preserves
<1>1. TypeOK /\ RowsInv /\ HeapInv
  BY IInvSplit
<1>2. /\ worker = "busy" /\ t \in inFlight
      /\ status' = [status EXCEPT ![t] = st]
      /\ tokens' = [tokens EXCEPT ![t] = "none"]
      /\ inFlight' = inFlight \ {t}
      /\ worker' = "idle"
      /\ UNCHANGED <<kind, priority, created, clock, heap, imageFirst, bounds>>
  BY DEF End, Leaves, Executing
<1>3. status[t] # "queued" /\ inFlight' = {}
  BY <1>1, <1>2 DEF RowsInv, WorkerState, OneTaskRuns
<1>4. TypeOK'
  BY <1>1, <1>2 DEF TypeOK, Statuses, Priorities, Terminal, bounds
<1>5. RowsInv'
  BY <1>1, <1>2, <1>3 DEF TypeOK, Terminal, RowsInv, CreationOrder, WorkerState, OneTaskRuns,
         CancelReachesEngine, QueuedTokenIsLive, Working, Executing, Up
<1>6. HeapInv'
  BY <1>1, <1>2, <1>3, KeepStep DEF TypeOK
<1>7. NoneStranded => NoneStranded'
  BY <1>1, <1>2, <1>3 DEF TypeOK, Terminal, NoneStranded, Queued, Working
<1> QED
  BY <1>4, <1>5, <1>6, <1>7 DEF Preserves

\* The end of a training that queues an evaluation is an end and a submission.
LEMMA EndWithEvaluationStep ==
    ASSUME IInv, NEW t \in Tasks, NEW e \in Tasks, EndWithEvaluation(t, e)
    PROVE  Preserves
<1>1. TypeOK /\ RowsInv /\ HeapInv
  BY IInvSplit
<1> DEFINE st == [status EXCEPT ![t] = "completed"]
           k == [tokens EXCEPT ![t] = "none"]
<1>2. /\ Executing(t) /\ t \in inFlight /\ worker = "busy"
      /\ Insert(st, k, e, "evaluation", "normal")
      /\ inFlight' = inFlight \ {t} /\ worker' = "idle"
      /\ UNCHANGED <<imageFirst, bounds>>
  BY DEF EndWithEvaluation, Leaves, Executing
<1>3. status[t] \in {"running", "cancelled"} /\ inFlight' = {}
  BY <1>1, <1>2 DEF RowsInv, WorkerState, OneTaskRuns
<1>4. /\ st \in [Tasks -> Statuses \cup {"absent"}]
      /\ k \in [Tasks -> {"none", "live", "cancelled"}]
      /\ \A u \in Tasks : status[u] = "queued" => st[u] = "queued"
      /\ \A u \in Tasks : st[u] # "absent" => status[u] # "absent"
      /\ "evaluation" \in Kinds /\ "normal" \in Priorities
  BY <1>1, <1>3 DEF TypeOK, Statuses, Kinds, Priorities
<1> HIDE DEF st, k
<1>5. /\ status[e] = "absent"
      /\ heap' \in [Bands -> Seq(Tasks)]
      /\ HeapInv'
      /\ CreationOrder'
      /\ \A u \in Tasks : Holds(heap', u) <=> Holds(heap, u) \/ u = e
  BY <1>2, <1>4, InsertStep
<1>6. TypeOK'
  BY <1>1, <1>2, <1>4, <1>5 DEF TypeOK, Statuses, Priorities, Insert, bounds
<1>7. RowsInv'
  <2>1. \A u \in Tasks :
           /\ status'[u] = IF u = e THEN "queued" ELSE IF u = t THEN "completed" ELSE status[u]
           /\ tokens'[u] = IF u = e THEN "live" ELSE IF u = t THEN "none" ELSE tokens[u]
    BY <1>1, <1>2 DEF Insert, st, k, TypeOK
  <2>2. \A u \in Tasks : status[u] = "running" => u = t
    BY <1>1, <1>2 DEF RowsInv, OneTaskRuns, Working, Executing
  <2>3. WorkerState' /\ OneTaskRuns' /\ CancelReachesEngine'
    BY <1>2, <1>3, <2>1, <2>2 DEF WorkerState, OneTaskRuns, CancelReachesEngine
  <2>4. QueuedTokenIsLive'
    BY <1>1, <2>1 DEF RowsInv, QueuedTokenIsLive
  <2> QED
    BY <1>5, <2>3, <2>4 DEF RowsInv
<1>8. NoneStranded => NoneStranded'
  BY <1>1, <1>2, <1>3, <1>4, <1>5 DEF TypeOK, NoneStranded, Queued, Insert, st, Working
<1> QED
  BY <1>5, <1>6, <1>7, <1>8 DEF Preserves

\* A fault takes an entry or a task in flight away and kills the worker.
LEMMA FaultStep ==
    ASSUME IInv, NEW t \in Tasks, Fault(t)
    PROVE  Preserves
<1>1. TypeOK /\ RowsInv /\ HeapInv
  BY IInvSplit
<1>2. CASE WorkerFaultBefore(t)
  <2>1. /\ worker = "idle" /\ worker' = "dead" /\ faults' = faults + 1
        /\ NonEmpty # {} /\ t = Head(heap[FirstBand]) /\ heap' = Popped
        /\ tokens' = [tokens EXCEPT ![t] = IF @ = "none" THEN "live" ELSE @]
        /\ UNCHANGED <<status, kind, priority, created, clock, inFlight, imageFirst,
                       continues, restarts>>
    BY <1>2 DEF WorkerFaultBefore, table
  <2>2. heap' \in [Bands -> Seq(Tasks)] /\ HeapInv'
    BY <2>1, PoppedLemma
  <2>3. TypeOK'
    BY <1>1, <2>1, <2>2 DEF TypeOK
  <2>4. RowsInv'
    BY <1>1, <2>1 DEF TypeOK, RowsInv, CreationOrder, WorkerState, OneTaskRuns,
         CancelReachesEngine, QueuedTokenIsLive, Working, Executing, Up
  <2> QED
    BY <2>1, <2>2, <2>3, <2>4 DEF Preserves, NoneStranded, Working
<1>3. CASE WorkerFaultAfter(t)
  <2>1. /\ worker = "busy" /\ worker' = "dead" /\ faults' = faults + 1
        /\ t \in inFlight /\ inFlight' = inFlight \ {t}
        /\ tokens' = [tokens EXCEPT ![t] = "none"]
        /\ UNCHANGED <<status, kind, priority, created, clock, heap, imageFirst,
                       continues, restarts>>
    BY <1>3 DEF WorkerFaultAfter, Executing, table
  <2>2. inFlight' = {}
    BY <1>1, <2>1 DEF RowsInv, OneTaskRuns
  <2>3. HeapInv'
    BY <1>1, <2>1, KeepStep
  <2>4. TypeOK'
    BY <1>1, <2>1 DEF TypeOK
  <2>5. RowsInv'
    BY <1>1, <2>1, <2>2 DEF TypeOK, RowsInv, CreationOrder, WorkerState, OneTaskRuns,
         CancelReachesEngine, QueuedTokenIsLive, Working, Executing, Up
  <2> QED
    BY <2>1, <2>3, <2>4, <2>5 DEF Preserves, NoneStranded, Working
<1> QED
  BY <1>2, <1>3 DEF Fault

\* A process that ends loses its memory and keeps the table.
LEMMA MemoryLostStep ==
    ASSUME IInv, MemoryLost, restarts' \in Nat,
           \A t \in Tasks : status'[t] = status[t] \/ (t \in inFlight /\ status'[t] = "cancelled"),
           status' \in [Tasks -> Statuses \cup {"absent"}]
    PROVE  Preserves
<1>1. TypeOK /\ RowsInv /\ HeapInv
  BY IInvSplit
<1>2. /\ worker' = "down" /\ inFlight' = {}
      /\ heap' = EmptyHeap /\ tokens' = NoTokens
      /\ UNCHANGED <<kind, priority, created, clock, imageFirst, continues, faults>>
  BY DEF MemoryLost
<1>3. heap' \in [Bands -> Seq(Tasks)] /\ \A b \in Bands : heap'[b] = <<>>
  BY <1>2 DEF EmptyHeap
<1>4. tokens' \in [Tasks -> {"none", "live", "cancelled"}] /\ \A t \in Tasks : tokens'[t] = "none"
  BY <1>2 DEF NoTokens
<1>5. \A t \in Tasks : status'[t] # "absent" => status[t] # "absent"
  BY <1>1 DEF RowsInv, WorkerState
<1>6. TypeOK'
  BY <1>1, <1>2, <1>3, <1>4 DEF TypeOK
<1>7. RowsInv'
  BY <1>1, <1>2, <1>4, <1>5 DEF TypeOK, RowsInv, CreationOrder, WorkerState, OneTaskRuns,
         CancelReachesEngine, QueuedTokenIsLive, Working, Executing, Up
<1>8. HeapInv'
  BY <1>3 DEF HeapInv, WellFormed
<1> QED
  BY <1>2, <1>6, <1>7, <1>8 DEF Preserves, NoneStranded, Working

\* A crash leaves the rows alone.
LEMMA CrashStep == ASSUME IInv, Crash PROVE Preserves
<1>1. restarts \in Nat /\ status \in [Tasks -> Statuses \cup {"absent"}]
  BY IInvSplit DEF TypeOK
<1> QED
  BY <1>1, MemoryLostStep DEF Crash

\* A shutdown marks the row in flight and leaves the others alone.
LEMMA ShutdownStep == ASSUME IInv, Shutdown PROVE Preserves
<1>1. restarts \in Nat /\ status \in [Tasks -> Statuses \cup {"absent"}]
  BY IInvSplit DEF TypeOK
<1>2. /\ MemoryLost /\ restarts' \in Nat
      /\ status' \in [Tasks -> Statuses \cup {"absent"}]
      /\ \A t \in Tasks : status'[t] = status[t] \/ (t \in inFlight /\ status'[t] = "cancelled")
  BY <1>1 DEF Shutdown, Statuses
<1> QED
  BY <1>2, MemoryLostStep

\* At most one row is left running by a process that ended, so that the limit of the
\* recovery's query cuts nothing off.
LEMMA OrphansLemma ==
    ASSUME IInv
    PROVE  Newest({t \in Tasks : status[t] = "running"}, QueryLimit)
             = {t \in Tasks : status[t] = "running"}
<1> DEFINE S == {t \in Tasks : status[t] = "running"}
<1>1. \A t, u \in S : t = u
  BY IInvSplit DEF RowsInv, WorkerState
<1>2. created \in [Tasks -> Nat]
  BY IInvSplit DEF TypeOK
<1>3. IsFiniteSet(S)
  BY TasksAssumption, FS_Subset
<1>4. Cardinality(S) <= 1
  <2>1. CASE S = {}
    BY <2>1, FS_EmptySet
  <2>2. CASE S # {}
    <3>1. PICK t \in S : S = {t}
      BY <1>1, <2>2
    <3> QED
      BY <3>1, FS_Singleton
  <2> QED
    BY <2>1, <2>2
<1>5. Cardinality(S) <= QueryLimit
  BY <1>3, <1>4, FS_CardinalityType, LimitAssumption
<1> HIDE DEF S
<1>6. S \in SUBSET Tasks
  BY DEF S
<1>7. Newest(S, QueryLimit) = S
  BY <1>2, <1>5, <1>6, NewestLemma
<1> QED
  BY <1>7 DEF S

\* The start fails the row that was running and rebuilds the heap.
LEMMA StartStep == ASSUME IInv, Start PROVE Preserves
<1>1. TypeOK /\ RowsInv /\ HeapInv
  BY IInvSplit
<1>2. /\ worker = "down" /\ worker' = "idle"
      /\ status' = [t \in Tasks |-> IF status[t] = "running" THEN "failed" ELSE status[t]]
      /\ tokens' = [t \in Tasks |-> IF status[t] = "running" THEN "none" ELSE tokens[t]]
      /\ heap' = Rebuilt(status', priority, inFlight)
      /\ UNCHANGED <<kind, priority, created, clock, inFlight, imageFirst, bounds>>
  BY OrphansLemma DEF Start
<1>3. /\ status' \in [Tasks -> Statuses \cup {"absent"}]
      /\ \A u \in Tasks : status'[u] = "queued" => status[u] # "absent"
  BY <1>1, <1>2 DEF TypeOK, Statuses
<1>4. /\ heap' \in [Bands -> Seq(Tasks)]
      /\ WellFormed(heap', status', priority', created')
      /\ QueueFits' => \A u \in Queued(status') \ inFlight : Holds(heap', u)
  BY <1>1, <1>2, <1>3, RebuildStep DEF TypeOK, QueueFits, Queued
<1>5. TypeOK'
  BY <1>1, <1>2, <1>3, <1>4 DEF TypeOK, bounds
<1>6. inFlight' = {} /\ inFlight = {}
  BY <1>1, <1>2 DEF RowsInv, WorkerState
<1>7. RowsInv'
  BY <1>1, <1>2, <1>6 DEF TypeOK, RowsInv, CreationOrder, WorkerState, OneTaskRuns,
         CancelReachesEngine, QueuedTokenIsLive, Working, Executing, Up
<1>8. QueueFits' => NoneStranded'
  BY <1>2, <1>4, <1>6 DEF NoneStranded, Queued
<1> QED
  BY <1>4, <1>5, <1>7, <1>8 DEF Preserves, HeapInv

\* A step that changes nothing preserves everything.
LEMMA StutterStep == ASSUME IInv, UNCHANGED vars PROVE Preserves
<1>1. TypeOK /\ RowsInv /\ HeapInv
  BY IInvSplit
<1>2. UNCHANGED <<status, kind, priority, created, clock, heap, inFlight, tokens, worker,
                  imageFirst, continues, faults, restarts>>
  BY DEF vars, table, memory, bounds
<1>3. HeapInv'
  BY <1>1, <1>2, KeepStep
<1> QED
  BY <1>1, <1>2, <1>3 DEF Preserves, NoneStranded, Queued, TypeOK,
     RowsInv, CreationOrder, WorkerState, OneTaskRuns,
         CancelReachesEngine, QueuedTokenIsLive, Working, Executing, Up

\* Every step preserves the invariant.
LEMMA NextLemma == ASSUME IInv, [Next]_vars PROVE Preserves
<1>1. ASSUME NEW t \in Tasks, Client(t) PROVE Preserves
  BY <1>1, SubmitStep, CancelStep, DeleteTaskStep, UpdateQueuedPriorityStep,
     ContinueLoraTrainingStep DEF Client
<1>2. ASSUME NEW t \in Tasks, Engine(t) PROVE Preserves
  <2>1. CASE EndCancelled(t)
    BY <2>1, EndStep DEF EndCancelled, Terminal
  <2>2. CASE EndCompleted(t)
    BY <2>2, EndStep DEF EndCompleted, Terminal
  <2>3. CASE EndFailed(t)
    BY <2>3, EndStep DEF EndFailed, Terminal
  <2>4. CASE \E e \in Tasks : EndWithEvaluation(t, e)
    BY <2>4, EndWithEvaluationStep
  <2> QED
    BY <1>2, <2>1, <2>2, <2>3, <2>4 DEF Engine
<1>3. ASSUME NEW t \in Tasks, WorkerTakes(t) \/ Fault(t) PROVE Preserves
  BY <1>3, WorkerTakesStep, FaultStep
<1>4. CASE ToggleImageFirst \/ Crash \/ Shutdown \/ Start \/ UNCHANGED vars
  BY <1>4, ToggleImageFirstStep, CrashStep, ShutdownStep, StartStep, StutterStep
<1> QED
  BY <1>1, <1>2, <1>3, <1>4 DEF Next

\* The conjuncts of a step's preservation make the invariant again.
LEMMA IInvAgain == (TypeOK /\ RowsInv /\ HeapInv)' => IInv'
  BY IInvSplit, PTL

---------------------------------------------------------------------------
(* The theorems.                                                           *)

\* IInv holds in every reachable state.
THEOREM Invariance == Spec => []IInv
<1>1. Init => IInv
  BY InitLemma
<1>2. IInv /\ [Next]_vars => IInv'
  BY NextLemma, IInvAgain DEF Preserves
<1> QED
  BY <1>1, <1>2, PTL DEF Spec

\* Type correctness of the table and of the process memory.
THEOREM TypeCorrect == Spec => []TypeOK
<1>1. IInv => TypeOK
  BY DEF IInv
<1> QED
  BY <1>1, Invariance, PTL

\* At most one task is in flight, and a row says "running" only of that task, through
\* cancellations, faults of the worker, crashes and restarts.
THEOREM SingleWorker == Spec => []OneTaskRuns
<1>1. IInv => OneTaskRuns
  BY DEF IInv
<1> QED
  BY <1>1, Invariance, PTL

\* One submission or continuation is one heap entry, never of a task in flight.
THEOREM NoDoubleExecution == Spec => []NoDuplicates
<1>1. IInv => NoDuplicates
  BY DEF IInv
<1> QED
  BY <1>1, Invariance, PTL

\* A queued task is never cancelled by the token of an earlier life.
THEOREM FreshTokens == Spec => []QueuedTokenIsLive
<1>1. IInv => QueuedTokenIsLive
  BY DEF IInv
<1> QED
  BY <1>1, Invariance, PTL

\* The engine of a cancelled task holds a cancelled token, and no other does.
THEOREM CancellationIsSeen == Spec => []CancelReachesEngine
<1>1. IInv => CancelReachesEngine
  BY DEF IInv
<1> QED
  BY <1>1, Invariance, PTL

\* High-priority rows are in band 0 and every band is in the order of creation.
THEOREM OrderKept == Spec => []HeapOrder
<1>1. IInv => HeapOrder
  BY DEF IInv
<1> QED
  BY <1>1, Invariance, PTL

---------------------------------------------------------------------------
(* The order in which tasks start.                                         *)

\* Only videos are in the last band, also after queue_image_first was toggled.
VideosLast == \A i \in DOMAIN heap[2] : kind[heap[2][i]] = "video"

\* What is in the heap is a task with a row.
LEMMA EntriesLemma ==
    ASSUME IInv
    PROVE  /\ heap \in [Bands -> Seq(Tasks)]
           /\ \A b \in Bands : \A i \in DOMAIN heap[b] :
                 heap[b][i] \in Tasks /\ status[heap[b][i]] = "queued"
<1>1. heap \in [Bands -> Seq(Tasks)]
  BY DEF IInv, TypeOK
<1>2. ASSUME NEW b \in Bands, NEW i \in DOMAIN heap[b]
      PROVE  heap[b][i] \in Tasks /\ status[heap[b][i]] = "queued"
  <2>1. heap[b][i] \in Tasks
    BY <1>1
  <2> QED
    BY <2>1 DEF IInv, HeapIsQueued, InHeap
<1> QED
  BY <1>1, <1>2

\* A new row goes to the last band only if it is a video.
LEMMA VideoInserted ==
    ASSUME IInv, VideosLast, NEW st, NEW k, NEW e \in Tasks, NEW kd \in Kinds, NEW p,
           Insert(st, k, e, kd, p)
    PROVE  VideosLast'
<1>1. /\ kind' = [kind EXCEPT ![e] = kd] /\ created[e] = 0
      /\ heap' = Put(heap, QueueBand(kd, p), e)
  BY DEF Insert
<1>2. kind \in [Tasks -> Kinds] /\ status[e] = "absent"
  BY <1>1 DEF IInv, TypeOK, CreationOrder
<1>3. QueueBand(kd, p) \in Bands /\ 2 \in Bands
  BY DEF QueueBand, Bands
<1>4. \A i \in DOMAIN heap[2] : kind'[heap[2][i]] = "video"
  BY <1>1, <1>2, <1>3, EntriesLemma DEF VideosLast
<1>5. CASE QueueBand(kd, p) = 2
  <2>1. kd = "video" /\ kind'[e] = "video"
    BY <1>1, <1>2, <1>5 DEF QueueBand
  <2>2. heap'[2] = Append(heap[2], e) /\ heap[2] \in Seq(Tasks)
    BY <1>1, <1>3, <1>5, EntriesLemma DEF Put
  <2>3. \A i \in DOMAIN heap'[2] : heap'[2][i] = e \/ (i \in DOMAIN heap[2] /\ heap'[2][i] = heap[2][i])
    BY <2>2
  <2> QED
    BY <1>4, <2>1, <2>3 DEF VideosLast
<1>6. CASE QueueBand(kd, p) # 2
  <2>1. heap'[2] = heap[2]
    BY <1>1, <1>3, <1>6, EntriesLemma DEF Put
  <2> QED
    BY <1>4, <2>1 DEF VideosLast
<1> QED
  BY <1>5, <1>6

\* A rebuild puts only videos into the last band.
LEMMA VideosRebuilt ==
    ASSUME IInv, NEW st, NEW pr, NEW fl,
           \A t \in Tasks : st[t] = "queued" => status[t] # "absent",
           heap' = Rebuilt(st, pr, fl), UNCHANGED kind
    PROVE  VideosLast'
<1> DEFINE rows == Newest(Queued(st), QueryLimit) \ fl
           Last == {t \in rows : QueueBand(kind[t], pr[t]) = 2}
<1>1. Last \in SUBSET Tasks /\ \A t \in Last : st[t] = "queued" /\ kind[t] = "video"
  BY DEF Newest, Queued, QueueBand
<1>2. created \in [Tasks -> Nat] /\ \A t, u \in Last : created[t] = created[u] => t = u
  BY <1>1 DEF IInv, TypeOK, CreationOrder
<1>3. heap'[2] = Sorted(Last)
  BY DEF Rebuilt, Bands
<1> HIDE DEF Last
<1>4. Sorted(Last) \in [1..Cardinality(Last) -> Last]
  BY <1>1, <1>2, SortedLemma
<1> QED
  BY <1>1, <1>3, <1>4 DEF VideosLast

\* The worker takes an entry out.
LEMMA VideosPopped ==
    ASSUME IInv, VideosLast, NonEmpty # {}, heap' = Popped, UNCHANGED kind
    PROVE  VideosLast'
<1>1. FirstBand \in Bands /\ heap[FirstBand] # <<>> /\ 2 \in Bands
  BY FirstBandLemma DEF Bands
<1>2. CASE FirstBand = 2
  <2>1. heap'[2] = Tail(heap[2]) /\ heap[2] \in Seq(Tasks) /\ heap[2] # <<>>
    BY <1>1, <1>2, EntriesLemma DEF Popped
  <2>2. \A i \in DOMAIN heap'[2] : i + 1 \in DOMAIN heap[2] /\ heap'[2][i] = heap[2][i + 1]
    BY <2>1
  <2> QED
    BY <2>2 DEF VideosLast
<1>3. CASE FirstBand # 2
  <2>1. heap'[2] = heap[2]
    BY <1>1, <1>3, EntriesLemma DEF Popped
  <2> QED
    BY <2>1 DEF VideosLast
<1> QED
  BY <1>2, <1>3

\* Every step leaves the last band to videos.
LEMMA VideosStep == ASSUME IInv, VideosLast, [Next]_vars PROVE VideosLast'
<1>1. ASSUME UNCHANGED <<heap, kind>> PROVE VideosLast'
  BY <1>1 DEF VideosLast
<1>2. ASSUME NEW t \in Tasks, Client(t) PROVE VideosLast'
  <2>1. ASSUME NEW kd \in SubmitKinds, NEW p \in Priorities, Submit(t, kd, p) PROVE VideosLast'
    BY <2>1, VideoInserted, KindsAssumption DEF Submit
  <2>2. CASE Cancel(t)
    <3>1. CASE status[t] = "queued" /\ status' = [status EXCEPT ![t] = "cancelled"]
                 /\ heap' = Rebuilt(status', priority, inFlight)
      <4>1. UNCHANGED kind /\ \A u \in Tasks : status'[u] = "queued" => status[u] # "absent"
        BY <2>2, <3>1 DEF Cancel, IInv, TypeOK
      <4> QED
        BY <3>1, <4>1, VideosRebuilt
    <3>2. CASE UNCHANGED heap
      BY <1>1, <2>2, <3>2 DEF Cancel
    <3> QED
      BY <2>2, <3>1, <3>2 DEF Cancel
  <2>3. CASE DeleteTask(t)
    BY <1>1, <2>3 DEF DeleteTask
  <2>4. ASSUME NEW p \in Priorities, UpdateQueuedPriority(t, p) PROVE VideosLast'
    BY <2>4, VideosRebuilt DEF UpdateQueuedPriority
  <2>5. ASSUME NEW p \in Priorities, ContinueLoraTraining(t, p) PROVE VideosLast'
    <3>1. /\ heap' = Rebuilt(status', priority', inFlight) /\ UNCHANGED kind
          /\ \A u \in Tasks : status'[u] = "queued" => status[u] # "absent"
      BY <2>5 DEF ContinueLoraTraining, IInv, TypeOK
    <3> QED
      BY <3>1, VideosRebuilt
  <2> QED
    BY <1>2, <2>1, <2>2, <2>3, <2>4, <2>5 DEF Client
<1>3. ASSUME NEW t \in Tasks, Engine(t) PROVE VideosLast'
  <2>1. ASSUME NEW e \in Tasks, EndWithEvaluation(t, e) PROVE VideosLast'
    BY <2>1, VideoInserted DEF EndWithEvaluation, Kinds
  <2>2. CASE EndCancelled(t) \/ EndCompleted(t) \/ EndFailed(t)
    BY <1>1, <2>2 DEF EndCancelled, EndCompleted, EndFailed, End
  <2> QED
    BY <1>3, <2>1, <2>2 DEF Engine
<1>4. ASSUME NEW t \in Tasks, WorkerTakes(t) \/ WorkerFaultBefore(t) PROVE VideosLast'
  BY <1>4, VideosPopped DEF WorkerTakes, WorkerFaultBefore, table
<1>5. ASSUME NEW t \in Tasks, WorkerFaultAfter(t) PROVE VideosLast'
  BY <1>1, <1>5 DEF WorkerFaultAfter, table
<1>6. CASE ToggleImageFirst \/ UNCHANGED vars
  BY <1>1, <1>6 DEF ToggleImageFirst, vars, table, memory
<1>7. CASE Crash \/ Shutdown
  <2>1. heap'[2] = <<>>
    BY <1>7 DEF Crash, Shutdown, MemoryLost, EmptyHeap, Bands
  <2> QED
    BY <2>1 DEF VideosLast
<1>8. CASE Start
  <2>1. /\ heap' = Rebuilt(status', priority, inFlight) /\ UNCHANGED kind
        /\ \A u \in Tasks : status'[u] = "queued" => status[u] # "absent"
    BY <1>8 DEF Start
  <2> QED
    BY <2>1, VideosRebuilt
<1> QED
  BY <1>2, <1>3, <1>4, <1>5, <1>6, <1>7, <1>8 DEF Next, Fault

\* The task the worker takes is not younger than another one of its band, nor in a
\* later band than any other.
LEMMA HeadLemma ==
    ASSUME IInv, NonEmpty # {}, NEW t, t = Head(heap[FirstBand]),
           NEW u \in Tasks, u # t, NEW b \in Bands, NEW i \in DOMAIN heap[b], heap[b][i] = u
    PROVE  /\ FirstBand <= b
           /\ FirstBand = 0 <=> priority[t] = "high"
           /\ FirstBand = b => created[t] < created[u]
<1>1. FirstBand \in Bands /\ heap[FirstBand] # <<>> /\ b \in NonEmpty
  BY FirstBandLemma, EntriesLemma DEF NonEmpty
<1>2. FirstBand <= b
  <2>1. \E c \in NonEmpty : \A d \in NonEmpty : c <= d
    BY <1>1 DEF NonEmpty, Bands
  <2> QED
    BY <1>1, <2>1 DEF FirstBand
<1>3. 1 \in DOMAIN heap[FirstBand] /\ t = heap[FirstBand][1]
  BY <1>1, EntriesLemma
<1>4. FirstBand = 0 <=> priority[t] = "high"
  BY <1>1, <1>3 DEF IInv, HeapOrder
<1>5. ASSUME FirstBand = b PROVE created[t] < created[u]
  <2>1. 1 < i
    BY <1>3, <1>5, EntriesLemma
  <2> QED
    BY <1>1, <1>3, <1>5, <2>1 DEF IInv, HeapOrder
<1> QED
  BY <1>2, <1>4, <1>5

\* A start overtakes nobody who is in the heap.
InOrderStep ==
    \A t \in Tasks : (t \notin inFlight /\ t \in inFlight') =>
        \A u \in Queued(status) \ {t} : ~Overtakes(t, u)

LEMMA InOrderLemma ==
    ASSUME IInv, VideosLast, NoneStranded, [Next]_vars
    PROVE  InOrderStep
<1> SUFFICES ASSUME NEW t \in Tasks, t \notin inFlight, t \in inFlight',
                    NEW u \in Queued(status) \ {t}
             PROVE  ~Overtakes(t, u)
  BY DEF InOrderStep
<1>1. WorkerTakes(t)
  BY DEF Next, Client, Submit, Cancel, DeleteTask, UpdateQueuedPriority, ContinueLoraTraining,
         WorkerTakes, Engine, EndCancelled, EndCompleted, EndWithEvaluation, EndFailed, End,
         Leaves, Fault, WorkerFaultBefore, WorkerFaultAfter, ToggleImageFirst, Crash, Shutdown,
         MemoryLost, Start, vars, memory
<1>2. worker = "idle" /\ NonEmpty # {} /\ t = Head(heap[FirstBand])
  BY <1>1 DEF WorkerTakes
<1>3. inFlight = {} /\ u \in Tasks /\ u # t
  BY <1>2 DEF IInv, WorkerState, Queued
<1>4. PICK b \in Bands : \E i \in DOMAIN heap[b] : heap[b][i] = u
  BY <1>2, <1>3 DEF NoneStranded, Working, Holds
<1>5. PICK i \in DOMAIN heap[b] : heap[b][i] = u
  BY <1>4
<1>6. /\ FirstBand <= b /\ FirstBand \in Bands
      /\ FirstBand = 0 <=> priority[t] = "high"
      /\ FirstBand = b => created[t] < created[u]
  BY <1>2, <1>3, <1>5, HeadLemma, FirstBandLemma
<1>7. /\ b = 0 <=> priority[u] = "high"
      /\ b = 2 => kind[u] = "video"
      /\ priority[t] \in Priorities /\ priority[u] \in Priorities
      /\ created[t] \in Nat /\ created[u] \in Nat
  BY <1>3, <1>5 DEF IInv, HeapOrder, VideosLast, TypeOK
<1>8. ~(priority[t] = "normal" /\ priority[u] = "high")
  BY <1>6, <1>7 DEF Bands
<1>9. ASSUME priority[t] = priority[u],
             priority[t] = "normal" => "video" \notin {kind[t], kind[u]}
      PROVE  ~(created[u] < created[t])
  <2>1. FirstBand = b
    BY <1>6, <1>7, <1>9 DEF Bands, Priorities
  <2> QED
    BY <1>6, <1>7, <2>1
<1> QED
  BY <1>8, <1>9 DEF Overtakes

\* As long as no more rows are queued than the query of a rebuild returns, the heap of
\* a living worker holds exactly the queued rows: nothing is stranded.
THEOREM NothingStranded == Spec /\ []QueueFits => []HeapIsTheQueue
<1>1. Init => NoneStranded
  BY DEF Init, NoneStranded, Queued
<1>2. IInv /\ NoneStranded /\ QueueFits' /\ [Next]_vars => NoneStranded'
  BY NextLemma DEF Preserves
<1>3. IInv /\ NoneStranded => HeapIsTheQueue
  BY DEF IInv, NoneStranded, HeapIsTheQueue, HeapIsQueued, Queued, InHeap, Holds
<1> QED
  BY <1>1, <1>2, <1>3, Invariance, PTL DEF Spec

\* Under the same condition no task starts before one it should follow: a normal one
\* before a high one, a younger one before an older one of its band.
THEOREM NobodyIsOvertaken == Spec /\ []QueueFits => StartsInOrder
<1>1. Init => NoneStranded /\ VideosLast
  BY DEF Init, NoneStranded, Queued, VideosLast, EmptyHeap, Bands
<1>2. IInv /\ NoneStranded /\ QueueFits' /\ [Next]_vars => NoneStranded'
  BY NextLemma DEF Preserves
<1>3. IInv /\ VideosLast /\ [Next]_vars => VideosLast'
  BY VideosStep
<1>4. IInv /\ VideosLast /\ NoneStranded /\ [Next]_vars =>
        [\A t \in Tasks : (t \notin inFlight /\ t \in inFlight') =>
            \A u \in Queued(status) \ {t} : ~Overtakes(t, u)]_vars
  BY InOrderLemma DEF InOrderStep
<1> QED
  BY <1>1, <1>2, <1>3, <1>4, Invariance, PTL DEF Spec, StartsInOrder

===========================================================================
