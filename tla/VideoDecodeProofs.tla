------------------------- MODULE VideoDecodeProofs -------------------------
(***************************************************************************)
(* Proofs about VideoDecode, for every memory budget, frame rate and length*)
(* of a video.                                                             *)
(***************************************************************************)
EXTENDS VideoDecode, TLAPS

-----------------------------------------------------------------------------
\* The tiles.

\* The sizes: an overlap is at most a quarter of a tile.
LEMMA Sizes ==
    ASSUME NEW c \in Configurations
    PROVE  /\ Size(c) \in Nat /\ Overlap(c) \in Nat /\ Stride(c) \in Nat
           /\ Size(c) >= 2 /\ 4 * Overlap(c) <= Size(c)
           /\ Stride(c) = Size(c) - Overlap(c) /\ Stride(c) >= 2
           /\ c.latents \in Nat \ {0} /\ c.room \in Nat /\ c.rate \in Nat
<1>1. c.latents \in Nat \ {0} /\ c.room \in Nat /\ c.rate \in Nat
    BY ConstantsAssumption DEF Configurations
<1>2. PICK n \in Nat : TileFrames(c) = 8 * n /\ n >= 2
    <2>1. CASE c.room >= 2
        BY <1>1, <2>1 DEF TileFrames, Larger
    <2>2. CASE c.room < 2
        BY <1>1, <2>2 DEF TileFrames, Larger
    <2> QED
        BY <1>1, <2>1, <2>2
<1>3. PICK m \in Nat : OverlapFrames(c) = 8 * m /\ 4 * m <= n
    <2> DEFINE r == c.rate \div 8
               k == (8 * n) \div 32
    <2>1. r \in Nat /\ k \in Nat /\ 4 * k <= n
        BY <1>1
    <2>2. OverlapFrames(c) = Smaller(Larger(8, r * 8), k * 8)
        BY <1>2 DEF OverlapFrames
    <2> HIDE DEF r, k
    <2>3. Larger(8, r * 8) = 8 * Larger(1, r) /\ Larger(1, r) \in Nat
        BY <2>1 DEF Larger
    <2>4. Smaller(8 * Larger(1, r), k * 8) = 8 * Smaller(Larger(1, r), k) /\ Smaller(Larger(1, r), k) \in Nat
          /\ Smaller(Larger(1, r), k) <= k
        BY <2>1, <2>3 DEF Smaller
    <2> QED
        BY <2>1, <2>2, <2>3, <2>4
<1>4. Size(c) = n /\ Overlap(c) = m
    BY <1>2, <1>3 DEF Size, Overlap, Scale
<1> QED
    BY <1>1, <1>2, <1>3, <1>4 DEF Stride

\* Multiples of the stride.
LEMMA Multiples ==
    ASSUME NEW q \in Nat, NEW t \in Nat, NEW u \in Nat, t < u
    PROVE  t * q \in Nat /\ u * q \in Nat /\ t * q + q <= u * q
<1>1. PICK d \in Nat : u = t + 1 + d
    <2>1. u - t - 1 \in Nat /\ u = t + 1 + (u - t - 1)
        OBVIOUS
    <2> QED
        BY <2>1
<1>2. (t + 1 + d) * q = t * q + q + d * q
    OBVIOUS
<1>3. t * q \in Nat /\ u * q \in Nat /\ d * q \in Nat
    OBVIOUS
<1> QED
    BY <1>1, <1>2, <1>3

\* Euclid's division.
LEMMA Division ==
    ASSUME NEW a \in Nat, NEW b \in Nat \ {0}
    PROVE  /\ a \div b \in Nat
           /\ (a \div b) * b <= a
           /\ a < (a \div b) * b + b
OBVIOUS

\* The number of tiles: the last one is longer than the overlap and reaches the end.
LEMMA Amounts ==
    ASSUME NEW c \in Configurations
    PROVE  /\ Amount(c) \in Nat \ {0}
           /\ Amount(c) > 1 => (Amount(c) - 1) * Stride(c) < c.latents - Overlap(c)
<1> DEFINE a == c.latents + Size(c) - 2 * Overlap(c) - 1
           q == Stride(c)
<1>1. CASE ~(Tiled(c) /\ c.latents > Size(c))
    BY <1>1 DEF Amount
<1>2. CASE Tiled(c) /\ c.latents > Size(c)
    <2>1. Amount(c) = a \div q
        BY <1>2 DEF Amount
    <2>2. a \in Nat /\ q \in Nat \ {0} /\ a >= 2 * q
          /\ a = c.latents - Overlap(c) - 1 + q
        BY <1>2, Sizes
    <2> HIDE DEF a, q
    <2>3. PICK n \in Nat : n = a \div q /\ n * q <= a /\ a < n * q + q
        BY <2>2, Division
    <2>4. n # 0
        <3>1. 0 * q = 0
            BY <2>2
        <3>2. SUFFICES ASSUME n = 0 PROVE FALSE
            OBVIOUS
        <3>3. n * q = 0
            BY <3>1, <3>2, Zenon
        <3>4. a < 0 + q
            BY <2>3, <3>3, Zenon
        <3> QED
            BY <2>2, <3>4
    <2>5. (n - 1) * q = n * q - q
        BY <2>2, <2>3
    <2>6. n * q \in Nat
        BY <2>2
    <2>7. (n - 1) * q < c.latents - Overlap(c)
        BY <2>2, <2>3, <2>5, <2>6, Sizes
    <2> QED
        BY <2>1, <2>3, <2>4, <2>7 DEF q
<1> QED
    BY <1>1, <1>2

\* Where the tiles lie: they begin and end in order, a tile begins before the
\* one before it ends, and together they reach from the first frame to the last.
LEMMA Geometry ==
    ASSUME NEW c \in Configurations
    PROVE  /\ Amount(c) \in Nat \ {0}
           /\ Start(c, 1) = 0
           /\ Stop(c, Amount(c)) = c.latents * 8 - 7
           /\ \A t \in 1..Amount(c) :
                 /\ Start(c, t) \in Nat /\ Stop(c, t) \in Nat /\ Start(c, t) < Stop(c, t)
                 /\ Begin(c, t) \in Nat /\ End(c, t) \in Nat
           /\ \A t \in 1..Amount(c), u \in 1..Amount(c) :
                 t < u => Start(c, t) < Start(c, u) /\ Stop(c, t) < Stop(c, u)
           /\ \A t \in 2..Amount(c) : Start(c, t) < Stop(c, t - 1)
<1> DEFINE A == Amount(c)
           S == Size(c)
           O == Overlap(c)
           q == Stride(c)
           D == c.latents
           K(t) == (t - 1) * q
<1>1. /\ S \in Nat /\ O \in Nat /\ q \in Nat /\ D \in Nat \ {0}
      /\ S >= 2 /\ 4 * O <= S /\ q = S - O /\ q >= 2
    BY Sizes
<1>2. A \in Nat \ {0} /\ (A > 1 => K(A) < D - O)
    BY Amounts
<1>3. K(1) = 0
    BY <1>1
<1>4. \A t \in 1..A : K(t) \in Nat
    <2>1. \A t \in Nat \ {0} : t - 1 \in Nat
        OBVIOUS
    <2>2. \A t \in Nat : t * q \in Nat
        BY <1>1
    <2> QED
        BY <1>2, <2>1, <2>2
<1>5. \A t \in 1..A, u \in 1..A : t < u => K(t) + q <= K(u)
    <2>1. SUFFICES ASSUME NEW t \in 1..A, NEW u \in 1..A, t < u PROVE K(t) + q <= K(u)
        OBVIOUS
    <2>2. t - 1 \in Nat /\ u - 1 \in Nat /\ t - 1 < u - 1
        BY <1>2, <2>1
    <2> QED
        BY <1>1, <2>2, Multiples
<1>6. \A t \in 2..A : K(t) = K(t - 1) + q
    <2>1. SUFFICES ASSUME NEW t \in 2..A PROVE K(t) = K(t - 1) + q
        OBVIOUS
    <2>2. PICK m \in Nat : t = m + 2
        <3>1. t - 2 \in Nat /\ t = (t - 2) + 2
            BY <1>2
        <3> QED
            BY <3>1
    <2>3. (m + 1) * q = m * q + q
        BY <1>1
    <2>4. m + 2 - 1 = m + 1 /\ (m + 2 - 1) - 1 = m
        OBVIOUS
    <2> QED
        BY <2>2, <2>3, <2>4
<1>7. /\ \A t \in 1..A : Start(c, t) = IF t = 1 THEN 0 ELSE (K(t) - 1) * 8
      /\ \A t \in 1..A : Stop(c, t) = 1 + ((IF t = A THEN D ELSE K(t) + S) - 1) * 8
      /\ \A t \in 1..A : Begin(c, t) = IF t = 1 THEN 0 ELSE K(t) - 1
      /\ \A t \in 1..A : End(c, t) = IF t = A THEN D ELSE K(t) + S
    BY <1>3 DEF Start, Stop, Begin, End, Scale
<1>14. \A t \in 1..A : t # A => Stop(c, t) = 1 + (K(t) + S - 1) * 8
    <2>1. SUFFICES ASSUME NEW t \in 1..A, t # A PROVE Stop(c, t) = 1 + (K(t) + S - 1) * 8
        OBVIOUS
    <2>2. End(c, t) = K(t) + S
        BY <2>1 DEF End
    <2>3. K(t) \in Nat /\ S \in Nat
        BY <1>1, <1>4
    <2> HIDE DEF K, S
    <2> QED
        BY <2>2, <2>3 DEF Stop, Scale
<1> HIDE DEF A, S, O, q, D, K
<1>8. \A t \in 2..A : K(t) >= q
    <2>1. \A t \in 2..A : 1 \in 1..A /\ t \in 1..A /\ 1 < t
        BY <1>2
    <2> QED
        BY <1>1, <1>3, <1>5, <2>1
<1>9. \A t \in 1..A : t # A => K(t) + S < D
    <2>1. SUFFICES ASSUME NEW t \in 1..A, t # A PROVE K(t) + S < D
        OBVIOUS
    <2>2. A \in 1..A /\ t < A /\ A > 1
        BY <1>2, <2>1
    <2>3. K(t) + q <= K(A) /\ K(A) < D - O
        BY <1>2, <1>5, <2>2
    <2> QED
        BY <1>1, <1>4, <2>2, <2>3
<1>10. \A t \in 1..A :
          /\ Start(c, t) \in Nat /\ Stop(c, t) \in Nat /\ Start(c, t) < Stop(c, t)
          /\ Begin(c, t) \in Nat /\ End(c, t) \in Nat
    <2>1. SUFFICES ASSUME NEW t \in 1..A
          PROVE  /\ Start(c, t) \in Nat /\ Stop(c, t) \in Nat /\ Start(c, t) < Stop(c, t)
                 /\ Begin(c, t) \in Nat /\ End(c, t) \in Nat
        OBVIOUS
    <2>2. t # 1 => t \in 2..A /\ K(t) >= q
        BY <1>2, <1>8
    <2>3. t = A /\ t # 1 => K(t) < D
        BY <1>1, <1>2, <1>4
    <2> QED
        BY <1>1, <1>2, <1>3, <1>4, <1>7, <1>9, <2>2, <2>3
<1>11. \A t \in 1..A, u \in 1..A : t < u => Start(c, t) < Start(c, u) /\ Stop(c, t) < Stop(c, u)
    <2>1. SUFFICES ASSUME NEW t \in 1..A, NEW u \in 1..A, t < u
          PROVE  Start(c, t) < Start(c, u) /\ Stop(c, t) < Stop(c, u)
        OBVIOUS
    <2>2. u # 1 /\ t # A /\ K(t) + q <= K(u) /\ K(t) \in Nat /\ K(u) \in Nat
        BY <1>2, <1>4, <1>5, <2>1
    <2>3. K(t) + S < D
        BY <1>9, <2>2
    <2>4. Start(c, t) < Start(c, u)
        BY <1>1, <1>3, <1>7, <2>2
    <2>5. Stop(c, t) < Stop(c, u)
        BY <1>1, <1>7, <2>2, <2>3
    <2> QED
        BY <2>4, <2>5
<1>12. \A t \in 2..A : Start(c, t) < Stop(c, t - 1)
    <2>1. SUFFICES ASSUME NEW t \in 2..A PROVE Start(c, t) < Stop(c, t - 1)
        OBVIOUS
    <2>2. PICK u \in 1..A : u = t - 1
        BY <1>2, <2>1
    <2>3. t \in 1..A /\ t # 1 /\ u # A
        BY <1>2, <2>1, <2>2
    <2>4. K(t) = K(u) + q /\ K(t) \in Nat /\ K(u) \in Nat
        BY <1>4, <1>6, <2>1, <2>2, <2>3, Zenon
    <2>5. Start(c, t) = (K(t) - 1) * 8 /\ Stop(c, u) = 1 + (K(u) + S - 1) * 8
        <3>1. Start(c, t) = (K(t) - 1) * 8
            BY <1>7, <2>3
        <3>2. Stop(c, u) = 1 + (K(u) + S - 1) * 8
            BY <1>14, <2>3
        <3> QED
            BY <3>1, <3>2
    <2>6. Start(c, t) < Stop(c, u)
        BY <1>1, <2>4, <2>5
    <2> QED
        BY <2>2, <2>6
<1>13. Start(c, 1) = 0 /\ Stop(c, A) = D * 8 - 7
    <2>1. 1 \in 1..A /\ A \in 1..A
        BY <1>2
    <2> QED
        BY <1>1, <1>7, <2>1
<1> QED
    BY <1>2, <1>10, <1>11, <1>12, <1>13 DEF A, D

-----------------------------------------------------------------------------
\* The frames.

LEMMA Contributes ==
    ASSUME NEW c \in Configurations, NEW t \in 1..Amount(c), NEW i \in Int
    PROVE  Shown(c, t, i) \in Contributions
<1>1. t \in Nat /\ Start(c, t) \in Int /\ Stop(c, t) \in Int /\ Overlap(c) \in Nat
    BY Geometry, Sizes
<1>2. Start(c, t) + i \in Int
    BY <1>1
<1>3. Unit(c) \in Int /\ Length(c, t) \in Int
    BY <1>1 DEF Unit, Length, Scale
<1>4. FadeIn(c, t, i) \in Int
    BY <1>3 DEF FadeIn
<1>5. FadeOut(c, t, i) \in Int
    BY <1>3 DEF FadeOut
<1>6. FadeIn(c, t, i) * FadeOut(c, t, i) \in Int
    BY <1>4, <1>5
<1> QED
    BY <1>1, <1>2, <1>6 DEF Shown, Contributions

\* A decoded tile has as many frames as its slice.
LEMMA Buffers ==
    ASSUME NEW c \in Configurations, NEW t \in 1..Amount(c)
    PROVE  /\ Length(c, t) \in Nat \ {0} /\ Length(c, t) = Stop(c, t) - Start(c, t)
           /\ Buffer(c, t) \in Seq(Frames) /\ Len(Buffer(c, t)) = Length(c, t)
           /\ \A i \in 1..Length(c, t) : Buffer(c, t)[i] = {Shown(c, t, i - 1)}
<1> DEFINE n == End(c, t) - Begin(c, t)
           actual == Smaller(Length(c, t), DecodedLength(n))
<1>1. /\ Start(c, t) \in Nat /\ Stop(c, t) \in Nat /\ Start(c, t) < Stop(c, t)
      /\ Begin(c, t) \in Nat /\ End(c, t) \in Nat
    BY Geometry
<1>2. Length(c, t) \in Nat \ {0} /\ Length(c, t) = Stop(c, t) - Start(c, t)
    BY <1>1 DEF Length
<1>3. n \in Int /\ Length(c, t) = 8 * n - 7
    BY <1>1 DEF Length, Stop, Start, Scale
<1>4. DecodedLength(n) = 8 * n - 7
    <2> HIDE DEF n
    <2> QED
        BY <1>3 DEF DecodedLength, Upsampled
<1>5. actual = Length(c, t)
    BY <1>2, <1>3, <1>4 DEF Smaller
<1>6. Buffer(c, t) = [i \in 1..Length(c, t) |-> IF i <= actual THEN {Shown(c, t, i - 1)} ELSE {}]
    BY DEF Buffer
<1> HIDE DEF actual, n
<1>7. \A i \in 1..Length(c, t) : Buffer(c, t)[i] = {Shown(c, t, i - 1)}
    BY <1>2, <1>5, <1>6
<1>8. \A i \in 1..Length(c, t) : Buffer(c, t)[i] \in Frames
    <2>1. \A i \in 1..Length(c, t) : i - 1 \in Int
        BY <1>2
    <2> QED
        BY <1>7, <2>1, Contributes DEF Frames
<1>9. Buffer(c, t) \in [1..Length(c, t) -> Frames]
    BY <1>6, <1>8
<1>10. Buffer(c, t) \in Seq(Frames) /\ Len(Buffer(c, t)) = Length(c, t)
    BY <1>2, <1>9
<1> QED
    BY <1>2, <1>7, <1>10

\* The frame at p when the first g tiles are added up.
Covers(c, t, p) == p \in Start(c, t)..(Stop(c, t) - 1)
Upto(c, g, p) == {Shown(c, t, p - Start(c, t)) : t \in {t \in 1..g : Covers(c, t, p)}}

LEMMA UptoTypes ==
    ASSUME NEW c \in Configurations, NEW g \in 1..Amount(c), NEW p \in Int
    PROVE  Upto(c, g, p) \in Frames
<1>1. SUFFICES ASSUME NEW t \in 1..g PROVE Shown(c, t, p - Start(c, t)) \in Contributions
    BY DEF Upto, Frames
<1>2. t \in 1..Amount(c) /\ Amount(c) \in Nat
    BY Geometry
<1>3. p - Start(c, t) \in Int
    BY <1>2, Geometry
<1> QED
    BY <1>2, <1>3, Contributes

LEMMA UptoAll ==
    ASSUME NEW c \in Configurations, NEW g \in 1..Amount(c), NEW p \in Int,
           g = Amount(c) \/ p < Start(c, g + 1)
    PROVE  Upto(c, g, p) = Video(c, p)
<1>1. Amount(c) \in Nat \ {0} /\ g \in Nat
    BY Geometry
<1>2. SUFFICES ASSUME NEW t \in 1..Amount(c), Covers(c, t, p) PROVE t \in 1..g
    BY <1>1 DEF Upto, Video, Covers
<1>3. CASE g = Amount(c)
    BY <1>3
<1>4. CASE g # Amount(c)
    <2>1. g + 1 \in 1..Amount(c) /\ p < Start(c, g + 1)
        BY <1>1, <1>4
    <2>2. Start(c, t) <= p /\ Start(c, t) \in Nat /\ Start(c, g + 1) \in Nat
        BY <1>2, <2>1, Geometry DEF Covers
    <2>3. g + 1 < t => Start(c, g + 1) < Start(c, t)
        BY <2>1, Geometry
    <2>4. ~(g + 1 < t) /\ g + 1 # t
        BY <2>1, <2>2, <2>3
    <2> QED
        BY <1>1, <2>4
<1> QED
    BY <1>3, <1>4

LEMMA UptoNext ==
    ASSUME NEW c \in Configurations, NEW g \in 2..Amount(c), NEW p \in Int
    PROVE  /\ Covers(c, g, p) => Upto(c, g, p) = Upto(c, g - 1, p) \cup {Shown(c, g, p - Start(c, g))}
           /\ ~Covers(c, g, p) => Upto(c, g, p) = Upto(c, g - 1, p)
           /\ p >= Stop(c, g - 1) => Upto(c, g - 1, p) = {}
<1>1. Amount(c) \in Nat /\ g \in 1..Amount(c) /\ g - 1 \in 1..Amount(c) /\ g \in Nat
    BY Geometry
<1>2. 1..g = (1..(g - 1)) \cup {g}
    BY <1>1
<1>3. Covers(c, g, p) => Upto(c, g, p) = Upto(c, g - 1, p) \cup {Shown(c, g, p - Start(c, g))}
    BY <1>2 DEF Upto
<1>4. ~Covers(c, g, p) => Upto(c, g, p) = Upto(c, g - 1, p)
    BY <1>2 DEF Upto
<1>5. p >= Stop(c, g - 1) => Upto(c, g - 1, p) = {}
    <2>1. SUFFICES ASSUME p >= Stop(c, g - 1), NEW t \in 1..(g - 1) PROVE ~Covers(c, t, p)
        BY DEF Upto
    <2>2. t \in 1..Amount(c) /\ (t = g - 1 \/ t < g - 1)
        BY <1>1
    <2>3. Stop(c, t) \in Nat /\ Stop(c, g - 1) \in Nat
        BY <1>1, <2>2, Geometry
    <2>4. Stop(c, t) <= Stop(c, g - 1)
        BY <1>1, <2>2, <2>3, Geometry
    <2>5. Start(c, t) \in Nat
        BY <2>2, Geometry
    <2> QED
        BY <2>1, <2>3, <2>4, <2>5 DEF Covers
<1> QED
    BY <1>3, <1>4, <1>5

LEMMA UptoFirst ==
    ASSUME NEW c \in Configurations, NEW i \in 1..Length(c, 1)
    PROVE  Upto(c, 1, Start(c, 1) + i - 1) = {Shown(c, 1, i - 1)}
<1>1. 1 \in 1..Amount(c) /\ Start(c, 1) = 0
    BY Geometry
<1>2. /\ Stop(c, 1) \in Nat /\ Length(c, 1) = Stop(c, 1) - Start(c, 1) /\ Length(c, 1) \in Nat
    BY <1>1, Geometry, Buffers
<1>3. Start(c, 1) + i - 1 = i - 1 /\ (i - 1) - Start(c, 1) = i - 1 /\ i \in Nat
    BY <1>1, <1>2
<1>4. Covers(c, 1, i - 1)
    BY <1>1, <1>2, <1>3 DEF Covers
<1>5. {t \in 1..1 : Covers(c, t, i - 1)} = {1}
    BY <1>4
<1>6. Upto(c, 1, i - 1) = {Shown(c, 1, (i - 1) - Start(c, 1))}
    BY <1>5 DEF Upto
<1> QED
    BY <1>3, <1>6

LEMMA Listed ==
    ASSUME NEW T, NEW k \in Nat, NEW f \in [1..k -> T]
    PROVE  f \in Seq(T) /\ Len(f) = k
OBVIOUS

LEMMA Joined ==
    ASSUME NEW T, NEW s \in Seq(T), NEW u \in Seq(T)
    PROVE  /\ s \o u \in Seq(T) /\ Len(s \o u) = Len(s) + Len(u)
           /\ \A j \in 1..Len(s) : (s \o u)[j] = s[j]
           /\ \A j \in 1..Len(u) : (s \o u)[Len(s) + j] = u[j]
OBVIOUS

\* What blending a tile with the chunk before gives.
LEMMA Merges ==
    ASSUME cfg \in Configurations, NEW g \in 2..Amount(cfg),
           NEW p \in Chunks,
           p.start = Start(cfg, g - 1), Len(p.frames) = Length(cfg, g - 1),
           \A j \in 1..Length(cfg, g - 1) : p.frames[j] = Upto(cfg, g - 1, p.start + j - 1)
    PROVE  LET both == Merge(p, g, Buffer(cfg, g))
               final == Final(p, g, both.previous)
           IN  /\ both.buffer \in Seq(Frames) /\ Len(both.buffer) = Length(cfg, g)
               /\ \A j \in 1..Length(cfg, g) : both.buffer[j] = Upto(cfg, g, Start(cfg, g) + j - 1)
               /\ final \in Seq(Frames) /\ Len(final) = Start(cfg, g) - p.start
               /\ \A j \in 1..Len(final) : final[j] = Video(cfg, p.start + j - 1)
<1> DEFINE a == Start(cfg, g - 1)
           b == Start(cfg, g)
           m == Stop(cfg, g - 1)
           n == Stop(cfg, g)
           buffer == Buffer(cfg, g)
           offset == b - p.start
           overlap == Len(p.frames) - offset
           merged == [i \in 1..overlap |-> p.frames[offset + i] \cup buffer[i]]
           earlier == SubSeq(p.frames, 1, offset) \o merged
           later == merged \o SubSeq(buffer, overlap + 1, Len(buffer))
           final == Final(p, g, earlier)
<1>1. g - 1 \in 1..Amount(cfg) /\ g \in 1..Amount(cfg) /\ g - 1 < g /\ g \in Nat /\ Amount(cfg) \in Nat
    BY Geometry
<1>2. /\ a \in Nat /\ b \in Nat /\ m \in Nat /\ n \in Nat
      /\ a < b /\ b < m /\ m < n
    BY <1>1, Geometry
<1>3. /\ Len(p.frames) = m - a /\ Length(cfg, g) = n - b /\ Length(cfg, g - 1) = m - a
      /\ buffer \in Seq(Frames) /\ Len(buffer) = n - b
      /\ \A i \in 1..(n - b) : buffer[i] = {Shown(cfg, g, i - 1)}
    BY <1>1, Buffers
<1>4. p.frames \in Seq(Frames)
    BY DEF Chunks
<1>5. p.start = a /\ offset = b - a /\ overlap = m - b /\ overlap > 0
    BY <1>2, <1>3
<1>6. Merge(p, g, buffer) = [previous |-> earlier, buffer |-> later]
    BY <1>5 DEF Merge
<1>7. \A j \in 1..(m - a) : p.frames[j] = Upto(cfg, g - 1, a + j - 1)
    BY <1>3, <1>5
<1> HIDE DEF a, b, m, n, buffer
<1>8. \A q \in Int : Covers(cfg, g, q) <=> b <= q /\ q < n
    BY <1>2 DEF Covers, b, n
<1>9. \A i \in 1..(m - b) : p.frames[offset + i] \cup buffer[i] = Upto(cfg, g, b + i - 1)
    <2>1. SUFFICES ASSUME NEW i \in 1..(m - b)
          PROVE  p.frames[offset + i] \cup buffer[i] = Upto(cfg, g, b + i - 1)
        OBVIOUS
    <2>2. offset + i \in 1..(m - a) /\ a + (offset + i) - 1 = b + i - 1
        BY <1>2, <1>5
    <2>3. i \in 1..(n - b) /\ b + i - 1 \in Int /\ (b + i - 1) - b = i - 1
        BY <1>2
    <2>4. Covers(cfg, g, b + i - 1)
        BY <1>2, <1>8, <2>3
    <2>5. Upto(cfg, g, b + i - 1) = Upto(cfg, g - 1, b + i - 1) \cup {Shown(cfg, g, (b + i - 1) - b)}
        BY <2>3, <2>4, UptoNext DEF b
    <2> QED
        BY <1>3, <1>7, <2>2, <2>3, <2>5
<1>10. \A i \in 1..(m - b) : p.frames[offset + i] \cup buffer[i] \in Frames
    <2>1. \A i \in 1..(m - b) : b + i - 1 \in Int
        BY <1>2
    <2> QED
        BY <1>1, <1>9, <2>1, UptoTypes
<1> HIDE DEF offset, overlap
<1>11. merged \in Seq(Frames) /\ Len(merged) = m - b
       /\ \A i \in 1..(m - b) : merged[i] = Upto(cfg, g, b + i - 1)
    <2>1. merged = [i \in 1..(m - b) |-> p.frames[offset + i] \cup buffer[i]] /\ m - b \in Nat
        BY <1>2, <1>5
    <2> HIDE DEF merged
    <2>2. \A i \in 1..(m - b) : merged[i] = p.frames[offset + i] \cup buffer[i]
        BY <2>1
    <2>3. merged \in [1..(m - b) -> Frames]
        BY <1>10, <2>1
    <2>4. merged \in Seq(Frames) /\ Len(merged) = m - b
        BY <2>1, <2>3, Listed
    <2> QED
        BY <1>9, <2>2, <2>4
<1> HIDE DEF merged
<1>12. /\ later \in Seq(Frames) /\ Len(later) = n - b
       /\ \A j \in 1..(n - b) : later[j] = Upto(cfg, g, b + j - 1)
    <2> DEFINE rest == SubSeq(buffer, overlap + 1, Len(buffer))
    <2>1. rest \in Seq(Frames) /\ Len(rest) = n - m
          /\ \A i \in 1..(n - m) : rest[i] = buffer[(m - b) + i]
        BY <1>2, <1>3, <1>5
    <2> HIDE DEF rest
    <2>2. /\ later \in Seq(Frames) /\ Len(later) = n - b
          /\ \A i \in 1..(m - b) : later[i] = merged[i]
          /\ \A i \in 1..(n - m) : later[(m - b) + i] = rest[i]
        <3>1. later = merged \o rest
            BY DEF rest
        <3> HIDE DEF later
        <3>2. merged \in Seq(Frames) /\ rest \in Seq(Frames)
            BY <1>11, <2>1
        <3>3. /\ later \in Seq(Frames) /\ Len(later) = Len(merged) + Len(rest)
              /\ \A j \in 1..Len(merged) : later[j] = merged[j]
              /\ \A j \in 1..Len(rest) : later[Len(merged) + j] = rest[j]
            BY <3>1, <3>2, Joined
        <3> QED
            BY <1>2, <1>11, <2>1, <3>3
    <2> HIDE DEF later
    <2>3. ASSUME NEW j \in 1..(n - b) PROVE later[j] = Upto(cfg, g, b + j - 1)
        <3>1. CASE j <= m - b
            <4>1. later[j] = merged[j] /\ j \in 1..(m - b)
                BY <1>2, <2>2, <3>1
            <4> QED
                BY <1>11, <4>1
        <3>2. CASE ~(j <= m - b)
            <4>1. j - (m - b) \in 1..(n - m) /\ (m - b) + (j - (m - b)) = j
                BY <1>2, <3>2
            <4>2. later[j] = rest[j - (m - b)]
                BY <2>2, <4>1
            <4>3. later[j] = {Shown(cfg, g, j - 1)}
                BY <1>3, <2>1, <4>1, <4>2
            <4>4. b + j - 1 \in Int /\ b + j - 1 >= m /\ (b + j - 1) - b = j - 1 /\ b + j - 1 < n
                BY <1>2, <3>2
            <4>5. Covers(cfg, g, b + j - 1)
                BY <1>2, <1>8, <4>4
            <4>6. Upto(cfg, g - 1, b + j - 1) = {}
                BY <4>4, UptoNext DEF m
            <4>7. Upto(cfg, g, b + j - 1) = Upto(cfg, g - 1, b + j - 1) \cup {Shown(cfg, g, (b + j - 1) - b)}
                BY <4>4, <4>5, UptoNext DEF b
            <4> QED
                BY <4>3, <4>4, <4>6, <4>7
        <3> QED
            BY <3>1, <3>2
    <2> QED
        BY <2>2, <2>3
<1>13. /\ final \in Seq(Frames) /\ Len(final) = b - a
       /\ \A j \in 1..(b - a) : final[j] = Video(cfg, a + j - 1)
    <2> DEFINE kept == SubSeq(p.frames, 1, offset)
    <2>1. kept \in Seq(Frames) /\ Len(kept) = b - a /\ \A j \in 1..(b - a) : kept[j] = p.frames[j]
        BY <1>2, <1>3, <1>4, <1>5
    <2> HIDE DEF kept
    <2>2. earlier \in Seq(Frames) /\ Len(earlier) = m - a
          /\ \A j \in 1..(b - a) : earlier[j] = p.frames[j]
        <3>1. earlier = kept \o merged
            BY DEF kept
        <3> HIDE DEF earlier
        <3>2. merged \in Seq(Frames) /\ kept \in Seq(Frames)
            BY <1>11, <2>1
        <3>3. /\ earlier \in Seq(Frames) /\ Len(earlier) = Len(kept) + Len(merged)
              /\ \A j \in 1..Len(kept) : earlier[j] = kept[j]
              /\ \A j \in 1..Len(merged) : earlier[Len(kept) + j] = merged[j]
            BY <3>1, <3>2, Joined
        <3> QED
            BY <1>2, <1>11, <2>1, <3>3
    <2> HIDE DEF earlier
    <2>3. Smaller(Len(earlier), Start(cfg, g) - p.start) = b - a
        BY <1>2, <1>5, <2>2 DEF Smaller, b
    <2>4. final = SubSeq(earlier, 1, b - a)
        BY <2>3 DEF Final
    <2>5. final \in Seq(Frames) /\ Len(final) = b - a
          /\ \A j \in 1..(b - a) : final[j] = earlier[j]
        BY <1>2, <2>2, <2>4
    <2>6. ASSUME NEW j \in 1..(b - a) PROVE p.frames[j] = Video(cfg, a + j - 1)
        <3>1. j \in 1..(m - a) /\ a + j - 1 \in Int /\ a + j - 1 < b
            BY <1>2
        <3>2. p.frames[j] = Upto(cfg, g - 1, a + j - 1)
            BY <1>7, <3>1
        <3>3. (g - 1) + 1 = g
            BY <1>1
        <3> QED
            BY <1>1, <3>1, <3>2, <3>3, UptoAll DEF b
    <2> QED
        BY <2>2, <2>5, <2>6
<1> HIDE DEF earlier, later
<1>14. Merge(p, g, buffer).previous = earlier /\ Merge(p, g, buffer).buffer = later
    BY <1>6
<1> QED
    BY <1>3, <1>5, <1>12, <1>13, <1>14 DEF buffer, b

-----------------------------------------------------------------------------
\* The weights.

\* Two tiles in a row overlap by Unit frames, and tiles further apart not at all.
LEMMA Neighbours ==
    ASSUME NEW c \in Configurations, NEW t \in 2..Amount(c)
    PROVE  /\ Stop(c, t - 1) - Start(c, t) = Unit(c)
           /\ t < Amount(c) => Stop(c, t - 1) <= Start(c, t + 1)
<1> DEFINE A == Amount(c)
           S == Size(c)
           O == Overlap(c)
           q == Stride(c)
           K(u) == (u - 1) * q
<1>1. /\ S \in Nat /\ O \in Nat /\ q \in Nat
      /\ S >= 2 /\ 4 * O <= S /\ q = S - O
    BY Sizes
<1>2. A \in Nat \ {0} /\ t - 1 \in 1..A /\ t - 1 # A /\ t # 1 /\ t \in 1..A /\ t + 1 # 1
    BY Geometry
<1>3. PICK m \in Nat : t = m + 2
    <2>1. t - 2 \in Nat /\ t = (t - 2) + 2
        BY <1>2
    <2> QED
        BY <2>1
<1>4. m * q \in Nat /\ (m + 1) * q = m * q + q /\ (m + 2) * q = m * q + 2 * q
    BY <1>1
<1>5. K(t - 1) = m * q /\ K(t) = m * q + q /\ K(t + 1) = m * q + 2 * q
    <2>1. (t - 1) - 1 = m /\ t - 1 = m + 1 /\ (t + 1) - 1 = m + 2
        BY <1>3
    <2> QED
        BY <1>4, <2>1
<1>6. Start(c, t) = (K(t) - 1) * 8 /\ Start(c, t + 1) = (K(t + 1) - 1) * 8
    <2>1. Begin(c, t) = K(t) - 1 /\ Begin(c, t + 1) = K(t + 1) - 1
        BY <1>2 DEF Begin
    <2> QED
        BY <2>1 DEF Start, Scale
<1>7. Stop(c, t - 1) = 1 + (K(t - 1) + S - 1) * 8
    <2>1. End(c, t - 1) = K(t - 1) + S
        BY <1>2 DEF End
    <2>2. K(t - 1) \in Nat
        BY <1>4, <1>5
    <2> HIDE DEF K, S
    <2> QED
        BY <1>1, <2>1, <2>2 DEF Stop, Scale
<1>8. Unit(c) = 1 + O * 8
    BY DEF Unit, Scale
<1> HIDE DEF A, S, O, q, K
<1>9. Stop(c, t - 1) - Start(c, t) = Unit(c)
    BY <1>1, <1>4, <1>5, <1>6, <1>7, <1>8
<1>10. Stop(c, t - 1) <= Start(c, t + 1)
    BY <1>1, <1>4, <1>5, <1>6, <1>7
<1> QED
    BY <1>9, <1>10

\* The mask of a tile at p: it rises where the tile before reaches, and falls
\* where the next one does.
LEMMA Masks ==
    ASSUME NEW c \in Configurations, NEW t \in 1..Amount(c), NEW p \in Int, Covers(c, t, p)
    PROVE  /\ FadeIn(c, t, p - Start(c, t)) =
                  IF t > 1 /\ p < Stop(c, t - 1) THEN p - Start(c, t) ELSE Unit(c)
           /\ FadeOut(c, t, p - Start(c, t)) =
                  IF t < Amount(c) /\ p >= Start(c, t + 1) THEN Stop(c, t) - p ELSE Unit(c)
<1> DEFINE A == Amount(c)
           a == Start(c, t)
           b == Stop(c, t)
           U == Unit(c)
<1>1. A \in Nat \ {0} /\ t \in Nat /\ t >= 1 /\ t <= A
    BY Geometry
<1>2. a \in Nat /\ b \in Nat /\ a <= p /\ p < b /\ Length(c, t) = b - a
    BY Geometry DEF Covers, Length
<1>3. U \in Nat /\ U >= 1 /\ U - 1 = Overlap(c) * Scale /\ U = 1 + Overlap(c) * Scale
    BY Sizes DEF Unit, Scale
<1>4. t > 1 => Stop(c, t - 1) = a + U /\ Stop(c, t - 1) < b
    <2>1. SUFFICES ASSUME t > 1 PROVE Stop(c, t - 1) = a + U /\ Stop(c, t - 1) < b
        OBVIOUS
    <2>2. t \in 2..A /\ t - 1 \in 1..A /\ t - 1 < t
        BY <1>1, <2>1
    <2>3. Stop(c, t - 1) - a = U /\ Stop(c, t - 1) \in Nat
        BY <2>2, Neighbours, Geometry
    <2>4. Stop(c, t - 1) < b
        BY <2>2, Geometry
    <2> QED
        BY <1>2, <1>3, <2>3, <2>4
<1>5. t < A => b = Start(c, t + 1) + U /\ a < Start(c, t + 1) /\ Start(c, t + 1) \in Nat
    <2>1. SUFFICES ASSUME t < A
          PROVE  b = Start(c, t + 1) + U /\ a < Start(c, t + 1) /\ Start(c, t + 1) \in Nat
        OBVIOUS
    <2>2. t + 1 \in 2..A /\ t + 1 \in 1..A /\ (t + 1) - 1 = t /\ t < t + 1
        BY <1>1, <2>1
    <2>3. Start(c, t + 1) \in Nat /\ a < Start(c, t + 1)
        BY <2>2, Geometry
    <2>4. b - Start(c, t + 1) = U
        BY <2>2, Neighbours
    <2> QED
        BY <1>2, <1>3, <2>3, <2>4
<1>6. LeftRamp(c, t) = IF t = 1 THEN 0 ELSE Smaller(U, b - a)
    BY <1>2, <1>3 DEF LeftRamp
<1>7. RightRamp(c, t) = IF t = A THEN 0 ELSE Smaller(U - 1, b - a)
    BY <1>2, <1>3 DEF RightRamp
<1>8. FadeIn(c, t, p - a) = IF p - a < LeftRamp(c, t) THEN p - a ELSE U
    BY DEF FadeIn
<1>9. FadeOut(c, t, p - a) = IF (b - a) - (p - a) <= RightRamp(c, t) THEN (b - a) - (p - a) ELSE U
    BY <1>2 DEF FadeOut
<1> HIDE DEF A, a, b, U
<1>10. FadeIn(c, t, p - a) = IF t > 1 /\ p < Stop(c, t - 1) THEN p - a ELSE U
    <2>1. CASE t = 1
        BY <1>2, <1>6, <1>8, <2>1
    <2>2. CASE t > 1
        <3>1. LeftRamp(c, t) = U
            BY <1>2, <1>3, <1>4, <1>6, <2>2 DEF Smaller
        <3> QED
            BY <1>2, <1>3, <1>4, <1>8, <2>2, <3>1
    <2> QED
        BY <1>1, <2>1, <2>2
<1>11. FadeOut(c, t, p - a) = IF t < A /\ p >= Start(c, t + 1) THEN b - p ELSE U
    <2>1. CASE t = A
        BY <1>1, <1>2, <1>7, <1>9, <2>1
    <2>2. CASE t < A
        <3>1. RightRamp(c, t) = U - 1
            BY <1>1, <1>2, <1>3, <1>5, <1>7, <2>2 DEF Smaller
        <3> QED
            BY <1>2, <1>3, <1>5, <1>9, <2>2, <3>1
    <2> QED
        BY <1>1, <2>1, <2>2
<1> QED
    BY <1>10, <1>11 DEF a, b, U, A

\* Every frame of the video has a last tile that covers it.
LEMMA LastTile ==
    ASSUME NEW c \in Configurations, NEW p \in Nat, p < Stop(c, Amount(c))
    PROVE  \E t \in 1..Amount(c) : Covers(c, t, p) /\ (t = Amount(c) \/ p < Start(c, t + 1))
<1> DEFINE A == Amount(c)
           q == Stride(c)
           k == p \div 8 + 1
           K(u) == (u - 1) * q
<1>1. A \in Nat \ {0} /\ q \in Nat \ {0}
    BY Geometry, Sizes
<1>2. k \in Nat /\ 8 * (k - 1) <= p /\ p < 8 * k
    OBVIOUS
<1>3. \A u \in 2..A : Start(c, u) = (K(u) - 1) * 8
    <2>1. SUFFICES ASSUME NEW u \in 2..A PROVE Start(c, u) = (K(u) - 1) * 8
        OBVIOUS
    <2>2. Begin(c, u) = K(u) - 1
        BY <1>1 DEF Begin
    <2> QED
        BY <2>2 DEF Start, Scale
<1>4. Start(c, 1) = 0 /\ Stop(c, A) = c.latents * 8 - 7
    BY Geometry
<1> HIDE DEF k
<1>5. PICK n \in Nat : n * q <= k /\ k < n * q + q
    BY <1>1, <1>2, Division
<1>6. n * q \in Nat
    BY <1>1
<1>7. CASE n + 1 >= A
    <2>1. K(A) <= n * q /\ K(A) \in Nat
        <3>1. A - 1 \in Nat /\ (A - 1 = n \/ A - 1 < n)
            BY <1>1, <1>7
        <3> QED
            BY <1>1, <1>6, <3>1, Multiples
    <2>2. Start(c, A) <= p
        <3>1. CASE A = 1
            BY <1>4, <3>1
        <3>2. CASE A # 1
            <4>1. Start(c, A) = (K(A) - 1) * 8
                BY <1>1, <1>3, <3>2
            <4> HIDE DEF K
            <4> QED
                BY <1>2, <1>5, <1>6, <2>1, <4>1
        <3> QED
            BY <3>1, <3>2
    <2>3. A \in 1..A /\ Start(c, A) \in Nat /\ Stop(c, A) \in Nat
        BY <1>1, Geometry
    <2>4. Covers(c, A, p)
        BY <1>4, <2>2, <2>3 DEF Covers
    <2> QED
        BY <2>3, <2>4
<1>8. CASE n + 1 < A
    <2> DEFINE t == n + 1
    <2>1. t \in 1..A /\ t + 1 \in 2..A /\ t + 1 \in 1..A /\ (t + 1) - 1 = t /\ t # A
        BY <1>1, <1>8
    <2>2. K(t) = n * q /\ K(t + 1) = n * q + q
        <3>1. t - 1 = n /\ (t + 1) - 1 = n + 1
            BY <2>1
        <3>2. (n + 1) * q = n * q + q
            BY <1>1
        <3> QED
            BY <3>1, <3>2
    <2> HIDE DEF K
    <2>3. Start(c, t + 1) = (n * q + q - 1) * 8
        <3>1. Start(c, t + 1) = (K(t + 1) - 1) * 8
            BY <1>3, <2>1
        <3> QED
            BY <1>1, <1>6, <2>2, <3>1
    <2>4. Start(c, t) <= p
        <3>1. CASE t = 1
            BY <1>4, <3>1
        <3>2. CASE t # 1
            <4>1. Start(c, t) = (n * q - 1) * 8
                BY <1>3, <2>1, <2>2, <3>2
            <4> QED
                BY <1>2, <1>5, <1>6, <4>1
        <3> QED
            BY <3>1, <3>2
    <2>5. p < Start(c, t + 1)
        BY <1>1, <1>2, <1>5, <1>6, <2>3
    <2>6. /\ Start(c, t) \in Nat /\ Stop(c, t) \in Nat /\ Start(c, t + 1) \in Nat
          /\ Start(c, t + 1) < Stop(c, t)
        BY <2>1, Geometry
    <2>7. Covers(c, t, p)
        BY <2>4, <2>5, <2>6 DEF Covers
    <2> QED
        BY <2>1, <2>5, <2>7
<1> QED
    BY <1>1, <1>7, <1>8

\* The tiles that cover a frame: the last one, and perhaps the one before it.
LEMMA TwoTiles ==
    ASSUME NEW c \in Configurations, NEW t \in 1..Amount(c), NEW p \in Int,
           Covers(c, t, p), t = Amount(c) \/ p < Start(c, t + 1),
           NEW u \in 1..Amount(c), Covers(c, u, p)
    PROVE  u = t \/ (t > 1 /\ u = t - 1 /\ p < Stop(c, t - 1))
<1>1. Amount(c) \in Nat /\ t \in Nat /\ u \in Nat
    BY Geometry
<1>2. /\ Start(c, t) <= p /\ Start(c, u) <= p /\ p < Stop(c, u)
      /\ Start(c, t) \in Nat /\ Start(c, u) \in Nat /\ Stop(c, u) \in Nat
    BY Geometry DEF Covers
<1>3. ~(u > t)
    <2>1. SUFFICES ASSUME u > t PROVE FALSE
        OBVIOUS
    <2>2. t + 1 \in 1..Amount(c) /\ p < Start(c, t + 1) /\ (u = t + 1 \/ t + 1 < u)
        BY <1>1, <2>1
    <2>3. Start(c, t + 1) <= Start(c, u)
        BY <1>2, <2>2, Geometry
    <2>4. Start(c, t + 1) \in Nat
        BY <2>2, Geometry
    <2> QED
        BY <1>2, <2>2, <2>3, <2>4
<1>4. ~(u < t - 1)
    <2>1. SUFFICES ASSUME u < t - 1 PROVE FALSE
        OBVIOUS
    <2>2. t - 1 \in 2..Amount(c) /\ t - 1 < Amount(c) /\ (t - 1) + 1 = t /\ (t - 1) - 1 = t - 2
          /\ t - 2 \in 1..Amount(c) /\ (u = t - 2 \/ u < t - 2)
        BY <1>1, <2>1
    <2>3. Stop(c, t - 2) <= Start(c, t)
        BY <2>2, Neighbours
    <2>4. Stop(c, u) <= Stop(c, t - 2) /\ Stop(c, t - 2) \in Nat
        BY <1>2, <2>2, Geometry
    <2> QED
        BY <1>2, <2>3, <2>4
<1> QED
    BY <1>1, <1>2, <1>3, <1>4

\* The weights of a frame add up to one, and the first frame of a later tile
\* has none.
LEMMA Crossfades ==
    ASSUME NEW c \in Configurations, NEW p \in Nat, p < c.latents * 8 - 7
    PROVE  /\ \E s, r \in Video(c, p) :
                 /\ Video(c, p) = {s, r}
                 /\ (IF s = r THEN s.weight ELSE s.weight + r.weight) = Unit(c) * Unit(c)
           /\ \A s \in Video(c, p) :
                 /\ s.at = p
                 /\ s.tile > 1 /\ s.at = Start(c, s.tile) => s.weight = 0
<1> DEFINE V == Video(c, p)
           U == Unit(c)
           s(u) == Shown(c, u, p - Start(c, u))
<1>1. Amount(c) \in Nat /\ U \in Nat /\ U >= 1 /\ p \in Int
    BY Geometry, Sizes DEF Unit, Scale
<1>2. PICK t \in 1..Amount(c) : Covers(c, t, p) /\ (t = Amount(c) \/ p < Start(c, t + 1))
    <2>1. p < Stop(c, Amount(c))
        BY Geometry
    <2> QED
        BY <2>1, LastTile
<1>3. V = {s(u) : u \in {u \in 1..Amount(c) : Covers(c, u, p)}}
    BY DEF Video, Covers
<1>4. \A u \in 1..Amount(c) :
         /\ s(u).tile = u /\ s(u).at = p
         /\ s(u).weight = FadeIn(c, u, p - Start(c, u)) * FadeOut(c, u, p - Start(c, u))
    <2>1. SUFFICES ASSUME NEW u \in 1..Amount(c)
          PROVE  /\ s(u).tile = u /\ s(u).at = p
                 /\ s(u).weight = FadeIn(c, u, p - Start(c, u)) * FadeOut(c, u, p - Start(c, u))
        OBVIOUS
    <2>2. Start(c, u) + (p - Start(c, u)) = p
        BY <1>1, Geometry
    <2> QED
        BY <2>2 DEF Shown
<1>5. FadeOut(c, t, p - Start(c, t)) = U
    <2>1. ~(t < Amount(c) /\ p >= Start(c, t + 1))
        <3>1. t + 1 \in 1..Amount(c) \/ t = Amount(c)
            BY <1>1
        <3> QED
            BY <1>1, <1>2, <3>1, Geometry
    <2> QED
        BY <1>1, <1>2, <2>1, Masks
<1> HIDE DEF s, V, U
<1>6. \E a, b \in V : V = {a, b} /\ (IF a = b THEN a.weight ELSE a.weight + b.weight) = U * U
    <2>1. CASE t > 1 /\ p < Stop(c, t - 1)
        <3>1. /\ t - 1 \in 1..Amount(c) /\ t - 1 < t /\ t \in 2..Amount(c) /\ (t - 1) + 1 = t
              /\ t - 1 < Amount(c)
            BY <1>1, <2>1
        <3>2. /\ Start(c, t) \in Nat /\ Start(c, t - 1) \in Nat /\ Stop(c, t - 1) \in Nat
              /\ Start(c, t - 1) < Start(c, t) /\ Start(c, t) <= p
              /\ Stop(c, t - 1) - Start(c, t) = U
            BY <1>2, <3>1, Geometry, Neighbours DEF Covers, U
        <3>3. Covers(c, t - 1, p)
            BY <1>1, <2>1, <3>2 DEF Covers
        <3>4. V = {s(t), s(t - 1)}
            <4>1. {u \in 1..Amount(c) : Covers(c, u, p)} = {t, t - 1}
                BY <1>1, <1>2, <3>1, <3>3, TwoTiles
            <4> QED
                BY <1>3, <4>1
        <3>5. s(t) # s(t - 1)
            BY <1>4, <3>1
        <3>6. s(t).weight = (p - Start(c, t)) * U
            <4>1. FadeIn(c, t, p - Start(c, t)) = p - Start(c, t)
                BY <1>1, <1>2, <2>1, Masks
            <4> QED
                BY <1>4, <1>5, <4>1
        <3>7. s(t - 1).weight = U * (Stop(c, t - 1) - p)
            <4>1. FadeOut(c, t - 1, p - Start(c, t - 1)) = Stop(c, t - 1) - p
                BY <1>1, <3>1, <3>2, <3>3, Masks
            <4>2. FadeIn(c, t - 1, p - Start(c, t - 1)) = U
                <5>1. ~(t - 1 > 1 /\ p < Stop(c, (t - 1) - 1))
                    <6>1. SUFFICES ASSUME t - 1 > 1, p < Stop(c, (t - 1) - 1) PROVE FALSE
                        OBVIOUS
                    <6>2. t - 1 \in 2..Amount(c) /\ (t - 1) - 1 \in 1..Amount(c)
                        BY <1>1, <3>1, <6>1
                    <6>3. Stop(c, (t - 1) - 1) <= Start(c, t) /\ Stop(c, (t - 1) - 1) \in Nat
                        BY <3>1, <6>2, Neighbours, Geometry
                    <6> QED
                        BY <1>1, <3>2, <6>1, <6>3
                <5> QED
                    BY <1>1, <3>1, <3>3, <5>1, Masks DEF U
            <4> QED
                BY <1>4, <3>1, <4>1, <4>2
        <3>8. s(t).weight + s(t - 1).weight = U * U
            <4> DEFINE x == p - Start(c, t)
                       y == Stop(c, t - 1) - p
            <4>1. x \in Int /\ y \in Int /\ x + y = U
                BY <1>1, <3>2
            <4>2. s(t).weight = x * U /\ s(t - 1).weight = U * y
                BY <3>6, <3>7
            <4> HIDE DEF x, y
            <4>3. x * U + U * y = (x + y) * U
                BY <1>1, <4>1
            <4> QED
                BY <4>1, <4>2, <4>3
        <3> QED
            BY <3>4, <3>5, <3>8
    <2>2. CASE ~(t > 1 /\ p < Stop(c, t - 1))
        <3>1. {u \in 1..Amount(c) : Covers(c, u, p)} = {t}
            BY <1>1, <1>2, <2>2, TwoTiles
        <3>2. V = {s(t), s(t)}
            BY <1>3, <3>1
        <3>3. FadeIn(c, t, p - Start(c, t)) = U
            BY <1>1, <1>2, <2>2, Masks DEF U
        <3>4. s(t).weight = U * U
            BY <1>4, <1>5, <3>3
        <3> QED
            BY <3>2, <3>4
    <2> QED
        BY <2>1, <2>2
<1>7. ASSUME NEW a \in V PROVE a.at = p /\ (a.tile > 1 /\ a.at = Start(c, a.tile) => a.weight = 0)
    <2>1. PICK u \in 1..Amount(c) : Covers(c, u, p) /\ a = s(u)
        BY <1>3
    <2>2. a.at = p /\ a.tile = u
        BY <1>4, <2>1
    <2>3. ASSUME u > 1, p = Start(c, u) PROVE a.weight = 0
        <3>1. u \in 2..Amount(c) /\ u - 1 \in 1..Amount(c)
            BY <1>1, <2>3
        <3>2. p < Stop(c, u - 1)
            BY <2>3, <3>1, Geometry
        <3>3. FadeIn(c, u, p - Start(c, u)) = p - Start(c, u)
            BY <1>1, <2>1, <2>3, <3>2, Masks
        <3>4. p - Start(c, u) = 0
            BY <2>3
        <3>5. FadeOut(c, u, p - Start(c, u)) \in Int
            <4>1. Stop(c, u) \in Int
                BY Geometry
            <4>2. FadeOut(c, u, p - Start(c, u)) =
                     IF u < Amount(c) /\ p >= Start(c, u + 1) THEN Stop(c, u) - p ELSE Unit(c)
                BY <1>1, <2>1, Masks
            <4> QED
                BY <1>1, <4>1, <4>2 DEF U
        <3>6. \A y \in Int : 0 * y = 0
            OBVIOUS
        <3> QED
            BY <1>4, <2>1, <3>3, <3>4, <3>5, <3>6
    <2> QED
        BY <2>2, <2>3
<1> QED
    BY <1>6, <1>7 DEF V, U

-----------------------------------------------------------------------------
\* The inductive invariant.

\* The previous chunk is the last tile decoded, with what the tiles before it
\* contribute.
Held ==
    previous # NoChunk =>
        /\ Tiled(cfg) /\ group \in 2..(Amount(cfg) + 1)
        /\ previous.start = Start(cfg, group - 1)
        /\ Len(previous.frames) = Length(cfg, group - 1)
        /\ \A j \in 1..Length(cfg, group - 1) :
               previous.frames[j] = Upto(cfg, group - 1, previous.start + j - 1)

Phases ==
    /\ previous = NoChunk => group = 1 \/ group = Amount(cfg) + 1
    /\ stage # "writing" => chunk = <<>>
    /\ group = 1 => stage = "decoding"
    /\ Closed => broken \/ (previous = NoChunk /\ group = Amount(cfg) + 1)
    /\ broken => ~Alive
    /\ ffmpeg = "ended" => AudioOver \/ Len(file) = cfg.latents * 8 - 7
    /\ ffmpeg = "reporting" => reports < MaxReports

\* The frames that have been yielded.
Yielded ==
    IF previous # NoChunk THEN previous.start
    ELSE IF group = 1 THEN 0 ELSE cfg.latents * 8 - 7

\* The file, the pipe and the chunk continue one another.
Ordered ==
    /\ \A i \in 1..Len(file) : file[i] = Video(cfg, i - 1)
    /\ \A i \in 1..Len(pipe) : pipe[i] = Video(cfg, Len(file) + i - 1)
    /\ Len(file) + Len(pipe) <= cfg.latents * 8 - 7
    /\ Alive =>
          /\ Len(file) + Len(pipe) + Len(chunk) = Yielded
          /\ \A i \in 1..Len(chunk) : chunk[i] = Video(cfg, Len(file) + Len(pipe) + i - 1)

IInv == TypeOK /\ Held /\ Phases /\ Ordered

LEMMA Initially == Init => IInv
<1>1. SUFFICES ASSUME Init PROVE IInv
    OBVIOUS
<1>2. cfg \in Configurations /\ Amount(cfg) \in Nat \ {0}
    BY <1>1, Geometry DEF Init
<1>3. 0 \in 0..Smaller(StderrRoom, MaxReports)
    BY ConstantsAssumption DEF Smaller
<1>4. TypeOK
    <2>1. <<>> \in Seq(Frames) /\ Len(<<>>) = 0 /\ PipeRoom \in Nat
        BY ConstantsAssumption
    <2>2. group \in 1..(Amount(cfg) + 1)
        BY <1>1, <1>2 DEF Init
    <2>3. Len(pipe) <= PipeRoom
        BY <1>1, <2>1 DEF Init
    <2> QED
        BY <1>1, <1>2, <1>3, <2>1, <2>2, <2>3 DEF Init, TypeOK
<1>5. Held /\ Phases
    BY <1>1 DEF Init, Held, Phases, Closed, Alive
<1>6. Ordered
    <2>1. Len(<<>>) = 0 /\ cfg.latents \in Nat \ {0}
        BY <1>2, Sizes
    <2> QED
        BY <1>1, <2>1 DEF Init, Ordered, Yielded
<1> QED
    BY <1>4, <1>5, <1>6 DEF IInv

\* What all steps rest on.
LEMMA Basics ==
    ASSUME IInv
    PROVE  /\ cfg \in Configurations /\ Amount(cfg) \in Nat \ {0} /\ group \in Nat
           /\ file \in Seq(Frames) /\ pipe \in Seq(Frames) /\ chunk \in Seq(Frames)
           /\ Len(file) \in Nat /\ Len(pipe) \in Nat /\ Len(chunk) \in Nat
           /\ cfg.latents \in Nat \ {0}
<1>1. cfg \in Configurations
    BY DEF IInv, TypeOK
<1>2. Amount(cfg) \in Nat \ {0} /\ cfg.latents \in Nat \ {0}
    BY <1>1, Geometry, Sizes
<1>3. group \in Nat
    BY <1>2 DEF IInv, TypeOK
<1>4. file \in Seq(Frames) /\ pipe \in Seq(Frames) /\ chunk \in Seq(Frames)
    BY DEF IInv, TypeOK
<1>5. Len(file) \in Nat /\ Len(pipe) \in Nat /\ Len(chunk) \in Nat
    BY <1>4
<1> QED
    BY <1>1, <1>2, <1>3, <1>4, <1>5

LEMMA DecodeAtOnceKeeps ==
    ASSUME IInv, DecodeAtOnce
    PROVE  IInv'
<1>1. /\ stage = "decoding" /\ ~Tiled(cfg) /\ group = 1 /\ group' = 2
      /\ chunk' = Buffer(cfg, 1) /\ stage' = "writing"
      /\ cfg' = cfg /\ previous' = previous /\ broken' = broken /\ pipe' = pipe /\ file' = file
      /\ ffmpeg' = ffmpeg /\ reports' = reports
    BY DEF DecodeAtOnce
<1>2. cfg \in Configurations /\ Amount(cfg) = 1 /\ 1 \in 1..Amount(cfg) /\ cfg.latents \in Nat \ {0}
    BY <1>1, Basics DEF Amount
<1>3. previous = NoChunk /\ chunk = <<>>
    BY <1>1 DEF IInv, Held, Phases
<1>4. /\ chunk' \in Seq(Frames) /\ Len(chunk') = cfg.latents * 8 - 7
      /\ \A i \in 1..Len(chunk') : chunk'[i] = Video(cfg, i - 1)
    <2>1. /\ Buffer(cfg, 1) \in Seq(Frames) /\ Len(Buffer(cfg, 1)) = Length(cfg, 1)
          /\ \A i \in 1..Length(cfg, 1) : Buffer(cfg, 1)[i] = {Shown(cfg, 1, i - 1)}
          /\ Length(cfg, 1) = Stop(cfg, 1) - Start(cfg, 1) /\ Length(cfg, 1) \in Nat
        BY <1>2, Buffers
    <2>2. Start(cfg, 1) = 0 /\ Stop(cfg, 1) = cfg.latents * 8 - 7
        BY <1>2, Geometry
    <2>3. ASSUME NEW i \in 1..Length(cfg, 1) PROVE {Shown(cfg, 1, i - 1)} = Video(cfg, i - 1)
        <3>1. Start(cfg, 1) + i - 1 = i - 1 /\ i - 1 \in Int
            BY <2>1, <2>2
        <3>2. Upto(cfg, 1, i - 1) = {Shown(cfg, 1, i - 1)}
            BY <1>2, <3>1, UptoFirst
        <3>3. Upto(cfg, 1, i - 1) = Video(cfg, i - 1)
            BY <1>2, <3>1, UptoAll
        <3> QED
            BY <3>2, <3>3
    <2>4. Len(chunk') = cfg.latents * 8 - 7 /\ Len(chunk') = Length(cfg, 1)
        BY <1>1, <1>2, <2>1, <2>2
    <2>5. \A i \in 1..Len(chunk') : chunk'[i] = Video(cfg, i - 1)
        BY <1>1, <2>1, <2>3, <2>4
    <2> QED
        BY <1>1, <2>1, <2>4, <2>5
<1>5. TypeOK'
    BY <1>1, <1>2, <1>4 DEF IInv, TypeOK
<1>6. Held' /\ Phases'
    BY <1>1, <1>2, <1>3 DEF IInv, Held, Phases, Closed, Alive, AudioOver
<1>7. Ordered'
    <2>1. Len(file) \in Nat /\ Len(pipe) \in Nat
        BY Basics
    <2>2. Alive => Len(file) = 0 /\ Len(pipe) = 0
        BY <1>1, <1>3, <2>1 DEF IInv, Ordered, Yielded
    <2>3. Yielded' = cfg.latents * 8 - 7
        BY <1>1, <1>3 DEF Yielded
    <2>4. Alive' => Len(file') + Len(pipe') + Len(chunk') = Yielded'
        BY <1>1, <1>2, <1>4, <2>2, <2>3 DEF Alive
    <2>5. Alive' => \A i \in 1..Len(chunk') : chunk'[i] = Video(cfg', Len(file') + Len(pipe') + i - 1)
        <3>1. SUFFICES ASSUME Alive, NEW i \in 1..Len(chunk')
              PROVE  chunk'[i] = Video(cfg, Len(file) + Len(pipe) + i - 1)
            BY <1>1 DEF Alive
        <3>2. Len(file) + Len(pipe) + i - 1 = i - 1
            BY <1>2, <1>4, <2>2, <3>1
        <3> QED
            BY <1>4, <3>2
    <2> QED
        BY <1>1, <2>4, <2>5 DEF IInv, Ordered
<1> QED
    BY <1>5, <1>6, <1>7 DEF IInv

LEMMA DecodeFirstKeeps ==
    ASSUME IInv, DecodeFirst
    PROVE  IInv'
<1>1. /\ stage = "decoding" /\ Tiled(cfg) /\ group = 1 /\ group' = 2
      /\ previous' = [start |-> Start(cfg, 1), frames |-> Buffer(cfg, 1)]
      /\ cfg' = cfg /\ chunk' = chunk /\ stage' = stage /\ broken' = broken /\ pipe' = pipe
      /\ file' = file /\ ffmpeg' = ffmpeg /\ reports' = reports
    BY DEF DecodeFirst
<1>2. cfg \in Configurations /\ Amount(cfg) \in Nat \ {0} /\ 1 \in 1..Amount(cfg)
    BY Basics
<1>3. previous = NoChunk /\ chunk = <<>>
    BY <1>1 DEF IInv, Held, Phases
<1>4. /\ Buffer(cfg, 1) \in Seq(Frames) /\ Len(Buffer(cfg, 1)) = Length(cfg, 1)
      /\ \A i \in 1..Length(cfg, 1) : Buffer(cfg, 1)[i] = {Shown(cfg, 1, i - 1)}
      /\ Start(cfg, 1) = 0
    BY <1>2, Buffers, Geometry
<1>5. previous' \in Chunks /\ previous' # NoChunk /\ previous'.start = Start(cfg, 1)
      /\ previous'.frames = Buffer(cfg, 1)
    BY <1>1, <1>4, ConstantsAssumption DEF Chunks
<1>6. TypeOK'
    BY <1>1, <1>2, <1>5 DEF IInv, TypeOK
<1>7. Held'
    <2>1. group' \in 2..(Amount(cfg) + 1) /\ group' - 1 = 1
        BY <1>1, <1>2
    <2>2. \A j \in 1..Length(cfg, 1) : previous'.frames[j] = Upto(cfg, 1, Start(cfg, 1) + j - 1)
        BY <1>2, <1>4, <1>5, UptoFirst
    <2> QED
        BY <1>1, <1>4, <1>5, <2>1, <2>2 DEF Held
<1>8. Phases'
    BY <1>1, <1>5 DEF IInv, Phases, Closed, Alive, AudioOver
<1>9. Ordered'
    <2>1. Yielded = 0 /\ Yielded' = 0
        BY <1>1, <1>3, <1>4, <1>5 DEF Yielded
    <2> QED
        BY <1>1, <2>1 DEF IInv, Ordered, Alive
<1> QED
    BY <1>6, <1>7, <1>8, <1>9 DEF IInv

LEMMA DecodeNextKeeps ==
    ASSUME IInv, DecodeNext
    PROVE  IInv'
<1> DEFINE both == Merge(previous, group, Buffer(cfg, group))
           final == Final(previous, group, both.previous)
<1>1. /\ stage = "decoding" /\ Tiled(cfg) /\ group \in 2..Amount(cfg) /\ group' = group + 1
      /\ previous' = [start |-> Start(cfg, group), frames |-> both.buffer]
      /\ chunk' = final /\ stage' = IF final # <<>> THEN "writing" ELSE "decoding"
      /\ cfg' = cfg /\ broken' = broken /\ pipe' = pipe
      /\ file' = file /\ ffmpeg' = ffmpeg /\ reports' = reports
    BY DEF DecodeNext
<1>2. /\ cfg \in Configurations /\ Amount(cfg) \in Nat \ {0} /\ group \in 1..Amount(cfg)
      /\ group # 1 /\ group # Amount(cfg) + 1 /\ group \in Nat
    BY <1>1, Basics
<1>3. previous # NoChunk /\ previous \in Chunks /\ chunk = <<>>
    BY <1>1, <1>2 DEF IInv, TypeOK, Phases
<1>4. /\ previous.start = Start(cfg, group - 1)
      /\ Len(previous.frames) = Length(cfg, group - 1)
      /\ \A j \in 1..Length(cfg, group - 1) :
             previous.frames[j] = Upto(cfg, group - 1, previous.start + j - 1)
    BY <1>3 DEF IInv, Held
<1>5. /\ both.buffer \in Seq(Frames) /\ Len(both.buffer) = Length(cfg, group)
      /\ \A j \in 1..Length(cfg, group) : both.buffer[j] = Upto(cfg, group, Start(cfg, group) + j - 1)
      /\ final \in Seq(Frames) /\ Len(final) = Start(cfg, group) - previous.start
      /\ \A j \in 1..Len(final) : final[j] = Video(cfg, previous.start + j - 1)
    BY <1>1, <1>2, <1>3, <1>4, Merges
<1> HIDE DEF both, final
<1>6. Start(cfg, group) \in Nat /\ previous.start \in Nat
    <2>1. group - 1 \in 1..Amount(cfg)
        BY <1>1, <1>2
    <2> QED
        BY <1>2, <1>4, <2>1, Geometry
<1>7. previous' \in Chunks /\ previous' # NoChunk /\ previous'.start = Start(cfg, group)
      /\ previous'.frames = both.buffer
    BY <1>1, <1>5, <1>6, ConstantsAssumption DEF Chunks
<1>8. TypeOK'
    <2>1. group' \in 1..(Amount(cfg') + 1)
        BY <1>1, <1>2
    <2> QED
        BY <1>1, <1>5, <1>7, <2>1 DEF IInv, TypeOK
<1>9. Held'
    <2>1. group' \in 2..(Amount(cfg) + 1) /\ group' - 1 = group
        BY <1>1, <1>2
    <2> QED
        BY <1>1, <1>5, <1>7, <2>1 DEF Held
<1>10. Phases'
    BY <1>1, <1>2, <1>7 DEF IInv, Phases, Closed, Alive, AudioOver
<1>11. Ordered'
    <2>1. Yielded = previous.start /\ Yielded' = Start(cfg, group)
        BY <1>3, <1>7 DEF Yielded
    <2>2. Len(file) \in Nat /\ Len(pipe) \in Nat
        BY Basics
    <2>3. Alive => Len(file) + Len(pipe) = previous.start
        BY <1>3, <2>1, <2>2 DEF IInv, Ordered
    <2>4. Alive' => Len(file') + Len(pipe') + Len(chunk') = Yielded'
        BY <1>1, <1>5, <1>6, <2>1, <2>2, <2>3 DEF Alive
    <2>5. Alive' => \A i \in 1..Len(chunk') : chunk'[i] = Video(cfg', Len(file') + Len(pipe') + i - 1)
        BY <1>1, <1>5, <2>3 DEF Alive
    <2> QED
        BY <1>1, <2>4, <2>5 DEF IInv, Ordered
<1> QED
    BY <1>8, <1>9, <1>10, <1>11 DEF IInv

LEMMA YieldLastKeeps ==
    ASSUME IInv, YieldLast
    PROVE  IInv'
<1>1. /\ stage = "decoding" /\ group = Amount(cfg) + 1 /\ previous # NoChunk
      /\ chunk' = previous.frames /\ stage' = "writing" /\ previous' = NoChunk
      /\ cfg' = cfg /\ group' = group /\ broken' = broken /\ pipe' = pipe
      /\ file' = file /\ ffmpeg' = ffmpeg /\ reports' = reports
    BY DEF YieldLast
<1>2. cfg \in Configurations /\ Amount(cfg) \in Nat \ {0} /\ group - 1 = Amount(cfg) /\ group # 1
      /\ Amount(cfg) \in 1..Amount(cfg) /\ cfg.latents \in Nat \ {0}
    BY <1>1, Basics
<1>3. previous \in Chunks /\ previous.frames \in Seq(Frames) /\ chunk = <<>>
    BY <1>1 DEF IInv, TypeOK, Phases, Chunks
<1>4. /\ previous.start = Start(cfg, Amount(cfg))
      /\ Len(previous.frames) = Length(cfg, Amount(cfg))
      /\ \A j \in 1..Length(cfg, Amount(cfg)) :
             previous.frames[j] = Upto(cfg, Amount(cfg), previous.start + j - 1)
    BY <1>1, <1>2 DEF IInv, Held
<1>5. /\ previous.start \in Nat /\ Stop(cfg, Amount(cfg)) = cfg.latents * 8 - 7
      /\ Length(cfg, Amount(cfg)) = Stop(cfg, Amount(cfg)) - previous.start
      /\ Length(cfg, Amount(cfg)) \in Nat
    BY <1>2, <1>4, Geometry, Buffers
<1>6. TypeOK'
    BY <1>1, <1>3 DEF IInv, TypeOK
<1>7. Held' /\ Phases'
    BY <1>1, <1>2 DEF IInv, Held, Phases, Closed, Alive, AudioOver
<1>8. Ordered'
    <2>1. Yielded = previous.start /\ Yielded' = cfg.latents * 8 - 7
        BY <1>1, <1>2 DEF Yielded
    <2>2. Len(file) \in Nat /\ Len(pipe) \in Nat
        BY Basics
    <2>3. Alive => Len(file) + Len(pipe) = previous.start
        BY <1>3, <2>1, <2>2 DEF IInv, Ordered
    <2>4. Alive' => Len(file') + Len(pipe') + Len(chunk') = Yielded'
        BY <1>1, <1>2, <1>4, <1>5, <2>1, <2>2, <2>3 DEF Alive
    <2>5. ASSUME NEW j \in 1..Length(cfg, Amount(cfg))
          PROVE  previous.frames[j] = Video(cfg, previous.start + j - 1)
        <3>1. previous.start + j - 1 \in Int
            BY <1>5
        <3> QED
            BY <1>2, <1>4, <3>1, UptoAll
    <2>6. Alive' => \A i \in 1..Len(chunk') : chunk'[i] = Video(cfg', Len(file') + Len(pipe') + i - 1)
        BY <1>1, <1>4, <2>3, <2>5 DEF Alive
    <2> QED
        BY <1>1, <2>4, <2>6 DEF IInv, Ordered
<1> QED
    BY <1>6, <1>7, <1>8 DEF IInv

\* Heads and tails.
LEMMA Ends ==
    ASSUME NEW T, NEW s \in Seq(T), s # <<>>
    PROVE  /\ Head(s) \in T /\ Head(s) = s[1] /\ Len(s) \in Nat /\ Len(s) >= 1
           /\ Tail(s) \in Seq(T) /\ Len(Tail(s)) = Len(s) - 1
           /\ \A i \in 1..Len(Tail(s)) : Tail(s)[i] = s[i + 1]
OBVIOUS

LEMMA Appended ==
    ASSUME NEW T, NEW s \in Seq(T), NEW e \in T
    PROVE  /\ Append(s, e) \in Seq(T) /\ Len(Append(s, e)) = Len(s) + 1
           /\ \A i \in 1..Len(s) : Append(s, e)[i] = s[i]
           /\ Append(s, e)[Len(s) + 1] = e
OBVIOUS

\* No more is yielded than there is.
LEMMA YieldedBound ==
    ASSUME IInv
    PROVE  Yielded \in Nat /\ Yielded <= cfg.latents * 8 - 7
<1>1. cfg \in Configurations /\ Amount(cfg) \in Nat \ {0} /\ cfg.latents \in Nat \ {0}
    BY Basics
<1>2. CASE previous = NoChunk
    BY <1>1, <1>2 DEF Yielded
<1>3. CASE previous # NoChunk
    <2>1. group \in 2..(Amount(cfg) + 1) /\ previous.start = Start(cfg, group - 1)
        BY <1>3 DEF IInv, Held
    <2>2. PICK t \in 1..Amount(cfg) : t = group - 1
        BY <1>1, <2>1
    <2>3. Start(cfg, t) \in Nat /\ Stop(cfg, t) \in Nat /\ Start(cfg, t) < Stop(cfg, t)
        BY <1>1, Geometry
    <2>4. Stop(cfg, t) <= cfg.latents * 8 - 7
        <3>1. t = Amount(cfg) \/ t < Amount(cfg)
            BY <1>1
        <3>2. Amount(cfg) \in 1..Amount(cfg)
            BY <1>1
        <3> QED
            BY <1>1, <2>3, <3>1, <3>2, Geometry
    <2>5. Yielded = Start(cfg, t)
        BY <1>3, <2>1, <2>2 DEF Yielded
    <2> QED
        BY <1>1, <2>3, <2>4, <2>5
<1> QED
    BY <1>2, <1>3

LEMMA WriteKeeps ==
    ASSUME IInv, Write
    PROVE  IInv'
<1>1. /\ stage = "writing" /\ ~broken /\ chunk # <<>> /\ Alive /\ Len(pipe) < PipeRoom
      /\ pipe' = Append(pipe, Head(chunk)) /\ chunk' = Tail(chunk)
      /\ cfg' = cfg /\ group' = group /\ previous' = previous /\ stage' = stage /\ broken' = broken
      /\ file' = file /\ ffmpeg' = ffmpeg /\ reports' = reports
    BY DEF Write
<1>2. /\ pipe \in Seq(Frames) /\ chunk \in Seq(Frames)
      /\ Len(file) \in Nat /\ Len(pipe) \in Nat /\ Len(chunk) \in Nat
    BY Basics
<1>3. /\ Head(chunk) \in Frames /\ Head(chunk) = chunk[1] /\ Len(chunk) >= 1
      /\ chunk' \in Seq(Frames) /\ Len(chunk') = Len(chunk) - 1
      /\ \A i \in 1..Len(chunk') : chunk'[i] = chunk[i + 1]
    BY <1>1, <1>2, Ends
<1>4. /\ pipe' \in Seq(Frames) /\ Len(pipe') = Len(pipe) + 1
      /\ \A i \in 1..Len(pipe) : pipe'[i] = pipe[i]
      /\ pipe'[Len(pipe) + 1] = chunk[1]
    BY <1>1, <1>2, <1>3, Appended
<1>5. Alive
    BY <1>1
<1>6. TypeOK'
    <2>1. Len(pipe') <= PipeRoom
        BY <1>1, <1>2, <1>4, ConstantsAssumption
    <2> QED
        BY <1>1, <1>3, <1>4, <2>1 DEF IInv, TypeOK
<1>7. Held' /\ Phases'
    BY <1>1 DEF IInv, Held, Phases, Closed, Alive, AudioOver
<1>8. Ordered'
    <2>1. /\ Len(file) + Len(pipe) + Len(chunk) = Yielded
          /\ \A i \in 1..Len(chunk) : chunk[i] = Video(cfg, Len(file) + Len(pipe) + i - 1)
          /\ \A i \in 1..Len(pipe) : pipe[i] = Video(cfg, Len(file) + i - 1)
        BY <1>5 DEF IInv, Ordered
    <2>2. Yielded' = Yielded
        BY <1>1 DEF Yielded
    <2>3. Len(file') + Len(pipe') + Len(chunk') = Yielded'
        BY <1>1, <1>2, <1>3, <1>4, <2>1, <2>2
    <2>4. ASSUME NEW i \in 1..Len(pipe') PROVE pipe'[i] = Video(cfg, Len(file) + i - 1)
        <3>1. CASE i \in 1..Len(pipe)
            BY <1>4, <2>1, <3>1
        <3>2. CASE i = Len(pipe) + 1
            <4>1. 1 \in 1..Len(chunk) /\ Len(file) + Len(pipe) + 1 - 1 = Len(file) + i - 1
                BY <1>2, <1>3, <3>2
            <4> QED
                BY <1>4, <2>1, <3>2, <4>1
        <3> QED
            BY <1>2, <1>4, <3>1, <3>2
    <2>5. ASSUME NEW i \in 1..Len(chunk') PROVE chunk'[i] = Video(cfg, Len(file) + Len(pipe') + i - 1)
        <3>1. i + 1 \in 1..Len(chunk) /\ Len(file) + Len(pipe) + (i + 1) - 1 = Len(file) + Len(pipe') + i - 1
            BY <1>2, <1>3, <1>4
        <3> QED
            BY <1>3, <2>1, <3>1
    <2>6. Len(file') + Len(pipe') <= cfg.latents * 8 - 7
        <3>1. cfg.latents \in Nat /\ Yielded \in Nat /\ Yielded <= cfg.latents * 8 - 7
            BY Basics, YieldedBound
        <3> QED
            BY <1>1, <1>2, <1>3, <1>4, <2>1, <3>1
    <2> QED
        BY <1>1, <2>3, <2>4, <2>5, <2>6 DEF IInv, Ordered
<1> QED
    BY <1>6, <1>7, <1>8 DEF IInv

LEMMA EncodeKeeps ==
    ASSUME IInv, Encode
    PROVE  IInv'
<1>1. /\ ffmpeg = "running" /\ pipe # <<>>
      /\ file' = Append(file, Head(pipe)) /\ pipe' = Tail(pipe)
      /\ ffmpeg' \in {"running", "reporting"} /\ (ffmpeg' = "reporting" => reports < MaxReports)
      /\ cfg' = cfg /\ group' = group /\ previous' = previous /\ stage' = stage /\ broken' = broken
      /\ chunk' = chunk /\ reports' = reports
    BY DEF Encode
<1>2. /\ pipe \in Seq(Frames) /\ file \in Seq(Frames)
      /\ Len(file) \in Nat /\ Len(pipe) \in Nat /\ Len(chunk) \in Nat
    BY Basics
<1>3. /\ Head(pipe) \in Frames /\ Head(pipe) = pipe[1] /\ Len(pipe) >= 1
      /\ pipe' \in Seq(Frames) /\ Len(pipe') = Len(pipe) - 1
      /\ \A i \in 1..Len(pipe') : pipe'[i] = pipe[i + 1]
    BY <1>1, <1>2, Ends
<1>4. /\ file' \in Seq(Frames) /\ Len(file') = Len(file) + 1
      /\ \A i \in 1..Len(file) : file'[i] = file[i]
      /\ file'[Len(file) + 1] = pipe[1]
    BY <1>1, <1>2, <1>3, Appended
<1>5. TypeOK'
    <2>1. Len(pipe') <= PipeRoom
        BY <1>2, <1>3, ConstantsAssumption DEF IInv, TypeOK
    <2> QED
        BY <1>1, <1>3, <1>4, <2>1 DEF IInv, TypeOK
<1>6. Held' /\ Phases'
    BY <1>1 DEF IInv, Held, Phases, Closed, Alive
<1>7. Ordered'
    <2>1. /\ Len(file) + Len(pipe) + Len(chunk) = Yielded
          /\ \A i \in 1..Len(chunk) : chunk[i] = Video(cfg, Len(file) + Len(pipe) + i - 1)
          /\ \A i \in 1..Len(pipe) : pipe[i] = Video(cfg, Len(file) + i - 1)
          /\ \A i \in 1..Len(file) : file[i] = Video(cfg, i - 1)
          /\ Len(file) + Len(pipe) <= cfg.latents * 8 - 7
        BY <1>1 DEF IInv, Ordered, Alive
    <2>2. Yielded' = Yielded
        BY <1>1 DEF Yielded
    <2>3. Len(file') + Len(pipe') = Len(file) + Len(pipe)
        BY <1>2, <1>3, <1>4
    <2>4. ASSUME NEW i \in 1..Len(file') PROVE file'[i] = Video(cfg, i - 1)
        <3>1. CASE i \in 1..Len(file)
            BY <1>4, <2>1, <3>1
        <3>2. CASE i = Len(file) + 1
            <4>1. 1 \in 1..Len(pipe) /\ Len(file) + 1 - 1 = i - 1
                BY <1>2, <1>3, <3>2
            <4> QED
                BY <1>4, <2>1, <3>2, <4>1
        <3> QED
            BY <1>2, <1>4, <3>1, <3>2
    <2>5. ASSUME NEW i \in 1..Len(pipe') PROVE pipe'[i] = Video(cfg, Len(file') + i - 1)
        <3>1. i + 1 \in 1..Len(pipe) /\ Len(file) + (i + 1) - 1 = Len(file') + i - 1
            BY <1>2, <1>3, <1>4
        <3> QED
            BY <1>3, <2>1, <3>1
    <2> QED
        BY <1>1, <2>1, <2>2, <2>3, <2>4, <2>5 DEF Ordered
<1> QED
    BY <1>5, <1>6, <1>7 DEF IInv

\* Without its audio ffmpeg ends after the last frame: the generator has ended
\* (nothing is broken while ffmpeg runs) and nothing is left to write or to read.
LEMMA FinishesWhole ==
    ASSUME IInv, Finish
    PROVE  AudioOver \/ Len(file) = cfg.latents * 8 - 7
<1>1. SUFFICES ASSUME ~AudioOver PROVE Len(file) = cfg.latents * 8 - 7
    OBVIOUS
<1>2. Closed /\ pipe = <<>> /\ Alive
    BY <1>1 DEF Finish, Alive
<1>3. chunk = <<>> /\ previous = NoChunk /\ group = Amount(cfg) + 1
    BY <1>2 DEF IInv, Phases, Closed
<1>4. Amount(cfg) \in Nat \ {0} /\ Len(file) \in Nat /\ cfg.latents \in Nat
    BY Basics
<1>5. Yielded = cfg.latents * 8 - 7
    BY <1>3, <1>4 DEF Yielded
<1>6. Len(file) + Len(pipe) + Len(chunk) = Yielded
    BY <1>2 DEF IInv, Ordered
<1> QED
    BY <1>2, <1>3, <1>4, <1>5, <1>6

\* The steps that move no frame towards the file.
LEMMA OthersKeep ==
    ASSUME IInv,
           WriteFails \/ NextChunk \/ GiveUp \/ Close \/ Return \/ Report \/ Finish \/ Die
    PROVE  IInv'
<1> DEFINE same == cfg' = cfg /\ group' = group /\ previous' = previous /\ file' = file
<1>1. same
    BY DEF WriteFails, NextChunk, GiveUp, Close, Return, Report, Finish, Die
<1>2. <<>> \in Seq(Frames) /\ Len(<<>>) = 0 /\ PipeRoom \in Nat
    BY ConstantsAssumption
<1>3. TypeOK'
    <2>1. CASE WriteFails \/ NextChunk \/ GiveUp \/ Close \/ Return
        BY <1>1, <1>2, <2>1 DEF IInv, TypeOK, WriteFails, NextChunk, GiveUp, Close, Return
    <2>2. CASE Report
        <3>1. reports' = reports + 1 /\ reports < StderrRoom /\ reports < MaxReports
            BY <2>2 DEF Report, IInv, Phases
        <3>2. reports' \in 0..Smaller(StderrRoom, MaxReports)
            BY <3>1, ConstantsAssumption DEF IInv, TypeOK, Smaller
        <3> QED
            BY <2>2, <3>2 DEF IInv, TypeOK, Report
    <2>3. CASE Finish \/ Die
        <3>1. pipe' = <<>>
            BY <2>3 DEF Finish, Die
        <3>2. /\ ffmpeg' \in {"running", "reporting", "ended", "died"}
              /\ chunk' = chunk /\ stage' = stage /\ broken' = broken /\ reports' = reports
            BY <2>3 DEF Finish, Die
        <3> QED
            BY <1>1, <1>2, <3>1, <3>2 DEF IInv, TypeOK
    <2> QED
        BY <2>1, <2>2, <2>3
<1>4. Held'
    BY <1>1 DEF IInv, Held
<1>5. Phases'
    <2>1. CASE WriteFails
        BY <1>1, <2>1 DEF IInv, TypeOK, Phases, Closed, WriteFails, Alive, AudioOver
    <2>2. CASE NextChunk
        BY <1>1, <2>2 DEF IInv, TypeOK, Phases, Closed, NextChunk, Alive, AudioOver
    <2>3. CASE GiveUp
        BY <1>1, <2>3 DEF IInv, TypeOK, Phases, Closed, GiveUp, Alive, AudioOver
    <2>4. CASE Close
        BY <1>1, <2>4, Basics DEF IInv, TypeOK, Phases, Closed, Close, Alive, AudioOver
    <2>5. CASE Return
        BY <1>1, <2>5 DEF IInv, TypeOK, Phases, Closed, Return, Alive, AudioOver
    <2>6. CASE Report \/ Die
        BY <1>1, <2>6 DEF IInv, TypeOK, Phases, Closed, Report, Die, Alive, AudioOver
    <2>7. CASE Finish
        <3>1. AudioOver \/ Len(file) = cfg.latents * 8 - 7
            BY <2>7, FinishesWhole
        <3> QED
            BY <1>1, <2>7, <3>1 DEF IInv, TypeOK, Phases, Closed, Finish, Alive, AudioOver
    <2> QED
        BY <2>1, <2>2, <2>3, <2>4, <2>5, <2>6, <2>7
<1>6. Ordered'
    <2>1. Yielded' = Yielded
        BY <1>1 DEF Yielded
    <2>2. CASE WriteFails \/ GiveUp
        <3>1. ~Alive' /\ pipe' = pipe
            BY <2>2 DEF IInv, Phases, WriteFails, GiveUp, Alive
        <3> QED
            BY <1>1, <3>1 DEF IInv, Ordered
    <2>3. CASE NextChunk \/ Close \/ Return \/ Report
        <3>1. pipe' = pipe /\ chunk' = chunk /\ (Alive' => Alive)
            BY <2>3 DEF NextChunk, Close, Return, Report, Alive
        <3> QED
            BY <1>1, <2>1, <3>1 DEF IInv, Ordered
    <2>4. CASE Finish \/ Die
        <3>1. ~Alive' /\ pipe' = <<>> /\ Len(pipe') = 0
            BY <1>2, <2>4 DEF Finish, Die, Alive
        <3>2. Len(file') + Len(pipe') <= cfg'.latents * 8 - 7
            BY <1>1, <3>1, Basics DEF IInv, Ordered
        <3> QED
            BY <1>1, <3>1, <3>2 DEF IInv, Ordered
    <2> QED
        BY <2>2, <2>3, <2>4
<1> QED
    BY <1>3, <1>4, <1>5, <1>6 DEF IInv

LEMMA StutterKeeps ==
    ASSUME IInv, UNCHANGED vars
    PROVE  IInv'
<1>1. /\ cfg' = cfg /\ group' = group /\ previous' = previous /\ chunk' = chunk /\ stage' = stage
      /\ broken' = broken /\ pipe' = pipe /\ file' = file /\ ffmpeg' = ffmpeg /\ reports' = reports
    BY DEF vars
<1>2. TypeOK'
    BY <1>1 DEF IInv, TypeOK
<1>3. Held' /\ Phases'
    BY <1>1 DEF IInv, Held, Phases, Closed, Alive, AudioOver
<1>4. Ordered'
    BY <1>1 DEF IInv, Ordered, Yielded, Alive
<1> QED
    BY <1>2, <1>3, <1>4 DEF IInv

THEOREM Invariance == Spec => []IInv
<1>1. ASSUME IInv, Next PROVE IInv'
    BY <1>1, DecodeAtOnceKeeps, DecodeFirstKeeps, DecodeNextKeeps, YieldLastKeeps, WriteKeeps,
       EncodeKeeps, OthersKeep
    DEF Next, Producer, Encoder
<1>2. IInv /\ [Next]_vars => IInv'
    BY <1>1, StutterKeeps
<1> QED
    BY Initially, <1>2, PTL DEF Spec

-----------------------------------------------------------------------------
\* The type invariant holds for every budget, frame rate and length.
THEOREM TypeCorrect == Spec => []TypeOK
<1>1. IInv => TypeOK
    BY DEF IInv
<1> QED
    BY <1>1, Invariance, PTL

\* What is written to ffmpeg is, frame by frame, the sum of all tiles, also when
\* ffmpeg dies in between.
THEOREM WritesTheVideo == Spec => []Exact
<1>1. ASSUME IInv PROVE Exact
    <2>1. file \in Seq(Frames) /\ pipe \in Seq(Frames) /\ Len(file) \in Nat /\ Len(pipe) \in Nat
        BY <1>1, Basics
    <2>2. /\ \A i \in 1..Len(file) : file[i] = Video(cfg, i - 1)
          /\ \A i \in 1..Len(pipe) : pipe[i] = Video(cfg, Len(file) + i - 1)
        BY <1>1 DEF IInv, Ordered
    <2> DEFINE written == file \o pipe
    <2>3. /\ Len(written) = Len(file) + Len(pipe)
          /\ \A j \in 1..Len(file) : written[j] = file[j]
          /\ \A j \in 1..Len(pipe) : written[Len(file) + j] = pipe[j]
        BY <2>1, Joined
    <2> HIDE DEF written
    <2>4. ASSUME NEW i \in 1..Len(written) PROVE written[i] = Video(cfg, i - 1)
        <3>1. CASE i \in 1..Len(file)
            BY <2>2, <2>3, <3>1
        <3>2. CASE i \notin 1..Len(file)
            <4>1. PICK j \in 1..Len(pipe) : i = Len(file) + j
                <5>1. i - Len(file) \in 1..Len(pipe) /\ i = Len(file) + (i - Len(file))
                    BY <2>1, <2>3, <3>2
                <5> QED
                    BY <5>1
            <4> QED
                BY <2>2, <2>3, <4>1
        <3> QED
            BY <3>1, <3>2
    <2> QED
        BY <2>4 DEF Exact, written
<1> QED
    BY <1>1, Invariance, PTL

\* A file that ffmpeg has ended has all the frames of the video, or as many as
\* its audio lasts for (vae_mlx.py: -shortest, and the warning for a missing frame).
THEOREM FilesAreWhole == Spec => []Whole
<1>1. ASSUME IInv, ffmpeg = "ended" PROVE Len(file) >= Smaller(cfg.heard, cfg.latents * 8 - 7)
    <2>1. AudioOver \/ Len(file) = cfg.latents * 8 - 7
        BY <1>1 DEF IInv, Phases
    <2>2. cfg \in Configurations /\ Len(file) \in Nat /\ cfg.latents \in Nat
        BY <1>1, Basics
    <2>3. cfg.heard \in Nat
        BY <2>2, ConstantsAssumption DEF Configurations
    <2> QED
        BY <2>1, <2>2, <2>3 DEF AudioOver, Smaller
<1>2. IInv => Whole
    BY <1>1 DEF Whole
<1> QED
    BY <1>2, Invariance, PTL

\* What ffmpeg gets is the video, frame by frame; what it ends with is all of it, or what
\* of it can be heard.
THEOREM FileIsVideo == Spec => []FileIsTheVideo
<1>1. Exact /\ Whole <=> FileIsTheVideo
    BY DEF FileIsTheVideo
<1> QED
    BY <1>1, WritesTheVideo, FilesAreWhole, PTL

\* At most two tiles meet in a frame, their weights add up to one, and the
\* first frame of a later tile is not seen.
THEOREM NoSeams == Spec => []Seamless
<1>1. ASSUME IInv PROVE Seamless
    <2>1. SUFFICES ASSUME NEW i \in 1..Len(file)
          PROVE  /\ \E s, r \in file[i] :
                       /\ file[i] = {s, r}
                       /\ (IF s = r THEN s.weight ELSE s.weight + r.weight) = Unit(cfg) * Unit(cfg)
                 /\ \A s \in file[i] :
                       /\ s.at = i - 1
                       /\ s.tile > 1 /\ s.at = Start(cfg, s.tile) => s.weight = 0
        BY DEF Seamless
    <2>2. /\ cfg \in Configurations /\ cfg.latents \in Nat
          /\ Len(file) \in Nat /\ Len(pipe) \in Nat
        BY <1>1, Basics
    <2>3. file[i] = Video(cfg, i - 1) /\ Len(file) + Len(pipe) <= cfg.latents * 8 - 7
        BY <1>1, <2>1 DEF IInv, Ordered
    <2>4. i - 1 \in Nat /\ i - 1 < cfg.latents * 8 - 7
        BY <2>1, <2>2, <2>3
    <2> HIDE DEF Seamless
    <2> QED
        BY <2>2, <2>3, <2>4, Crossfades
<1> QED
    BY <1>1, Invariance, PTL

\* ffmpeg begins a line of status only while one is due.
Due == ffmpeg = "reporting" => reports < MaxReports

LEMMA DueKeeps == ASSUME Due, [Next]_vars PROVE Due'
<1>1. CASE Encode
    BY <1>1 DEF Encode, Due
<1>2. CASE Report \/ Finish \/ Die
    BY <1>2 DEF Report, Finish, Die, Due
<1>3. CASE Producer
    BY <1>3 DEF Producer, DecodeAtOnce, DecodeFirst, DecodeNext, YieldLast, Write, WriteFails,
       NextChunk, GiveUp, Close, Return, Due
<1>4. CASE UNCHANGED vars
    BY <1>4 DEF vars, Due
<1> QED
    BY <1>1, <1>2, <1>3, <1>4 DEF Next, Encoder

\* decode_and_stream and ffmpeg never wait for each other as long as what ffmpeg writes to
\* its standard error, which nobody reads (vae_mlx.py, decode_and_stream), fits the pipe:
\* a full pipe of frames leaves ffmpeg a frame to encode, and a closed one its end.
THEOREM NoStandstill == Spec => []NoMutualWait
<1>1. Init => Due
    BY DEF Init, Due
<1>2. Due /\ [Next]_vars => Due'
    BY DueKeeps
<1>3. ASSUME IInv, Due PROVE NoMutualWait
    <2> SUFFICES ASSUME MaxReports <= StderrRoom, WaitsForFfmpeg, FfmpegWaits PROVE FALSE
        BY DEF NoMutualWait
    <2>1. reports \in Nat /\ MaxReports \in Nat /\ StderrRoom \in Nat /\ PipeRoom \in Nat \ {0}
        BY <1>3, ConstantsAssumption DEF IInv, TypeOK
    <2>2. CASE ffmpeg = "reporting" /\ reports >= StderrRoom
        BY <1>3, <2>1, <2>2 DEF Due
    <2>3. CASE ffmpeg = "running" /\ pipe = <<>> /\ ~Closed
        <3>1. stage # "waiting" /\ Len(pipe) = PipeRoom
            BY <2>3 DEF WaitsForFfmpeg, Closed
        <3>2. Len(<<>>) = 0
            OBVIOUS
        <3> QED
            BY <2>1, <2>3, <3>1, <3>2
    <2> QED
        BY <2>2, <2>3 DEF FfmpegWaits
<1> QED
    BY <1>1, <1>2, <1>3, Invariance, PTL DEF Spec

=============================================================================
