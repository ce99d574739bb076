---------------------------- MODULE AuxPowProofs ----------------------------
(***************************************************************************)
(* Merged mining counts the work of a parent block once per chain: proofs  *)
(* about AuxPow.                                                           *)
(***************************************************************************)
EXTENDS AuxPow, NatFacts

-----------------------------------------------------------------------------
(* Offsets in a script *)

\* g is the table that WidthUpTo defines by recursion.
IsWidthUpTo(g, script, n) ==
    g = [m \in 0 .. n |-> IF m = 0 THEN 0 ELSE g[m - 1] + script[m].width]

\* There is one for every length.
LEMMA WidthExists ==
    ASSUME NEW script, Len(script) \in Nat
    PROVE  \E g : IsWidthUpTo(g, script, Len(script))
<1> DEFINE S == {n \in Nat : \E g : IsWidthUpTo(g, script, n)}
<1>1. 0 \in S
  <2> DEFINE g == [m \in 0 .. 0 |-> 0]
  <2>1. IsWidthUpTo(g, script, 0)
    BY DEF IsWidthUpTo
  <2> QED BY <2>1
<1>2. ASSUME NEW n \in Nat, n \in S PROVE n + 1 \in S
  <2>1. PICK g : IsWidthUpTo(g, script, n)
    BY <1>2
  <2> DEFINE last == g[n] + script[n + 1].width
             h == [m \in 0 .. n + 1 |-> IF m = n + 1 THEN last ELSE g[m]]
  <2>2. \A m \in 0 .. n : g[m] = IF m = 0 THEN 0 ELSE g[m - 1] + script[m].width
    BY <2>1 DEF IsWidthUpTo
  <2>3. ASSUME NEW m \in 0 .. n + 1
        PROVE  h[m] = IF m = 0 THEN 0 ELSE h[m - 1] + script[m].width
    <3>1. CASE m = n + 1
      <4>1. m - 1 = n /\ m # 0
        BY <3>1
      <4>2. h[n] = g[n] /\ h[m] = last
        BY <3>1
      <4> QED BY <3>1, <4>1, <4>2
    <3>2. CASE m # n + 1
      <4>1. m \in 0 .. n
        BY <3>2
      <4>2. h[m] = g[m] /\ (m > 0 => h[m - 1] = g[m - 1])
        BY <4>1
      <4> QED BY <2>2, <4>1, <4>2
    <3> QED BY <3>1, <3>2
  <2>4. IsWidthUpTo(h, script, n + 1)
    <3>1. h = [m \in 0 .. n + 1 |-> h[m]]
      OBVIOUS
    <3> HIDE DEF h
    <3> QED BY <2>3, <3>1 DEF IsWidthUpTo
  <2> QED BY <2>4
<1>3. Nat \subseteq S
  <2> HIDE DEF S
  <2> QED BY <1>1, <1>2, NatInd
<1> QED BY <1>3

\* So WidthUpTo is one.
LEMMA WidthUnfold ==
    ASSUME NEW script, Len(script) \in Nat
    PROVE  IsWidthUpTo(WidthUpTo(script), script, Len(script))
<1> DEFINE P(g) == IsWidthUpTo(g, script, Len(script))
<1>1. WidthUpTo(script) = CHOOSE g : P(g)
  BY Zenon DEF WidthUpTo, IsWidthUpTo
<1>2. \E g : P(g)
  BY WidthExists
<1> HIDE DEF P
<1>3. P(CHOOSE g : P(g))
  BY <1>2, Zenon
<1> QED BY <1>1, <1>3, Zenon DEF P

\* Every item has a width: a script of items, as ParentAssumption has it.
IsScript(script) ==
    /\ Len(script) \in Nat /\ DOMAIN script = 1 .. Len(script)
    /\ \A k \in DOMAIN script : IsItem(script[k])

LEMMA ItemWidth ==
    ASSUME NEW x, IsItem(x)
    PROVE  x.width \in Nat /\ x.value \in Nat
  BY RootAssumption, WordAssumption, BranchAssumption
     DEF IsItem, MERGED_MINING_HEADER, RootBytes, Word

\* The offset of the item after item i is that of i and its width.
LEMMA OffsetStep ==
    ASSUME NEW script, IsScript(script)
    PROVE  /\ Offset(script, 1) = 0
           /\ \A i \in 1 .. Len(script) :
                Offset(script, i + 1) = Offset(script, i) + script[i].width
<1>1. WidthUpTo(script) = [m \in 0 .. Len(script) |->
                             IF m = 0 THEN 0 ELSE WidthUpTo(script)[m - 1] + script[m].width]
  BY WidthUnfold DEF IsWidthUpTo, IsScript
<1> DEFINE g == WidthUpTo(script)
<1> HIDE DEF g
<1>2. Len(script) \in Nat
  BY DEF IsScript
<1>3. \A m \in 0 .. Len(script) : g[m] = IF m = 0 THEN 0 ELSE g[m - 1] + script[m].width
  BY <1>1 DEF g
<1>4. \A i : Offset(script, i) = g[i - 1]
  BY DEF Offset, g
<1>5. g[0] = 0
  BY <1>2, <1>3
<1>6. ASSUME NEW i \in 1 .. Len(script)
      PROVE  Offset(script, i + 1) = Offset(script, i) + script[i].width
  <2>1. (i + 1) - 1 = i /\ i \in 0 .. Len(script) /\ i # 0
    BY <1>2
  <2> QED BY <1>3, <1>4, <2>1, Zenon
<1> QED BY <1>4, <1>5, <1>6

\* Offsets are natural numbers and grow.
LEMMA OffsetGrows ==
    ASSUME NEW script, IsScript(script), NEW i \in 1 .. Len(script)
    PROVE  \A j \in i + 1 .. Len(script) + 1 :
              /\ Offset(script, i) \in Nat /\ Offset(script, j) \in Nat
              /\ Offset(script, i) + script[i].width <= Offset(script, j)
<1> DEFINE N == Len(script)
           O(j) == Offset(script, j)
           S == {n \in Nat : n <= N => O(n + 1) \in Nat}
           T == {n \in Nat : i + 1 + n <= N + 1 => O(i) + script[i].width <= O(i + 1 + n)}
<1>1. N \in Nat /\ \A k \in 1 .. N : IsItem(script[k])
  BY DEF IsScript
<1>2. \A k \in 1 .. N : script[k].width \in Nat
  BY <1>1, ItemWidth
<1>3. O(1) = 0 /\ \A k \in 1 .. N : O(k + 1) = O(k) + script[k].width
  BY OffsetStep
<1> HIDE DEF O
<1>4. 0 \in S
  BY <1>3
<1>5. ASSUME NEW n \in Nat, n \in S PROVE n + 1 \in S
  <2> SUFFICES ASSUME n + 1 <= N
               PROVE  O((n + 1) + 1) \in Nat
    OBVIOUS
  <2>1. O(n + 1) \in Nat /\ n + 1 \in 1 .. N
    BY <1>1, <1>5
  <2> QED BY <1>2, <1>3, <2>1
<1>6. Nat \subseteq S
  <2> HIDE DEF S
  <2> QED BY <1>4, <1>5, NatInd
<1>7. \A k \in 1 .. N + 1 : O(k) \in Nat
  <2> TAKE k \in 1 .. N + 1
  <2>1. k - 1 \in Nat /\ k - 1 <= N /\ (k - 1) + 1 = k
    BY <1>1
  <2>2. k - 1 \in S
    <3> HIDE DEF S
    <3> QED BY <1>6, <2>1
  <2> QED BY <2>1, <2>2
<1>8. 0 \in T
  BY <1>1, <1>3, <1>2, <1>7
<1>9. ASSUME NEW n \in Nat, n \in T PROVE n + 1 \in T
  <2> SUFFICES ASSUME i + 1 + (n + 1) <= N + 1
               PROVE  O(i) + script[i].width <= O(i + 1 + (n + 1))
    OBVIOUS
  <2>1. i + 1 + n \in 1 .. N /\ i + 1 + (n + 1) = (i + 1 + n) + 1 /\ i \in 1 .. N + 1
    BY <1>1
  <2>2. O((i + 1 + n) + 1) = O(i + 1 + n) + script[i + 1 + n].width
    BY <1>3, <2>1
  <2>3. O(i) + script[i].width <= O(i + 1 + n)
    BY <1>9, <2>1
  <2>4. script[i + 1 + n].width \in Nat /\ O(i + 1 + n) \in Nat /\ O(i) \in Nat /\ script[i].width \in Nat
    BY <1>1, <1>2, <1>7, <2>1
  <2>5. O(i + 1 + (n + 1)) = O(i + 1 + n) + script[i + 1 + n].width
    BY <2>1, <2>2
  <2> DEFINE a == O(i)
             w == script[i].width
             b == O(i + 1 + n)
             v == script[i + 1 + n].width
  <2>6. a \in Nat /\ w \in Nat /\ b \in Nat /\ v \in Nat /\ a + w <= b
    BY <2>3, <2>4
  <2> HIDE DEF a, w, b, v
  <2>7. a + w <= b + v
    BY <2>6
  <2> QED BY <2>5, <2>7 DEF a, w, b, v
<1>10. Nat \subseteq T
  <2> HIDE DEF T
  <2> QED BY <1>8, <1>9, NatInd
<1> SUFFICES ASSUME NEW j \in i + 1 .. N + 1
             PROVE  O(i) \in Nat /\ O(j) \in Nat /\ O(i) + script[i].width <= O(j)
  BY DEF O
<1>11. j - (i + 1) \in Nat /\ i + 1 + (j - (i + 1)) = j /\ i \in 1 .. N + 1 /\ j \in 1 .. N + 1 /\ j <= N + 1
  BY <1>1
<1>12. j - (i + 1) \in T
  <2> HIDE DEF T
  <2> QED BY <1>10, <1>11
<1> QED BY <1>7, <1>11, <1>12, Zenon

-----------------------------------------------------------------------------
(* Merkle branches *)

\* g is the table that MerkleUpTo defines by recursion.
IsMerkleUpTo(g, hash, branch, index, n) ==
    g = [m \in 0 .. n |->
            IF m = 0 THEN [hash |-> hash, index |-> index]
            ELSE [hash |-> IF g[m - 1].index % 2 = 1 THEN HashPair(branch[m], g[m - 1].hash)
                           ELSE HashPair(g[m - 1].hash, branch[m]),
                  index |-> g[m - 1].index \div 2]]

\* One turn of the loop of compute_merkle_root.
Turn(at, sibling) ==
    [hash |-> IF at.index % 2 = 1 THEN HashPair(sibling, at.hash) ELSE HashPair(at.hash, sibling),
     index |-> at.index \div 2]

\* There is one for every length.
LEMMA MerkleExists ==
    ASSUME NEW hash, NEW branch, NEW index, Len(branch) \in Nat
    PROVE  \E g : IsMerkleUpTo(g, hash, branch, index, Len(branch))
<1> DEFINE first == [hash |-> hash, index |-> index]
           Is(g, n) == g = [m \in 0 .. n |-> IF m = 0 THEN first ELSE Turn(g[m - 1], branch[m])]
           S == {n \in Nat : \E g : Is(g, n)}
<1>1. 0 \in S
  <2> DEFINE g == [m \in 0 .. 0 |-> first]
  <2>1. Is(g, 0)
    OBVIOUS
  <2> QED BY <2>1, Zenon
<1>2. ASSUME NEW n \in Nat, n \in S PROVE n + 1 \in S
  <2>1. PICK g : Is(g, n)
    BY <1>2
  <2> DEFINE last == Turn(g[n], branch[n + 1])
             h == [m \in 0 .. n + 1 |-> IF m = n + 1 THEN last ELSE g[m]]
  <2>2. \A m \in 0 .. n : g[m] = IF m = 0 THEN first ELSE Turn(g[m - 1], branch[m])
    BY <2>1
  <2>3. ASSUME NEW m \in 0 .. n + 1
        PROVE  h[m] = IF m = 0 THEN first ELSE Turn(h[m - 1], branch[m])
    <3>1. CASE m = n + 1
      <4>1. m - 1 = n /\ m # 0
        BY <3>1
      <4>2. h[n] = g[n] /\ h[m] = last
        BY <3>1
      <4> QED BY <3>1, <4>1, <4>2
    <3>2. CASE m # n + 1
      <4>1. m \in 0 .. n
        BY <3>2
      <4>2. h[m] = g[m] /\ (m > 0 => h[m - 1] = g[m - 1])
        BY <4>1
      <4> QED BY <2>2, <4>1, <4>2
    <3> QED BY <3>1, <3>2
  <2>4. Is(h, n + 1)
    <3>1. h = [m \in 0 .. n + 1 |-> h[m]]
      OBVIOUS
    <3> HIDE DEF h
    <3> QED BY <2>3, <3>1, Zenon
  <2> HIDE DEF h, Is
  <2> QED BY <2>4
<1>3. Len(branch) \in S
  <2>1. Nat \subseteq S
    <3> HIDE DEF S
    <3> QED BY <1>1, <1>2, NatInd
  <2> QED BY <2>1
<1>4. \A g : Is(g, Len(branch)) => IsMerkleUpTo(g, hash, branch, index, Len(branch))
  BY Zenon DEF IsMerkleUpTo, Turn
<1> QED BY <1>3, <1>4

\* So MerkleUpTo is one: every turn comes from the one before it.
LEMMA MerkleTurns ==
    ASSUME NEW hash, NEW branch, NEW index, Len(branch) \in Nat
    PROVE  LET at == MerkleUpTo(hash, branch, index)
           IN  /\ at[0] = [hash |-> hash, index |-> index]
               /\ \A m \in 1 .. Len(branch) : at[m] = Turn(at[m - 1], branch[m])
<1> DEFINE P(g) == IsMerkleUpTo(g, hash, branch, index, Len(branch))
           at == MerkleUpTo(hash, branch, index)
<1>1. at = CHOOSE g : P(g)
  BY Zenon DEF MerkleUpTo, IsMerkleUpTo
<1>2. \E g : P(g)
  BY MerkleExists
<1> HIDE DEF P
<1>3. P(CHOOSE g : P(g))
  BY <1>2, Zenon
<1>4. P(at)
  BY <1>1, <1>3, Zenon
<1> HIDE DEF at
<1>5. at = [m \in 0 .. Len(branch) |-> IF m = 0 THEN [hash |-> hash, index |-> index]
                                       ELSE Turn(at[m - 1], branch[m])]
  BY <1>4, Zenon DEF P, IsMerkleUpTo, Turn
<1>6. \A m \in 0 .. Len(branch) : at[m] = IF m = 0 THEN [hash |-> hash, index |-> index]
                                         ELSE Turn(at[m - 1], branch[m])
  BY <1>5
<1>7. 0 \in 0 .. Len(branch) /\ \A m \in 1 .. Len(branch) : m \in 0 .. Len(branch) /\ m # 0
  OBVIOUS
<1> QED BY <1>6, <1>7, Zenon DEF at

\* One turn with the same index loses nothing of the hash.
LEMMA TurnInjective ==
    ASSUME NEW h1, NEW h2, NEW i, NEW s1, NEW s2,
           Turn([hash |-> h1, index |-> i], s1) = Turn([hash |-> h2, index |-> i], s2)
    PROVE  h1 = h2
<1>1. CASE i % 2 = 1
  <2>1. HashPair(s1, h1) = HashPair(s2, h2)
    BY <1>1 DEF Turn
  <2> QED BY <2>1 DEF HashPair
<1>2. CASE i % 2 # 1
  <2>1. HashPair(h1, s1) = HashPair(h2, s2)
    BY <1>2 DEF Turn
  <2> QED BY <2>1 DEF HashPair
<1> QED BY <1>1, <1>2

\* Two branches of one length that lead to the same root from the same index
\* start from the same hash.
LEMMA RootInjective ==
    ASSUME NEW h1, NEW b1, NEW h2, NEW b2, NEW index, Len(b1) \in Nat, Len(b2) = Len(b1),
           compute_merkle_root(h1, b1, index) = compute_merkle_root(h2, b2, index)
    PROVE  h1 = h2
<1> DEFINE N == Len(b1)
           f == MerkleUpTo(h1, b1, index)
           g == MerkleUpTo(h2, b2, index)
           At(t, m) == t[m] = [hash |-> t[m].hash, index |-> f[m].index]
           S == {n \in Nat : n <= N => At(f, n) /\ At(g, n)}
           T == {n \in Nat : n <= N => f[N - n].hash = g[N - n].hash}
<1>1. /\ f[0] = [hash |-> h1, index |-> index] /\ g[0] = [hash |-> h2, index |-> index]
      /\ \A m \in 1 .. N : f[m] = Turn(f[m - 1], b1[m]) /\ g[m] = Turn(g[m - 1], b2[m])
  BY MerkleTurns
<1>2. f[N].hash = g[N].hash
  BY DEF compute_merkle_root
<1> HIDE DEF f, g
<1>3. 0 \in S
  BY <1>1
<1>4. ASSUME NEW n \in Nat, n \in S PROVE n + 1 \in S
  <2> SUFFICES ASSUME n + 1 <= N
               PROVE  At(f, n + 1) /\ At(g, n + 1)
    OBVIOUS
  <2>1. n + 1 \in 1 .. N /\ (n + 1) - 1 = n /\ n <= N
    OBVIOUS
  <2>2. f[n + 1] = Turn(f[n], b1[n + 1]) /\ g[n + 1] = Turn(g[n], b2[n + 1])
    BY <1>1, <2>1
  <2>3. f[n].index = g[n].index
    <3>1. At(g, n)
      BY <1>4, <2>1
    <3> QED BY <3>1
  <2> QED BY <2>2, <2>3 DEF Turn
<1>5. Nat \subseteq S
  <2> HIDE DEF S
  <2> QED BY <1>3, <1>4, NatInd
<1>6. 0 \in T
  BY <1>2
<1>7. ASSUME NEW n \in Nat, n \in T PROVE n + 1 \in T
  <2> SUFFICES ASSUME n + 1 <= N
               PROVE  f[N - (n + 1)].hash = g[N - (n + 1)].hash
    OBVIOUS
  <2> DEFINE m == N - n
  <2>1. m \in 1 .. N /\ m - 1 = N - (n + 1) /\ m - 1 \in Nat /\ m - 1 <= N /\ n <= N /\ m \in Nat /\ m <= N
    OBVIOUS
  <2>2. f[m].hash = g[m].hash
    BY <1>7, <2>1
  <2> HIDE DEF m
  <2>3. m - 1 \in S /\ m \in S
    <3> HIDE DEF S
    <3> QED BY <1>5, <2>1
  <2>4. At(f, m - 1) /\ At(g, m - 1) /\ At(f, m) /\ At(g, m)
    BY <2>1, <2>3
  <2>5. f[m] = g[m]
    BY <2>2, <2>4, Zenon
  <2>6. Turn(f[m - 1], b1[m]) = Turn(g[m - 1], b2[m])
    BY <1>1, <2>1, <2>5
  <2>7. f[m - 1].hash = g[m - 1].hash
    <3> DEFINE x == f[m - 1].hash
               y == g[m - 1].hash
               i == f[m - 1].index
    <3>1. Turn([hash |-> x, index |-> i], b1[m]) = Turn([hash |-> y, index |-> i], b2[m])
      BY <2>4, <2>6, Zenon
    <3> HIDE DEF x, y, i
    <3>2. x = y
      BY <3>1, TurnInjective
    <3> QED BY <3>2 DEF x, y
  <2> QED BY <2>1, <2>7
<1>8. N \in T
  <2>1. Nat \subseteq T
    <3> HIDE DEF T
    <3> QED BY <1>6, <1>7, NatInd
  <2> QED BY <2>1
<1>9. f[0].hash = g[0].hash
  BY <1>8
<1> QED BY <1>1, <1>9

-----------------------------------------------------------------------------
(* Slots *)

LEMMA Pow2Table == IsPlaceTable(Pow2, 2, MaxBranch)
  BY BranchAssumption DEF IsPlaceTable

LEMMA Pow2Positive == \A n \in 0 .. MaxBranch : Pow2[n] \in Nat /\ Pow2[n] > 0
  BY Pow2Table, PlacePositive

\* The height of a tree follows from its size.
LEMMA Pow2Injective ==
    ASSUME NEW m \in 0 .. MaxBranch, NEW n \in 0 .. MaxBranch, Pow2[m] = Pow2[n]
    PROVE  m = n
<1>1. ASSUME NEW a \in 0 .. MaxBranch, NEW b \in 0 .. MaxBranch, a < b
      PROVE  Pow2[a] < Pow2[b]
  <2>1. a \in Nat /\ b \in Nat /\ a + 1 \in Nat /\ a + 1 <= b /\ b <= MaxBranch /\ a \in 0 .. MaxBranch - 1
    BY <1>1, BranchAssumption
  <2>2. Pow2[a + 1] <= Pow2[b]
    BY <2>1, Pow2Table, PlaceMono
  <2>3. Pow2[a + 1] = 2 * Pow2[a] /\ Pow2[a] \in Nat /\ Pow2[a] > 0 /\ Pow2[b] \in Nat
    BY <2>1, BranchAssumption, Pow2Positive
  <2> QED BY <2>2, <2>3
<1>2. Pow2[m] \in Nat /\ Pow2[n] \in Nat /\ m \in Nat /\ n \in Nat
  BY Pow2Positive, BranchAssumption
<1>3. ~(m < n) /\ ~(n < m)
  BY <1>1, <1>2
<1> QED BY <1>2, <1>3

Divides(q, x) == \E t \in Int : x = q * t

\* A remainder differs from the number by a multiple of the modulus.
LEMMA RemainderDiffers ==
    ASSUME NEW y \in Int, NEW q \in Nat, q > 0
    PROVE  y % q \in Nat /\ \E t \in Int : y % q = y - q * t
<1>1. y \div q \in Int /\ y % q \in 0 .. q - 1 /\ y = q * (y \div q) + (y % q)
  OBVIOUS
<1> DEFINE d == y \div q
           r == y % q
<1> HIDE DEF d, r
<1>2. d \in Int /\ r \in Nat /\ y = q * d + r
  BY <1>1 DEF d, r
<1>3. q * d \in Int
  BY <1>2
<1>4. r = y - q * d
  BY <1>2, <1>3
<1> QED BY <1>2, <1>4 DEF r

\* What is divided leaves no remainder.
LEMMA DividedLeavesNone ==
    ASSUME NEW x \in Int, NEW q \in Nat, q > 0, Divides(q, x)
    PROVE  x % q = 0
<1>1. PICK t \in Int : x = q * t
  BY DEF Divides
<1>2. x \div q \in Int /\ x % q \in 0 .. q - 1 /\ x = q * (x \div q) + (x % q)
  OBVIOUS
<1> DEFINE d == x \div q
           r == x % q
<1>3. r = q * (t - d) /\ r \in 0 .. q - 1 /\ t - d \in Int
  BY <1>1, <1>2
<1> HIDE DEF d, r
<1>4. t - d < 1
  BY <1>3
<1>5. t - d > -1
  BY <1>3
<1>6. r = 0
  BY <1>3, <1>4, <1>5
<1> QED BY <1>6 DEF r

\* A power of two that divides an odd multiple divides the number.
LEMMA OddCancels ==
    ASSUME NEW M \in Nat, M % 2 = 1, NEW n \in 0 .. MaxBranch, NEW x \in Int, Divides(Pow2[n], x * M)
    PROVE  Divides(Pow2[n], x)
<1> DEFINE S == {k \in Nat : k <= MaxBranch /\ Divides(Pow2[k], x * M) => Divides(Pow2[k], x)}
<1>1. 0 \in S
  <2>1. x = Pow2[0] * x
    BY BranchAssumption
  <2> QED BY <2>1 DEF Divides
<1>2. ASSUME NEW k \in Nat, k \in S PROVE k + 1 \in S
  <2> SUFFICES ASSUME k + 1 <= MaxBranch, Divides(Pow2[k + 1], x * M)
               PROVE  Divides(Pow2[k + 1], x)
    OBVIOUS
  <2> DEFINE P == Pow2[k]
  <2>1. k \in 0 .. MaxBranch - 1 /\ k \in 0 .. MaxBranch /\ k <= MaxBranch
    BY BranchAssumption
  <2>2. Pow2[k + 1] = 2 * P /\ P \in Nat /\ P > 0
    BY <2>1, BranchAssumption, Pow2Positive
  <2>3. PICK s \in Int : x * M = (2 * P) * s
    BY <2>2 DEF Divides
  <2> HIDE DEF P
  <2>4. x * M = P * (2 * s) /\ 2 * s \in Int
    BY <2>2, <2>3
  <2>5. Divides(P, x * M)
    BY <2>4 DEF Divides
  <2>6. Divides(P, x)
    BY <1>2, <2>1, <2>5 DEF P
  <2>7. PICK t \in Int : x = P * t
    BY <2>6 DEF Divides
  <2>8. t * M = 2 * s
    <3>1. P * (t * M) = P * (2 * s) /\ t * M \in Int /\ 2 * s \in Int
      BY <2>2, <2>4, <2>7
    <3> DEFINE u == t * M
               v == 2 * s
    <3> HIDE DEF u, v
    <3>2. P * u = P * v /\ u \in Int /\ v \in Int
      BY <3>1 DEF u, v
    <3>3. u = v
      BY <2>2, <3>2
    <3> QED BY <3>3 DEF u, v
  <2>9. PICK c \in Int : M = 2 * c + 1
    <3>1. M = 2 * (M \div 2) + 1 /\ M \div 2 \in Int
      OBVIOUS
    <3> QED BY <3>1
  <2>10. t = 2 * (s - t * c) /\ s - t * c \in Int
    <3>1. t * M = 2 * (t * c) + t /\ t * c \in Int
      BY <2>9
    <3> DEFINE w == t * c
    <3> HIDE DEF w
    <3>2. 2 * s = 2 * w + t /\ w \in Int
      BY <2>8, <3>1 DEF w
    <3>3. t = 2 * (s - w) /\ s - w \in Int
      BY <3>2
    <3> QED BY <3>3 DEF w
  <2> DEFINE e == s - t * c
  <2> HIDE DEF e
  <2>11. x = (2 * P) * e /\ e \in Int
    <3>1. t = 2 * e /\ e \in Int
      BY <2>10 DEF e
    <3> QED BY <2>2, <2>7, <3>1
  <2> QED BY <2>2, <2>11 DEF Divides
<1>3. Nat \subseteq S
  <2> HIDE DEF S
  <2> QED BY <1>1, <1>2, NatInd
<1>4. n \in Nat /\ n <= MaxBranch
  BY BranchAssumption
<1>5. n \in S
  <2> HIDE DEF S
  <2> QED BY <1>3, <1>4
<1> QED BY <1>4, <1>5

\* Every size of a tree divides the number of words.
LEMMA SizeDividesWords ==
    ASSUME NEW h \in 0 .. MaxBranch
    PROVE  \E k \in Nat : WordSize = Pow2[h] * k
<1> DEFINE P == Pow2[MaxBranch]
           Q == Pow2[h]
           R == Pow2[MaxBranch - h]
           d == WordSize \div P
<1>1. /\ h \in Nat /\ MaxBranch - h \in Nat /\ h + (MaxBranch - h) = MaxBranch
      /\ MaxBranch \in 0 .. MaxBranch /\ MaxBranch - h \in 0 .. MaxBranch
  BY BranchAssumption
<1>2. P \in Nat /\ P > 0 /\ Q \in Nat /\ R \in Nat /\ WordSize \in Nat
  BY <1>1, Pow2Positive, WordAssumption
<1>3. P = Q * R
  BY <1>1, Pow2Table, PlaceAdd
<1>4. WordSize % P = 0
  BY WordAssumption
<1> HIDE DEF P, Q, R
<1>5. d \in Nat /\ WordSize = P * d
  BY <1>2, <1>4
<1> HIDE DEF d
<1>6. WordSize = Q * (R * d) /\ R * d \in Nat
  BY <1>2, <1>3, <1>5
<1> QED BY <1>6 DEF Q

\* Numbers with the same remainder differ by a multiple.
LEMMA SameRemainder ==
    ASSUME NEW x \in Int, NEW y \in Int, NEW q \in Nat, q > 0, x % q = y % q
    PROVE  Divides(q, x - y)
<1>1. PICK s \in Int : x % q = x - q * s
  BY RemainderDiffers
<1>2. PICK t \in Int : y % q = y - q * t
  BY RemainderDiffers
<1>3. q * s \in Int /\ q * t \in Int /\ q * (s - t) = q * s - q * t
  OBVIOUS
<1>4. x - q * s = y - q * t
  BY <1>1, <1>2
<1>5. x - y = q * (s - t) /\ s - t \in Int
  BY <1>3, <1>4
<1> QED BY <1>5 DEF Divides

\* One step of the generator, modulo the size of a tree.
LEMMA GeneratorStep ==
    ASSUME NEW x \in Int, NEW h \in 0 .. MaxBranch
    PROVE  /\ x % WordSize \in Nat
           /\ Divides(Pow2[h], (x % WordSize) - x)
<1> DEFINE Q == Pow2[h]
<1>1. Q \in Nat /\ WordSize \in Nat /\ WordSize > 0
  <2>1. MaxBranch \in 0 .. MaxBranch
    BY BranchAssumption
  <2> QED BY <2>1, Pow2Positive, WordAssumption
<1>2. PICK k \in Nat : WordSize = Q * k
  BY SizeDividesWords
<1>3. x % WordSize \in Nat
  BY <1>1, RemainderDiffers
<1>4. PICK t \in Int : x % WordSize = x - WordSize * t
  BY <1>1, RemainderDiffers, Zenon
<1> HIDE DEF Q
<1> DEFINE r == x % WordSize
<1> HIDE DEF r
<1>5. r \in Int /\ r = x - WordSize * t
  BY <1>3, <1>4 DEF r
<1>6. WordSize * t = Q * (k * t) /\ WordSize * t \in Int /\ k * t \in Int
  BY <1>1, <1>2
<1>7. r - x = Q * (-(k * t)) /\ -(k * t) \in Int
  <2>1. Q * (-(k * t)) = -(Q * (k * t))
    BY <1>1, <1>6
  <2> DEFINE u == WordSize * t
  <2> HIDE DEF u
  <2>2. r - x = -u
    BY <1>5, <1>6 DEF u
  <2> QED BY <1>6, <2>1, <2>2 DEF u
<1> QED BY <1>3, <1>7 DEF r, Q, Divides

\* Divided numbers add up.
LEMMA DividesSum ==
    ASSUME NEW q \in Nat, NEW x \in Int, NEW y \in Int, Divides(q, x), Divides(q, y)
    PROVE  Divides(q, x + y) /\ Divides(q, x - y)
<1>1. PICK s \in Int : x = q * s
  BY Zenon DEF Divides
<1>2. PICK t \in Int : y = q * t
  BY Zenon DEF Divides
<1>3. x + y = q * (s + t) /\ s + t \in Int /\ x - y = q * (s - t) /\ s - t \in Int
  BY <1>1, <1>2
<1> QED BY <1>3, Zenon DEF Divides

\* Two chains get the same slot for one nonce only when their ids agree modulo
\* the size of the tree: the multiplier is odd.
LEMMA SlotsDiffer ==
    ASSUME NEW nonce \in Nat, NEW i \in Int, NEW j \in Int, NEW h \in 0 .. MaxBranch,
           get_expected_index(nonce, i, h) = get_expected_index(nonce, j, h)
    PROVE  (i - j) % Pow2[h] = 0
<1> DEFINE Q == Pow2[h]
           a == (nonce * Multiplier + Increment) % WordSize
           b(id) == (a + id) % WordSize
           y(id) == b(id) * Multiplier + Increment
           c(id) == y(id) % WordSize
<1>1. Q \in Nat /\ Q > 0 /\ Multiplier \in Nat /\ Increment \in Nat /\ Multiplier % 2 = 1
  BY Pow2Positive, WordAssumption
<1>2. c(i) % Q = c(j) % Q
  BY DEF get_expected_index
<1>3. a \in Nat
  <2>1. nonce * Multiplier + Increment \in Int
    BY <1>1
  <2> QED BY <2>1, GeneratorStep
<1> HIDE DEF Q, a
<1>4. ASSUME NEW id \in Int
      PROVE  /\ b(id) \in Nat /\ y(id) \in Int /\ c(id) \in Nat
             /\ Divides(Q, b(id) - (a + id)) /\ Divides(Q, c(id) - y(id))
  <2>1. a + id \in Int
    BY <1>3
  <2>2. b(id) \in Nat /\ Divides(Q, b(id) - (a + id))
    BY <2>1, GeneratorStep DEF Q
  <2> HIDE DEF b
  <2>3. y(id) \in Int
    BY <1>1, <2>2
  <2> HIDE DEF y
  <2>4. c(id) \in Nat /\ Divides(Q, c(id) - y(id))
    BY <2>3, GeneratorStep DEF Q
  <2> QED BY <2>2, <2>3, <2>4
<1> DEFINE bi == b(i)
           bj == b(j)
           yi == y(i)
           yj == y(j)
           ci == c(i)
           cj == c(j)
<1>5. /\ bi \in Nat /\ yi \in Int /\ ci \in Nat /\ Divides(Q, bi - (a + i)) /\ Divides(Q, ci - yi)
      /\ bj \in Nat /\ yj \in Int /\ cj \in Nat /\ Divides(Q, bj - (a + j)) /\ Divides(Q, cj - yj)
  BY <1>4
<1>6. yi = bi * Multiplier + Increment /\ yj = bj * Multiplier + Increment
  OBVIOUS
<1>a. ci % Q = cj % Q
  BY <1>2
<1> HIDE DEF b, y, c, bi, bj, yi, yj, ci, cj
<1>7. Divides(Q, ci - cj)
  <2>1. ci \in Int /\ cj \in Int
    BY <1>5
  <2> QED BY <1>1, <1>a, <2>1, SameRemainder, Zenon
<1>8. Divides(Q, yi - yj)
  <2>1. Divides(Q, (ci - yi) - (cj - yj))
    BY <1>1, <1>5, DividesSum
  <2>2. Divides(Q, (ci - cj) - ((ci - yi) - (cj - yj)))
    BY <1>1, <1>5, <1>7, <2>1, DividesSum
  <2>3. (ci - cj) - ((ci - yi) - (cj - yj)) = yi - yj
    BY <1>5
  <2> QED BY <2>2, <2>3
<1>9. Divides(Q, bi - bj)
  <2>1. yi - yj = (bi - bj) * Multiplier /\ bi - bj \in Int
    BY <1>1, <1>5, <1>6
  <2> DEFINE x == bi - bj
  <2> HIDE DEF x
  <2>2. Divides(Pow2[h], x * Multiplier) /\ x \in Int
    BY <1>8, <2>1 DEF x, Q
  <2>3. Divides(Pow2[h], x)
    BY <1>1, <2>2, OddCancels
  <2> QED BY <2>3 DEF x, Q
<1>10. Divides(Q, i - j)
  <2>1. Divides(Q, (bi - (a + i)) - (bj - (a + j)))
    BY <1>1, <1>3, <1>5, DividesSum
  <2>2. Divides(Q, (bi - bj) - ((bi - (a + i)) - (bj - (a + j))))
    BY <1>1, <1>3, <1>5, <1>9, <2>1, DividesSum
  <2>3. (bi - bj) - ((bi - (a + i)) - (bj - (a + j))) = i - j
    BY <1>3, <1>5
  <2> QED BY <2>2, <2>3
<1> QED BY <1>1, <1>10, DividedLeavesNone DEF Q

-----------------------------------------------------------------------------
(* The place of the root *)

\* find_bytes finds the first of the items that are there.
LEMMA FirstFound ==
    ASSUME NEW script, IsScript(script), NEW x, Occurrences(script, x) # {}
    PROVE  LET r == find_bytes(script, x)
           IN  /\ r \in 1 .. Len(script) /\ script[r] = x
               /\ \A j \in Occurrences(script, x) : r <= j
<1> DEFINE S == Occurrences(script, x)
           P(n) == n \in S /\ \A m \in S : n <= m
<1>1. S \in SUBSET Nat /\ S \in SUBSET (1 .. Len(script))
  BY DEF Occurrences, IsScript
<1> HIDE DEF S
<1>2. \E n : P(n)
  <2>1. PICK n \in S : \A m \in S : n <= m
    BY <1>1, LeastNat DEF S
  <2> QED BY <2>1
<1>3. find_bytes(script, x) = CHOOSE n : P(n)
  BY Zenon DEF find_bytes, S
<1> HIDE DEF P
<1>4. P(CHOOSE n : P(n))
  BY <1>2, Zenon
<1>5. P(find_bytes(script, x))
  BY <1>3, <1>4, Zenon
<1> QED BY <1>1, <1>5 DEF P, S, Occurrences

\* Two roots that pass the checks of the header are at the same place: right
\* after the only header, or, without header, so near the start that there is
\* no room for another.
LEMMA OnePlace ==
    ASSUME NEW script, IsScript(script), NEW r1, NEW r2,
           Occurrences(script, RootBytes(r1)) # {}, HeaderError(script, r1) = "none",
           Occurrences(script, RootBytes(r2)) # {}, HeaderError(script, r2) = "none"
    PROVE  find_bytes(script, RootBytes(r1)) = find_bytes(script, RootBytes(r2)) /\ r1 = r2
<1> DEFINE p(r) == find_bytes(script, RootBytes(r))
           headers == Occurrences(script, MERGED_MINING_HEADER)
           header == find_bytes(script, MERGED_MINING_HEADER)
<1>1. /\ p(r1) \in 1 .. Len(script) /\ script[p(r1)] = RootBytes(r1)
      /\ p(r2) \in 1 .. Len(script) /\ script[p(r2)] = RootBytes(r2)
  BY FirstFound
<1>2. p(r1) = p(r2)
  <2>1. CASE headers # {}
    <3>1. ASSUME NEW r, HeaderError(script, r) = "none"
          PROVE  header + 1 = p(r)
      BY <2>1, <3>1 DEF HeaderError
    <3> QED BY <3>1
  <2>2. CASE headers = {}
    <3>1. ASSUME NEW r, HeaderError(script, r) = "none"
          PROVE  ~(Offset(script, p(r)) > LegacyLimit)
      BY <2>2, <3>1 DEF HeaderError
    <3>2. ASSUME NEW r, NEW q, p(r) \in 1 .. Len(script), p(q) \in 1 .. Len(script),
                 script[p(r)] = RootBytes(r), p(r) < p(q), ~(Offset(script, p(q)) > LegacyLimit)
          PROVE  FALSE
      <4> DEFINE m == p(r)
                 n == p(q)
      <4>1. m \in 1 .. Len(script) /\ n \in m + 1 .. Len(script) + 1 /\ script[m].width = RootWidth
        BY <3>2 DEF RootBytes, IsScript
      <4>2. ~(Offset(script, n) > LegacyLimit)
        BY <3>2
      <4> HIDE DEF m, n
      <4>3. Offset(script, m) \in Nat /\ Offset(script, n) \in Nat /\ Offset(script, m) + RootWidth <= Offset(script, n)
        BY <4>1, OffsetGrows
      <4> QED BY <4>2, <4>3, RootAssumption
    <3>3. ~(p(r1) < p(r2)) /\ ~(p(r2) < p(r1))
      BY <1>1, <3>1, <3>2
    <3>4. Len(script) \in Nat
      BY DEF IsScript
    <3> HIDE DEF p
    <3> QED BY <1>1, <3>3, <3>4
  <2> QED BY <2>1, <2>2
<1>3. RootBytes(r1) = RootBytes(r2)
  BY <1>1, <1>2
<1>4. r1 = r2
  BY <1>3 DEF RootBytes
<1> QED BY <1>2, <1>4

-----------------------------------------------------------------------------
(* What check accepts *)

\* The claim about an accepted proof that does not depend on the call: its root
\* is where the script has it, and size and slot are those of the script.
Commits(a, script, ch) ==
    LET root == compute_merkle_root(a.hash, a.auxpow.blockchain_branch, a.auxpow.blockchain_index)
        r == find_bytes(script, RootBytes(root))
        h == Len(a.auxpow.blockchain_branch)
    IN  /\ h \in 0 .. MaxBranch /\ a.chain_id \in Int
        /\ Occurrences(script, RootBytes(root)) # {}
        /\ HeaderError(script, root) = "none"
        /\ script[r + 1].value = Pow2[h]
        /\ script[r + 2].value \in Nat
        /\ a.auxpow.blockchain_index = get_expected_index(script[r + 2].value, a.chain_id, h)
        /\ a.strict => a.chain_id # ch

AuxIInv ==
    /\ txdata \in ParentBlocks
    /\ \A a \in accepted : a.auxpow.coinbase_tx = txdata[1] /\ Commits(a, txdata[1].script_sig, chain)

\* The coinbase of a parent block has a script of items.
LEMMA CoinbaseScript ==
    ASSUME NEW block \in ParentBlocks
    PROVE  /\ IsScript(block[1].script_sig)
           /\ DOMAIN block \subseteq Nat
<1>1. 1 \in DOMAIN block
  BY ParentAssumption
<1> QED BY <1>1, ParentAssumption DEF IsScript

\* A word that is the size of a tree is followed by another, when eight bytes
\* are left.
LEMMA NonceFollows ==
    ASSUME NEW script, IsScript(script), NEW r \in 1 .. Len(script), NEW h \in 0 .. MaxBranch,
           ~(Offset(script, Len(script) + 1) - Offset(script, r + 1) < 8),
           script[r + 1].value = Pow2[h]
    PROVE  script[r + 2].value \in Nat
<1> DEFINE N == Len(script)
           O(i) == Offset(script, i)
<1>1. N \in Nat /\ \A k \in 1 .. N : IsItem(script[k])
  BY DEF IsScript
<1>2. \A i \in 1 .. N : O(i + 1) = O(i) + script[i].width
  BY OffsetStep
<1>3. \A i \in 1 .. N : O(i + 1) \in Nat
  <2> TAKE i \in 1 .. N
  <2>1. i + 1 \in i + 1 .. Len(script) + 1
    BY <1>1
  <2> QED BY <2>1, OffsetGrows
<1>4. ~(O(N + 1) - O(r + 1) < 8)
  OBVIOUS
<1> HIDE DEF O
<1>5. r + 1 \in 1 .. N
  <2> SUFFICES ASSUME r = N
               PROVE  FALSE
    BY <1>1
  <2>1. O(r + 1) \in Nat /\ O(N + 1) = O(r + 1)
    BY <1>3
  <2> QED BY <1>4, <2>1
<1>6. Pow2[h] # WordSize - 1
  <2>1. h \in Nat /\ MaxBranch \in Nat /\ h <= MaxBranch /\ MaxBranch \in 0 .. MaxBranch
        /\ MaxBranch - 1 \in 0 .. MaxBranch - 1 /\ (MaxBranch - 1) + 1 = MaxBranch /\ MaxBranch - 1 \in 0 .. MaxBranch
    BY BranchAssumption
  <2>2. Pow2[h] <= Pow2[MaxBranch]
    BY <2>1, Pow2Table, PlaceMono
  <2>3. Pow2[MaxBranch] = 2 * Pow2[MaxBranch - 1] /\ Pow2[MaxBranch - 1] \in Nat /\ Pow2[MaxBranch - 1] > 0
    BY <2>1, BranchAssumption, Pow2Positive
  <2> DEFINE P == Pow2[MaxBranch]
             H == Pow2[h]
  <2>4. P \in Nat /\ P > 1 /\ H \in Nat /\ H <= P
    <3>1. P \in Nat /\ H \in Nat
      BY <2>1, Pow2Positive
    <3>2. P > 1
      BY <2>3
    <3> QED BY <2>2, <3>1, <3>2
  <2>5. PICK k \in Nat : WordSize = P * k
    BY <2>1, SizeDividesWords
  <2>6. P < WordSize /\ WordSize \in Nat
    BY WordAssumption
  <2> HIDE DEF P, H
  <2>7. k > 1
    BY <2>4, <2>5, <2>6
  <2>8. P * k >= P * 2
    <3>1. k - 2 \in Nat /\ P * k = P * 2 + P * (k - 2)
      BY <2>4, <2>7
    <3>2. P * (k - 2) \in Nat
      BY <2>4, <3>1
    <3> QED BY <2>4, <3>1, <3>2
  <2>9. H < WordSize - 1
    BY <2>4, <2>5, <2>6, <2>8
  <2> QED BY <2>4, <2>6, <2>9 DEF H
<1>7. script[r + 1].width = 4
  <2> DEFINE x == script[r + 1]
  <2>1. IsItem(x) /\ x.value # WordSize - 1
    BY <1>1, <1>5, <1>6
  <2> HIDE DEF x
  <2>2. x.width = 4
    BY <2>1 DEF IsItem, MERGED_MINING_HEADER, RootBytes, Word
  <2> QED BY <2>2 DEF x
<1>8. O((r + 1) + 1) = O(r + 1) + 4 /\ O(r + 1) \in Nat
  BY <1>2, <1>3, <1>5, <1>7
<1>9. r + 2 \in 1 .. N
  <2> SUFFICES ASSUME r + 1 = N
               PROVE  FALSE
    BY <1>1, <1>5
  <2>1. O(N + 1) = O(r + 1) + 4
    BY <1>8
  <2> QED BY <1>4, <1>8, <2>1
<1> QED BY <1>1, <1>9, ItemWidth

\* check accepts only what commits.
LEMMA CheckCommits ==
    ASSUME NEW auxpow, NEW hash, NEW id \in ChainIds, NEW strict,
           txdata \in ParentBlocks,
           auxpow.coinbase_tx = txdata[1], Len(auxpow.blockchain_branch) \in Nat,
           check(auxpow, hash, id, strict) = "Ok"
    PROVE  Commits([chain_id |-> id, hash |-> hash, strict |-> strict, auxpow |-> auxpow],
                   txdata[1].script_sig, chain)
<1> DEFINE a == [chain_id |-> id, hash |-> hash, strict |-> strict, auxpow |-> auxpow]
           script == txdata[1].script_sig
           root == compute_merkle_root(hash, auxpow.blockchain_branch, auxpow.blockchain_index)
           r == find_bytes(script, RootBytes(root))
           h == Len(auxpow.blockchain_branch)
<1>1. IsScript(script)
  BY CoinbaseScript
<1>2. /\ ~(strict /\ chain = id) /\ ~(h > MaxBranch)
      /\ check_merged_mining_coinbase_script(auxpow, script, root, id) = "Ok"
  BY DEF check
<1> HIDE DEF script, root
<1>3. HeaderError(script, root) # "Ok"
  BY DEF HeaderError
<1>4. /\ Occurrences(script, RootBytes(root)) # {}
      /\ HeaderError(script, root) = "none"
      /\ ~(Offset(script, Len(script) + 1) - Offset(script, r + 1) < 8)
      /\ script[r + 1].value = Pow2[h]
      /\ auxpow.blockchain_index = get_expected_index(script[r + 2].value, id, h)
  BY <1>2, <1>3 DEF check_merged_mining_coinbase_script
<1>5. h \in 0 .. MaxBranch /\ id \in Int
  BY <1>2, BranchAssumption, ChainAssumption
<1>6. r \in 1 .. Len(script)
  BY <1>1, <1>4, FirstFound
<1> HIDE DEF r
<1>7. script[r + 2].value \in Nat
  BY <1>1, <1>4, <1>5, <1>6, NonceFollows
<1>8. a.chain_id = id /\ a.hash = hash /\ a.strict = strict /\ a.auxpow = auxpow
  OBVIOUS
<1> HIDE DEF a
<1>9. strict => id # chain
  BY <1>2
<1>10. Commits(a, script, chain)
  BY <1>4, <1>5, <1>7, <1>8, <1>9 DEF Commits, root, r
<1> QED BY <1>10 DEF a, script

-----------------------------------------------------------------------------
(* The invariant *)

\* No proof has been accepted at first.
LEMMA AuxInitIInv == AuxInit => AuxIInv
  BY DEF AuxInit, AuxIInv

\* A proof that is accepted commits; the verdict only drops proofs.
LEMMA AuxNextIInv == AuxIInv /\ [AuxNext]_auxVars => AuxIInv'
<1> SUFFICES ASSUME AuxIInv, [AuxNext]_auxVars
             PROVE  AuxIInv'
  OBVIOUS
<1> DEFINE Good(a) == a.auxpow.coinbase_tx = txdata[1] /\ Commits(a, txdata[1].script_sig, chain)
<1>0. \A a \in accepted : Good(a)
  BY DEF AuxIInv
<1>1. txdata' = txdata /\ chain' = chain /\ (\A a \in accepted' : Good(a)) => AuxIInv'
  BY DEF AuxIInv
<1> HIDE DEF Good
<1>2. CASE NextProof
  <2>1. PICK c \in CoinbaseParts, branch \in Branches, index \in Indexes,
             hash \in AuxHashes, id \in ChainIds, strict \in BOOLEAN :
          Check([coinbase_tx |-> c.coinbase_tx, coinbase_branch |-> c.coinbase_branch,
                 coinbase_index |-> c.coinbase_index,
                 blockchain_branch |-> branch, blockchain_index |-> index], hash, id, strict)
    BY <1>2 DEF NextProof
  <2> DEFINE auxpow == [coinbase_tx |-> c.coinbase_tx, coinbase_branch |-> c.coinbase_branch,
                        coinbase_index |-> c.coinbase_index,
                        blockchain_branch |-> branch, blockchain_index |-> index]
             new == [chain_id |-> id, hash |-> hash, strict |-> strict, auxpow |-> auxpow]
  <2>2. auxpow.blockchain_branch = branch /\ auxpow.coinbase_tx = c.coinbase_tx
        /\ auxpow.coinbase_index = c.coinbase_index
    OBVIOUS
  <2>3. Len(branch) \in Nat
    <3>1. CASE branch \in UNION {[1 .. n -> Siblings] : n \in 0 .. MaxBranch}
      <4>1. PICK n \in 0 .. MaxBranch : branch \in [1 .. n -> Siblings]
        BY <3>1
      <4> QED BY <4>1, BranchAssumption
    <3>2. CASE branch = [i \in 1 .. MaxBranch + 1 |-> CHOOSE s \in Siblings : TRUE]
      BY <3>2, BranchAssumption
    <3> QED BY <3>1, <3>2 DEF Branches
  <2>4. PICK i \in DOMAIN txdata : c.coinbase_tx = txdata[i] /\ c.coinbase_index = i - 1
    BY DEF CoinbaseParts
  <2>5. txdata \in ParentBlocks /\ i \in Nat
    BY CoinbaseScript DEF AuxIInv
  <2> HIDE DEF auxpow
  <2>6. /\ txdata' = txdata /\ chain' = chain
        /\ accepted' = IF check(auxpow, hash, id, strict) # "Ok" THEN accepted
                       ELSE accepted \cup {new}
    BY <2>1 DEF Check, auxpow
  <2>7. CASE check(auxpow, hash, id, strict) = "Ok"
    <3>1. auxpow.coinbase_index = 0
      BY <2>7 DEF check
    <3>2. auxpow.coinbase_tx = txdata[1]
      BY <2>2, <2>4, <2>5, <3>1
    <3>3. Commits(new, txdata[1].script_sig, chain)
      BY <2>2, <2>3, <2>5, <2>7, <3>2, CheckCommits
    <3>4. Good(new)
      BY <3>2, <3>3 DEF Good
    <3> HIDE DEF new
    <3> QED BY <1>0, <1>1, <2>6, <2>7, <3>4
  <2>8. CASE check(auxpow, hash, id, strict) # "Ok"
    <3> QED BY <1>0, <1>1, <2>6, <2>8
  <2> QED BY <2>7, <2>8
<1>3. CASE Verdict
  <2>1. txdata' = txdata /\ chain' = chain /\ accepted' \subseteq accepted
    BY <1>3 DEF Verdict
  <2> QED BY <1>0, <1>1, <2>1
<1>4. CASE UNCHANGED auxVars
  <2>1. txdata' = txdata /\ chain' = chain /\ accepted' = accepted
    BY <1>4 DEF auxVars
  <2> QED BY <1>0, <1>1, <2>1
<1> QED BY <1>2, <1>3, <1>4 DEF AuxNext

\* What two proofs for one script have in common: the place, so the root, the
\* size and the nonce.
LEMMA SameCommitment ==
    ASSUME NEW a, NEW b, NEW script, NEW ch, IsScript(script), Commits(a, script, ch), Commits(b, script, ch)
    PROVE  \E nonce \in Nat : \E h \in 0 .. MaxBranch :
              /\ Len(a.auxpow.blockchain_branch) = h /\ Len(b.auxpow.blockchain_branch) = h
              /\ a.auxpow.blockchain_index = get_expected_index(nonce, a.chain_id, h)
              /\ b.auxpow.blockchain_index = get_expected_index(nonce, b.chain_id, h)
              /\ compute_merkle_root(a.hash, a.auxpow.blockchain_branch, a.auxpow.blockchain_index)
                   = compute_merkle_root(b.hash, b.auxpow.blockchain_branch, b.auxpow.blockchain_index)
<1> DEFINE Root(x) == compute_merkle_root(x.hash, x.auxpow.blockchain_branch, x.auxpow.blockchain_index)
           r == find_bytes(script, RootBytes(Root(a)))
           h == Len(a.auxpow.blockchain_branch)
           k == Len(b.auxpow.blockchain_branch)
           nonce == script[r + 2].value
<1> HIDE DEF Root
<1>1. /\ Occurrences(script, RootBytes(Root(a))) # {} /\ HeaderError(script, Root(a)) = "none"
      /\ Occurrences(script, RootBytes(Root(b))) # {} /\ HeaderError(script, Root(b)) = "none"
  BY DEF Commits, Root
<1>2. find_bytes(script, RootBytes(Root(b))) = r /\ Root(a) = Root(b)
  BY <1>1, OnePlace, Zenon
<1>3. /\ h \in 0 .. MaxBranch /\ script[r + 1].value = Pow2[h] /\ nonce \in Nat
      /\ a.auxpow.blockchain_index = get_expected_index(nonce, a.chain_id, h)
  BY Zenon DEF Commits, Root
<1>4. /\ k \in 0 .. MaxBranch /\ script[r + 1].value = Pow2[k]
      /\ b.auxpow.blockchain_index = get_expected_index(nonce, b.chain_id, k)
  BY <1>2, Zenon DEF Commits, Root
<1> HIDE DEF r, nonce
<1>5. h = k
  BY <1>3, <1>4, Pow2Injective, Zenon
<1>6. compute_merkle_root(a.hash, a.auxpow.blockchain_branch, a.auxpow.blockchain_index)
        = compute_merkle_root(b.hash, b.auxpow.blockchain_branch, b.auxpow.blockchain_index)
  BY <1>2, Zenon DEF Root
<1>7. k = h /\ b.auxpow.blockchain_index = get_expected_index(nonce, b.chain_id, h)
  BY <1>4, <1>5, Zenon
<1> QED BY <1>3, <1>6, <1>7, Zenon

LEMMA CommitsSound == AuxIInv => MergedMiningSound
<1> SUFFICES ASSUME AuxIInv
             PROVE  MergedMiningSound
  OBVIOUS
<1> DEFINE script == txdata[1].script_sig
<1>1. IsScript(script) /\ \A a \in accepted : a.auxpow.coinbase_tx = txdata[1] /\ Commits(a, script, chain)
  BY CoinbaseScript DEF AuxIInv
<1>2. OneBlockPerChain
  <2> SUFFICES ASSUME NEW a \in accepted, NEW b \in accepted, a.chain_id = b.chain_id
               PROVE  /\ a.hash = b.hash
                      /\ a.auxpow.blockchain_index = b.auxpow.blockchain_index
                      /\ Len(a.auxpow.blockchain_branch) = Len(b.auxpow.blockchain_branch)
    BY DEF OneBlockPerChain
  <2> HIDE DEF script
  <2>1. PICK nonce \in Nat, h \in 0 .. MaxBranch :
              /\ Len(a.auxpow.blockchain_branch) = h /\ Len(b.auxpow.blockchain_branch) = h
              /\ a.auxpow.blockchain_index = get_expected_index(nonce, a.chain_id, h)
              /\ b.auxpow.blockchain_index = get_expected_index(nonce, b.chain_id, h)
              /\ compute_merkle_root(a.hash, a.auxpow.blockchain_branch, a.auxpow.blockchain_index)
                   = compute_merkle_root(b.hash, b.auxpow.blockchain_branch, b.auxpow.blockchain_index)
    BY <1>1, SameCommitment
  <2>2. a.auxpow.blockchain_index = b.auxpow.blockchain_index /\ h \in Nat
    BY <2>1, BranchAssumption
  <2>3. a.hash = b.hash
    BY <2>1, <2>2, RootInjective
  <2> QED BY <2>1, <2>2, <2>3
<1>3. DistinctSlots
  <2> SUFFICES ASSUME NEW a \in accepted, NEW b \in accepted,
                      a.auxpow.blockchain_index = b.auxpow.blockchain_index
               PROVE  (a.chain_id - b.chain_id) % Pow2[Len(a.auxpow.blockchain_branch)] = 0
    BY DEF DistinctSlots
  <2> HIDE DEF script
  <2>1. PICK nonce \in Nat, h \in 0 .. MaxBranch :
              /\ Len(a.auxpow.blockchain_branch) = h
              /\ a.auxpow.blockchain_index = get_expected_index(nonce, a.chain_id, h)
              /\ b.auxpow.blockchain_index = get_expected_index(nonce, b.chain_id, h)
    BY <1>1, SameCommitment
  <2>2. a.chain_id \in Int /\ b.chain_id \in Int
    BY <1>1 DEF Commits
  <2> QED BY <2>1, <2>2, SlotsDiffer, Zenon
<1>4. CoinbaseCommits
  <2> SUFFICES ASSUME NEW a \in accepted
               PROVE  LET root == compute_merkle_root(a.hash, a.auxpow.blockchain_branch,
                                                      a.auxpow.blockchain_index)
                      IN  /\ a.auxpow.coinbase_tx = txdata[1]
                          /\ \E i \in DOMAIN script :
                                /\ script[i] = RootBytes(root)
                                /\ \/ i > 1 /\ script[i - 1] = MERGED_MINING_HEADER
                                   \/ Offset(script, i) <= LegacyLimit
                          /\ a.strict => a.chain_id # chain
    BY Zenon DEF CoinbaseCommits
  <2> HIDE DEF script
  <2> DEFINE root == compute_merkle_root(a.hash, a.auxpow.blockchain_branch, a.auxpow.blockchain_index)
             r == find_bytes(script, RootBytes(root))
             header == find_bytes(script, MERGED_MINING_HEADER)
             headers == Occurrences(script, MERGED_MINING_HEADER)
  <2>1. /\ Occurrences(script, RootBytes(root)) # {} /\ HeaderError(script, root) = "none"
        /\ a.strict => a.chain_id # chain /\ a.auxpow.coinbase_tx = txdata[1]
    BY <1>1 DEF Commits
  <2> HIDE DEF root
  <2>2. r \in 1 .. Len(script) /\ script[r] = RootBytes(root) /\ r \in DOMAIN script /\ Len(script) \in Nat
    BY <1>1, <2>1, FirstFound DEF IsScript
  <2>3. \/ r > 1 /\ script[r - 1] = MERGED_MINING_HEADER
        \/ Offset(script, r) <= LegacyLimit
    <3>1. CASE headers # {}
      <4>1. header + 1 = r
        BY <2>1, <3>1 DEF HeaderError
      <4>2. header \in 1 .. Len(script) /\ script[header] = MERGED_MINING_HEADER
        BY <1>1, <3>1, FirstFound
      <4> HIDE DEF r, header
      <4>3. r > 1 /\ r - 1 = header
        BY <2>2, <4>1, <4>2
      <4> QED BY <4>2, <4>3
    <3>2. CASE headers = {}
      <4>1. ~(Offset(script, r) > LegacyLimit)
        BY <2>1, <3>2 DEF HeaderError
      <4> HIDE DEF r
      <4>2. r + 1 \in r + 1 .. Len(script) + 1
        BY <2>2
      <4>3. Offset(script, r) \in Nat
        BY <1>1, <2>2, <4>2, OffsetGrows
      <4> QED BY <4>1, <4>3, RootAssumption
    <3> QED BY <3>1, <3>2
  <2>4. a.auxpow.coinbase_tx = txdata[1]
    BY <1>1
  <2> HIDE DEF r
  <2> QED BY <2>1, <2>2, <2>3, <2>4 DEF root
<1> QED BY <1>2, <1>3, <1>4 DEF MergedMiningSound

\* Whatever proofs are offered for a parent block, AuxPow::check accepts for one
\* chain only one block, gives chains whose ids differ modulo the size of the tree
\* different slots, and accepts only what the parent's coinbase commits to.
THEOREM MergedMiningIsSound == AuxSpec => []MergedMiningSound
<1>1. AuxInit => AuxIInv
  BY AuxInitIInv
<1>2. AuxIInv /\ [AuxNext]_auxVars => AuxIInv'
  BY AuxNextIInv
<1>3. AuxIInv => MergedMiningSound
  BY CommitsSound
<1> QED BY <1>1, <1>2, <1>3, PTL DEF AuxSpec
=============================================================================
