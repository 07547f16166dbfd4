--------------------------- MODULE MemPoolProofs ---------------------------
(***************************************************************************)
(* Proofs about MemPool: for any number of threads and blocks, no          *)
(* interleaving of pops and pushes loses a block or gives it twice.        *)
(***************************************************************************)
EXTENDS MemPool, FiniteSetTheorems, WellFoundedInduction, TLAPS

-----------------------------------------------------------------------------
(* Numbers.                                                                *)

\* Induction over the natural numbers for a set.
LEMMA NatInduct ==
  ASSUME NEW S, 0 \in S, \A n \in Nat : n \in S => n + 1 \in S
  PROVE  Nat \subseteq S
<1> SUFFICES ASSUME Nat \ S # {} PROVE FALSE
  OBVIOUS
<1> DEFINE R == OpToRel(<, Nat)
<1>1. PICK n \in Nat \ S : \A m \in Nat \ S : ~(<<m, n>> \in R)
  <2>1. IsWellFoundedOn(R, Nat)
    BY Zenon, NatLessThanWellFounded
  <2> HIDE DEF R
  <2>2. Nat \ S \subseteq Nat
    OBVIOUS
  <2>3. QED
    BY Zenon, <2>1, <2>2, WFMin
<1>2. \A m \in Nat \ S : ~(m < n)
  BY Zenon, <1>1 DEF OpToRel
<1>3. QED
  BY <1>2

LEMMA LeastNumber ==
  ASSUME NEW T, T \subseteq Nat, T # {}
  PROVE  \E n \in T : \A m \in T : n <= m
<1> DEFINE S == {n \in Nat : \A m \in T : n <= m}
<1>1. 0 \in S
  OBVIOUS
<1>2. PICK n \in S : n + 1 \notin S
  <2>1. PICK k \in T : TRUE
    BY Zenon
  <2>2. k + 1 \notin S
    BY <2>1
  <2> HIDE DEF S
  <2>3. ~(Nat \subseteq S)
    BY <2>1, <2>2
  <2>4. S \subseteq Nat
    BY Zenon DEF S
  <2>5. QED
    BY Zenon, <1>1, <2>3, <2>4, NatInduct
<1>3. QED
  BY <1>2

\* One more and one less modulo m.
LEMMA ModStep ==
  ASSUME NEW m \in Nat \ {0}, NEW x \in Int
  PROVE  ((x % m) + 1) % m = (x + 1) % m
<1>1. PICK q \in Int, r \in 0 .. m - 1 : x = q * m + r /\ x % m = r
  BY x % m \in 0 .. m - 1, x = (x \div m) * m + (x % m), x \div m \in Int
<1>2. CASE r + 1 < m
  <2>1. (x + 1) % m = r + 1
    BY <1>1, <1>2
  <2>2. (r + 1) % m = r + 1
    BY <1>2
  <2>3. QED
    BY Zenon, <1>1, <2>1, <2>2
<1>3. CASE r + 1 = m
  <2>1. (x + 1) % m = 0
    BY <1>1, <1>3
  <2>2. (r + 1) % m = 0
    BY <1>3
  <2>3. QED
    BY Zenon, <1>1, <2>1, <2>2
<1>4. QED
  BY <1>2, <1>3

LEMMA ModBack ==
  ASSUME NEW m \in Nat \ {0}, NEW x \in Int
  PROVE  ((x % m) - 1) % m = (x - 1) % m
<1>1. PICK q \in Int, r \in 0 .. m - 1 : x = q * m + r /\ x % m = r
  BY x % m \in 0 .. m - 1, x = (x \div m) * m + (x % m), x \div m \in Int
<1>2. CASE r > 0
  <2>1. (x - 1) % m = r - 1
    BY <1>1, <1>2
  <2>2. (r - 1) % m = r - 1
    BY <1>2
  <2>3. QED
    BY Zenon, <1>1, <2>1, <2>2
<1>3. CASE r = 0
  <2>1. (x - 1) % m = m - 1
    <3>1. x - 1 = (q - 1) * m + (m - 1)
      BY <1>1, <1>3
    <3>2. QED
      BY <3>1
  <2>2. (r - 1) % m = m - 1
    BY <1>3
  <2>3. QED
    BY Zenon, <1>1, <2>1, <2>2
<1>4. QED
  BY <1>2, <1>3

-----------------------------------------------------------------------------
(* What is reached from a block along pNext.                               *)

\* The definition of Nth, for any first block and any pointers.
Walk(a, p, k) ==
  LET f[n \in 0 .. k] ==
        IF n = 0 THEN a ELSE IF f[n - 1] = NULL THEN NULL ELSE p[f[n - 1]]
  IN  f[k]

IsWalk(a, p, k, f) ==
  f = [n \in 0 .. k |->
         IF n = 0 THEN a ELSE IF f[n - 1] = NULL THEN NULL ELSE p[f[n - 1]]]

LEMMA NthWalk ==
  ASSUME NEW k \in Nat
  PROVE  Nth(k) = Walk(top.ptr, pNext, k)
BY Zenon DEF Nth, Walk

LEMMA WalkExists ==
  ASSUME NEW a, NEW p, NEW k \in Nat
  PROVE  \E f : IsWalk(a, p, k, f)
<1> DEFINE S == {n \in Nat : \E f : IsWalk(a, p, n, f)}
<1>1. 0 \in S
  <2>1. IsWalk(a, p, 0, [n \in 0 .. 0 |-> a])
    BY DEF IsWalk
  <2>2. QED
    BY Zenon, <2>1
<1>2. ASSUME NEW n \in Nat, n \in S
      PROVE  n + 1 \in S
  <2>1. PICK f : IsWalk(a, p, n, f)
    BY Zenon, <1>2
  <2> DEFINE x == IF f[n] = NULL THEN NULL ELSE p[f[n]]
             g == [i \in 0 .. n + 1 |-> IF i = n + 1 THEN x ELSE f[i]]
  <2>2. \A i \in 0 .. n : g[i] = f[i]
    OBVIOUS
  <2>3. ASSUME NEW i \in 0 .. n + 1
        PROVE  g[i] = IF i = 0 THEN a ELSE IF g[i - 1] = NULL THEN NULL ELSE p[g[i - 1]]
    <3>1. CASE i = n + 1
      BY <3>1, <2>2
    <3>2. CASE i \in 0 .. n
      <4>1. f[i] = IF i = 0 THEN a ELSE IF f[i - 1] = NULL THEN NULL ELSE p[f[i - 1]]
        BY Zenon, <2>1, <3>2 DEF IsWalk
      <4>2. QED
        BY <2>2, <3>2, <4>1
    <3>3. QED
      BY <3>1, <3>2
  <2>4. IsWalk(a, p, n + 1, g)
    BY Zenon, <2>3 DEF IsWalk
  <2>5. QED
    BY <2>4
<1>3. QED
  <2> HIDE DEF S
  <2>1. Nat \subseteq S
    BY Zenon, <1>1, <1>2, NatInduct
  <2>2. QED
    BY Zenon, <2>1 DEF S

LEMMA WalkUnique ==
  ASSUME NEW a, NEW p, NEW k \in Nat, NEW m \in Nat, NEW f, NEW g,
         IsWalk(a, p, k, f), IsWalk(a, p, m, g)
  PROVE  \A n \in Nat : n <= k /\ n <= m => f[n] = g[n]
<1> DEFINE S == {n \in Nat : n <= k /\ n <= m => f[n] = g[n]}
<1>1. 0 \in S
  BY DEF IsWalk
<1>2. ASSUME NEW n \in Nat, n \in S
      PROVE  n + 1 \in S
  BY <1>2 DEF IsWalk
<1>3. QED
  <2> HIDE DEF S
  <2>1. Nat \subseteq S
    BY Zenon, <1>1, <1>2, NatInduct
  <2>2. QED
    BY Zenon, <2>1 DEF S

\* The steps of a walk.
LEMMA WalkSteps ==
  ASSUME NEW a, NEW p
  PROVE  /\ Walk(a, p, 0) = a
         /\ \A k \in Nat :
              Walk(a, p, k + 1) = IF Walk(a, p, k) = NULL THEN NULL
                                  ELSE p[Walk(a, p, k)]
<1> DEFINE fw(k) == CHOOSE f : IsWalk(a, p, k, f)
<1>1. ASSUME NEW k \in Nat
      PROVE  IsWalk(a, p, k, fw(k)) /\ Walk(a, p, k) = fw(k)[k]
  <2>1. IsWalk(a, p, k, fw(k))
    BY Zenon, WalkExists
  <2>2. Walk(a, p, k) = fw(k)[k]
    BY Zenon DEF Walk, IsWalk
  <2>3. QED
    BY Zenon, <2>1, <2>2
<1>2. Walk(a, p, 0) = a
  <2> HIDE DEF fw
  <2>1. IsWalk(a, p, 0, fw(0)) /\ Walk(a, p, 0) = fw(0)[0]
    BY Zenon, <1>1
  <2>2. QED
    BY <2>1 DEF IsWalk
<1>3. ASSUME NEW k \in Nat
      PROVE  Walk(a, p, k + 1) = IF Walk(a, p, k) = NULL THEN NULL
                                 ELSE p[Walk(a, p, k)]
  <2>1. fw(k + 1)[k] = fw(k)[k]
    <3> HIDE DEF fw
    <3>1. k + 1 \in Nat /\ k <= k /\ k <= k + 1
      OBVIOUS
    <3>2. QED
      BY <1>1, <3>1, WalkUnique
  <2>2. fw(k + 1)[k + 1] = IF fw(k + 1)[k] = NULL THEN NULL ELSE p[fw(k + 1)[k]]
    <3> HIDE DEF fw
    <3>1. IsWalk(a, p, k + 1, fw(k + 1))
      BY <1>1
    <3>2. QED
      BY <3>1 DEF IsWalk
  <2>3. QED
    BY <1>1, <2>1, <2>2
<1>4. QED
  BY Zenon, <1>2, <1>3

Ptrs == Blocks \cup {NULL}

\* The walk from a comes to an end, and the blocks on it.
Ends(a, p) == \E k \in Nat : Walk(a, p, k) = NULL
Reach(a, p) == {Walk(a, p, k) : k \in Nat} \ {NULL}

LEMMA WalkType ==
  ASSUME NEW a \in Ptrs, NEW p \in [Blocks -> Ptrs]
  PROVE  \A k \in Nat : Walk(a, p, k) \in Ptrs
<1> DEFINE S == {k \in Nat : Walk(a, p, k) \in Ptrs}
<1>1. 0 \in S
  BY Zenon, WalkSteps
<1>2. ASSUME NEW n \in Nat, n \in S
      PROVE  n + 1 \in S
  BY <1>2, WalkSteps DEF Ptrs
<1> HIDE DEF S
<1>3. Nat \subseteq S
  BY Zenon, <1>1, <1>2, NatInduct
<1>4. QED
  BY Zenon, <1>3 DEF S

\* The walk from the next block is the rest of the walk.
LEMMA WalkTail ==
  ASSUME NEW a, NEW p, a # NULL
  PROVE  \A k \in Nat : Walk(p[a], p, k) = Walk(a, p, k + 1)
<1> DEFINE S == {k \in Nat : Walk(p[a], p, k) = Walk(a, p, k + 1)}
<1>1. 0 \in S
  <2>1. Walk(p[a], p, 0) = p[a] /\ Walk(a, p, 0) = a
    BY Zenon, WalkSteps
  <2>2. Walk(a, p, 0 + 1) = p[a]
    BY <2>1, WalkSteps
  <2>3. QED
    BY Zenon, <2>1, <2>2
<1>2. ASSUME NEW n \in Nat, n \in S
      PROVE  n + 1 \in S
  <2>1. n + 1 \in Nat /\ Walk(p[a], p, n) = Walk(a, p, n + 1)
    BY <1>2
  <2>2. PICK m \in Nat : m = n + 1
    BY Zenon, <2>1
  <2>3. /\ Walk(p[a], p, n + 1) = IF Walk(p[a], p, n) = NULL THEN NULL
                                 ELSE p[Walk(p[a], p, n)]
        /\ Walk(a, p, m + 1) = IF Walk(a, p, m) = NULL THEN NULL ELSE p[Walk(a, p, m)]
    BY WalkSteps, Zenon
  <2>4. Walk(p[a], p, n + 1) = Walk(a, p, m + 1)
    BY Zenon, <2>1, <2>2, <2>3
  <2>5. QED
    BY Zenon, <2>1, <2>2, <2>4
<1> HIDE DEF S
<1>3. Nat \subseteq S
  BY Zenon, <1>1, <1>2, NatInduct
<1>4. QED
  BY Zenon, <1>3 DEF S

\* Equal blocks have equal successors.
LEMMA WalkShift ==
  ASSUME NEW a, NEW p, NEW i \in Nat, NEW j \in Nat, Walk(a, p, i) = Walk(a, p, j)
  PROVE  \A m \in Nat : Walk(a, p, i + m) = Walk(a, p, j + m)
<1> DEFINE S == {m \in Nat : Walk(a, p, i + m) = Walk(a, p, j + m)}
<1>1. 0 \in S
  OBVIOUS
<1>2. ASSUME NEW n \in Nat, n \in S
      PROVE  n + 1 \in S
  <2>1. /\ i + n \in Nat /\ j + n \in Nat
        /\ i + (n + 1) = (i + n) + 1 /\ j + (n + 1) = (j + n) + 1
    OBVIOUS
  <2>2. Walk(a, p, (i + n) + 1) = Walk(a, p, (j + n) + 1)
    BY <1>2, <2>1, WalkSteps
  <2>3. QED
    BY <2>1, <2>2
<1> HIDE DEF S
<1>3. Nat \subseteq S
  BY Zenon, <1>1, <1>2, NatInduct
<1>4. QED
  BY Zenon, <1>3 DEF S

\* After its end a walk stays at NULL.
LEMMA WalkNull ==
  ASSUME NEW a, NEW p, NEW k \in Nat, Walk(a, p, k) = NULL
  PROVE  \A m \in Nat : Walk(a, p, k + m) = NULL
<1> DEFINE S == {m \in Nat : Walk(a, p, k + m) = NULL}
<1>1. 0 \in S
  OBVIOUS
<1>2. ASSUME NEW n \in Nat, n \in S
      PROVE  n + 1 \in S
  <2>1. k + n \in Nat /\ k + (n + 1) = (k + n) + 1
    OBVIOUS
  <2>2. Walk(a, p, (k + n) + 1) = NULL
    BY Zenon, <1>2, <2>1, WalkSteps
  <2>3. QED
    BY <2>1, <2>2
<1> HIDE DEF S
<1>3. Nat \subseteq S
  BY Zenon, <1>1, <1>2, NatInduct
<1>4. QED
  BY Zenon, <1>3 DEF S

\* A walk that ends meets no block twice.
LEMMA WalkDistinct ==
  ASSUME NEW a, NEW p, Ends(a, p), NEW i \in Nat, NEW j \in Nat, i < j,
         Walk(a, p, i) = Walk(a, p, j)
  PROVE  Walk(a, p, i) = NULL
<1> DEFINE T == {k \in Nat : Walk(a, p, k) = NULL}
<1>1. PICK d \in T : \A k \in T : d <= k
  <2>1. T \subseteq Nat /\ T # {}
    BY Zenon DEF Ends
  <2> HIDE DEF T
  <2>2. QED
    BY Zenon, <2>1, LeastNumber
<1>2. d \in Nat /\ Walk(a, p, d) = NULL
  BY Zenon, <1>1
<1>3. CASE d <= j
  <2>1. Walk(a, p, d + (j - d)) = NULL
    BY <1>2, <1>3, WalkNull
  <2>2. QED
    BY <1>2, <1>3, <2>1
<1>4. CASE j < d
  <2>1. d - j \in Nat /\ i + (d - j) \in Nat /\ i + (d - j) < d /\ j + (d - j) = d
    BY <1>2, <1>4
  <2>2. Walk(a, p, i + (d - j)) = NULL
    <3>1. \A m \in Nat : Walk(a, p, i + m) = Walk(a, p, j + m)
      BY WalkShift
    <3>2. QED
      BY Zenon, <1>2, <2>1, <3>1
  <2>3. i + (d - j) \in T
    BY Zenon, <2>1, <2>2
  <2>4. QED
    BY <1>1, <1>2, <2>1, <2>3
<1>5. QED
  BY <1>2, <1>3, <1>4

\* It has no more blocks than there are.
LEMMA WalkDepth ==
  ASSUME NEW a \in Ptrs, NEW p \in [Blocks -> Ptrs], Ends(a, p)
  PROVE  /\ Walk(a, p, numElementsInPool) = NULL
         /\ Reach(a, p) = {Walk(a, p, k) : k \in 0 .. numElementsInPool - 1} \ {NULL}
<1> DEFINE N == numElementsInPool
<1>1. N \in Nat
  BY Zenon, PoolAssumption, FS_CardinalityType DEF numElementsInPool
<1>2. Walk(a, p, N) = NULL
  <2> SUFFICES ASSUME Walk(a, p, N) # NULL PROVE FALSE
    OBVIOUS
  <2> DEFINE w == [k \in 0 .. N |-> Walk(a, p, k)]
  <2>1. \A k \in 0 .. N : Walk(a, p, k) # NULL
    <3>1. SUFFICES ASSUME NEW k \in 0 .. N, Walk(a, p, k) = NULL PROVE FALSE
      OBVIOUS
    <3>2. k \in Nat /\ N - k \in Nat /\ k + (N - k) = N
      BY <1>1
    <3>3. QED
      BY <3>1, <3>2, WalkNull
  <2>2. \A k \in 0 .. N : Walk(a, p, k) \in Blocks
    BY <1>1, <2>1, WalkType DEF Ptrs
  <2>3. ASSUME NEW i \in 0 .. N, NEW j \in 0 .. N, Walk(a, p, i) = Walk(a, p, j)
        PROVE  i = j
    <3>1. i \in Nat /\ j \in Nat /\ (i < j \/ j < i \/ i = j)
      BY <1>1
    <3>2. QED
      BY Zenon, <2>1, <2>3, <3>1, WalkDistinct
  <2>4. w \in Injection(0 .. N, Blocks)
    BY Zenon, <2>2, <2>3 DEF Injection, IsInjective
  <2>5. Cardinality(0 .. N) <= N
    BY Zenon, <2>4, PoolAssumption, FS_Injection DEF numElementsInPool
  <2>6. Cardinality(0 .. N) = N + 1
    BY <1>1, FS_Interval
  <2>7. QED
    BY <1>1, <2>5, <2>6
<1>3. ASSUME NEW k \in Nat, Walk(a, p, k) # NULL
      PROVE  k \in 0 .. N - 1
  <2>1. CASE k >= N
    <3>1. k - N \in Nat /\ N + (k - N) = k
      BY <1>1, <2>1
    <3>2. QED
      BY <1>1, <1>2, <1>3, <3>1, WalkNull
  <2>2. QED
    BY <1>1, <2>1
<1>4. QED
  BY <1>1, <1>2, <1>3 DEF Reach

LEMMA ReachTail ==
  ASSUME NEW a \in Blocks, NEW p \in [Blocks -> Ptrs], Ends(a, p)
  PROVE  Ends(p[a], p) /\ a \in Reach(a, p) /\ Reach(p[a], p) = Reach(a, p) \ {a}
<1>1. a # NULL /\ Walk(a, p, 0) = a
  BY Zenon, PoolAssumption, WalkSteps
<1>2. \A k \in Nat : Walk(p[a], p, k) = Walk(a, p, k + 1)
  BY Zenon, <1>1, WalkTail
<1>3. Ends(p[a], p)
  <2>1. PICK k \in Nat : Walk(a, p, k) = NULL
    BY Zenon DEF Ends
  <2>2. k - 1 \in Nat /\ (k - 1) + 1 = k
    BY <1>1, <2>1
  <2>3. QED
    BY Zenon, <1>2, <2>1, <2>2 DEF Ends
<1>4. a \in Reach(a, p)
  BY Zenon, <1>1 DEF Reach
<1>5. ASSUME NEW b \in Reach(p[a], p)
      PROVE  b \in Reach(a, p) \ {a}
  <2>1. PICK k \in Nat : b = Walk(a, p, k + 1) /\ b # NULL
    BY Zenon, <1>2 DEF Reach
  <2>2. k + 1 \in Nat /\ 0 < k + 1
    OBVIOUS
  <2>3. b # a
    BY Zenon, <1>1, <2>1, <2>2, WalkDistinct
  <2>4. QED
    BY Zenon, <2>1, <2>2, <2>3 DEF Reach
<1>6. ASSUME NEW b \in Reach(a, p) \ {a}
      PROVE  b \in Reach(p[a], p)
  <2>1. PICK k \in Nat : b = Walk(a, p, k) /\ b # NULL
    BY Zenon DEF Reach
  <2>2. k - 1 \in Nat /\ (k - 1) + 1 = k
    BY <1>1, <1>6, <2>1
  <2>3. QED
    BY Zenon, <1>2, <2>1, <2>2 DEF Reach
<1>7. QED
  BY Zenon, <1>3, <1>4, <1>5, <1>6

LEMMA ReachPush ==
  ASSUME NEW a \in Ptrs, NEW p \in [Blocks -> Ptrs], Ends(a, p),
         NEW b \in Blocks, b \notin Reach(a, p), p[b] = a
  PROVE  Ends(b, p) /\ Reach(b, p) = Reach(a, p) \cup {b}
<1>1. b # NULL /\ Walk(b, p, 0) = b
  BY Zenon, PoolAssumption, WalkSteps
<1>2. \A k \in Nat : Walk(a, p, k) = Walk(b, p, k + 1)
  BY Zenon, <1>1, WalkTail
<1>3. Ends(b, p)
  <2>1. PICK k \in Nat : Walk(a, p, k) = NULL
    BY Zenon DEF Ends
  <2>2. k + 1 \in Nat /\ Walk(b, p, k + 1) = NULL
    BY <1>2, <2>1
  <2>3. QED
    BY Zenon, <2>2 DEF Ends
<1>4. b \in Reach(b, p) /\ Reach(a, p) = Reach(b, p) \ {b}
  BY Zenon, <1>3, ReachTail
<1>5. QED
  BY Zenon, <1>3, <1>4

\* A pointer of a block that is not on the walk does not matter.
LEMMA ReachFrame ==
  ASSUME NEW a \in Ptrs, NEW p \in [Blocks -> Ptrs], NEW b \in Blocks, NEW x,
         b \notin Reach(a, p)
  PROVE  LET q == [p EXCEPT ![b] = x]
         IN  (Ends(a, q) <=> Ends(a, p)) /\ Reach(a, q) = Reach(a, p)
<1> DEFINE q == [p EXCEPT ![b] = x]
           S == {k \in Nat : Walk(a, q, k) = Walk(a, p, k)}
<1>1. 0 \in S
  <2> HIDE DEF q
  <2> QED BY WalkSteps
<1>2. ASSUME NEW n \in Nat, n \in S
      PROVE  n + 1 \in S
  <2>1. CASE Walk(a, p, n) = NULL
    <3>1. Walk(a, q, n) = NULL
      BY Zenon, <1>2, <2>1
    <3> HIDE DEF q
    <3>2. /\ Walk(a, q, n + 1) = IF Walk(a, q, n) = NULL THEN NULL ELSE q[Walk(a, q, n)]
          /\ Walk(a, p, n + 1) = IF Walk(a, p, n) = NULL THEN NULL ELSE p[Walk(a, p, n)]
      BY WalkSteps, Zenon
    <3>3. QED
      BY <2>1, <3>1, <3>2, n + 1 \in Nat
  <2>2. CASE Walk(a, p, n) # NULL
    <3>1. Walk(a, p, n) \in Blocks \ {b}
      BY Zenon, <2>2, WalkType DEF Ptrs, Reach
    <3>2. q[Walk(a, p, n)] = p[Walk(a, p, n)]
      BY Zenon, <3>1
    <3>3. Walk(a, q, n) = Walk(a, p, n)
      BY Zenon, <1>2
    <3> HIDE DEF q
    <3>4. Walk(a, q, n + 1) = Walk(a, p, n + 1)
      BY <2>2, <3>2, <3>3, WalkSteps
    <3>5. QED
      BY <3>4, n + 1 \in Nat
  <2>3. QED
    BY Zenon, <2>1, <2>2
<1> HIDE DEF S
<1>3. Nat \subseteq S
  BY Zenon, <1>1, <1>2, NatInduct
<1>4. \A k \in Nat : Walk(a, q, k) = Walk(a, p, k)
  BY Zenon, <1>3 DEF S
<1> HIDE DEF q
<1>5. (Ends(a, q) <=> Ends(a, p)) /\ Reach(a, q) = Reach(a, p)
  BY Zenon, <1>4 DEF Ends, Reach
<1>6. QED
  BY Zenon, <1>5 DEF q

-----------------------------------------------------------------------------
(* The inductive invariant.                                                *)

Tops == [ctr : Nat, ptr : Ptrs]

\* The steps between which a thread has a block of its own.
HoldPcs == {"count", "mark", "pushTop", "pushPtr", "pushCtr", "pushNext", "pushCas"}
Pcs == HoldPcs \cup {"idle", "popTop", "popPtr", "popCtr", "popNext", "popCas", "add"}

Stack == Reach(top.ptr, pNext)
At(l) == {t \in Threads : pc[t] = l}

TypeOK ==
  /\ top \in Tops /\ pNext \in [Blocks -> Ptrs] /\ isInUse \in [Blocks -> BOOLEAN]
  /\ availBlks \in Int /\ cookies \subseteq Blocks
  /\ pc \in [Threads -> Pcs] /\ old \in [Threads -> Tops]
  /\ next \in [Threads -> Ptrs] /\ blk \in [Threads -> Ptrs]

\* The stack ends.
EndInv == Ends(top.ptr, pNext)

\* A thread has a block just between the steps that take it and give it away.
HoldInv == \A t \in Threads : blk[t] # NULL <=> pc[t] \in HoldPcs

\* Every block has one place.
OwnerInv ==
  /\ \A t, u \in Threads : blk[t] = blk[u] /\ blk[t] # NULL => t = u
  /\ \A t \in Threads : blk[t] \notin cookies /\ blk[t] \notin Stack
  /\ cookies \cap Stack = {}
  /\ \A b \in Blocks : b \in cookies \/ b \in Stack \/ \E t \in Threads : blk[t] = b

\* A block is marked while a caller has it.
UseInv == \A b \in Blocks : isInUse[b] <=> b \in cookies

\* A thread at its swap: unless the counter has moved on, what it read is so.
LoadInv ==
  \A t \in Threads :
    /\ old[t].ctr <= top.ctr
    /\ pc[t] = "popCas" => /\ old[t].ptr # NULL
                           /\ old[t] = top => next[t] = pNext[top.ptr]
    /\ pc[t] = "pushCas" => pNext[blk[t]] = old[t].ptr

\* The free count, modulo 2^W.
CountInv ==
  availBlks = (Cardinality(Stack) + Cardinality(At("count")) - Cardinality(At("add"))) % 2 ^ W

IInv ==
  /\ TypeOK /\ EndInv /\ HoldInv /\ OwnerInv /\ UseInv /\ LoadInv /\ CountInv

-----------------------------------------------------------------------------
LEMMA PoolSize == numElementsInPool \in Nat /\ 2 ^ W \in Nat \ {0}
BY PoolAssumption, FS_CardinalityType DEF numElementsInPool

LEMMA ReachBlocks ==
  ASSUME NEW a \in Ptrs, NEW p \in [Blocks -> Ptrs]
  PROVE  Reach(a, p) \subseteq Blocks /\ IsFiniteSet(Reach(a, p)) /\ NULL \notin Reach(a, p)
<1>1. Reach(a, p) \subseteq Blocks /\ NULL \notin Reach(a, p)
  BY Zenon, WalkType DEF Reach, Ptrs
<1>2. QED
  BY Zenon, <1>1, FS_Subset, PoolAssumption

\* Nth and Chained are the walk and what it reaches.
LEMMA StackWalk ==
  ASSUME TypeOK
  PROVE  /\ Nth(numElementsInPool) = NULL <=> Ends(top.ptr, pNext)
         /\ Ends(top.ptr, pNext) => Chained = Stack
<1>1. top.ptr \in Ptrs /\ pNext \in [Blocks -> Ptrs]
  BY Zenon DEF TypeOK, Tops
<1>2. Nth(numElementsInPool) = Walk(top.ptr, pNext, numElementsInPool)
  BY Zenon, PoolSize, NthWalk
<1>3. Nth(numElementsInPool) = NULL => Ends(top.ptr, pNext)
  BY Zenon, <1>2, PoolSize DEF Ends
<1>4. Ends(top.ptr, pNext) => Nth(numElementsInPool) = NULL
  BY Zenon, <1>1, <1>2, WalkDepth
<1>5. ASSUME Ends(top.ptr, pNext)
      PROVE  Chained = Stack
  <2>1. Reach(top.ptr, pNext)
          = {Walk(top.ptr, pNext, k) : k \in 0 .. numElementsInPool - 1} \ {NULL}
    BY Zenon, <1>1, <1>5, WalkDepth
  <2>2. \A k \in 0 .. numElementsInPool - 1 : Nth(k) = Walk(top.ptr, pNext, k)
    BY PoolSize, NthWalk
  <2>3. QED
    BY Zenon, <2>1, <2>2 DEF Chained, Stack
<1>6. QED
  BY Zenon, <1>3, <1>4, <1>5

LEMMA InitIInv == Init => IInv
<1> SUFFICES ASSUME Init PROVE IInv
  OBVIOUS
<1>1. TypeOK
  BY PoolSize DEF Init, TypeOK, Tops, Ptrs, Pcs, HoldPcs
<1>2. EndInv /\ Stack = Blocks
  BY Zenon, <1>1, StackWalk DEF Init, EndInv
<1>3. HoldInv
  BY Zenon DEF Init, HoldInv, HoldPcs
<1>4. OwnerInv
  BY Zenon, <1>2, PoolAssumption DEF Init, OwnerInv
<1>5. UseInv
  BY Zenon DEF Init, UseInv
<1>6. LoadInv
  <2>1. top.ctr \in Nat
    BY Zenon, <1>1 DEF TypeOK, Tops
  <2>2. QED
    BY <2>1 DEF Init, LoadInv
<1>7. CountInv
  <2>1. At("count") = {} /\ At("add") = {}
    BY Zenon DEF Init, At
  <2>2. availBlks = numElementsInPool /\ numElementsInPool = Cardinality(Stack)
    BY Zenon, <1>2 DEF Init, numElementsInPool
  <2>3. (numElementsInPool + 0 - 0) % 2 ^ W = numElementsInPool
    BY PoolSize, PoolAssumption
  <2>4. QED
    BY Zenon, <2>1, <2>2, <2>3, FS_EmptySet DEF CountInv
<1>8. QED
  BY Zenon, <1>1, <1>2, <1>3, <1>4, <1>5, <1>6, <1>7 DEF IInv

-----------------------------------------------------------------------------
(* Each step keeps it.                                                     *)

\* Threads that move between other steps do not count.
LEMMA MoveAt ==
  ASSUME TypeOK, NEW t \in Threads, NEW m,
         pc' = [pc EXCEPT ![t] = m],
         m \notin {"count", "add"}, pc[t] \notin {"count", "add"}
  PROVE  At("count")' = At("count") /\ At("add")' = At("add")
BY Zenon DEF TypeOK, At

\* A step of one thread that changes neither the stack nor a block's place.
LEMMA QuietIInv ==
  ASSUME IInv, NEW t \in Threads, NEW m \in Pcs, pc' = [pc EXCEPT ![t] = m],
         m \in HoldPcs <=> pc[t] \in HoldPcs,
         m \notin {"count", "add"}, pc[t] \notin {"count", "add"},
         UNCHANGED <<top, pNext, isInUse, availBlks, cookies, blk>>,
         old' \in [Threads -> Tops], next' \in [Threads -> Ptrs],
         LoadInv'
  PROVE  IInv'
<1>1. TypeOK'
  BY Zenon DEF IInv, TypeOK
<1>2. EndInv' /\ Stack' = Stack
  BY Zenon DEF IInv, EndInv, Stack
<1>3. HoldInv'
  BY Zenon DEF IInv, HoldInv, TypeOK
<1>4. OwnerInv'
  BY Zenon, <1>2 DEF IInv, OwnerInv
<1>5. UseInv'
  BY Zenon DEF IInv, UseInv
<1>6. CountInv'
  BY Zenon, <1>2, MoveAt DEF IInv, CountInv
<1>7. QED
  BY Zenon, <1>1, <1>2, <1>3, <1>4, <1>5, <1>6 DEF IInv

LEMMA AllocBeginIInv ==
  ASSUME IInv, NEW t \in Threads, AllocBegin(t)
  PROVE  IInv'
<1>1. LoadInv'
  BY Zenon DEF IInv, LoadInv, TypeOK, AllocBegin
<1>2. /\ pc' = [pc EXCEPT ![t] = "popTop"] /\ pc[t] = "idle"
      /\ UNCHANGED <<top, pNext, isInUse, availBlks, cookies, blk>>
      /\ old' \in [Threads -> Tops] /\ next' \in [Threads -> Ptrs]
  BY Zenon DEF AllocBegin, IInv, TypeOK
<1>3. /\ "popTop" \in Pcs /\ "popTop" \notin HoldPcs /\ "idle" \notin HoldPcs
      /\ "popTop" \notin {"count", "add"} /\ "idle" \notin {"count", "add"}
  BY Zenon DEF Pcs, HoldPcs
<1>4. QED
  BY Zenon, <1>1, <1>2, <1>3, QuietIInv

LEMMA LoadIInv ==
  ASSUME IInv, NEW t \in Threads, NEW half \in {"ctr", "ptr"}, NEW from, NEW to \in Pcs,
         Load(t, half, from, to),
         to \in HoldPcs <=> from \in HoldPcs,
         to \notin {"count", "add", "popCas", "pushCas"}, from \notin {"count", "add"}
  PROVE  IInv'
<1>1. /\ old'[t] \in Tops /\ old'[t].ctr <= top.ctr
      /\ \A u \in Threads \ {t} : old'[u] = old[u]
  <2>1. /\ old[t] \in Tops /\ top \in Tops /\ old[t].ctr <= top.ctr
        /\ old' = [old EXCEPT ![t] = [old[t] EXCEPT ![half] = top[half]]]
    BY Zenon DEF IInv, TypeOK, LoadInv, Load
  <2>2. CASE half = "ctr"
    BY <2>1, <2>2 DEF IInv, TypeOK, Tops
  <2>3. CASE half = "ptr"
    BY Zenon, <2>1, <2>3 DEF IInv, TypeOK, Tops
  <2>4. QED
    BY Zenon, <2>2, <2>3
<1>2. old' \in [Threads -> Tops]
  BY Zenon, <1>1 DEF IInv, TypeOK, Load
<1>3. LoadInv'
  BY Zenon, <1>1 DEF IInv, LoadInv, TypeOK, Load
<1>4. QED
  BY Zenon, <1>2, <1>3, QuietIInv DEF IInv, TypeOK, Load

LEMMA PopTopIInv ==
  ASSUME IInv, NEW t \in Threads, PopTop(t)
  PROVE  IInv'
BY LoadIInv DEF PopTop, Pcs, HoldPcs

LEMMA PushTopIInv ==
  ASSUME IInv, NEW t \in Threads, PushTop(t)
  PROVE  IInv'
BY LoadIInv DEF PushTop, Pcs, HoldPcs

LEMMA PopEmptyIInv ==
  ASSUME IInv, NEW t \in Threads, PopEmpty(t)
  PROVE  IInv'
<1>1. LoadInv'
  BY Zenon DEF IInv, LoadInv, TypeOK, PopEmpty
<1>2. /\ pc' = [pc EXCEPT ![t] = "idle"] /\ pc[t] = "popNext"
      /\ UNCHANGED <<top, pNext, isInUse, availBlks, cookies, blk>>
      /\ old' \in [Threads -> Tops] /\ next' \in [Threads -> Ptrs]
  BY Zenon DEF PopEmpty, IInv, TypeOK
<1>3. /\ "idle" \in Pcs /\ "idle" \notin HoldPcs /\ "popNext" \notin HoldPcs
      /\ "idle" \notin {"count", "add"} /\ "popNext" \notin {"count", "add"}
  BY Zenon DEF Pcs, HoldPcs
<1>4. QED
  BY Zenon, <1>1, <1>2, <1>3, QuietIInv

LEMMA PopNextIInv ==
  ASSUME IInv, NEW t \in Threads, PopNext(t)
  PROVE  IInv'
<1>1. old[t].ptr \in Blocks
  BY Zenon DEF IInv, TypeOK, Tops, Ptrs, PopNext
<1>2. next' \in [Threads -> Ptrs]
  BY Zenon, <1>1 DEF IInv, TypeOK, PopNext
<1>3. LoadInv'
  BY Zenon DEF IInv, LoadInv, TypeOK, PopNext
<1>4. /\ pc' = [pc EXCEPT ![t] = "popCas"] /\ pc[t] = "popNext"
      /\ UNCHANGED <<top, pNext, isInUse, availBlks, cookies, blk>>
      /\ old' \in [Threads -> Tops]
  BY Zenon DEF PopNext, IInv, TypeOK
<1>5. /\ "popCas" \in Pcs /\ "popCas" \notin HoldPcs /\ "popNext" \notin HoldPcs
      /\ "popCas" \notin {"count", "add"} /\ "popNext" \notin {"count", "add"}
  BY Zenon DEF Pcs, HoldPcs
<1>6. QED
  BY Zenon, <1>2, <1>3, <1>4, <1>5, QuietIInv

LEMMA SwitchIInv ==
  ASSUME IInv, Disable \/ Enable
  PROVE  IInv'
<1>1. UNCHANGED <<top, pNext, isInUse, availBlks, cookies, pc, old, next, blk>>
  BY Zenon DEF Disable, Enable
<1>2. Stack' = Stack /\ EndInv' /\ At("count")' = At("count") /\ At("add")' = At("add")
  BY Zenon, <1>1 DEF Stack, IInv, EndInv, At
<1>3. QED
  BY Zenon, <1>1, <1>2 DEF IInv, TypeOK, HoldInv, OwnerInv, UseInv, LoadInv, CountInv

\* A swap that fails starts again.
LEMMA RetryIInv ==
  ASSUME IInv, NEW t \in Threads,
         NEW m \in {"popTop", "pushTop"}, pc' = [pc EXCEPT ![t] = m],
         pc[t] = IF m = "popTop" THEN "popCas" ELSE "pushCas",
         UNCHANGED <<top, pNext, isInUse, availBlks, cookies, old, next, blk>>
  PROVE  IInv'
<1>1. LoadInv'
  BY Zenon DEF IInv, LoadInv, TypeOK
<1>2. /\ m \in Pcs /\ (m \in HoldPcs <=> pc[t] \in HoldPcs)
      /\ m \notin {"count", "add"} /\ pc[t] \notin {"count", "add"}
  BY Zenon DEF Pcs, HoldPcs
<1>3. old' \in [Threads -> Tops] /\ next' \in [Threads -> Ptrs]
  BY Zenon DEF IInv, TypeOK
<1>4. QED
  BY Zenon, <1>1, <1>2, <1>3, QuietIInv

LEMMA AtFinite == ASSUME NEW l PROVE IsFiniteSet(At(l))
BY Zenon, PoolAssumption, FS_Subset DEF At

LEMMA PopCasIInv ==
  ASSUME IInv, NEW t \in Threads, PopCas(t)
  PROVE  IInv'
<1>1. CASE ~SameTop(t)
  <2>1. /\ pc' = [pc EXCEPT ![t] = "popTop"] /\ pc[t] = "popCas"
        /\ UNCHANGED <<top, pNext, isInUse, availBlks, cookies, old, next, blk>>
    BY Zenon, <1>1 DEF PopCas
  <2>2. QED
    BY Zenon, <2>1, RetryIInv
<1>2. CASE SameTop(t)
  <2>1. PICK a \in Blocks : a = top.ptr
    BY Zenon, <1>2 DEF IInv, LoadInv, PopCas, SameTop, TypeOK, Tops, Ptrs
  <2>2. /\ pc[t] = "popCas" /\ pc' = [pc EXCEPT ![t] = "count"]
        /\ top' = [ctr |-> top.ctr + 1, ptr |-> pNext[a]]
        /\ blk' = [blk EXCEPT ![t] = a]
        /\ UNCHANGED <<pNext, isInUse, availBlks, cookies, old, next>>
    BY Zenon, <1>2, <2>1 DEF IInv, LoadInv, PopCas, SameTop
  <2>3. /\ top.ctr \in Nat /\ a \in Ptrs /\ pNext[a] \in Ptrs
        /\ top'.ctr = top.ctr + 1 /\ top'.ptr = pNext[a]
        /\ pNext \in [Blocks -> Ptrs] /\ a # NULL
    BY Zenon, <2>2, PoolAssumption DEF IInv, TypeOK, Tops, Ptrs
  <2>4. EndInv' /\ a \in Stack /\ Stack' = Stack \ {a}
    BY Zenon, <2>1, <2>2, <2>3, ReachTail DEF IInv, EndInv, Stack
  <2>5. TypeOK'
    BY <2>2, <2>3 DEF IInv, TypeOK, Tops, Pcs, HoldPcs
  <2>6. HoldInv'
    BY Zenon, <2>2, <2>3 DEF IInv, HoldInv, TypeOK, HoldPcs
  <2>7. OwnerInv'
    <3>1. blk[t] = NULL
      BY Zenon, <2>2 DEF IInv, HoldInv, HoldPcs
    <3>2. \A u \in Threads : blk'[u] = IF u = t THEN a ELSE blk[u]
      BY Zenon, <2>2 DEF IInv, TypeOK
    <3>3. \A u \in Threads : blk[u] # a
      BY Zenon, <2>4 DEF IInv, OwnerInv
    <3>4. \A b \in Blocks : b \in cookies' \/ b \in Stack' \/ \E u \in Threads : blk'[u] = b
      <4> SUFFICES ASSUME NEW b \in Blocks
                   PROVE  b \in cookies' \/ b \in Stack' \/ \E u \in Threads : blk'[u] = b
        OBVIOUS
      <4>1. CASE b = a
        BY Zenon, <4>1, <3>2
      <4>2. CASE b # a /\ \E u \in Threads : blk[u] = b
        <5>1. PICK u \in Threads : blk[u] = b
          BY Zenon, <4>2
        <5>2. u # t
          BY Zenon, <3>1, <5>1, PoolAssumption
        <5>3. QED
          BY Zenon, <3>2, <5>1, <5>2
      <4>3. QED
        BY Zenon, <2>2, <2>4, <4>1, <4>2 DEF IInv, OwnerInv
    <3>5. QED
      BY <2>2, <2>4, <3>2, <3>3, <3>4 DEF IInv, OwnerInv
  <2>8. UseInv'
    BY Zenon, <2>2 DEF IInv, UseInv
  <2>9. LoadInv'
    <3> SUFFICES ASSUME NEW u \in Threads
                 PROVE  /\ old'[u].ctr <= top'.ctr
                        /\ pc'[u] = "popCas" => /\ old'[u].ptr # NULL
                                                /\ old'[u] = top' => next'[u] = pNext'[top'.ptr]
                        /\ pc'[u] = "pushCas" => pNext'[blk'[u]] = old'[u].ptr
      BY Zenon DEF LoadInv
    <3>1. old[u].ctr \in Nat /\ old[u].ctr <= top.ctr
      BY Zenon DEF IInv, TypeOK, Tops, LoadInv
    <3>2. old'[u] = old[u] /\ old'[u].ctr < top'.ctr /\ old'[u] # top'
      BY <2>2, <2>3, <3>1
    <3>3. /\ pc'[u] = "popCas" => pc[u] = "popCas"
          /\ pc'[u] = "pushCas" => pc[u] = "pushCas" /\ blk'[u] = blk[u]
      BY Zenon, <2>2 DEF IInv, TypeOK
    <3>4. QED
      BY <2>2, <2>3, <3>1, <3>2, <3>3 DEF IInv, LoadInv
  <2>10. CountInv'
    <3>1. At("count")' = At("count") \cup {t} /\ t \notin At("count") /\ At("add")' = At("add")
      BY Zenon, <2>2 DEF IInv, TypeOK, At
    <3>2. IsFiniteSet(Stack)
      BY Zenon, <2>1, <2>3, ReachBlocks DEF Stack
    <3>3. Cardinality(Stack') = Cardinality(Stack) - 1
      BY Zenon, <2>4, <3>2, FS_RemoveElement
    <3>4. Cardinality(At("count")') = Cardinality(At("count")) + 1
      BY Zenon, <3>1, AtFinite, FS_AddElement
    <3>5. /\ Cardinality(Stack) \in Nat /\ Cardinality(At("count")) \in Nat
          /\ Cardinality(At("add")) \in Nat
      BY Zenon, <3>2, AtFinite, FS_CardinalityType
    <3>6. Cardinality(Stack') + Cardinality(At("count")') - Cardinality(At("add")')
            = Cardinality(Stack) + Cardinality(At("count")) - Cardinality(At("add"))
      BY <3>1, <3>3, <3>4, <3>5
    <3>7. QED
      BY Zenon, <2>2, <3>6 DEF IInv, CountInv
  <2>11. QED
    BY Zenon, <2>4, <2>5, <2>6, <2>7, <2>8, <2>9, <2>10 DEF IInv
<1>3. QED
  BY Zenon, <1>1, <1>2

\* A thread that counts: the stack and the places of the blocks stay.
LEMMA CountingIInv ==
  ASSUME IInv, NEW t \in Threads, AllocCount(t) \/ FreeEnd(t)
  PROVE  IInv'
<1>1. UNCHANGED <<top, pNext, isInUse, cookies, old, next, blk>>
  BY Zenon DEF AllocCount, FreeEnd
<1>2. EndInv' /\ Stack' = Stack
  BY Zenon, <1>1 DEF IInv, EndInv, Stack
<1>3. /\ Cardinality(Stack) \in Nat
      /\ IsFiniteSet(At("count")) /\ Cardinality(At("count")) \in Nat
      /\ IsFiniteSet(At("add")) /\ Cardinality(At("add")) \in Nat
  BY Zenon, AtFinite, ReachBlocks, FS_CardinalityType DEF Stack, IInv, TypeOK, Tops
<1> DEFINE x == Cardinality(Stack) + Cardinality(At("count")) - Cardinality(At("add"))
<1>4. x \in Int /\ availBlks = x % 2 ^ W
  BY <1>3 DEF IInv, CountInv
<1>5. ASSUME AllocCount(t)
      PROVE  CountInv' /\ availBlks' \in Int
  <2>1. At("count")' = At("count") \ {t} /\ t \in At("count") /\ At("add")' = At("add")
    BY Zenon, <1>5 DEF AllocCount, IInv, TypeOK, At
  <2>2. Cardinality(At("count")') = Cardinality(At("count")) - 1
    BY Zenon, <1>3, <2>1, FS_RemoveElement
  <2>3. Cardinality(Stack') + Cardinality(At("count")') - Cardinality(At("add")') = x - 1
    BY <1>2, <1>3, <2>1, <2>2
  <2>4. availBlks' = (availBlks - 1) % 2 ^ W
    BY Zenon, <1>5 DEF AllocCount
  <2> HIDE DEF x
  <2>5. availBlks' = (x - 1) % 2 ^ W
    BY Zenon, <1>4, <2>4, PoolSize, ModBack
  <2>6. QED
    BY <1>4, <2>3, <2>5, PoolSize DEF CountInv
<1>6. ASSUME FreeEnd(t)
      PROVE  CountInv' /\ availBlks' \in Int
  <2>1. At("add")' = At("add") \ {t} /\ t \in At("add") /\ At("count")' = At("count")
    BY Zenon, <1>6 DEF FreeEnd, IInv, TypeOK, At
  <2>2. Cardinality(At("add")') = Cardinality(At("add")) - 1
    BY Zenon, <1>3, <2>1, FS_RemoveElement
  <2>3. Cardinality(Stack') + Cardinality(At("count")') - Cardinality(At("add")') = x + 1
    BY <1>2, <1>3, <2>1, <2>2
  <2>4. availBlks' = (availBlks + 1) % 2 ^ W
    BY Zenon, <1>6 DEF FreeEnd
  <2> HIDE DEF x
  <2>5. availBlks' = (x + 1) % 2 ^ W
    BY Zenon, <1>4, <2>4, PoolSize, ModStep
  <2>6. QED
    BY <1>4, <2>3, <2>5, PoolSize DEF CountInv
<1>7. PICK m \in {"mark", "idle"} :
        /\ pc' = [pc EXCEPT ![t] = m]
        /\ pc[t] = IF m = "mark" THEN "count" ELSE "add"
  BY Zenon DEF AllocCount, FreeEnd
<1>8. TypeOK'
  BY Zenon, <1>1, <1>5, <1>6, <1>7 DEF IInv, TypeOK, Pcs, HoldPcs
<1>9. HoldInv'
  BY Zenon, <1>1, <1>7 DEF IInv, TypeOK, HoldInv, HoldPcs
<1>10. OwnerInv' /\ UseInv'
  BY Zenon, <1>1, <1>2 DEF IInv, OwnerInv, UseInv
<1>11. LoadInv'
  BY Zenon, <1>1, <1>7 DEF IInv, TypeOK, LoadInv
<1>12. QED
  BY Zenon, <1>2, <1>5, <1>6, <1>8, <1>9, <1>10, <1>11 DEF IInv

\* What the thread took goes to a caller.
LEMMA AllocEndIInv ==
  ASSUME IInv, NEW t \in Threads, AllocEnd(t)
  PROVE  IInv'
<1>1. PICK b \in Blocks : b = blk[t]
  BY Zenon DEF AllocEnd, IInv, TypeOK, HoldInv, HoldPcs, Ptrs
<1>2. /\ pc[t] = "mark" /\ pc' = [pc EXCEPT ![t] = "idle"]
      /\ isInUse' = [isInUse EXCEPT ![b] = TRUE] /\ cookies' = cookies \cup {b}
      /\ blk' = [blk EXCEPT ![t] = NULL]
      /\ UNCHANGED <<top, pNext, availBlks, old, next>>
  BY Zenon, <1>1 DEF AllocEnd
<1>3. EndInv' /\ Stack' = Stack /\ b \notin Stack /\ NULL \notin Stack /\ NULL \notin Blocks
  BY Zenon, <1>1, <1>2, ReachBlocks, PoolAssumption
     DEF IInv, EndInv, Stack, OwnerInv, TypeOK, Tops
<1>4. TypeOK'
  BY Zenon, <1>2 DEF IInv, TypeOK, Pcs, Ptrs
<1>5. HoldInv'
  BY Zenon, <1>2 DEF IInv, TypeOK, HoldInv, HoldPcs
<1>6. OwnerInv'
  <2>1. \A u \in Threads : blk'[u] = IF u = t THEN NULL ELSE blk[u]
    BY Zenon, <1>2 DEF IInv, TypeOK
  <2>2. \A u \in Threads \ {t} : blk[u] # b
    BY Zenon, <1>1, <1>3 DEF IInv, OwnerInv
  <2>3. \A c \in Blocks : c \in cookies' \/ c \in Stack' \/ \E u \in Threads : blk'[u] = c
    <3> SUFFICES ASSUME NEW c \in Blocks, c \notin cookies', c \notin Stack'
                 PROVE  \E u \in Threads : blk'[u] = c
      OBVIOUS
    <3>1. PICK u \in Threads : blk[u] = c
      BY Zenon, <1>2, <1>3 DEF IInv, OwnerInv
    <3>2. u # t
      BY Zenon, <1>1, <1>2, <3>1
    <3>3. QED
      BY Zenon, <2>1, <3>1, <3>2
  <2>4. NULL \notin cookies'
    BY Zenon, <1>2, <1>3 DEF IInv, TypeOK
  <2>5. QED
    BY <1>2, <1>3, <2>1, <2>2, <2>3, <2>4 DEF IInv, OwnerInv
<1>7. UseInv'
  BY Zenon, <1>2 DEF IInv, UseInv, TypeOK
<1>8. LoadInv'
  BY Zenon, <1>2 DEF IInv, TypeOK, LoadInv
<1>9. CountInv'
  <2>1. "idle" \notin {"count", "add"} /\ pc[t] \notin {"count", "add"}
    BY Zenon, <1>2
  <2>2. QED
    BY Zenon, <1>2, <1>3, <2>1, MoveAt DEF IInv, CountInv
<1>10. QED
  BY Zenon, <1>3, <1>4, <1>5, <1>6, <1>7, <1>8, <1>9 DEF IInv

\* A caller gives its block back.
LEMMA FreeBeginIInv ==
  ASSUME IInv, NEW t \in Threads, NEW b \in Blocks, FreeBegin(t, b)
  PROVE  IInv'
<1>1. /\ pc[t] = "idle" /\ pc' = [pc EXCEPT ![t] = "pushTop"]
      /\ b \in cookies /\ cookies' = cookies \ {b}
      /\ isInUse' = [isInUse EXCEPT ![b] = FALSE] /\ blk' = [blk EXCEPT ![t] = b]
      /\ UNCHANGED <<top, pNext, availBlks, old, next>>
  BY Zenon DEF FreeBegin
<1>2. EndInv' /\ Stack' = Stack /\ b \notin Stack /\ b # NULL /\ blk[t] = NULL
  BY Zenon, <1>1, PoolAssumption
     DEF IInv, EndInv, Stack, OwnerInv, HoldInv, HoldPcs
<1>3. TypeOK'
  BY Zenon, <1>1 DEF IInv, TypeOK, Pcs, HoldPcs, Ptrs
<1>4. HoldInv'
  BY Zenon, <1>1, <1>2 DEF IInv, TypeOK, HoldInv, HoldPcs
<1>5. OwnerInv'
  <2>1. \A u \in Threads : blk'[u] = IF u = t THEN b ELSE blk[u]
    BY Zenon, <1>1 DEF IInv, TypeOK
  <2>2. \A u \in Threads : blk[u] # b
    BY Zenon, <1>1 DEF IInv, OwnerInv
  <2>3. \A c \in Blocks : c \in cookies' \/ c \in Stack' \/ \E u \in Threads : blk'[u] = c
    <3> SUFFICES ASSUME NEW c \in Blocks, c \notin cookies', c \notin Stack', c # b
                 PROVE  \E u \in Threads : blk'[u] = c
      BY Zenon, <2>1
    <3>1. PICK u \in Threads : blk[u] = c
      BY Zenon, <1>1, <1>2 DEF IInv, OwnerInv
    <3>2. u # t
      BY Zenon, <1>2, <3>1, PoolAssumption
    <3>3. QED
      BY Zenon, <2>1, <3>1, <3>2
  <2>4. QED
    BY <1>1, <1>2, <2>1, <2>2, <2>3 DEF IInv, OwnerInv
<1>6. UseInv'
  BY Zenon, <1>1 DEF IInv, UseInv, TypeOK
<1>7. LoadInv'
  BY Zenon, <1>1 DEF IInv, TypeOK, LoadInv
<1>8. CountInv'
  <2>1. "pushTop" \notin {"count", "add"} /\ pc[t] \notin {"count", "add"}
    BY Zenon, <1>1
  <2>2. QED
    BY Zenon, <1>1, <1>2, <2>1, MoveAt DEF IInv, CountInv
<1>9. QED
  BY Zenon, <1>2, <1>3, <1>4, <1>5, <1>6, <1>7, <1>8 DEF IInv

\* The pointer of a block that is not on the stack is set.
LEMMA PushNextIInv ==
  ASSUME IInv, NEW t \in Threads, PushNext(t)
  PROVE  IInv'
<1>1. PICK b \in Blocks : b = blk[t]
  BY Zenon DEF PushNext, IInv, TypeOK, HoldInv, HoldPcs, Ptrs
<1>2. PICK a \in Ptrs : a = top.ptr
  BY Zenon DEF IInv, TypeOK, Tops
<1>3. PICK x \in Ptrs : x = old[t].ptr
  BY Zenon DEF IInv, TypeOK, Tops
<1>4. /\ pc[t] = "pushNext" /\ pc' = [pc EXCEPT ![t] = "pushCas"]
      /\ pNext' = [pNext EXCEPT ![b] = x]
      /\ UNCHANGED <<top, isInUse, availBlks, cookies, old, next, blk>>
  BY Zenon, <1>1, <1>3 DEF PushNext
<1>5. b \notin Reach(a, pNext) /\ pNext \in [Blocks -> Ptrs] /\ Ends(a, pNext)
  BY Zenon, <1>1, <1>2 DEF IInv, OwnerInv, Stack, TypeOK, EndInv
<1>6. Ends(a, pNext') /\ Reach(a, pNext') = Reach(a, pNext)
  BY Zenon, <1>4, <1>5, ReachFrame
<1>7. EndInv' /\ Stack' = Stack
  BY Zenon, <1>2, <1>4, <1>6 DEF EndInv, Stack
<1>8. TypeOK'
  BY Zenon, <1>4 DEF IInv, TypeOK, Pcs, HoldPcs
<1>9. HoldInv'
  BY Zenon, <1>4 DEF IInv, TypeOK, HoldInv, HoldPcs
<1>10. OwnerInv' /\ UseInv'
  BY Zenon, <1>4, <1>7 DEF IInv, OwnerInv, UseInv
<1>11. LoadInv'
  <2> SUFFICES ASSUME NEW u \in Threads
               PROVE  /\ old'[u].ctr <= top'.ctr
                      /\ pc'[u] = "popCas" => /\ old'[u].ptr # NULL
                                              /\ old'[u] = top' => next'[u] = pNext'[top'.ptr]
                      /\ pc'[u] = "pushCas" => pNext'[blk'[u]] = old'[u].ptr
    BY Zenon DEF LoadInv
  <2>1. ASSUME pc[u] = "popCas", old[u] = top
        PROVE  pNext'[top.ptr] = pNext[top.ptr]
    <3>1. a \in Blocks
      BY Zenon, <1>2, <2>1 DEF IInv, LoadInv, Ptrs
    <3>2. a # b
      BY Zenon, <1>5, <3>1, ReachTail
    <3>3. QED
      BY Zenon, <1>2, <1>4, <1>5, <3>1, <3>2
  <2>2. ASSUME pc[u] = "pushCas", u # t
        PROVE  pNext'[blk[u]] = pNext[blk[u]]
    <3>1. blk[u] \in Blocks
      BY Zenon, <2>2 DEF IInv, TypeOK, HoldInv, HoldPcs, Ptrs
    <3>2. blk[u] # b
      BY Zenon, <1>1, <2>2, <3>1, PoolAssumption DEF IInv, OwnerInv
    <3>3. QED
      BY Zenon, <1>4, <1>5, <3>1, <3>2
  <2>3. CASE u = t
    BY Zenon, <1>1, <1>3, <1>4, <2>3 DEF IInv, TypeOK, LoadInv
  <2>4. CASE u # t
    <3>1. pc'[u] = pc[u]
      BY Zenon, <1>4, <2>4 DEF IInv, TypeOK
    <3>2. QED
      BY Zenon, <1>4, <2>1, <2>2, <2>4, <3>1 DEF IInv, LoadInv
  <2>5. QED
    BY Zenon, <2>3, <2>4
<1>12. CountInv'
  <2>1. "pushCas" \notin {"count", "add"} /\ pc[t] \notin {"count", "add"}
    BY Zenon, <1>4
  <2>2. QED
    BY Zenon, <1>4, <1>7, <2>1, MoveAt DEF IInv, CountInv
<1>13. QED
  BY Zenon, <1>7, <1>8, <1>9, <1>10, <1>11, <1>12 DEF IInv

LEMMA PushCasIInv ==
  ASSUME IInv, NEW t \in Threads, PushCas(t)
  PROVE  IInv'
<1>1. CASE ~SameTop(t)
  <2>1. /\ pc' = [pc EXCEPT ![t] = "pushTop"] /\ pc[t] = "pushCas"
        /\ UNCHANGED <<top, pNext, isInUse, availBlks, cookies, old, next, blk>>
    BY Zenon, <1>1 DEF PushCas
  <2>2. QED
    BY Zenon, <2>1, RetryIInv
<1>2. CASE SameTop(t)
  <2>1. PICK b \in Blocks : b = blk[t]
    BY Zenon DEF PushCas, IInv, TypeOK, HoldInv, HoldPcs, Ptrs
  <2>2. PICK a \in Ptrs : a = top.ptr
    BY DEF IInv, TypeOK, Tops
  <2>3. /\ pc[t] = "pushCas" /\ pc' = [pc EXCEPT ![t] = "add"]
        /\ top' = [ctr |-> top.ctr + 1, ptr |-> b]
        /\ blk' = [blk EXCEPT ![t] = NULL]
        /\ UNCHANGED <<pNext, isInUse, availBlks, cookies, old, next>>
    BY Zenon, <1>2, <2>1 DEF PushCas, SameTop
  <2>4. /\ b \notin Reach(a, pNext) /\ pNext \in [Blocks -> Ptrs] /\ Ends(a, pNext)
        /\ pNext[b] = a /\ top.ctr \in Nat /\ top'.ctr = top.ctr + 1 /\ top'.ptr = b
        /\ b \in Ptrs /\ b \notin cookies
    BY Zenon, <1>2, <2>1, <2>2, <2>3
       DEF IInv, OwnerInv, Stack, TypeOK, EndInv, LoadInv, SameTop, Tops, Ptrs
  <2>5. EndInv' /\ b \notin Stack /\ Stack' = Stack \cup {b}
    BY <2>2, <2>3, <2>4, ReachPush DEF EndInv, Stack
  <2>6. TypeOK'
    BY <2>3, <2>4 DEF IInv, TypeOK, Tops, Pcs, HoldPcs, Ptrs
  <2>7. HoldInv'
    BY Zenon, <2>3 DEF IInv, HoldInv, TypeOK, HoldPcs
  <2>8. OwnerInv'
    <3>1. \A u \in Threads : blk'[u] = IF u = t THEN NULL ELSE blk[u]
      BY Zenon, <2>3 DEF IInv, TypeOK
    <3>2. NULL \notin Blocks /\ NULL \notin Stack /\ NULL \notin cookies
      BY Zenon, <2>2, <2>4, ReachBlocks, PoolAssumption DEF Stack, IInv, TypeOK
    <3>3. \A u \in Threads \ {t} : blk[u] # b
      BY Zenon, <2>1, <3>2 DEF IInv, OwnerInv
    <3>4. \A c \in Blocks : c \in cookies' \/ c \in Stack' \/ \E u \in Threads : blk'[u] = c
      <4> SUFFICES ASSUME NEW c \in Blocks, c \notin cookies', c \notin Stack'
                   PROVE  \E u \in Threads : blk'[u] = c
        OBVIOUS
      <4>1. PICK u \in Threads : blk[u] = c
        BY Zenon, <2>3, <2>5 DEF IInv, OwnerInv
      <4>2. u # t
        BY Zenon, <2>1, <2>5, <4>1
      <4>3. QED
        BY Zenon, <3>1, <4>1, <4>2
    <3>5. QED
      BY <2>3, <2>4, <2>5, <3>1, <3>2, <3>3, <3>4 DEF IInv, OwnerInv
  <2>9. UseInv'
    BY Zenon, <2>3 DEF IInv, UseInv
  <2>10. LoadInv'
    <3> SUFFICES ASSUME NEW u \in Threads
                 PROVE  /\ old'[u].ctr <= top'.ctr
                        /\ pc'[u] = "popCas" => /\ old'[u].ptr # NULL
                                                /\ old'[u] = top' => next'[u] = pNext'[top'.ptr]
                        /\ pc'[u] = "pushCas" => pNext'[blk'[u]] = old'[u].ptr
      BY Zenon DEF LoadInv
    <3>1. old[u].ctr \in Nat /\ old[u].ctr <= top.ctr
      BY Zenon DEF IInv, TypeOK, Tops, LoadInv
    <3>2. old'[u] = old[u] /\ old'[u].ctr < top'.ctr /\ old'[u] # top'
      BY <2>3, <2>4, <3>1
    <3>3. /\ pc'[u] = "popCas" => pc[u] = "popCas"
          /\ pc'[u] = "pushCas" => pc[u] = "pushCas" /\ blk'[u] = blk[u]
      BY Zenon, <2>3 DEF IInv, TypeOK
    <3>4. QED
      BY SMTT(30), <2>3, <2>4, <3>1, <3>2, <3>3 DEF IInv, LoadInv
  <2>11. CountInv'
    <3>1. At("add")' = At("add") \cup {t} /\ t \notin At("add") /\ At("count")' = At("count")
      BY Zenon, <2>3 DEF IInv, TypeOK, At
    <3>2. IsFiniteSet(Stack)
      BY Zenon, <2>2, <2>4, ReachBlocks DEF Stack
    <3>3. Cardinality(Stack') = Cardinality(Stack) + 1
      BY Zenon, <2>5, <3>2, FS_AddElement
    <3>4. Cardinality(At("add")') = Cardinality(At("add")) + 1
      BY Zenon, <3>1, AtFinite, FS_AddElement
    <3>5. /\ Cardinality(Stack) \in Nat /\ Cardinality(At("count")) \in Nat
          /\ Cardinality(At("add")) \in Nat
      BY Zenon, <3>2, AtFinite, FS_CardinalityType
    <3>6. Cardinality(Stack') + Cardinality(At("count")') - Cardinality(At("add")')
            = Cardinality(Stack) + Cardinality(At("count")) - Cardinality(At("add"))
      BY <3>1, <3>3, <3>4, <3>5
    <3>7. QED
      BY Zenon, <2>3, <3>6 DEF IInv, CountInv
  <2>12. QED
    BY Zenon, <2>5, <2>6, <2>7, <2>8, <2>9, <2>10, <2>11 DEF IInv
<1>3. QED
  BY <1>1, <1>2

LEMMA StutterIInv == ASSUME IInv, UNCHANGED vars PROVE IInv'
<1>1. /\ UNCHANGED <<top, pNext, isInUse, availBlks, cookies, pc, old, next, blk>>
  BY Zenon DEF vars
<1>2. Stack' = Stack /\ EndInv' /\ At("count")' = At("count") /\ At("add")' = At("add")
  BY Zenon, <1>1 DEF Stack, IInv, EndInv, At
<1>3. QED
  BY Zenon, <1>1, <1>2 DEF IInv, TypeOK, HoldInv, OwnerInv, UseInv, LoadInv, CountInv

LEMMA NextIInv == IInv /\ [Next]_vars => IInv'
<1> SUFFICES ASSUME IInv, [Next]_vars PROVE IInv'
  OBVIOUS
<1>1. CASE UNCHANGED vars
  BY Zenon, <1>1, StutterIInv
<1>2. CASE Disable \/ Enable
  BY Zenon, <1>2, SwitchIInv
<1>3. ASSUME NEW t \in Threads, AllocBegin(t) \/ Alloc(t)
      PROVE  IInv'
  BY Zenon, <1>3, AllocBeginIInv, PopTopIInv, PopEmptyIInv, PopNextIInv, PopCasIInv, CountingIInv,
     AllocEndIInv DEF Alloc
<1>4. ASSUME NEW t \in Threads, (\E b \in Blocks : FreeBegin(t, b)) \/ Free(t)
      PROVE  IInv'
  BY Zenon, <1>4, FreeBeginIInv, PushTopIInv, PushNextIInv, PushCasIInv, CountingIInv DEF Free
<1>5. QED
  BY Zenon, <1>1, <1>2, <1>3, <1>4 DEF Next

-----------------------------------------------------------------------------
(* The theorems.                                                           *)

\* Every step of a pop, a push, an allocation or a release keeps the invariant.
THEOREM Invariance == Spec => []IInv
<1>1. Init => IInv
  BY Zenon, InitIInv
<1>2. IInv /\ [Next]_vars => IInv'
  BY Zenon, NextIInv
<1>3. QED
  BY <1>1, <1>2, PTL DEF Spec

LEMMA ConservedIInv == IInv => BlocksConserved
<1> SUFFICES ASSUME IInv PROVE BlocksConserved
  OBVIOUS
<1>1. Nth(numElementsInPool) = NULL /\ Chained = Stack
  BY Zenon, StackWalk DEF IInv, EndInv
<1>2. ASSUME NEW b \in Blocks
      PROVE  Cardinality({t \in Threads : blk[t] = b})
               + (IF b \in Stack THEN 1 ELSE 0) + (IF b \in cookies THEN 1 ELSE 0) = 1
  <2> DEFINE H == {t \in Threads : blk[t] = b}
  <2>1. b # NULL
    BY Zenon, PoolAssumption
  <2>2. CASE H = {}
    <3>1. Cardinality(H) = 0
      BY Zenon, <2>2, FS_EmptySet
    <3>2. (b \in Stack /\ b \notin cookies) \/ (b \notin Stack /\ b \in cookies)
      BY Zenon, <2>2 DEF IInv, OwnerInv
    <3> HIDE DEF H
    <3>3. Cardinality(H) + (IF b \in Stack THEN 1 ELSE 0) + (IF b \in cookies THEN 1 ELSE 0) = 1
      BY <3>1, <3>2
    <3>4. QED
      BY Zenon, <3>3 DEF H
  <2>3. ASSUME NEW t \in H
        PROVE  Cardinality(H)
                 + (IF b \in Stack THEN 1 ELSE 0) + (IF b \in cookies THEN 1 ELSE 0) = 1
    <3>1. H = {t}
      BY Zenon, <2>1 DEF IInv, OwnerInv
    <3>2. b \notin Stack /\ b \notin cookies
      BY Zenon DEF IInv, OwnerInv
    <3> HIDE DEF H
    <3>3. Cardinality(H) = 1
      BY Zenon, <3>1, FS_Singleton
    <3>4. QED
      BY <3>2, <3>3
  <2>4. QED
    BY Zenon, <2>2, <2>3
<1>3. /\ \A b \in cookies : isInUse[b]
      /\ \A b \in Stack : ~isInUse[b]
  <2>1. Stack \subseteq Blocks
    BY Zenon, ReachBlocks DEF IInv, TypeOK, Tops, Stack
  <2>2. QED
    BY Zenon, <2>1 DEF IInv, TypeOK, UseInv, OwnerInv
<1>4. availBlks = (Cardinality(Stack)
                   + Cardinality({t \in Threads : pc[t] = "count"})
                   - Cardinality({t \in Threads : pc[t] = "add"})) % 2 ^ W
  BY Zenon DEF IInv, CountInv, At
<1>5. QED
  BY Zenon, <1>1, <1>2, <1>3, <1>4 DEF BlocksConserved

\* For any number of threads and blocks, a pool neither loses a block nor gives
\* it to two owners, marks just the callers' blocks, and counts the free ones:
\* the compare-and-swap of counter and pointer makes the torn load of the top
\* and the read of pNext harmless.
THEOREM PoolConserved == Spec => []BlocksConserved
<1>1. IInv => BlocksConserved
  BY Zenon, ConservedIInv
<1>2. QED
  BY <1>1, Invariance, PTL
=============================================================================
