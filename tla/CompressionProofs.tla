------------------------- MODULE CompressionProofs --------------------------
(***************************************************************************)
(* Proofs about Compression, for every number of threads and sessions of   *)
(* each kind, every size of the rings and every number of calls and        *)
(* faults: how a stateful session frames its packets, and what a session   *)
(* counts.                                                                 *)
(***************************************************************************)
EXTENDS Compression, FiniteSetTheorems, TLAPS

Stateful == Of({"stateful"})

SessType ==
    [live : BOOLEAN, requestType : {"FIRST", "SUBSEQUENT"},
     previous : {"FIRST", "SUBSEQUENT"}, pending : Int]

Single == {"alloc", "create", "put", "restore", "undo", "wait"}
Chained == {"cookie", "prepare", "out_err"}

\* What a thread knows of its call.
ThrOK(t) ==
    /\ "pc" \in DOMAIN thr[t] /\ thr[t].pc \in {"idle"} \cup Single \cup Chained
    /\ thr[t].pc # "idle" =>
          /\ {"sess", "flush"} \subseteq DOMAIN thr[t]
          /\ thr[t].sess \in Sessions /\ sess[thr[t].sess].live
          /\ thr[t].flush \in {"NONE", "FINAL", "FULL"}
    /\ thr[t].pc \in Single => Kind[thr[t].sess] \in {"stateless", "stateful", "ns"}
    /\ thr[t].pc \in Chained =>
          /\ {"held", "links"} \subseteq DOMAIN thr[t]
          /\ thr[t].held \in [Pools -> Nat] /\ thr[t].links \in Seq({"dc", "sym"})
          /\ Kind[thr[t].sess] = "chain"
    /\ thr[t].pc = "put" => "sop" \in DOMAIN thr[t] /\ thr[t].sop \in BOOLEAN
    /\ thr[t].pc = "restore" => Kind[thr[t].sess] = "stateful"
    /\ thr[t].pc = "wait" => Kind[thr[t].sess] = "ns"

TypeOK ==
    /\ sess \in [Sessions -> SessType]
    /\ DOMAIN thr = Threads /\ \A t \in Threads : ThrOK(t)
    /\ ring \in Seq(Requests)
    /\ poll = None \/ poll \in [msg : Requests, step : {"status", "finish"}]
    /\ \A s \in Of({"ns"}) : sess[s].live

\* A request that a thread waits for is the only one.
WaitInv ==
    /\ \A k \in DOMAIN ring : ring[k].by # None =>
          /\ At(ring[k].by, "wait")
          /\ \A j \in DOMAIN ring : ring[j].by = ring[k].by => j = k
          /\ poll # None => poll.msg.by # ring[k].by
    /\ poll # None /\ poll.msg.by # None => At(poll.msg.by, "wait")

\* The calls on a session, its requests on the ring and the one handled.
Busy(s) == {t \in Threads : thr[t].pc # "idle" /\ thr[t].sess = s}
OnRing(s) == {k \in DOMAIN ring : ring[k].sess = s}
Handled(s) == poll # None /\ poll.msg.sess = s

\* A stateful session has one request at a time, which it counts.
OneInv(s) ==
    /\ sess[s].pending \in {0, 1}
    /\ ~sess[s].live => sess[s].pending = 0
    /\ \A t \in Busy(s) : /\ sess[s].pending = 1 /\ OnRing(s) = {} /\ ~Handled(s)
                          /\ \A u \in Busy(s) : u = t
    /\ \A k \in OnRing(s) : /\ sess[s].pending = 1 /\ ~Handled(s)
                            /\ \A j \in OnRing(s) : j = k
    /\ Handled(s) => sess[s].pending = 1

\* The type of the next request is settled: none is created and not answered.
Settled(s) ==
    /\ \A t \in Busy(s) : thr[t].pc \notin {"put", "restore"}
    /\ OnRing(s) = {}
    /\ Handled(s) => poll.step = "finish"

\* The next request is the first of a packet just if none is open; a request
\* not put yet is so marked, and what would be restored says so.
FrameInv(s) ==
    s \notin ghost.unframed =>
        /\ Settled(s) => (sess[s].requestType = "FIRST" <=> s \notin ghost.open)
        /\ \A t \in Busy(s) :
              /\ thr[t].pc = "put" => (thr[t].sop <=> s \notin ghost.open)
              /\ thr[t].pc \in {"put", "restore"} =>
                    (sess[s].previous = "FIRST" <=> s \notin ghost.open)

IInv ==
    /\ TypeOK /\ WaitInv /\ StreamFraming
    /\ \A s \in Stateful : OneInv(s) /\ FrameInv(s)

-----------------------------------------------------------------------------
(* The slots of the data plane's ring.                                     *)

\* From slot a of the data plane's ring on to slot b.
Ahead(a, b) == Wrap(b - a + Slots)

Numbers == 0 .. Slots - 1

\* The types of the data plane's ring.
DpType ==
    /\ {"slot", "tail", "csrTail", "next", "in_flight"} \subseteq DOMAIN dp
    /\ dp.slot \in [Numbers -> Sessions \cup {None}]
    /\ dp.tail \in Numbers /\ dp.csrTail \in Numbers /\ dp.next \in Numbers
    /\ dp.in_flight \in Int
    /\ "stale" \in DOMAIN ghost /\ ghost.stale \in BOOLEAN

\* Sets whose elements correspond one to one.
LEMMA Correspond ==
    ASSUME NEW S, NEW T, IsFiniteSet(S), NEW f \in [S -> T],
           \A x, y \in S : f[x] = f[y] => x = y, \A z \in T : \E x \in S : f[x] = z
    PROVE  IsFiniteSet(T) /\ Cardinality(T) = Cardinality(S)
<1>1. f \in Bijection(S, T)
  BY Zenon DEF Bijection, Injection, Surjection, IsInjective
<1>2. ExistsBijection(S, T)
  BY Zenon, <1>1 DEF ExistsBijection
<1>3. QED
  BY Zenon, <1>2, FS_Bijection

\* The responses of a poll, by session.
Answered(s, n) == {j \in 0 .. n - 1 : dp.slot[Wrap(dp.next + j)] = s}

LEMMA AnsweredFinite ==
    ASSUME NEW s, NEW n \in Nat
    PROVE  IsFiniteSet(Answered(s, n)) /\ Cardinality(Answered(s, n)) \in Nat
<1>1. IsFiniteSet(0 .. n - 1)
  BY FS_Interval
<1>2. Answered(s, n) \subseteq 0 .. n - 1
  BY Zenon DEF Answered
<1>3. QED
  BY Zenon, <1>1, <1>2, FS_Subset, FS_CardinalityType

\* What Wrap is of a number less than twice the slots.
LEMMA WrapFacts ==
    ASSUME NEW k \in Int
    PROVE  /\ 0 <= k /\ k < Slots => Wrap(k) = k
           /\ Slots <= k /\ k < 2 * Slots => Wrap(k) = k - Slots
<1>1. Slots \in Nat /\ Slots > 0
  BY CompressionAssumption
<1>2. QED
  BY <1>1 DEF Wrap

\* The way from a to b, around the end of the ring if b is before a.
LEMMA AheadFacts ==
    ASSUME NEW a \in Numbers, NEW b \in Numbers
    PROVE  /\ Ahead(a, b) \in Numbers
           /\ Ahead(a, b) = IF a <= b THEN b - a ELSE b - a + Slots
<1>1. Slots \in Nat /\ Slots > 0
  BY CompressionAssumption
<1>2. PICK k \in Int : k = b - a + Slots
  BY <1>1 DEF Numbers
<1>3. /\ 0 <= k /\ k < Slots => Wrap(k) = k
      /\ Slots <= k /\ k < 2 * Slots => Wrap(k) = k - Slots
  BY Zenon, WrapFacts
<1>4. Ahead(a, b) = Wrap(k)
  BY Zenon, <1>2 DEF Ahead
<1>5. QED
  BY <1>1, <1>2, <1>3, <1>4 DEF Numbers

\* n slots on from a.
LEMMA OnFacts ==
    ASSUME NEW a \in Numbers, NEW n \in Numbers
    PROVE  /\ Wrap(a + n) \in Numbers /\ Ahead(a, Wrap(a + n)) = n
           /\ Wrap(a + n) = IF a + n < Slots THEN a + n ELSE a + n - Slots
<1>1. Slots \in Nat /\ Slots > 0
  BY CompressionAssumption
<1>2. PICK k \in Int : k = a + n
  BY <1>1 DEF Numbers
<1>3. /\ 0 <= k /\ k < Slots => Wrap(k) = k
      /\ Slots <= k /\ k < 2 * Slots => Wrap(k) = k - Slots
  BY Zenon, WrapFacts
<1>4. PICK w \in Numbers :
        w = Wrap(a + n) /\ w = IF a + n < Slots THEN a + n ELSE a + n - Slots
  BY <1>1, <1>2, <1>3 DEF Numbers
<1>5. Ahead(a, w) = IF a <= w THEN w - a ELSE w - a + Slots
  BY Zenon, AheadFacts
<1>6. Ahead(a, w) = n
  BY <1>1, <1>2, <1>4, <1>5 DEF Numbers
<1>7. QED
  BY Zenon, <1>4, <1>6

\* Going the way from a to b leads to b.
LEMMA BackFacts ==
    ASSUME NEW a \in Numbers, NEW b \in Numbers
    PROVE  Wrap(a + Ahead(a, b)) = b
<1>1. Slots \in Nat /\ Slots > 0
  BY CompressionAssumption
<1>2. PICK n \in Numbers : n = Ahead(a, b) /\ n = IF a <= b THEN b - a ELSE b - a + Slots
  BY Zenon, AheadFacts
<1>3. Wrap(a + n) = IF a + n < Slots THEN a + n ELSE a + n - Slots
  BY Zenon, OnFacts
<1>4. QED
  BY <1>1, <1>2, <1>3 DEF Numbers

\* n slots are written at the tail q of a ring that is read at p.
LEMMA WriteFacts ==
    ASSUME NEW p \in Numbers, NEW q \in Numbers, NEW n \in Nat,
           Ahead(p, q) + n < Slots
    PROVE  /\ Ahead(p, Wrap(q + n)) = Ahead(p, q) + n
           /\ \A k \in Numbers :
                 /\ Ahead(p, k) < Ahead(p, q) => ~(Ahead(q, k) < n)
                 /\ Ahead(p, k) < Ahead(p, q) + n <=>
                       Ahead(p, k) < Ahead(p, q) \/ Ahead(q, k) < n
<1>1. Slots \in Nat /\ Slots > 0
  BY CompressionAssumption
<1>2. PICK f \in Numbers : f = Ahead(p, q) /\ f = IF p <= q THEN q - p ELSE q - p + Slots
  BY Zenon, AheadFacts
<1>3. n \in Numbers
  BY <1>1, <1>2 DEF Numbers
<1>4. PICK w \in Numbers : w = Wrap(q + n) /\ w = IF q + n < Slots THEN q + n ELSE q + n - Slots
  <2>1. /\ Wrap(q + n) \in Numbers
        /\ Wrap(q + n) = IF q + n < Slots THEN q + n ELSE q + n - Slots
    BY Zenon, <1>3, OnFacts
  <2>2. QED
    BY Zenon, <2>1
<1>5. Ahead(p, w) = IF p <= w THEN w - p ELSE w - p + Slots
  BY Zenon, AheadFacts
<1>6. Ahead(p, w) = f + n
  BY <1>1, <1>2, <1>3, <1>4, <1>5 DEF Numbers
<1>7. ASSUME NEW k \in Numbers
      PROVE  /\ Ahead(p, k) < f => ~(Ahead(q, k) < n)
             /\ Ahead(p, k) < f + n <=> Ahead(p, k) < f \/ Ahead(q, k) < n
  <2>1. PICK x \in Numbers : x = Ahead(p, k) /\ x = IF p <= k THEN k - p ELSE k - p + Slots
    BY Zenon, AheadFacts
  <2>2. PICK y \in Numbers : y = Ahead(q, k) /\ y = IF q <= k THEN k - q ELSE k - q + Slots
    BY Zenon, AheadFacts
  <2>3. (x < f => ~(y < n)) /\ (x < f + n <=> x < f \/ y < n)
    BY <1>1, <1>2, <1>3, <2>1, <2>2 DEF Numbers
  <2>4. QED
    BY Zenon, <2>1, <2>2, <2>3
<1>8. QED
  BY Zenon, <1>2, <1>4, <1>6, <1>7

\* n slots are read at p.
LEMMA ReadFacts ==
    ASSUME NEW p \in Numbers, NEW q \in Numbers, NEW n \in Nat, n <= Ahead(p, q)
    PROVE  /\ Ahead(Wrap(p + n), q) = Ahead(p, q) - n
           /\ \A k \in Numbers : Ahead(Wrap(p + n), k) < Ahead(p, q) - n <=>
                                    n <= Ahead(p, k) /\ Ahead(p, k) < Ahead(p, q)
<1>1. Slots \in Nat /\ Slots > 0
  BY CompressionAssumption
<1>2. PICK f \in Numbers : f = Ahead(p, q) /\ f = IF p <= q THEN q - p ELSE q - p + Slots
  BY Zenon, AheadFacts
<1>3. n \in Numbers
  BY <1>1, <1>2 DEF Numbers
<1>4. PICK w \in Numbers : w = Wrap(p + n) /\ w = IF p + n < Slots THEN p + n ELSE p + n - Slots
  <2>1. /\ Wrap(p + n) \in Numbers
        /\ Wrap(p + n) = IF p + n < Slots THEN p + n ELSE p + n - Slots
    BY Zenon, <1>3, OnFacts
  <2>2. QED
    BY Zenon, <2>1
<1>5. Ahead(w, q) = IF w <= q THEN q - w ELSE q - w + Slots
  BY Zenon, AheadFacts
<1>6. Ahead(w, q) = f - n
  BY <1>1, <1>2, <1>3, <1>4, <1>5 DEF Numbers
<1>7. ASSUME NEW k \in Numbers
      PROVE  Ahead(w, k) < f - n <=> n <= Ahead(p, k) /\ Ahead(p, k) < f
  <2>1. PICK x \in Numbers : x = Ahead(p, k) /\ x = IF p <= k THEN k - p ELSE k - p + Slots
    BY Zenon, AheadFacts
  <2>2. PICK y \in Numbers : y = Ahead(w, k) /\ y = IF w <= k THEN k - w ELSE k - w + Slots
    BY Zenon, AheadFacts
  <2>3. y < f - n <=> n <= x /\ x < f
    BY <1>1, <1>2, <1>3, <1>4, <2>1, <2>2 DEF Numbers
  <2>4. QED
    BY Zenon, <2>1, <2>2, <2>3
<1>8. QED
  BY Zenon, <1>2, <1>4, <1>6, <1>7

\* The n slots from a on, and those of session s among them.
Arc(a, n) == {k \in Numbers : Ahead(a, k) < n}

LEMMA ArcCount ==
    ASSUME NEW a \in Numbers, NEW n \in Nat, n < Slots
    PROVE  IsFiniteSet(Arc(a, n)) /\ Cardinality(Arc(a, n)) = n
<1>1. Slots \in Nat /\ Slots > 0
  BY CompressionAssumption
<1>2. \A j \in 0 .. n - 1 : j \in Numbers
  BY <1>1 DEF Numbers
<1>3. PICK f : f = [j \in 0 .. n - 1 |-> Wrap(a + j)]
  BY Zenon
<1>4. ASSUME NEW j \in 0 .. n - 1
      PROVE  f[j] \in Arc(a, n) /\ Ahead(a, f[j]) = j
  <2>1. f[j] = Wrap(a + j) /\ j \in Numbers
    BY Zenon, <1>2, <1>3
  <2>2. f[j] \in Numbers /\ Ahead(a, f[j]) = j
    BY Zenon, <2>1, OnFacts
  <2>3. j < n
    OBVIOUS
  <2>4. QED
    BY Zenon, <2>2, <2>3 DEF Arc
<1>5. f \in [0 .. n - 1 -> Arc(a, n)]
  BY Zenon, <1>3, <1>4
<1>6. \A i, j \in 0 .. n - 1 : f[i] = f[j] => i = j
  BY Zenon, <1>4
<1>7. ASSUME NEW k \in Arc(a, n) PROVE \E j \in 0 .. n - 1 : f[j] = k
  <2>1. k \in Numbers /\ Ahead(a, k) < n
    BY Zenon DEF Arc
  <2>2. PICK j \in Numbers : j = Ahead(a, k)
    BY Zenon, <2>1, AheadFacts
  <2>3. j \in 0 .. n - 1
    BY <1>1, <2>1, <2>2 DEF Numbers
  <2>4. f[j] = k
    BY Zenon, <1>3, <2>1, <2>2, <2>3, BackFacts
  <2>5. QED
    BY Zenon, <2>3, <2>4
<1>8. IsFiniteSet(0 .. n - 1) /\ Cardinality(0 .. n - 1) = n
  BY FS_Interval
<1>9. PICK S : S = 0 .. n - 1
  BY Zenon
<1>10. IsFiniteSet(Arc(a, n)) /\ Cardinality(Arc(a, n)) = Cardinality(S)
  BY Zenon, <1>5, <1>6, <1>7, <1>8, <1>9, Correspond
<1>11. QED
  BY Zenon, <1>8, <1>9, <1>10

\* The unanswered slots of a session, by their way from the next response.
LEMMA UnansweredIs ==
    ASSUME NEW s
    PROVE  /\ Unanswered(s) = {k \in Numbers : dp.slot[k] = s
                                  /\ Ahead(dp.next, k) < Ahead(dp.next, dp.tail)}
           /\ IsFiniteSet(Unanswered(s)) /\ Cardinality(Unanswered(s)) \in Nat
<1>1. Unanswered(s) = {k \in Numbers : dp.slot[k] = s
                          /\ Ahead(dp.next, k) < Ahead(dp.next, dp.tail)}
  BY Zenon DEF Unanswered, Numbers, Ahead
<1>2. IsFiniteSet(Numbers)
  <2>1. 0 \in Int /\ Slots - 1 \in Int
    BY CompressionAssumption
  <2>2. QED
    BY Zenon, <2>1, FS_Interval DEF Numbers
<1>3. Unanswered(s) \subseteq Numbers
  BY Zenon, <1>1
<1>4. QED
  BY Zenon, <1>1, <1>2, <1>3, FS_Subset, FS_CardinalityType

\* Requests of session s are written to n slots: those of the other sessions
\* stay what they are, and s has n more.
LEMMA WriteCount ==
    ASSUME DpType, NEW s \in Sessions, NEW n \in Nat,
           Ahead(dp.next, dp.tail) + n < Slots,
           dp'.next = dp.next, dp'.tail = Wrap(dp.tail + n), dp'.slot = Written(s, n)
    PROVE  /\ dp'.slot \in [Numbers -> Sessions \cup {None}] /\ dp'.tail \in Numbers
           /\ Ahead(dp'.next, dp'.tail) = Ahead(dp.next, dp.tail) + n
           /\ \A x : x # s => Unanswered(x)' = Unanswered(x)
           /\ Cardinality(Unanswered(s)') = Cardinality(Unanswered(s)) + n
<1>1. Slots \in Nat /\ Slots > 0
  BY CompressionAssumption
<1>2. PICK p \in Numbers, q \in Numbers : p = dp.next /\ q = dp.tail
  BY Zenon DEF DpType
<1>3. Ahead(p, q) \in Numbers
  BY Zenon, AheadFacts
<1>4. n \in Numbers /\ n < Slots
  BY <1>1, <1>2, <1>3 DEF Numbers
<1>5. /\ Ahead(p, Wrap(q + n)) = Ahead(p, q) + n
      /\ \A k \in Numbers :
            /\ Ahead(p, k) < Ahead(p, q) => ~(Ahead(q, k) < n)
            /\ Ahead(p, k) < Ahead(p, q) + n <=>
                  Ahead(p, k) < Ahead(p, q) \/ Ahead(q, k) < n
  <2>1. Ahead(p, q) + n < Slots
    BY Zenon, <1>2
  <2>2. QED
    BY Zenon, <2>1, WriteFacts
<1>6. /\ DOMAIN dp'.slot = Numbers
      /\ \A k \in Numbers : dp'.slot[k] = IF Ahead(q, k) < n THEN s ELSE dp.slot[k]
  <2>1. Written(s, n) = [k \in Numbers |-> IF Ahead(q, k) < n THEN s ELSE dp.slot[k]]
    BY Zenon, <1>2 DEF Written, Numbers, Ahead
  <2>2. QED
    BY Zenon, <2>1
<1>7. dp'.slot \in [Numbers -> Sessions \cup {None}]
  <2>1. dp'.slot = [k \in Numbers |-> IF Ahead(q, k) < n THEN s ELSE dp.slot[k]]
    BY Zenon, <1>2 DEF Written, Numbers, Ahead
  <2>2. \A k \in Numbers : dp'.slot[k] \in Sessions \cup {None}
    <3>1. \A k \in Numbers : dp.slot[k] \in Sessions \cup {None}
      BY Zenon DEF DpType
    <3>2. s \in Sessions \cup {None}
      BY Zenon
    <3>3. QED
      BY Zenon, <1>6, <3>1, <3>2
  <2>3. dp'.slot = [k \in Numbers |-> dp'.slot[k]]
    BY Zenon, <2>1
  <2>4. QED
    BY Zenon, <2>2, <2>3
<1>8. dp'.tail \in Numbers /\ Ahead(dp'.next, dp'.tail) = Ahead(dp.next, dp.tail) + n
  <2>1. Wrap(q + n) \in Numbers
    BY Zenon, <1>4, OnFacts
  <2>2. dp'.tail = Wrap(q + n) /\ dp'.next = p
    BY Zenon, <1>2
  <2>3. QED
    BY Zenon, <1>2, <1>5, <2>1, <2>2
<1>9. ASSUME NEW x
      PROVE  /\ Unanswered(x) = {k \in Numbers : dp.slot[k] = x /\ Ahead(p, k) < Ahead(p, q)}
             /\ \A k : k \in Unanswered(x)' <=>
                   /\ k \in Numbers
                   /\ (IF Ahead(q, k) < n THEN s ELSE dp.slot[k]) = x
                   /\ Ahead(p, k) < Ahead(p, q) \/ Ahead(q, k) < n
  <2>1. Unanswered(x) = {k \in Numbers : dp.slot[k] = x /\ Ahead(p, k) < Ahead(p, q)}
    BY Zenon, <1>2, UnansweredIs
  <2>2. \A k : k \in Unanswered(x)' <=>
                  k \in Numbers /\ dp'.slot[k] = x /\ Ahead(dp'.next, k) < Ahead(dp'.next, dp'.tail)
    BY Zenon DEF Unanswered, Numbers, Ahead
  <2>3. Ahead(dp'.next, dp'.tail) = Ahead(p, q) + n /\ dp'.next = p
    BY Zenon, <1>2, <1>8
  <2>4. \A k : k \in Unanswered(x)' <=>
                  k \in Numbers /\ dp'.slot[k] = x /\ Ahead(p, k) < Ahead(p, q) + n
    BY Zenon, <2>2, <2>3
  <2>5. QED
    BY Zenon, <1>5, <1>6, <2>1, <2>4
<1>10. ASSUME NEW x, x # s PROVE Unanswered(x)' = Unanswered(x)
  <2>1. ASSUME NEW k PROVE k \in Unanswered(x)' <=> k \in Unanswered(x)
    <3>1. k \in Unanswered(x) <=>
             k \in Numbers /\ dp.slot[k] = x /\ Ahead(p, k) < Ahead(p, q)
      BY Zenon, <1>9
    <3>2. k \in Unanswered(x)' <=>
             /\ k \in Numbers
             /\ (IF Ahead(q, k) < n THEN s ELSE dp.slot[k]) = x
             /\ Ahead(p, k) < Ahead(p, q) \/ Ahead(q, k) < n
      BY Zenon, <1>9
    <3>3. k \in Numbers /\ Ahead(p, k) < Ahead(p, q) => ~(Ahead(q, k) < n)
      BY Zenon, <1>5
    <3>4. QED
      BY Zenon, <1>10, <3>1, <3>2, <3>3
  <2>2. QED
    BY Zenon, <2>1
<1>11. Cardinality(Unanswered(s)') = Cardinality(Unanswered(s)) + n
  <2>1. ASSUME NEW k PROVE k \in Unanswered(s)' <=> k \in Unanswered(s) \cup Arc(q, n)
    <3>1. k \in Unanswered(s) <=>
             k \in Numbers /\ dp.slot[k] = s /\ Ahead(p, k) < Ahead(p, q)
      BY Zenon, <1>9
    <3>2. k \in Unanswered(s)' <=>
             /\ k \in Numbers
             /\ (IF Ahead(q, k) < n THEN s ELSE dp.slot[k]) = s
             /\ Ahead(p, k) < Ahead(p, q) \/ Ahead(q, k) < n
      BY Zenon, <1>9
    <3>3. k \in Arc(q, n) <=> k \in Numbers /\ Ahead(q, k) < n
      BY Zenon DEF Arc
    <3>4. QED
      BY Zenon, <3>1, <3>2, <3>3
  <2>2. Unanswered(s) \cap Arc(q, n) = {}
    <3>1. \A k : k \in Unanswered(s) => k \in Numbers /\ Ahead(p, k) < Ahead(p, q)
      BY Zenon, <1>9
    <3>2. \A k : k \in Arc(q, n) => k \in Numbers /\ Ahead(q, k) < n
      BY Zenon DEF Arc
    <3>3. \A k : ~(k \in Unanswered(s) /\ k \in Arc(q, n))
      BY Zenon, <1>5, <3>1, <3>2
    <3>4. QED
      BY Zenon, <3>3
  <2>3. Unanswered(s)' = Unanswered(s) \cup Arc(q, n)
    BY Zenon, <2>1
  <2>4. IsFiniteSet(Arc(q, n)) /\ Cardinality(Arc(q, n)) = n
    BY Zenon, <1>4, ArcCount
  <2>5. PICK c \in Nat : c = Cardinality(Unanswered(s)) /\ IsFiniteSet(Unanswered(s))
    BY Zenon, UnansweredIs
  <2>6. Cardinality(Unanswered(s) \cup Arc(q, n)) = c + n - 0
    <3>1. Cardinality(Unanswered(s) \cup Arc(q, n)) =
             Cardinality(Unanswered(s)) + Cardinality(Arc(q, n))
             - Cardinality(Unanswered(s) \cap Arc(q, n))
      BY Zenon, <2>4, <2>5, FS_Union
    <3>2. Cardinality(Unanswered(s) \cap Arc(q, n)) = 0
      BY Zenon, <2>2, FS_EmptySet
    <3>3. QED
      BY Zenon, <2>4, <2>5, <3>1, <3>2
  <2>7. c + n - 0 = c + n
    OBVIOUS
  <2>8. QED
    BY Zenon, <2>3, <2>5, <2>6, <2>7
<1>12. QED
  BY Zenon, <1>7, <1>8, <1>10, <1>11

\* n responses are met: each session has so many fewer requests unanswered.
LEMMA ReadCount ==
    ASSUME DpType, NEW n \in Nat, n <= Ahead(dp.next, dp.tail), NEW s,
           dp'.next = Wrap(dp.next + n), dp'.tail = dp.tail, dp'.slot = dp.slot
    PROVE  /\ dp'.next \in Numbers
           /\ Ahead(dp'.next, dp'.tail) = Ahead(dp.next, dp.tail) - n
           /\ Cardinality(Unanswered(s)') =
                 Cardinality(Unanswered(s)) - Cardinality(Answered(s, n))
<1>1. Slots \in Nat /\ Slots > 0
  BY CompressionAssumption
<1>2. PICK p \in Numbers, q \in Numbers : p = dp.next /\ q = dp.tail
  BY Zenon DEF DpType
<1>3. Ahead(p, q) \in Numbers
  BY Zenon, AheadFacts
<1>4. n \in Numbers
  BY <1>1, <1>2, <1>3 DEF Numbers
<1>5. PICK w \in Numbers : w = Wrap(p + n) /\ w = dp'.next
  BY Zenon, <1>2, <1>4, OnFacts
<1>6. /\ Ahead(w, q) = Ahead(p, q) - n
      /\ \A k \in Numbers : Ahead(w, k) < Ahead(p, q) - n <=>
                               n <= Ahead(p, k) /\ Ahead(p, k) < Ahead(p, q)
  <2>1. n <= Ahead(p, q)
    BY Zenon, <1>2
  <2>2. Ahead(Wrap(p + n), q) = Ahead(p, q) - n
    BY Zenon, <2>1, ReadFacts
  <2>3. \A k \in Numbers : Ahead(Wrap(p + n), k) < Ahead(p, q) - n <=>
                              n <= Ahead(p, k) /\ Ahead(p, k) < Ahead(p, q)
    BY Zenon, <2>1, ReadFacts
  <2>4. QED
    BY Zenon, <1>5, <2>2, <2>3
<1>7. PICK M : M = {k \in Numbers : dp.slot[k] = s /\ Ahead(p, k) < n}
  BY Zenon
<1>8. PICK f : f = [j \in Answered(s, n) |-> Wrap(p + j)]
  BY Zenon
<1>9. ASSUME NEW j \in Answered(s, n)
      PROVE  f[j] \in M /\ Ahead(p, f[j]) = j
  <2>1. j \in 0 .. n - 1 /\ dp.slot[Wrap(p + j)] = s /\ f[j] = Wrap(p + j)
    BY Zenon, <1>2, <1>8 DEF Answered
  <2>2. j \in Numbers /\ j < n
    BY <1>1, <1>4, <2>1 DEF Numbers
  <2>3. f[j] \in Numbers /\ Ahead(p, f[j]) = j
    <3>1. Wrap(p + j) \in Numbers /\ Ahead(p, Wrap(p + j)) = j
      BY Zenon, <2>2, OnFacts
    <3>2. QED
      BY Zenon, <2>1, <3>1
  <2>4. QED
    BY Zenon, <1>7, <2>1, <2>2, <2>3
<1>10. f \in [Answered(s, n) -> M]
  BY Zenon, <1>8, <1>9
<1>11. \A i, j \in Answered(s, n) : f[i] = f[j] => i = j
  BY Zenon, <1>9
<1>12. ASSUME NEW k \in M PROVE \E j \in Answered(s, n) : f[j] = k
  <2>1. k \in Numbers /\ dp.slot[k] = s /\ Ahead(p, k) < n
    BY Zenon, <1>7
  <2>2. PICK j \in Numbers : j = Ahead(p, k) /\ Wrap(p + j) = k
    <3>1. Ahead(p, k) \in Numbers
      BY Zenon, <2>1, AheadFacts
    <3>2. Wrap(p + Ahead(p, k)) = k
      BY Zenon, <2>1, BackFacts
    <3>3. QED
      BY Zenon, <3>1, <3>2
  <2>3. j \in 0 .. n - 1
    BY <1>1, <2>1, <2>2 DEF Numbers
  <2>4. j \in Answered(s, n)
    BY Zenon, <1>2, <2>1, <2>2, <2>3 DEF Answered
  <2>5. f[j] = k
    BY Zenon, <1>8, <2>2, <2>4
  <2>6. QED
    BY Zenon, <2>4, <2>5
<1>13. IsFiniteSet(M) /\ Cardinality(M) = Cardinality(Answered(s, n))
  <2>1. PICK A : A = Answered(s, n)
    BY Zenon
  <2>2. f \in [A -> M]
    BY Zenon, <1>10, <2>1
  <2>3. \A i, j \in A : f[i] = f[j] => i = j
    BY Zenon, <1>11, <2>1
  <2>4. \A k \in M : \E j \in A : f[j] = k
    BY Zenon, <1>12, <2>1
  <2>5. IsFiniteSet(A)
    BY Zenon, <2>1, AnsweredFinite
  <2>6. IsFiniteSet(M) /\ Cardinality(M) = Cardinality(A)
    BY Zenon, <2>2, <2>3, <2>4, <2>5, Correspond
  <2>7. QED
    BY Zenon, <2>1, <2>6
<1>14. Unanswered(s) = {k \in Numbers : dp.slot[k] = s /\ Ahead(p, k) < Ahead(p, q)}
  BY Zenon, <1>2, UnansweredIs
<1>15. M \subseteq Unanswered(s)
  <2>1. ASSUME NEW k \in M PROVE k \in Unanswered(s)
    <3>1. k \in Numbers /\ dp.slot[k] = s /\ Ahead(p, k) < n
      BY Zenon, <1>7
    <3>2. Ahead(p, k) \in Numbers
      BY Zenon, <3>1, AheadFacts
    <3>3. Ahead(p, k) < Ahead(p, q)
      BY <1>1, <1>2, <1>3, <3>1, <3>2 DEF Numbers
    <3>4. QED
      BY Zenon, <1>14, <3>1, <3>3
  <2>2. QED
    BY Zenon, <2>1
<1>16. Unanswered(s)' = Unanswered(s) \ M
  <2>1. \A k : k \in Unanswered(s)' <=>
                  k \in Numbers /\ dp.slot[k] = s /\ Ahead(w, k) < Ahead(w, q)
    <3>1. dp'.slot = dp.slot /\ dp'.tail = q /\ dp'.next = w
      BY Zenon, <1>2, <1>5
    <3>2. \A k : k \in Unanswered(s)' <=>
              k \in Numbers /\ dp'.slot[k] = s /\ Ahead(dp'.next, k) < Ahead(dp'.next, dp'.tail)
      BY Zenon DEF Unanswered, Numbers, Ahead
    <3>3. QED
      BY Zenon, <3>1, <3>2
  <2>2. \A k : k \in Unanswered(s)' <=>
                  k \in Numbers /\ dp.slot[k] = s /\ n <= Ahead(p, k) /\ Ahead(p, k) < Ahead(p, q)
    BY Zenon, <1>6, <2>1
  <2>3. \A k \in Numbers : n <= Ahead(p, k) <=> ~(Ahead(p, k) < n)
    <3>1. ASSUME NEW k \in Numbers PROVE n <= Ahead(p, k) <=> ~(Ahead(p, k) < n)
      <4>1. Ahead(p, k) \in Numbers
        BY Zenon, AheadFacts
      <4>2. QED
        BY <1>1, <4>1 DEF Numbers
    <3>2. QED
      BY Zenon, <3>1
  <2>4. \A k : k \in Unanswered(s)' <=> k \in Unanswered(s) \ M
    BY Zenon, <1>7, <1>14, <2>2, <2>3
  <2>5. QED
    BY Zenon, <2>4
<1>17. Unanswered(s) \cap M = M
  BY Zenon, <1>15
<1>18. Cardinality(Unanswered(s)') = Cardinality(Unanswered(s)) - Cardinality(Answered(s, n))
  <2>1. IsFiniteSet(Unanswered(s))
    BY Zenon, UnansweredIs
  <2>2. Cardinality(Unanswered(s) \ M) =
           Cardinality(Unanswered(s)) - Cardinality(Unanswered(s) \cap M)
    BY Zenon, <2>1, FS_Difference
  <2>3. QED
    BY Zenon, <1>13, <1>16, <1>17, <2>2
<1>19. QED
  BY Zenon, <1>2, <1>5, <1>6, <1>18

LEMMA UnansweredNext ==
    ASSUME NEW s
    PROVE  Cardinality(Unanswered(s)') \in Nat
<1>1. IsFiniteSet(Numbers)
  <2>1. 0 \in Int /\ Slots - 1 \in Int
    BY CompressionAssumption
  <2>2. QED
    BY Zenon, <2>1, FS_Interval DEF Numbers
<1>2. Unanswered(s)' \subseteq Numbers
  BY Zenon DEF Unanswered, Numbers
<1>3. QED
  BY Zenon, <1>1, <1>2, FS_Subset, FS_CardinalityType

-----------------------------------------------------------------------------
(* Threads and sessions.                                                   *)

\* A thread goes on to another step of its call.
LEMMA GoFacts ==
    ASSUME TypeOK, NEW t \in Threads, NEW c, Go(t, c), thr[t].pc # "idle"
    PROVE  /\ thr'[t].pc = c /\ thr'[t].sess = thr[t].sess /\ thr'[t].flush = thr[t].flush
           /\ thr[t].pc = "put" => thr'[t].sop = thr[t].sop
           /\ thr[t].pc \in Chained => thr'[t].held = thr[t].held /\ thr'[t].links = thr[t].links
           /\ DOMAIN thr'[t] = DOMAIN thr[t] /\ DOMAIN thr' = Threads
           /\ \A u \in Threads \ {t} : thr'[u] = thr[u]
<1>1. /\ DOMAIN thr = Threads /\ {"pc", "sess", "flush"} \subseteq DOMAIN thr[t]
      /\ thr[t].pc = "put" => "sop" \in DOMAIN thr[t]
      /\ thr[t].pc \in Chained => {"held", "links"} \subseteq DOMAIN thr[t]
  BY Zenon DEF TypeOK, ThrOK
<1>2. thr' = [thr EXCEPT ![t].pc = c]
  BY Zenon DEF Go
<1>3. DOMAIN thr' = Threads /\ \A u \in Threads \ {t} : thr'[u] = thr[u]
  BY Zenon, <1>1, <1>2
<1>4. thr'[t] = [thr[t] EXCEPT !.pc = c]
  BY Zenon, <1>1, <1>2
<1>5. QED
  BY Zenon, <1>1, <1>3, <1>4

\* A call returns.
LEMMA ReturnFacts ==
    ASSUME TypeOK, NEW t \in Threads, Return(t)
    PROVE  /\ thr'[t] = Idle /\ thr'[t].pc = "idle" /\ DOMAIN thr'[t] = {"pc"}
           /\ DOMAIN thr' = Threads
           /\ \A u \in Threads \ {t} : thr'[u] = thr[u]
<1>1. DOMAIN thr = Threads /\ thr' = [thr EXCEPT ![t] = Idle]
  BY Zenon DEF TypeOK, Return
<1>2. thr'[t] = Idle /\ DOMAIN thr' = Threads /\ \A u \in Threads \ {t} : thr'[u] = thr[u]
  BY Zenon, <1>1
<1>3. Idle.pc = "idle" /\ DOMAIN Idle = {"pc"}
  BY Zenon DEF Idle
<1>4. QED
  BY Zenon, <1>2, <1>3

\* A session counts n more requests.
LEMMA CountFacts ==
    ASSUME TypeOK, NEW s \in Sessions, NEW n \in Int, Count(s, n)
    PROVE  /\ sess' \in [Sessions -> SessType]
           /\ sess'[s].pending = sess[s].pending + n
           /\ sess'[s].requestType = sess[s].requestType
           /\ sess'[s].previous = sess[s].previous
           /\ \A x \in Sessions : sess'[x].live = sess[x].live
           /\ \A x \in Sessions \ {s} : sess'[x] = sess[x]
<1>1. sess \in [Sessions -> SessType] /\ sess' = [sess EXCEPT ![s].pending = @ + n]
  BY Zenon DEF TypeOK, Count
<1>2. QED
  BY <1>1 DEF SessType

\* Calls that are left alone stay what they are.
LEMMA ThrSame ==
    ASSUME NEW u \in Threads, ThrOK(u), thr'[u] = thr[u],
           \A x \in Sessions : sess[x].live => sess'[x].live
    PROVE  ThrOK(u)'
BY Zenon DEF ThrOK

\* Stateful sessions that a step has nothing to do with stay what they are.
LEMMA SessionSame ==
    ASSUME NEW s \in Stateful, OneInv(s), FrameInv(s), sess'[s] = sess[s],
           \A t \in Threads : t \in Busy(s)' <=> t \in Busy(s),
           \A t \in Threads : t \in Busy(s) => thr'[t] = thr[t],
           OnRing(s)' = {} <=> OnRing(s) = {},
           \A j, k \in OnRing(s)' : j = k,
           Handled(s)' <=> Handled(s), Handled(s) => poll'.step = poll.step,
           s \in ghost'.open <=> s \in ghost.open,
           s \in ghost'.unframed <=> s \in ghost.unframed
    PROVE  OneInv(s)' /\ FrameInv(s)'
<1>1. \A t : t \in Busy(s)' <=> t \in Busy(s)
  BY Zenon DEF Busy
<1>2. \A t \in Busy(s) : thr'[t] = thr[t]
  BY Zenon DEF Busy
<1>3. OneInv(s)'
  BY Zenon, <1>1 DEF OneInv
<1>4. Settled(s)' => Settled(s)
  BY Zenon, <1>1, <1>2 DEF Settled
<1>5. QED
  BY Zenon, <1>1, <1>2, <1>3, <1>4 DEF FrameInv

\* The types after a step of one thread.
LEMMA StepType ==
    ASSUME TypeOK, NEW t \in Threads, DOMAIN thr' = Threads,
           \A u \in Threads \ {t} : thr'[u] = thr[u], ThrOK(t)',
           sess' \in [Sessions -> SessType],
           \A x \in Sessions : sess[x].live => sess'[x].live,
           UNCHANGED <<ring, poll>>
    PROVE  TypeOK'
<1>1. \A u \in Threads : ThrOK(u)'
  BY Zenon, ThrSame DEF TypeOK
<1>2. \A s \in Of({"ns"}) : sess'[s].live
  BY Zenon DEF TypeOK, Of
<1>3. QED
  BY Zenon, <1>1, <1>2 DEF TypeOK

\* A step of a thread that does not wait for a response.
LEMMA StepWait ==
    ASSUME TypeOK, WaitInv, NEW t \in Threads, thr[t].pc # "wait",
           \A u \in Threads \ {t} : thr'[u] = thr[u], UNCHANGED <<ring, poll>>
    PROVE  WaitInv'
<1>1. \A k \in DOMAIN ring : ring[k] \in Requests
  BY DEF TypeOK
<1>2. /\ \A k \in DOMAIN ring : ring[k].by \in Threads \cup {None}
      /\ poll # None => poll.msg.by \in Threads \cup {None}
  BY Zenon, <1>1 DEF TypeOK, Requests
<1>3. \A u \in Threads : At(u, "wait") => At(u, "wait")'
  BY Zenon DEF At
<1>4. QED
  BY Zenon, <1>2, <1>3 DEF WaitInv

\* A step of one thread, as a stateful session sees it that neither begins nor
\* ends a request by it.
LEMMA StepSame ==
    ASSUME IInv, NEW t \in Threads, NEW s \in Stateful,
           \A u \in Threads \ {t} : thr'[u] = thr[u],
           t \in Busy(s)' <=> t \in Busy(s),
           t \in Busy(s) => {thr[t].pc, thr'[t].pc} \cap {"put", "restore"} = {},
           sess'[s] = sess[s], UNCHANGED <<ring, poll>>,
           s \in ghost'.open <=> s \in ghost.open,
           s \in ghost'.unframed <=> s \in ghost.unframed
    PROVE  OneInv(s)' /\ FrameInv(s)'
<1>1. OneInv(s) /\ FrameInv(s)
  BY Zenon DEF IInv
<1>2. \A u : u \in Busy(s)' <=> u \in Busy(s)
  BY Zenon DEF Busy
<1>3. OnRing(s)' = OnRing(s) /\ (Handled(s)' <=> Handled(s))
  BY Zenon DEF OnRing, Handled
<1>4. OneInv(s)'
  BY Zenon, <1>1, <1>2, <1>3 DEF OneInv
<1>5. t \in Busy(s) => thr[t].pc \notin {"put", "restore"} /\ thr'[t].pc \notin {"put", "restore"}
  BY Zenon
<1>6. \A u \in Busy(s) : u # t => thr'[u] = thr[u]
  BY Zenon DEF Busy
<1>7. Settled(s)' => Settled(s)
  BY Zenon, <1>2, <1>3, <1>5, <1>6 DEF Settled
<1>8. FrameInv(s)'
  BY Zenon, <1>1, <1>2, <1>5, <1>6, <1>7 DEF FrameInv
<1>9. QED
  BY Zenon, <1>4, <1>8

-----------------------------------------------------------------------------
(* The steps of a call.                                                    *)

\* A step between two steps of a call that leaves the sessions alone.
LEMMA MoveIInv ==
    ASSUME IInv, NEW t \in Threads, DOMAIN thr' = Threads,
           \A u \in Threads \ {t} : thr'[u] = thr[u], ThrOK(t)',
           thr[t].pc \notin {"idle", "wait", "put", "restore"},
           thr'[t].pc \notin {"idle", "put", "restore"}, thr'[t].sess = thr[t].sess,
           UNCHANGED <<sess, ring, poll>>,
           ghost'.open = ghost.open, ghost'.unframed = ghost.unframed,
           ghost'.framed = ghost.framed
    PROVE  IInv'
<1>1. TypeOK'
  BY Zenon, StepType DEF IInv, TypeOK
<1>2. WaitInv'
  BY Zenon, StepWait DEF IInv
<1>3. ASSUME NEW s \in Stateful
      PROVE  OneInv(s)' /\ FrameInv(s)'
  <2>1. t \in Busy(s)' <=> t \in Busy(s)
    BY Zenon DEF Busy
  <2>2. {thr[t].pc, thr'[t].pc} \cap {"put", "restore"} = {}
    OBVIOUS
  <2>3. QED
    BY Zenon, <2>1, <2>2, StepSame
<1>4. Stateful' = Stateful
  BY Zenon DEF Stateful, Of
<1>5. QED
  BY Zenon, <1>1, <1>2, <1>3, <1>4 DEF IInv, StreamFraming

LEMMA AllocCookieIInv ==
    ASSUME IInv, NEW t \in Threads, AllocCookie(t)
    PROVE  IInv'
<1>1. thr[t].pc = "alloc" /\ Go(t, "create") /\ UNCHANGED <<sess, ring, poll, ghost>>
  BY Zenon DEF AllocCookie, At
<1>2. TypeOK /\ ThrOK(t)
  BY Zenon DEF IInv, TypeOK
<1>3. ThrOK(t)'
  BY <1>1, <1>2, GoFacts DEF ThrOK, Single, Chained
<1>4. QED
  BY <1>1, <1>2, <1>3, GoFacts, MoveIInv

LEMMA CreateFailsIInv ==
    ASSUME IInv, NEW t \in Threads, CreateFails(t)
    PROVE  IInv'
<1>1. /\ thr[t].pc = "create" /\ Go(t, "undo") /\ UNCHANGED <<sess, ring, poll>>
      /\ ghost' = [ghost EXCEPT !.miscounted = @ \cup ({thr[t].sess} \cap Of({"stateless"}))]
  BY Zenon DEF CreateFails, At
<1>2. TypeOK /\ ThrOK(t)
  BY Zenon DEF IInv, TypeOK
<1>3. ThrOK(t)'
  BY <1>1, <1>2, GoFacts DEF ThrOK, Single, Chained
<1>4. QED
  BY <1>1, <1>2, <1>3, GoFacts, MoveIInv

LEMMA PoolNames == Pools = {"dc", "sym", "chain", "rsp"}
BY Zenon DEF Pools, PoolSize

LEMMA ChainCookieIInv ==
    ASSUME IInv, NEW t \in Threads, ChainCookie(t)
    PROVE  IInv'
<1>1. thr[t].pc = "cookie" /\ thr[t].links # <<>> /\ UNCHANGED <<sess, ring, poll, ghost>>
  BY Zenon DEF ChainCookie, At
<1>2. TypeOK /\ ThrOK(t) /\ DOMAIN thr = Threads /\ "links" \in DOMAIN thr[t]
  BY Zenon, <1>1 DEF IInv, TypeOK, ThrOK, Chained
<1>3. CASE Take(t, Head(thr[t].links), "prepare")
  <2>1. Head(thr[t].links) \in Pools
    BY <1>1, <1>2, PoolNames DEF ThrOK, Chained
  <2>2. /\ DOMAIN thr' = Threads /\ \A u \in Threads \ {t} : thr'[u] = thr[u]
        /\ thr'[t] = [thr[t] EXCEPT !.held[Head(thr[t].links)] = @ + 1, !.pc = "prepare"]
    BY Zenon, <1>2, <1>3 DEF Take
  <2>3. /\ thr'[t].pc = "prepare" /\ thr'[t].sess = thr[t].sess /\ thr'[t].flush = thr[t].flush
        /\ thr'[t].links = thr[t].links /\ thr'[t].held \in [Pools -> Nat]
        /\ DOMAIN thr'[t] = DOMAIN thr[t]
    <3>1. /\ {"pc", "sess", "flush", "held", "links"} \subseteq DOMAIN thr[t]
          /\ thr[t].held \in [Pools -> Nat]
      BY Zenon, <1>1, <1>2 DEF ThrOK, Chained
    <3>2. [thr[t].held EXCEPT ![Head(thr[t].links)] = @ + 1] \in [Pools -> Nat]
      BY <2>1, <3>1
    <3>3. QED
      BY Zenon, <2>2, <3>1, <3>2
  <2>4. ThrOK(t)'
    BY Zenon, <1>1, <1>2, <2>3 DEF ThrOK, Single, Chained
  <2>5. QED
    BY Zenon, <1>1, <2>2, <2>3, <2>4, MoveIInv
<1>4. CASE Go(t, "out_err")
  <2>1. ThrOK(t)'
    BY <1>1, <1>2, <1>4, GoFacts DEF ThrOK, Single, Chained
  <2>2. QED
    BY <1>1, <1>2, <1>4, <2>1, GoFacts, MoveIInv
<1>5. QED
  BY Zenon, <1>3, <1>4 DEF ChainCookie

LEMMA ChainPrepareIInv ==
    ASSUME IInv, NEW t \in Threads, ChainPrepare(t)
    PROVE  IInv'
<1>1. /\ thr[t].pc = "prepare" /\ UNCHANGED <<sess, ring, poll, ghost>>
      /\ thr' = [thr EXCEPT ![t].held["rsp"] = @ + 1, ![t].pc = "cookie",
                            ![t].links = Tail(@)]
  BY Zenon DEF ChainPrepare, At
<1>2. TypeOK /\ ThrOK(t) /\ DOMAIN thr = Threads /\ "links" \in DOMAIN thr[t]
  BY Zenon, <1>1 DEF IInv, TypeOK, ThrOK, Chained
<1>3. /\ DOMAIN thr' = Threads /\ \A u \in Threads \ {t} : thr'[u] = thr[u]
      /\ thr'[t] = [thr[t] EXCEPT !.held["rsp"] = @ + 1, !.pc = "cookie", !.links = Tail(@)]
  BY Zenon, <1>1, <1>2
<1>4. /\ thr'[t].pc = "cookie" /\ thr'[t].sess = thr[t].sess /\ thr'[t].flush = thr[t].flush
      /\ thr'[t].links = Tail(thr[t].links) /\ thr'[t].held \in [Pools -> Nat]
      /\ DOMAIN thr'[t] = DOMAIN thr[t]
  <2>1. /\ {"pc", "sess", "flush", "held", "links"} \subseteq DOMAIN thr[t]
        /\ thr[t].held \in [Pools -> Nat]
    BY Zenon, <1>1, <1>2 DEF ThrOK, Chained
  <2>2. [thr[t].held EXCEPT !["rsp"] = @ + 1] \in [Pools -> Nat]
    BY <2>1, PoolNames
  <2>3. QED
    BY Zenon, <1>3, <2>1, <2>2
<1>5. ThrOK(t)'
  BY <1>1, <1>2, <1>4 DEF ThrOK, Single, Chained
<1>6. QED
  BY Zenon, <1>1, <1>3, <1>4, <1>5, MoveIInv

LEMMA ChainPrepareFailsIInv ==
    ASSUME IInv, NEW t \in Threads, ChainPrepareFails(t)
    PROVE  IInv'
<1>1. thr[t].pc = "prepare" /\ Go(t, "out_err") /\ UNCHANGED <<sess, ring, poll, ghost>>
  BY Zenon DEF ChainPrepareFails, At
<1>2. TypeOK /\ ThrOK(t)
  BY Zenon DEF IInv, TypeOK
<1>3. ThrOK(t)'
  BY <1>1, <1>2, GoFacts DEF ThrOK, Single, Chained
<1>4. QED
  BY <1>1, <1>2, <1>3, GoFacts, MoveIInv

\* A step of a thread that has nothing to do with a stateful session.
LEMMA OtherIInv ==
    ASSUME IInv, NEW t \in Threads, DOMAIN thr' = Threads,
           \A u \in Threads \ {t} : thr'[u] = thr[u], ThrOK(t)', thr[t].pc # "wait",
           thr[t].pc = "idle" \/ thr[t].sess \notin Stateful,
           thr'[t].pc = "idle" \/ thr'[t].sess \notin Stateful,
           sess' \in [Sessions -> SessType],
           \A x \in Sessions : sess[x].live => sess'[x].live,
           \A s \in Stateful : sess'[s] = sess[s], UNCHANGED <<ring, poll>>,
           ghost'.open = ghost.open, ghost'.unframed = ghost.unframed,
           ghost'.framed = ghost.framed
    PROVE  IInv'
<1>1. TypeOK'
  BY Zenon, StepType DEF IInv
<1>2. WaitInv'
  BY Zenon, StepWait DEF IInv
<1>3. ASSUME NEW s \in Stateful
      PROVE  OneInv(s)' /\ FrameInv(s)'
  <2>1. t \notin Busy(s)' /\ t \notin Busy(s)
    BY Zenon DEF Busy
  <2>2. QED
    BY Zenon, <2>1, StepSame
<1>4. Stateful' = Stateful
  BY Zenon DEF Stateful, Of
<1>5. QED
  BY Zenon, <1>1, <1>2, <1>3, <1>4 DEF IInv, StreamFraming

\* A step of a thread on the stateful session s0.
LEMMA OnIInv ==
    ASSUME IInv, NEW t \in Threads, DOMAIN thr' = Threads, NEW s0 \in Stateful,
           \A u \in Threads \ {t} : thr'[u] = thr[u], ThrOK(t)', thr[t].pc # "wait",
           thr[t].pc = "idle" \/ thr[t].sess = s0,
           thr'[t].pc = "idle" \/ thr'[t].sess = s0,
           sess' \in [Sessions -> SessType],
           \A x \in Sessions : sess[x].live => sess'[x].live,
           \A s \in Sessions \ {s0} : sess'[s] = sess[s], UNCHANGED <<ring, poll>>,
           ghost'.open = ghost.open, ghost'.unframed = ghost.unframed,
           ghost'.framed = ghost.framed, OneInv(s0)', FrameInv(s0)'
    PROVE  IInv'
<1>1. TypeOK'
  BY Zenon, StepType DEF IInv
<1>2. WaitInv'
  BY Zenon, StepWait DEF IInv
<1>3. ASSUME NEW s \in Stateful, s # s0
      PROVE  OneInv(s)' /\ FrameInv(s)'
  <2>1. t \notin Busy(s)' /\ t \notin Busy(s)
    BY Zenon, <1>3 DEF Busy
  <2>2. s \in Sessions
    BY Zenon DEF Stateful, Of
  <2>3. QED
    BY Zenon, <1>3, <2>1, <2>2, StepSame
<1>4. Stateful' = Stateful
  BY Zenon DEF Stateful, Of
<1>5. QED
  BY Zenon, <1>1, <1>2, <1>3, <1>4 DEF IInv, StreamFraming

\* A call on a stateful session returns without a request.
LEMMA LeaveSession ==
    ASSUME IInv, NEW t \in Threads, NEW s \in Stateful, t \in Busy(s),
           thr[t].pc \notin {"put", "restore"}, thr'[t].pc = "idle",
           \A u \in Threads \ {t} : thr'[u] = thr[u],
           sess'[s].pending \in {0, 1}, sess'[s].live = sess[s].live,
           sess'[s].requestType = sess[s].requestType,
           UNCHANGED <<ring, poll>>,
           ghost'.open = ghost.open, ghost'.unframed = ghost.unframed
    PROVE  OneInv(s)' /\ FrameInv(s)'
<1>1. OneInv(s) /\ FrameInv(s)
  BY Zenon DEF IInv
<1>2. sess[s].live
  BY Zenon DEF IInv, TypeOK, ThrOK, Busy
<1>3. OnRing(s)' = {} /\ ~Handled(s)' /\ OnRing(s) = {} /\ ~Handled(s)
  <2>1. OnRing(s) = {} /\ ~Handled(s)
    BY Zenon, <1>1 DEF OneInv
  <2>2. OnRing(s)' = OnRing(s) /\ (Handled(s)' <=> Handled(s))
    BY Zenon DEF OnRing, Handled
  <2>3. QED
    BY Zenon, <2>1, <2>2
<1>4. \A u : u \notin Busy(s)'
  <2>1. \A u \in Busy(s) : u = t
    BY Zenon, <1>1 DEF OneInv
  <2>2. ASSUME NEW u \in Threads, thr'[u].pc # "idle", thr'[u].sess = s
        PROVE  FALSE
    <3>1. u # t
      BY Zenon, <2>2
    <3>2. thr'[u] = thr[u]
      BY Zenon, <3>1
    <3>3. QED
      BY Zenon, <2>1, <2>2, <3>1, <3>2 DEF Busy
  <2>3. QED
    BY Zenon, <2>2 DEF Busy
<1>5. OneInv(s)'
  BY Zenon, <1>2, <1>3, <1>4 DEF OneInv
<1>6. Settled(s)
  BY Zenon, <1>1, <1>3 DEF Settled, OneInv
<1>7. FrameInv(s)'
  BY Zenon, <1>1, <1>4, <1>6 DEF FrameInv
<1>8. QED
  BY Zenon, <1>5, <1>7

LEMMA IdleOK ==
    ASSUME NEW t \in Threads, thr'[t].pc = "idle", DOMAIN thr'[t] = {"pc"}
    PROVE  ThrOK(t)'
BY Zenon DEF ThrOK, Single, Chained

LEMMA ChainErrIInv ==
    ASSUME IInv, NEW t \in Threads, ChainErr(t)
    PROVE  IInv'
<1>1. /\ thr[t].pc = "out_err" /\ Count(thr[t].sess, -1) /\ Return(t)
      /\ UNCHANGED <<ring, poll, ghost>>
  BY Zenon DEF ChainErr, At
<1>2. TypeOK /\ thr[t].sess \in Sessions /\ Kind[thr[t].sess] = "chain"
  BY Zenon, <1>1 DEF IInv, TypeOK, ThrOK, Chained
<1>3. thr[t].sess \notin Stateful
  BY Zenon, <1>2 DEF Stateful, Of
<1>4. Stateful \subseteq Sessions
  BY Zenon DEF Stateful, Of
<1>5. /\ sess' \in [Sessions -> SessType]
      /\ \A x \in Sessions : sess'[x].live = sess[x].live
      /\ \A x \in Sessions \ {thr[t].sess} : sess'[x] = sess[x]
  BY <1>1, <1>2, CountFacts
<1>6. ThrOK(t)'
  BY Zenon, <1>1, <1>2, ReturnFacts, IdleOK
<1>7. QED
  BY Zenon, <1>1, <1>2, <1>3, <1>4, <1>5, <1>6, ReturnFacts, OtherIInv

LEMMA AllocFailsIInv ==
    ASSUME IInv, NEW t \in Threads, AllocFails(t)
    PROVE  IInv'
<1>1. /\ thr[t].pc = "alloc" /\ Return(t) /\ UNCHANGED <<sess, ring, poll>>
      /\ ghost' = [ghost EXCEPT !.miscounted = @ \cup ({thr[t].sess} \cap Of({"stateful"}))]
  BY Zenon DEF AllocFails, At
<1>2. TypeOK /\ thr[t].sess \in Sessions /\ sess \in [Sessions -> SessType]
  BY Zenon, <1>1 DEF IInv, TypeOK, ThrOK
<1>3. ThrOK(t)'
  BY Zenon, <1>1, <1>2, ReturnFacts, IdleOK
<1>4. /\ ghost'.open = ghost.open /\ ghost'.unframed = ghost.unframed
      /\ ghost'.framed = ghost.framed
  BY <1>1
<1>5. CASE thr[t].sess \notin Stateful
  BY Zenon, <1>1, <1>2, <1>3, <1>4, <1>5, ReturnFacts, OtherIInv
<1>6. CASE thr[t].sess \in Stateful
  <2>1. PICK s \in Stateful : s = thr[t].sess
    BY Zenon, <1>6
  <2>2. t \in Busy(s) /\ sess[s].pending \in {0, 1}
    BY Zenon, <1>1, <2>1 DEF Busy, IInv, OneInv
  <2>3. OneInv(s)' /\ FrameInv(s)'
    BY Zenon, <1>1, <1>2, <1>4, <2>2, ReturnFacts, LeaveSession
  <2>4. QED
    BY Zenon, <1>1, <1>2, <1>3, <1>4, <2>1, <2>3, ReturnFacts, OnIInv
<1>7. QED
  BY Zenon, <1>5, <1>6

LEMMA UndoIInv ==
    ASSUME IInv, NEW t \in Threads, Undo(t)
    PROVE  IInv'
<1>1. /\ thr[t].pc = "undo" /\ Return(t) /\ UNCHANGED <<ring, poll, ghost>>
      /\ Kind[thr[t].sess] = "ns" => UNCHANGED sess
      /\ Kind[thr[t].sess] # "ns" => Count(thr[t].sess, -1)
  BY Zenon DEF Undo, At
<1>2. PICK s \in Sessions : s = thr[t].sess
  BY Zenon, <1>1 DEF IInv, TypeOK, ThrOK
<1>3. TypeOK /\ sess \in [Sessions -> SessType]
  BY Zenon DEF IInv, TypeOK
<1>4. ThrOK(t)'
  BY Zenon, <1>1, <1>3, ReturnFacts, IdleOK
<1>5. /\ sess' \in [Sessions -> SessType]
      /\ \A x \in Sessions : sess'[x].live = sess[x].live
      /\ \A x \in Sessions \ {s} : sess'[x] = sess[x]
      /\ sess'[s].requestType = sess[s].requestType
      /\ s \in Stateful => sess'[s].pending = sess[s].pending - 1
  <2>1. CASE Kind[s] = "ns"
    BY Zenon, <1>1, <1>2, <1>3, <2>1 DEF Stateful, Of
  <2>2. CASE Kind[s] # "ns"
    <3>1. Count(s, -1) /\ sess[s].pending \in Int
      BY Zenon, <1>1, <1>2, <1>3, <2>2 DEF SessType
    <3>2. QED
      BY <1>2, <1>3, <3>1, CountFacts
  <2>3. QED
    BY Zenon, <2>1, <2>2
<1>6. CASE s \notin Stateful
  <2>1. Stateful \subseteq Sessions
    BY Zenon DEF Stateful, Of
  <2>2. QED
    BY Zenon, <1>1, <1>2, <1>3, <1>4, <1>5, <1>6, <2>1, ReturnFacts, OtherIInv
<1>7. CASE s \in Stateful
  <2>1. t \in Busy(s) /\ sess[s].pending = 1
    BY Zenon, <1>1, <1>2, <1>7 DEF Busy, IInv, OneInv
  <2>2. OneInv(s)' /\ FrameInv(s)'
    BY <1>1, <1>3, <1>5, <1>7, <2>1, ReturnFacts, LeaveSession
  <2>3. QED
    BY Zenon, <1>1, <1>2, <1>3, <1>4, <1>5, <1>7, <2>2, ReturnFacts, OnIInv
<1>8. QED
  BY Zenon, <1>6, <1>7

\* A call of its own for a thread.
LEMMA CallFacts ==
    ASSUME TypeOK, NEW t \in Threads, NEW r, thr' = [thr EXCEPT ![t] = r]
    PROVE  /\ thr'[t] = r /\ DOMAIN thr' = Threads
           /\ \A u \in Threads \ {t} : thr'[u] = thr[u]
BY Zenon DEF TypeOK

LEMMA CompressIInv ==
    ASSUME IInv, NEW t \in Threads, NEW s \in Of({"stateless", "stateful", "ns"}),
           NEW flush \in Flushes(s), Compress(t, s, flush)
    PROVE  IInv'
<1>1. /\ thr[t].pc = "idle" /\ sess[s].live /\ UNCHANGED <<ring, poll, ghost>>
      /\ Kind[s] = "stateful" => sess[s].pending = 0 /\ Count(s, 1)
      /\ Kind[s] # "stateful" => UNCHANGED sess
      /\ thr' = [thr EXCEPT ![t] = [pc |-> "alloc", sess |-> s, flush |-> flush]]
  BY Zenon DEF Compress, At
<1>2. s \in Sessions /\ Kind[s] \in {"stateless", "stateful", "ns"}
  BY Zenon DEF Of
<1>3. TypeOK /\ sess \in [Sessions -> SessType]
  BY Zenon DEF IInv, TypeOK
<1>4. /\ thr'[t] = [pc |-> "alloc", sess |-> s, flush |-> flush] /\ DOMAIN thr' = Threads
      /\ \A u \in Threads \ {t} : thr'[u] = thr[u]
  BY Zenon, <1>1, <1>3, CallFacts
<1>5. /\ sess' \in [Sessions -> SessType]
      /\ \A x \in Sessions : sess'[x].live = sess[x].live
      /\ \A x \in Sessions \ {s} : sess'[x] = sess[x]
      /\ sess'[s].requestType = sess[s].requestType
      /\ s \in Stateful => sess[s].pending = 0 /\ sess'[s].pending = 1
      /\ s \notin Stateful => sess' = sess
  <2>1. CASE Kind[s] = "stateful"
    BY <1>1, <1>2, <1>3, <2>1, CountFacts DEF Stateful, Of
  <2>2. CASE Kind[s] # "stateful"
    BY Zenon, <1>1, <1>2, <1>3, <2>2 DEF Stateful, Of
  <2>3. QED
    BY Zenon, <2>1, <2>2
<1>6. flush \in {"NONE", "FINAL", "FULL"}
  BY Zenon, <1>2 DEF Flushes
<1>7. /\ thr'[t].pc = "alloc" /\ thr'[t].sess = s /\ thr'[t].flush = flush
      /\ DOMAIN thr'[t] = {"pc", "sess", "flush"}
  BY <1>4
<1>8. ThrOK(t)'
  BY Zenon, <1>1, <1>2, <1>5, <1>6, <1>7 DEF ThrOK, Single, Chained
<1>9. CASE s \notin Stateful
  BY Zenon, <1>1, <1>3, <1>4, <1>5, <1>7, <1>8, <1>9, OtherIInv
<1>10. CASE s \in Stateful
  <2>1. OneInv(s) /\ FrameInv(s) /\ sess[s].pending # 1
    BY <1>5, <1>10 DEF IInv
  <2>2. OnRing(s) = {} /\ ~Handled(s) /\ \A u : u \notin Busy(s)
    BY Zenon, <2>1 DEF OneInv
  <2>3. OnRing(s)' = {} /\ ~Handled(s)'
    BY Zenon, <1>1, <2>2 DEF OnRing, Handled
  <2>4. \A u \in Busy(s)' : u = t
    BY Zenon, <1>4, <2>2 DEF Busy
  <2>5. OneInv(s)'
    BY Zenon, <1>1, <1>2, <1>5, <1>10, <2>3, <2>4 DEF OneInv
  <2>6. Settled(s)
    BY Zenon, <2>2 DEF Settled
  <2>7. FrameInv(s)'
    BY Zenon, <1>1, <1>5, <1>7, <2>1, <2>4, <2>6 DEF FrameInv
  <2>8. QED
    BY Zenon, <1>1, <1>3, <1>4, <1>5, <1>7, <1>8, <1>10, <2>5, <2>7, OnIInv
<1>11. QED
  BY Zenon, <1>9, <1>10

LEMMA ChainPerformOpIInv ==
    ASSUME IInv, NEW t \in Threads, NEW s \in Of({"chain"}),
           NEW links \in {<<"dc", "sym">>, <<"sym", "dc">>}, ChainPerformOp(t, s, links)
    PROVE  IInv'
<1>1. /\ thr[t].pc = "idle" /\ sess[s].live /\ UNCHANGED <<ring, poll, ghost>>
      /\ Count(s, 1)
      /\ thr' = [thr EXCEPT ![t] = [pc |-> "cookie", sess |-> s, flush |-> "FINAL",
                                    links |-> links, held |-> Holding("chain")]]
  BY Zenon DEF ChainPerformOp, At
<1>2. s \in Sessions /\ Kind[s] = "chain"
  BY Zenon DEF Of
<1>3. TypeOK /\ sess \in [Sessions -> SessType]
  BY Zenon DEF IInv, TypeOK
<1>4. /\ thr'[t] = [pc |-> "cookie", sess |-> s, flush |-> "FINAL",
                    links |-> links, held |-> Holding("chain")]
      /\ DOMAIN thr' = Threads /\ \A u \in Threads \ {t} : thr'[u] = thr[u]
  BY Zenon, <1>1, <1>3, CallFacts
<1>5. /\ sess' \in [Sessions -> SessType]
      /\ \A x \in Sessions : sess'[x].live = sess[x].live
      /\ \A x \in Sessions \ {s} : sess'[x] = sess[x]
  BY <1>1, <1>2, <1>3, CountFacts
<1>6. Holding("chain") \in [Pools -> Nat] /\ links \in Seq({"dc", "sym"})
  <2>1. Nothing \in [Pools -> Nat]
    BY Zenon DEF Nothing
  <2>2. Holding("chain") \in [Pools -> Nat]
    BY Zenon, <2>1 DEF Holding
  <2>3. links = <<"dc", "sym">> \/ links = <<"sym", "dc">>
    OBVIOUS
  <2>4. links \in Seq({"dc", "sym"})
    <3>1. <<"dc", "sym">> \in Seq({"dc", "sym"})
      OBVIOUS
    <3>2. <<"sym", "dc">> \in Seq({"dc", "sym"})
      OBVIOUS
    <3>3. QED
      BY Zenon, <2>3, <3>1, <3>2
  <2>5. QED
    BY Zenon, <2>2, <2>4
<1>7. /\ thr'[t].pc = "cookie" /\ thr'[t].sess = s /\ thr'[t].flush = "FINAL"
      /\ thr'[t].links = links /\ thr'[t].held = Holding("chain")
      /\ DOMAIN thr'[t] = {"pc", "sess", "flush", "links", "held"}
  BY <1>4
<1>8. ThrOK(t)'
  BY Zenon, <1>1, <1>2, <1>5, <1>6, <1>7 DEF ThrOK, Single, Chained
<1>9. s \notin Stateful /\ Stateful \subseteq Sessions
  BY Zenon, <1>2 DEF Stateful, Of
<1>10. QED
  BY Zenon, <1>1, <1>3, <1>4, <1>5, <1>7, <1>8, <1>9, OtherIInv

\* The session and its request when a thread is alone on it.
LEMMA AloneFacts ==
    ASSUME IInv, NEW t \in Threads, NEW s \in Stateful, t \in Busy(s)
    PROVE  /\ sess[s].pending = 1 /\ sess[s].live /\ OnRing(s) = {} /\ ~Handled(s)
           /\ \A u \in Busy(s) : u = t
           /\ thr[t].pc \notin {"put", "restore"} => Settled(s)
<1>1. OneInv(s)
  BY Zenon DEF IInv
<1>2. sess[s].live
  BY Zenon DEF IInv, TypeOK, ThrOK, Busy
<1>3. /\ sess[s].pending = 1 /\ OnRing(s) = {} /\ ~Handled(s)
      /\ \A u \in Busy(s) : u = t
  BY Zenon, <1>1 DEF OneInv
<1>4. QED
  BY Zenon, <1>2, <1>3 DEF Settled

\* A thread that is alone on a session goes on alone.
LEMMA AloneStep ==
    ASSUME IInv, NEW t \in Threads, NEW s \in Stateful, t \in Busy(s),
           \A u \in Threads \ {t} : thr'[u] = thr[u],
           thr'[t].pc # "idle", thr'[t].sess = s,
           sess'[s].pending = sess[s].pending, sess'[s].live = sess[s].live,
           UNCHANGED <<ring, poll>>
    PROVE  /\ OneInv(s)' /\ \A u \in Busy(s)' : u = t
           /\ t \in Busy(s)'
<1>1. /\ sess[s].pending = 1 /\ sess[s].live /\ OnRing(s) = {} /\ ~Handled(s)
      /\ \A u \in Busy(s) : u = t
  BY Zenon, AloneFacts
<1>2. OnRing(s)' = {} /\ ~Handled(s)'
  BY Zenon, <1>1 DEF OnRing, Handled
<1>3. \A u \in Busy(s)' : u = t
  BY Zenon, <1>1 DEF Busy
<1>4. t \in Busy(s)'
  BY Zenon DEF Busy
<1>5. QED
  BY Zenon, <1>1, <1>2, <1>3, <1>4 DEF OneInv

LEMMA CreateRequestIInv ==
    ASSUME IInv, NEW t \in Threads, CreateRequest(t)
    PROVE  IInv'
<1>1. PICK s \in Sessions :
        /\ s = thr[t].sess /\ thr[t].pc = "create"
        /\ Kind[s] \in {"stateless", "stateful", "ns"}
        /\ thr[t].flush \in {"NONE", "FINAL", "FULL"} /\ sess[s].live
  <2>1. thr[t].pc = "create" /\ ThrOK(t)
    BY Zenon DEF CreateRequest, At, IInv, TypeOK
  <2>2. QED
    BY Zenon, <2>1 DEF ThrOK, Single
<1>2. TypeOK /\ sess \in [Sessions -> SessType]
  BY Zenon DEF IInv, TypeOK
<1>3. PICK sop \in BOOLEAN :
        /\ sop <=> Kind[s] # "stateful" \/ sess[s].requestType = "FIRST"
        /\ thr' = [thr EXCEPT ![t] = [pc |-> "put", sess |-> s, flush |-> thr[t].flush,
                                      sop |-> sop]]
  BY Zenon, <1>1, <1>2 DEF CreateRequest, TypeOK
<1>4. /\ UNCHANGED <<ring, poll, ghost>>
      /\ Kind[s] = "stateful" => sess' = [sess EXCEPT ![s] = Framed(@, thr[t].flush)]
      /\ Kind[s] = "stateless" => Count(s, 1)
      /\ Kind[s] = "ns" => UNCHANGED sess
  BY Zenon, <1>1 DEF CreateRequest
<1>5. /\ thr'[t] = [pc |-> "put", sess |-> s, flush |-> thr[t].flush, sop |-> sop]
      /\ DOMAIN thr' = Threads /\ \A u \in Threads \ {t} : thr'[u] = thr[u]
  BY Zenon, <1>2, <1>3, CallFacts
<1>6. /\ thr'[t].pc = "put" /\ thr'[t].sess = s /\ thr'[t].flush = thr[t].flush
      /\ thr'[t].sop = sop /\ DOMAIN thr'[t] = {"pc", "sess", "flush", "sop"}
  BY <1>5
<1>7. CASE s \in Stateful
  <2>1. Kind[s] = "stateful"
    BY Zenon, <1>7 DEF Stateful, Of
  <2>2. /\ sess' \in [Sessions -> SessType]
        /\ \A x \in Sessions : sess'[x].live = sess[x].live
        /\ \A x \in Sessions \ {s} : sess'[x] = sess[x]
        /\ sess'[s].pending = sess[s].pending
        /\ sess'[s].previous = sess[s].requestType
    <3>1. /\ Framed(sess[s], thr[t].flush) \in SessType
          /\ Framed(sess[s], thr[t].flush).live = sess[s].live
          /\ Framed(sess[s], thr[t].flush).pending = sess[s].pending
          /\ Framed(sess[s], thr[t].flush).previous = sess[s].requestType
      <4>1. sess[s] \in SessType
        BY Zenon, <1>2
      <4>2. PICK f \in {"FIRST", "SUBSEQUENT"} :
              Framed(sess[s], thr[t].flush) =
                [sess[s] EXCEPT !.previous = sess[s].requestType, !.requestType = f]
        BY Zenon DEF Framed
      <4>3. QED
        BY Zenon, <4>1, <4>2 DEF SessType
    <3>2. sess'[s] = Framed(sess[s], thr[t].flush) /\ \A x \in Sessions \ {s} : sess'[x] = sess[x]
      BY Zenon, <1>2, <1>4, <2>1
    <3>3. sess' \in [Sessions -> SessType]
      BY Zenon, <1>2, <1>4, <2>1, <3>1
    <3>4. \A x \in Sessions : sess'[x].live = sess[x].live
      BY Zenon, <3>1, <3>2
    <3>5. QED
      BY Zenon, <3>1, <3>2, <3>3, <3>4
  <2>3. ThrOK(t)'
    BY Zenon, <1>1, <1>6, <2>1, <2>2 DEF ThrOK, Single, Chained
  <2>4. t \in Busy(s)
    BY Zenon, <1>1 DEF Busy
  <2>5. OneInv(s)' /\ (\A u \in Busy(s)' : u = t) /\ t \in Busy(s)'
    BY Zenon, <1>4, <1>5, <1>6, <1>7, <2>2, <2>4, AloneStep
  <2>6. Settled(s) /\ ~Settled(s)'
    BY Zenon, <1>1, <1>6, <1>7, <2>4, <2>5, AloneFacts DEF Settled
  <2>7. FrameInv(s)
    BY Zenon, <1>7 DEF IInv
  <2>8. FrameInv(s)'
    BY Zenon, <1>3, <1>4, <1>6, <2>1, <2>2, <2>5, <2>6, <2>7 DEF FrameInv
  <2>9. QED
    BY <1>1, <1>2, <1>4, <1>5, <1>6, <1>7, <2>2, <2>3, <2>5, <2>8, OnIInv
<1>8. CASE s \notin Stateful
  <2>1. Kind[s] # "stateful" /\ Stateful \subseteq Sessions
    BY Zenon, <1>8 DEF Stateful, Of
  <2>2. /\ sess' \in [Sessions -> SessType]
        /\ \A x \in Sessions : sess'[x].live = sess[x].live
        /\ \A x \in Sessions \ {s} : sess'[x] = sess[x]
    <3>1. CASE Kind[s] = "stateless"
      BY <1>2, <1>4, <3>1, CountFacts
    <3>2. CASE Kind[s] = "ns"
      BY Zenon, <1>2, <1>4, <3>2
    <3>3. QED
      BY Zenon, <1>1, <2>1, <3>1, <3>2
  <2>3. ThrOK(t)'
    BY Zenon, <1>1, <1>6, <2>1, <2>2 DEF ThrOK, Single, Chained
  <2>4. QED
    BY Zenon, <1>1, <1>4, <1>5, <1>6, <1>8, <2>1, <2>2, <2>3, OtherIInv
<1>9. QED
  BY Zenon, <1>7, <1>8

LEMMA PutRefusedIInv ==
    ASSUME IInv, NEW t \in Threads, PutRefused(t)
    PROVE  IInv'
<1>1. PICK s \in Sessions :
        /\ s = thr[t].sess /\ thr[t].pc = "put" /\ ThrOK(t)
        /\ Kind[s] \in {"stateless", "stateful", "ns"} /\ UNCHANGED <<sess, ring, poll, ghost>>
        /\ Kind[s] = "stateful" => Go(t, "restore")
        /\ Kind[s] # "stateful" => Go(t, "undo")
  <2>1. thr[t].pc = "put" /\ ThrOK(t)
    BY Zenon DEF PutRefused, At, IInv, TypeOK
  <2>2. thr[t].sess \in Sessions /\ Kind[thr[t].sess] \in {"stateless", "stateful", "ns"}
    BY Zenon, <2>1 DEF ThrOK, Single
  <2>3. QED
    BY Zenon, <2>1, <2>2 DEF PutRefused
<1>2. TypeOK /\ sess \in [Sessions -> SessType]
  BY Zenon DEF IInv, TypeOK
<1>3. CASE Kind[s] = "stateful"
  <2>1. /\ thr'[t].pc = "restore" /\ thr'[t].sess = s
        /\ DOMAIN thr' = Threads /\ \A u \in Threads \ {t} : thr'[u] = thr[u]
    BY Zenon, <1>1, <1>2, <1>3, GoFacts
  <2>2. ThrOK(t)'
    BY <1>1, <1>2, <1>3, GoFacts DEF ThrOK, Single, Chained
  <2>3. s \in Stateful /\ t \in Busy(s)
    BY Zenon, <1>1, <1>3 DEF Stateful, Of, Busy
  <2>4. OneInv(s)' /\ (\A u \in Busy(s)' : u = t) /\ t \in Busy(s)'
    BY Zenon, <1>1, <2>1, <2>3, AloneStep
  <2>5. ~Settled(s)'
    BY Zenon, <2>1, <2>4 DEF Settled
  <2>6. FrameInv(s)
    BY Zenon, <2>3 DEF IInv
  <2>7. FrameInv(s)'
    BY Zenon, <1>1, <2>1, <2>3, <2>4, <2>5, <2>6 DEF FrameInv
  <2>8. QED
    BY Zenon, <1>1, <1>2, <2>1, <2>2, <2>3, <2>4, <2>7, OnIInv
<1>4. CASE Kind[s] # "stateful"
  <2>1. s \notin Stateful /\ Stateful \subseteq Sessions
    BY Zenon, <1>4 DEF Stateful, Of
  <2>2. ThrOK(t)'
    BY <1>1, <1>2, <1>4, GoFacts DEF ThrOK, Single, Chained
  <2>3. /\ thr'[t].pc = "undo" /\ thr'[t].sess = s
        /\ DOMAIN thr' = Threads /\ \A u \in Threads \ {t} : thr'[u] = thr[u]
    BY Zenon, <1>1, <1>2, <1>4, GoFacts
  <2>4. QED
    BY Zenon, <1>1, <1>2, <2>1, <2>2, <2>3, OtherIInv
<1>5. QED
  BY Zenon, <1>3, <1>4

LEMMA RestoreIInv ==
    ASSUME IInv, NEW t \in Threads, Restore(t)
    PROVE  IInv'
<1>1. PICK s \in Sessions :
        /\ s = thr[t].sess /\ thr[t].pc = "restore" /\ ThrOK(t)
        /\ Kind[s] = "stateful" /\ UNCHANGED <<ring, poll, ghost>> /\ Go(t, "undo")
        /\ sess' = [sess EXCEPT ![s].requestType = sess[s].previous]
  <2>1. thr[t].pc = "restore" /\ ThrOK(t)
    BY Zenon DEF Restore, At, IInv, TypeOK
  <2>2. thr[t].sess \in Sessions /\ Kind[thr[t].sess] = "stateful"
    BY Zenon, <2>1 DEF ThrOK
  <2>3. QED
    BY Zenon, <2>1, <2>2 DEF Restore
<1>2. TypeOK /\ sess \in [Sessions -> SessType]
  BY Zenon DEF IInv, TypeOK
<1>3. /\ sess' \in [Sessions -> SessType]
      /\ \A x \in Sessions : sess'[x].live = sess[x].live
      /\ \A x \in Sessions \ {s} : sess'[x] = sess[x]
      /\ sess'[s].pending = sess[s].pending
      /\ sess'[s].requestType = sess[s].previous
  BY <1>1, <1>2 DEF SessType
<1>4. /\ thr'[t].pc = "undo" /\ thr'[t].sess = s
      /\ DOMAIN thr' = Threads /\ \A u \in Threads \ {t} : thr'[u] = thr[u]
  BY Zenon, <1>1, <1>2, GoFacts
<1>5. ThrOK(t)'
  BY <1>1, <1>2, <1>3, GoFacts DEF ThrOK, Single, Chained
<1>6. s \in Stateful /\ t \in Busy(s)
  BY Zenon, <1>1 DEF Stateful, Of, Busy
<1>7. OneInv(s)' /\ (\A u \in Busy(s)' : u = t) /\ t \in Busy(s)'
  BY Zenon, <1>1, <1>3, <1>4, <1>6, AloneStep
<1>8. FrameInv(s)
  BY Zenon, <1>6 DEF IInv
<1>9. FrameInv(s)'
  BY Zenon, <1>1, <1>3, <1>4, <1>6, <1>7, <1>8 DEF FrameInv
<1>10. QED
  BY Zenon, <1>1, <1>2, <1>3, <1>4, <1>5, <1>6, <1>7, <1>9, OnIInv

-----------------------------------------------------------------------------
(* The ring.                                                               *)

LEMMA RingFacts ==
    ASSUME TypeOK
    PROVE  /\ Len(ring) \in Nat /\ DOMAIN ring = 1 .. Len(ring)
           /\ \A k \in DOMAIN ring : /\ ring[k] \in Requests /\ ring[k].sess \in Sessions
                                     /\ ring[k].by \in Threads \cup {None}
           /\ poll # None => /\ poll.msg \in Requests /\ poll.msg.sess \in Sessions
                             /\ poll.msg.by \in Threads \cup {None}
                             /\ poll.msg.flush \in {"NONE", "FINAL", "FULL"}
                             /\ poll.step \in {"status", "finish"}
<1>1. ring \in Seq(Requests)
  BY Zenon DEF TypeOK
<1>2. Len(ring) \in Nat /\ DOMAIN ring = 1 .. Len(ring)
  BY <1>1
<1>3. \A k \in DOMAIN ring : ring[k] \in Requests
  BY <1>1
<1>4. \A m \in Requests : /\ m.sess \in Sessions /\ m.by \in Threads \cup {None}
                          /\ m.flush \in {"NONE", "FINAL", "FULL"}
  BY Zenon DEF Requests
<1>5. poll # None => poll.msg \in Requests /\ poll.step \in {"status", "finish"}
  BY Zenon DEF TypeOK
<1>6. QED
  BY Zenon, <1>2, <1>3, <1>4, <1>5

\* A request is put behind the others.
LEMMA AppendFacts ==
    ASSUME TypeOK, NEW m \in Requests, ring' = Append(ring, m)
    PROVE  /\ ring' \in Seq(Requests) /\ Len(ring') = Len(ring) + 1
           /\ DOMAIN ring' = DOMAIN ring \cup {Len(ring) + 1}
           /\ Len(ring) + 1 \notin DOMAIN ring /\ ring'[Len(ring) + 1] = m
           /\ \A k \in DOMAIN ring : ring'[k] = ring[k]
<1>1. ring \in Seq(Requests)
  BY Zenon DEF TypeOK
<1>2. QED
  BY <1>1

\* The oldest request leaves the ring.
LEMMA TailFacts ==
    ASSUME TypeOK, ring # <<>>, ring' = Tail(ring)
    PROVE  /\ ring' \in Seq(Requests) /\ Head(ring) = ring[1] /\ 1 \in DOMAIN ring
           /\ \A k \in DOMAIN ring' : k + 1 \in DOMAIN ring /\ ring'[k] = ring[k + 1]
           /\ \A k \in DOMAIN ring : k = 1 \/ (k - 1 \in DOMAIN ring' /\ ring'[k - 1] = ring[k])
           /\ \A k \in DOMAIN ring' : k \in Nat /\ k + 1 # 1
           /\ \A j, k \in DOMAIN ring' : j + 1 = k + 1 => j = k
<1>1. ring \in Seq(Requests)
  BY Zenon DEF TypeOK
<1>2. QED
  BY <1>1

\* A request m is put by thread t, which waits for it or returns.
LEMMA PutIInv ==
    ASSUME IInv, NEW t \in Threads, DOMAIN thr' = Threads, NEW m \in Requests,
           \A u \in Threads \ {t} : thr'[u] = thr[u], ThrOK(t)', thr[t].pc \notin {"idle", "wait"},
           m.sess = thr[t].sess, m.by = None \/ (m.by = t /\ thr'[t].pc = "wait"),
           thr'[t].pc = "idle" \/ m.sess \notin Stateful, thr'[t].pc # "idle" => thr'[t].sess = m.sess,
           ring' = Append(ring, m), UNCHANGED <<sess, poll>>,
           ghost'.open = ghost.open, ghost'.unframed = ghost.unframed, ghost'.framed = TRUE
    PROVE  IInv'
<1>1. TypeOK /\ WaitInv
  BY Zenon DEF IInv
<1>2. /\ ring' \in Seq(Requests)
      /\ DOMAIN ring' = DOMAIN ring \cup {Len(ring) + 1}
      /\ Len(ring) + 1 \notin DOMAIN ring /\ ring'[Len(ring) + 1] = m
      /\ \A k \in DOMAIN ring : ring'[k] = ring[k]
  BY Zenon, <1>1, AppendFacts
<1>3. TypeOK'
  <2>1. \A u \in Threads : ThrOK(u)'
    BY Zenon, <1>1, ThrSame DEF TypeOK
  <2>2. QED
    BY Zenon, <1>1, <1>2, <2>1 DEF TypeOK
<1>4. WaitInv'
  <2>1. \A u \in Threads : At(u, "wait") => u # t /\ At(u, "wait")'
    BY Zenon DEF At
  <2>2. \A k \in DOMAIN ring : ring[k].by # None => ring[k].by \in Threads /\ ring[k].by # t
    BY Zenon, <1>1, <2>1, RingFacts DEF WaitInv
  <2>3. poll # None /\ poll.msg.by # None => poll.msg.by \in Threads /\ poll.msg.by # t
    BY Zenon, <1>1, <2>1, RingFacts DEF WaitInv
  <2>4. ASSUME NEW k \in DOMAIN ring', ring'[k].by # None
        PROVE  /\ thr'[ring'[k].by].pc = "wait"
               /\ \A j \in DOMAIN ring' : ring'[j].by = ring'[k].by => j = k
               /\ poll # None => poll.msg.by # ring'[k].by
    <3>1. CASE k \in DOMAIN ring
      <4>1. ring'[k] = ring[k] /\ ring[k].by \in Threads /\ ring[k].by # t
        BY Zenon, <1>2, <2>2, <2>4, <3>1
      <4>2. thr'[ring'[k].by].pc = "wait"
        BY Zenon, <1>1, <2>1, <2>4, <3>1, <4>1 DEF WaitInv, At
      <4>3. m.by # ring[k].by
        BY Zenon, <2>4, <4>1
      <4>4. /\ \A j \in DOMAIN ring : ring[j].by = ring[k].by => j = k
            /\ poll # None => poll.msg.by # ring[k].by
        BY Zenon, <1>1, <2>4, <3>1, <4>1 DEF WaitInv
      <4>5. \A j \in DOMAIN ring' : ring'[j].by = ring'[k].by => j = k
        BY Zenon, <1>2, <4>1, <4>3, <4>4
      <4>6. QED
        BY Zenon, <4>1, <4>2, <4>4, <4>5
    <3>2. CASE k = Len(ring) + 1
      <4>1. ring'[k] = m /\ m.by = t /\ thr'[t].pc = "wait"
        BY Zenon, <1>2, <2>4, <3>2
      <4>2. ASSUME NEW j \in DOMAIN ring PROVE ring'[j].by # t
        <5>1. ring'[j] = ring[j] /\ (ring[j].by # None => ring[j].by # t)
          BY Zenon, <1>2, <2>2
        <5>2. t # None
          BY Zenon, <2>4, <4>1
        <5>3. QED
          BY Zenon, <5>1, <5>2
      <4>3. QED
        BY Zenon, <1>2, <2>3, <2>4, <3>2, <4>1, <4>2 DEF At
    <3>3. QED
      BY Zenon, <1>2, <3>1, <3>2
  <2>5. poll # None /\ poll.msg.by # None => At(poll.msg.by, "wait")'
    BY Zenon, <1>1, <2>1, <2>3 DEF WaitInv, At
  <2>6. QED
    BY Zenon, <2>4, <2>5 DEF WaitInv, At
<1>5. ASSUME NEW s \in Stateful, s # m.sess
      PROVE  OneInv(s)' /\ FrameInv(s)'
  <2>1. \A k : k \in OnRing(s)' <=> k \in OnRing(s)
    BY Zenon, <1>2, <1>5 DEF OnRing
  <2>2. OneInv(s) /\ FrameInv(s)
    BY Zenon DEF IInv
  <2>3. \A u \in Threads : (u \in Busy(s)' <=> u \in Busy(s)) /\ (u \in Busy(s) => thr'[u] = thr[u])
    BY Zenon, <1>5 DEF Busy
  <2>4. OnRing(s)' = {} <=> OnRing(s) = {}
    BY Zenon, <2>1
  <2>5. \A j, k \in OnRing(s)' : j = k
    BY Zenon, <2>1, <2>2 DEF OneInv
  <2>6. Handled(s)' <=> Handled(s)
    BY Zenon DEF Handled
  <2>7. QED
    BY Zenon, <2>2, <2>3, <2>4, <2>5, <2>6, SessionSame, <1>5 DEF Stateful, Of
<1>6. ASSUME NEW s \in Stateful, s = m.sess
      PROVE  OneInv(s)' /\ FrameInv(s)'
  <2>1. t \in Busy(s)
    BY Zenon, <1>6 DEF Busy
  <2>2. /\ sess[s].pending = 1 /\ sess[s].live /\ OnRing(s) = {} /\ ~Handled(s)
        /\ \A u \in Busy(s) : u = t
    BY Zenon, <2>1, AloneFacts
  <2>3. \A u : u \notin Busy(s)'
    <3>1. ASSUME NEW u \in Threads, thr'[u].pc # "idle", thr'[u].sess = s
          PROVE  FALSE
      <4>1. u # t
        BY Zenon, <1>6, <3>1
      <4>2. thr'[u] = thr[u]
        BY Zenon, <4>1
      <4>3. QED
        BY Zenon, <2>2, <3>1, <4>1, <4>2 DEF Busy
    <3>2. QED
      BY Zenon, <3>1 DEF Busy
  <2>4. \A k : k \in OnRing(s)' <=> k = Len(ring) + 1
    <3>1. ASSUME NEW k \in DOMAIN ring PROVE ring'[k].sess # s
      <4>1. ring'[k] = ring[k]
        BY Zenon, <1>2
      <4>2. k \notin OnRing(s)
        BY Zenon, <2>2
      <4>3. QED
        BY Zenon, <4>1, <4>2 DEF OnRing
    <3>2. QED
      BY Zenon, <1>2, <1>6, <3>1 DEF OnRing
  <2>5. ~Handled(s)'
    BY Zenon, <2>2 DEF Handled
  <2>6. OneInv(s)'
    <3>1. sess' = sess
      OBVIOUS
    <3>2. QED
      BY <2>2, <2>3, <2>4, <2>5, <3>1 DEF OneInv
  <2>7. ~Settled(s)'
    BY Zenon, <2>4 DEF Settled
  <2>8. QED
    BY Zenon, <2>3, <2>6, <2>7 DEF FrameInv
<1>7. Stateful' = Stateful
  BY Zenon DEF Stateful, Of
<1>8. QED
  BY Zenon, <1>3, <1>4, <1>5, <1>6, <1>7 DEF IInv, StreamFraming

LEMMA PutRequestIInv ==
    ASSUME IInv, NEW t \in Threads, NEW sync \in BOOLEAN, PutRequest(t, sync)
    PROVE  IInv'
<1>1. PICK s \in Sessions :
        /\ s = thr[t].sess /\ thr[t].pc = "put" /\ ThrOK(t)
        /\ thr[t].flush \in {"NONE", "FINAL", "FULL"}
  <2>1. thr[t].pc = "put" /\ ThrOK(t)
    BY Zenon DEF PutRequest, At, IInv, TypeOK
  <2>2. QED
    BY Zenon, <2>1 DEF ThrOK
<1>2. PICK by \in Threads \cup {None} :
        /\ by = IF sync THEN t ELSE None
        /\ ring' = Append(ring, [sess |-> s, flush |-> thr[t].flush,
                                 held |-> Holding("dc"), by |-> by])
  BY Zenon, <1>1 DEF PutRequest
<1>3. /\ UNCHANGED <<sess, poll>>
      /\ sync => Kind[s] = "ns"
      /\ sync => Go(t, "wait")
      /\ ~sync => Return(t)
      /\ ghost' = [ghost EXCEPT !.framed = @ /\
                        (Kind[s] = "stateful" /\ s \notin ghost.unframed =>
                            thr[t].sop = (s \notin ghost.open))]
  BY Zenon, <1>1 DEF PutRequest
<1>4. Holding("dc") \in [Pools -> Nat]
  <2>1. Nothing \in [Pools -> Nat]
    BY Zenon DEF Nothing
  <2>2. QED
    BY Zenon, <2>1 DEF Holding
<1>5. PICK m \in Requests : /\ m.sess = s /\ m.by = by /\ ring' = Append(ring, m)
  <2>1. [sess |-> s, flush |-> thr[t].flush, held |-> Holding("dc"), by |-> by] \in Requests
    BY Zenon, <1>1, <1>2, <1>4 DEF Requests
  <2>2. QED
    BY Zenon, <1>2, <2>1
<1>6. /\ ghost'.open = ghost.open /\ ghost'.unframed = ghost.unframed
      /\ ghost'.framed = (ghost.framed /\
                          (Kind[s] = "stateful" /\ s \notin ghost.unframed =>
                              thr[t].sop = (s \notin ghost.open)))
  BY <1>3
<1>7. ghost'.framed = TRUE
  <2>1. ghost.framed
    BY Zenon DEF IInv, StreamFraming
  <2>2. ASSUME Kind[s] = "stateful", s \notin ghost.unframed
        PROVE  thr[t].sop = (s \notin ghost.open)
    <3>1. s \in Stateful /\ t \in Busy(s)
      BY Zenon, <1>1, <2>2 DEF Stateful, Of, Busy
    <3>2. FrameInv(s)
      BY Zenon, <3>1 DEF IInv
    <3>3. thr[t].sop <=> s \notin ghost.open
      BY Zenon, <1>1, <2>2, <3>1, <3>2 DEF FrameInv
    <3>4. thr[t].sop \in BOOLEAN
      BY Zenon, <1>1 DEF ThrOK
    <3>5. QED
      BY Zenon, <3>3, <3>4
  <2>3. QED
    BY Zenon, <1>6, <2>1, <2>2
<1>8. TypeOK
  BY Zenon DEF IInv
<1>9. s \notin Stateful \/ Kind[s] = "stateful"
  BY Zenon DEF Stateful, Of
<1>10. CASE sync
  <2>1. /\ thr'[t].pc = "wait" /\ thr'[t].sess = s
        /\ DOMAIN thr' = Threads /\ \A u \in Threads \ {t} : thr'[u] = thr[u]
    BY Zenon, <1>1, <1>3, <1>8, <1>10, GoFacts
  <2>2. ThrOK(t)'
    <3>1. Kind[s] = "ns" /\ Go(t, "wait") /\ sess' = sess
      BY Zenon, <1>3, <1>10
    <3>2. QED
      BY <1>1, <1>8, <3>1, GoFacts DEF ThrOK, Single, Chained
  <2>3. m.sess \notin Stateful /\ m.by = t
    <3>1. Kind[s] # "stateful"
      BY Zenon, <1>3, <1>10
    <3>2. QED
      BY Zenon, <1>2, <1>5, <1>9, <1>10, <3>1
  <2>4. thr[t].pc \notin {"idle", "wait"} /\ thr'[t].pc # "idle"
    BY Zenon, <1>1, <2>1
  <2>5. QED
    BY Zenon, <1>1, <1>3, <1>5, <1>6, <1>7, <2>1, <2>2, <2>3, <2>4, PutIInv
<1>11. CASE ~sync
  <2>1. /\ thr'[t].pc = "idle" /\ DOMAIN thr'[t] = {"pc"}
        /\ DOMAIN thr' = Threads /\ \A u \in Threads \ {t} : thr'[u] = thr[u]
    BY Zenon, <1>1, <1>3, <1>8, <1>11, ReturnFacts
  <2>2. ThrOK(t)'
    BY Zenon, <2>1, IdleOK
  <2>3. m.by = None /\ thr[t].pc \notin {"idle", "wait"}
    BY Zenon, <1>1, <1>2, <1>5, <1>11
  <2>4. QED
    BY Zenon, <1>1, <1>3, <1>5, <1>6, <1>7, <2>1, <2>2, <2>3, PutIInv
<1>12. QED
  BY Zenon, <1>10, <1>11

LEMMA ChainPutIInv ==
    ASSUME IInv, NEW t \in Threads, ChainPut(t)
    PROVE  IInv'
<1>1. PICK s \in Sessions :
        /\ s = thr[t].sess /\ thr[t].pc = "cookie" /\ ThrOK(t) /\ Kind[s] = "chain"
        /\ thr[t].flush \in {"NONE", "FINAL", "FULL"} /\ thr[t].held \in [Pools -> Nat]
  <2>1. thr[t].pc = "cookie" /\ ThrOK(t)
    BY Zenon DEF ChainPut, At, IInv, TypeOK
  <2>2. QED
    BY Zenon, <2>1 DEF ThrOK, Chained
<1>2. UNCHANGED <<sess, poll, ghost>> /\ TypeOK /\ ghost.framed = TRUE
  BY Zenon DEF ChainPut, IInv, StreamFraming
<1>3. CASE /\ Return(t)
           /\ ring' = Append(ring, [sess |-> thr[t].sess, flush |-> thr[t].flush,
                                    held |-> thr[t].held, by |-> None])
  <2>1. PICK m \in Requests : /\ m.sess = s /\ m.by = None /\ ring' = Append(ring, m)
    <3>1. [sess |-> s, flush |-> thr[t].flush, held |-> thr[t].held, by |-> None] \in Requests
      BY Zenon, <1>1 DEF Requests
    <3>2. QED
      BY Zenon, <1>1, <1>3, <3>1
  <2>2. /\ thr'[t].pc = "idle" /\ DOMAIN thr'[t] = {"pc"}
        /\ DOMAIN thr' = Threads /\ \A u \in Threads \ {t} : thr'[u] = thr[u]
    BY Zenon, <1>2, <1>3, ReturnFacts
  <2>3. ThrOK(t)'
    BY Zenon, <2>2, IdleOK
  <2>4. QED
    BY Zenon, <1>1, <1>2, <2>1, <2>2, <2>3, PutIInv
<1>4. CASE Go(t, "out_err") /\ UNCHANGED ring
  <2>1. ThrOK(t)'
    BY <1>1, <1>2, <1>4, GoFacts DEF ThrOK, Single, Chained
  <2>2. QED
    BY <1>1, <1>2, <1>4, <2>1, GoFacts, MoveIInv
<1>5. QED
  BY Zenon, <1>3, <1>4 DEF ChainPut

LEMMA ChainCheckFailsIInv ==
    ASSUME IInv, NEW t \in Threads, ChainCheckFails(t)
    PROVE  IInv'
<1>1. /\ thr[t].pc = "prepare" /\ Go(t, "out_err") /\ UNCHANGED <<sess, ring, poll>>
      /\ ghost' = [ghost EXCEPT !.freedTwice = @ \cup {"sym"}]
  BY Zenon DEF ChainCheckFails, At
<1>2. TypeOK /\ ThrOK(t)
  BY Zenon DEF IInv, TypeOK
<1>3. ThrOK(t)'
  BY <1>1, <1>2, GoFacts DEF ThrOK, Single, Chained
<1>4. QED
  BY <1>1, <1>2, <1>3, GoFacts, MoveIInv

-----------------------------------------------------------------------------
(* The responses.                                                          *)

\* A thread gives up waiting for its response.
LEMMA NsTimeoutIInv ==
    ASSUME IInv, NEW t \in Threads, NsTimeout(t)
    PROVE  IInv'
<1>1. TypeOK /\ WaitInv /\ StreamFraming
  BY Zenon DEF IInv
<1>2. /\ thr[t].pc = "wait" /\ Return(t)
      /\ ring' = [k \in DOMAIN ring |-> Forget(ring[k], t)]
      /\ poll' = IF poll = None THEN None ELSE [poll EXCEPT !.msg = Forget(@, t)]
      /\ ghost' = [ghost EXCEPT !.freedTwice = @ \cup {"dc"}] /\ sess' = sess
  BY Zenon DEF NsTimeout, At
<1>3. /\ thr'[t].pc = "idle" /\ DOMAIN thr'[t] = {"pc"} /\ DOMAIN thr' = Threads
      /\ \A u \in Threads \ {t} : thr'[u] = thr[u]
  BY Zenon, <1>1, <1>2, ReturnFacts
<1>4. \A m \in Requests : /\ Forget(m, t) \in Requests /\ Forget(m, t).sess = m.sess
                          /\ Forget(m, t).by = IF m.by = t THEN None ELSE m.by
  BY Zenon DEF Forget, Requests
<1>5. /\ ring' \in Seq(Requests) /\ DOMAIN ring' = DOMAIN ring
      /\ \A k \in DOMAIN ring : /\ ring'[k].sess = ring[k].sess
                                /\ ring'[k].by = IF ring[k].by = t THEN None ELSE ring[k].by
  <2>1. \A k \in 1 .. Len(ring) : ring'[k] = Forget(ring[k], t) /\ ring[k] \in Requests
    BY Zenon, <1>1, <1>2, RingFacts
  <2>2. DOMAIN ring' = 1 .. Len(ring) /\ Len(ring) \in Nat /\ DOMAIN ring = 1 .. Len(ring)
    BY Zenon, <1>1, <1>2, RingFacts
  <2>3. ring' \in [1 .. Len(ring) -> Requests]
    <3>1. [k \in DOMAIN ring |-> Forget(ring[k], t)] \in [1 .. Len(ring) -> Requests]
      BY Zenon, <1>1, <1>4, RingFacts
    <3>2. QED
      BY Zenon, <1>2, <3>1
  <2>4. ring' \in Seq(Requests)
    BY <2>2, <2>3
  <2>5. QED
    BY Zenon, <1>4, <2>1, <2>2, <2>4
<1>6. /\ poll' = None <=> poll = None
      /\ poll # None => /\ poll' \in [msg : Requests, step : {"status", "finish"}]
                        /\ poll'.step = poll.step /\ poll'.msg.sess = poll.msg.sess
                        /\ poll'.msg.by = IF poll.msg.by = t THEN None ELSE poll.msg.by
  <2>1. CASE poll = None
    BY Zenon, <1>2, <2>1
  <2>2. CASE poll # None
    <3>1. poll \in [msg : Requests, step : {"status", "finish"}]
      BY Zenon, <1>1, <2>2 DEF TypeOK
    <3>2. poll' = [poll EXCEPT !.msg = Forget(poll.msg, t)] /\ poll.msg \in Requests
      BY Zenon, <1>2, <2>2, <3>1
    <3>3. poll' \in [msg : Requests, step : {"status", "finish"}]
      BY Zenon, <1>4, <3>1, <3>2
    <3>4. poll'.step = poll.step /\ poll'.msg = Forget(poll.msg, t)
      BY Zenon, <3>1, <3>2
    <3>5. poll' # None
      BY Zenon, <3>3, CompressionAssumption
    <3>6. QED
      BY Zenon, <1>4, <2>2, <3>2, <3>3, <3>4, <3>5
  <2>3. QED
    BY Zenon, <2>1, <2>2
<1>7. TypeOK'
  <2>1. ThrOK(t)'
    BY Zenon, <1>3, IdleOK
  <2>2. \A u \in Threads : ThrOK(u)'
    BY Zenon, <1>1, <1>2, <1>3, <2>1, ThrSame DEF TypeOK
  <2>3. QED
    BY Zenon, <1>1, <1>2, <1>3, <1>5, <1>6, <2>2 DEF TypeOK
<1>8. WaitInv'
  <2>1. \A u \in Threads : u # t /\ thr[u].pc = "wait" => thr'[u].pc = "wait"
    BY Zenon, <1>3
  <2>2. ASSUME NEW k \in DOMAIN ring', ring'[k].by # None
        PROVE  /\ thr'[ring'[k].by].pc = "wait"
               /\ \A j \in DOMAIN ring' : ring'[j].by = ring'[k].by => j = k
               /\ poll' # None => poll'.msg.by # ring'[k].by
    <3>1. /\ k \in DOMAIN ring /\ ring[k].by # t /\ ring'[k].by = ring[k].by
          /\ ring[k].by # None /\ ring[k].by \in Threads
      BY Zenon, <1>1, <1>5, <2>2, RingFacts
    <3>2. thr'[ring'[k].by].pc = "wait"
      BY Zenon, <1>1, <2>1, <3>1 DEF WaitInv, At
    <3>3. \A j \in DOMAIN ring' : ring'[j].by = ring'[k].by => j = k
      BY Zenon, <1>1, <1>5, <2>2, <3>1 DEF WaitInv
    <3>4. poll' # None => poll'.msg.by # ring'[k].by
      BY Zenon, <1>1, <1>6, <2>2, <3>1 DEF WaitInv
    <3>5. QED
      BY Zenon, <3>2, <3>3, <3>4
  <2>3. poll' # None /\ poll'.msg.by # None => thr'[poll'.msg.by].pc = "wait"
    BY Zenon, <1>1, <1>6, <2>1, RingFacts DEF WaitInv, At
  <2>4. QED
    BY Zenon, <2>2, <2>3 DEF WaitInv, At
<1>9. ASSUME NEW s \in Stateful
      PROVE  OneInv(s)' /\ FrameInv(s)'
  <2>1. thr[t].sess # s
    <3>1. Kind[thr[t].sess] = "ns"
      BY Zenon, <1>1, <1>2 DEF TypeOK, ThrOK
    <3>2. Kind[s] = "stateful"
      BY Zenon DEF Stateful, Of
    <3>3. QED
      BY Zenon, <3>1, <3>2
  <2>2. \A u \in Threads : (u \in Busy(s)' <=> u \in Busy(s)) /\ (u \in Busy(s) => thr'[u] = thr[u])
    BY Zenon, <1>3, <2>1 DEF Busy
  <2>3. \A k : k \in OnRing(s)' <=> k \in OnRing(s)
    BY Zenon, <1>5 DEF OnRing
  <2>4. OneInv(s) /\ FrameInv(s)
    BY Zenon DEF IInv
  <2>5. OnRing(s)' = {} <=> OnRing(s) = {}
    BY Zenon, <2>3
  <2>6. \A j, k \in OnRing(s)' : j = k
    BY Zenon, <2>3, <2>4 DEF OneInv
  <2>7. (Handled(s)' <=> Handled(s)) /\ (Handled(s) => poll'.step = poll.step)
    BY Zenon, <1>6 DEF Handled
  <2>8. ghost'.open = ghost.open /\ ghost'.unframed = ghost.unframed
    BY <1>2
  <2>9. QED
    BY Zenon, <1>2, <2>2, <2>4, <2>5, <2>6, <2>7, <2>8, SessionSame
<1>10. Stateful' = Stateful /\ StreamFraming'
  <2>1. ghost'.framed = ghost.framed
    BY <1>2
  <2>2. QED
    BY Zenon, <1>1, <2>1 DEF Stateful, Of, StreamFraming
<1>11. QED
  BY Zenon, <1>7, <1>8, <1>9, <1>10 DEF IInv

\* A stateful session with a request on the ring or at the poller has no call.
LEMMA SentFacts ==
    ASSUME IInv, NEW s \in Stateful, OnRing(s) # {} \/ Handled(s)
    PROVE  sess[s].pending = 1 /\ sess[s].live /\ \A u : u \notin Busy(s)
<1>1. OneInv(s)
  BY Zenon DEF IInv
<1>2. sess[s].pending = 1 /\ \A u : u \notin Busy(s)
  BY Zenon, <1>1 DEF OneInv
<1>3. s \in Sessions /\ sess[s].live \in BOOLEAN
  BY Zenon DEF Stateful, Of, IInv, TypeOK, SessType
<1>4. sess[s].live
  <2>1. ASSUME ~sess[s].live PROVE FALSE
    <3>1. sess[s].pending = 0
      BY Zenon, <1>1, <2>1 DEF OneInv
    <3>2. QED
      BY <1>2, <3>1
  <2>2. QED
    BY Zenon, <2>1
<1>5. QED
  BY Zenon, <1>2, <1>4

LEMMA PollRingIInv ==
    ASSUME IInv, PollRing
    PROVE  IInv'
<1>1. TypeOK /\ WaitInv /\ StreamFraming
  BY Zenon DEF IInv
<1>2. /\ poll = None /\ ring # <<>> /\ ring' = Tail(ring)
      /\ poll' = [msg |-> Head(ring), step |-> "status"]
      /\ UNCHANGED <<sess, thr, ghost>>
  BY Zenon DEF PollRing
<1>3. /\ ring' \in Seq(Requests) /\ Head(ring) = ring[1] /\ 1 \in DOMAIN ring
      /\ \A k \in DOMAIN ring' : k + 1 \in DOMAIN ring /\ ring'[k] = ring[k + 1]
      /\ \A k \in DOMAIN ring : k = 1 \/ (k - 1 \in DOMAIN ring' /\ ring'[k - 1] = ring[k])
      /\ \A k \in DOMAIN ring' : k \in Nat /\ k + 1 # 1
      /\ \A j, k \in DOMAIN ring' : j + 1 = k + 1 => j = k
  BY Zenon, <1>1, <1>2, TailFacts
<1>4. /\ poll' \in [msg : Requests, step : {"status", "finish"}] /\ poll' # None
      /\ poll'.msg = ring[1] /\ poll'.step = "status"
  <2>1. ring[1] \in Requests
    BY Zenon, <1>1, <1>3, RingFacts
  <2>2. /\ poll' \in [msg : Requests, step : {"status", "finish"}]
        /\ poll'.msg = ring[1] /\ poll'.step = "status"
    BY Zenon, <1>2, <1>3, <2>1
  <2>3. QED
    BY Zenon, <2>2, CompressionAssumption
<1>5. TypeOK'
  <2>1. \A u \in Threads : ThrOK(u)'
    BY Zenon, <1>1, <1>2, ThrSame DEF TypeOK
  <2>2. QED
    BY Zenon, <1>1, <1>2, <1>3, <1>4, <2>1 DEF TypeOK
<1>6. WaitInv'
  <2>1. ASSUME NEW k \in DOMAIN ring', ring'[k].by # None
        PROVE  /\ thr'[ring'[k].by].pc = "wait"
               /\ \A j \in DOMAIN ring' : ring'[j].by = ring'[k].by => j = k
               /\ poll'.msg.by # ring'[k].by
    <3>1. k + 1 \in DOMAIN ring /\ ring'[k] = ring[k + 1] /\ k + 1 # 1
      BY Zenon, <1>3
    <3>2. /\ thr[ring[k + 1].by].pc = "wait"
          /\ \A j \in DOMAIN ring : ring[j].by = ring[k + 1].by => j = k + 1
      BY Zenon, <1>1, <2>1, <3>1 DEF WaitInv, At
    <3>3. \A j \in DOMAIN ring' : ring'[j].by = ring'[k].by => j = k
      BY Zenon, <1>3, <3>1, <3>2
    <3>4. QED
      BY Zenon, <1>2, <1>3, <1>4, <3>1, <3>2, <3>3
  <2>2. poll'.msg.by # None => thr'[poll'.msg.by].pc = "wait"
    <3>1. ring[1].by # None => thr[ring[1].by].pc = "wait"
      BY Zenon, <1>1, <1>3 DEF WaitInv, At
    <3>2. QED
      BY Zenon, <1>2, <1>4, <3>1
  <2>3. QED
    BY Zenon, <2>1, <2>2 DEF WaitInv, At
<1>7. ASSUME NEW s \in Stateful, ring[1].sess # s
      PROVE  OneInv(s)' /\ FrameInv(s)'
  <2>1. \A k : k \in OnRing(s)' => k \in DOMAIN ring' /\ k + 1 \in OnRing(s)
    BY Zenon, <1>3 DEF OnRing
  <2>2. \A k : k \in OnRing(s) => k - 1 \in OnRing(s)'
    BY Zenon, <1>3, <1>7 DEF OnRing
  <2>3. OnRing(s)' = {} <=> OnRing(s) = {}
    BY Zenon, <2>1, <2>2
  <2>4. OneInv(s) /\ FrameInv(s)
    BY Zenon DEF IInv
  <2>5. \A j, k \in OnRing(s)' : j = k
    <3>1. \A j, k \in OnRing(s) : j = k
      BY Zenon, <2>4 DEF OneInv
    <3>2. ASSUME NEW j \in OnRing(s)', NEW k \in OnRing(s)'
          PROVE  j = k
      <4>1. j \in DOMAIN ring' /\ k \in DOMAIN ring' /\ j + 1 = k + 1
        BY Zenon, <2>1, <3>1
      <4>2. QED
        BY Zenon, <1>3, <4>1
    <3>3. QED
      BY Zenon, <3>2
  <2>6. ~Handled(s)' /\ ~Handled(s)
    BY Zenon, <1>2, <1>4, <1>7 DEF Handled
  <2>7. \A u \in Threads : (u \in Busy(s)' <=> u \in Busy(s)) /\ thr'[u] = thr[u]
    BY Zenon, <1>2 DEF Busy
  <2>8. QED
    BY Zenon, <1>2, <2>3, <2>4, <2>5, <2>6, <2>7, SessionSame
<1>8. ASSUME NEW s \in Stateful, ring[1].sess = s
      PROVE  OneInv(s)' /\ FrameInv(s)'
  <2>1. 1 \in OnRing(s)
    BY Zenon, <1>3, <1>8 DEF OnRing
  <2>2. sess[s].pending = 1 /\ sess[s].live /\ \A u : u \notin Busy(s)
    BY Zenon, <2>1, SentFacts
  <2>3. \A k \in OnRing(s) : k = 1
    BY Zenon, <2>1 DEF IInv, OneInv
  <2>4. \A k : k \notin OnRing(s)'
    <3>1. \A k : k \in OnRing(s)' => k + 1 \in OnRing(s) /\ k + 1 # 1
      BY Zenon, <1>3 DEF OnRing
    <3>2. QED
      BY Zenon, <2>3, <3>1
  <2>5. \A u : u \notin Busy(s)'
    BY Zenon, <1>2, <2>2 DEF Busy
  <2>6. OneInv(s)'
    <3>1. sess'[s].pending = 1 /\ sess'[s].live
      BY Zenon, <1>2, <2>2
    <3>2. QED
      BY Zenon, <2>4, <2>5, <3>1 DEF OneInv
  <2>7. ~Settled(s)'
    <3>1. Handled(s)'
      BY Zenon, <1>4, <1>8 DEF Handled
    <3>2. poll'.step # "finish"
      BY Zenon, <1>4
    <3>3. QED
      BY Zenon, <3>1, <3>2 DEF Settled
  <2>8. QED
    BY Zenon, <2>5, <2>6, <2>7 DEF FrameInv
<1>9. Stateful' = Stateful /\ StreamFraming'
  BY Zenon, <1>1, <1>2 DEF Stateful, Of, StreamFraming
<1>10. QED
  BY Zenon, <1>5, <1>6, <1>7, <1>8, <1>9 DEF IInv

\* The status of a response settles the type of the session's next request.
LEMMA StatusIInv ==
    ASSUME IInv, NEW result \in {"ok", "error", "unsupported"}, Status(result)
    PROVE  IInv'
<1>1. TypeOK /\ WaitInv /\ StreamFraming
  BY Zenon DEF IInv
<1>2. /\ poll # None /\ poll.step = "status" /\ poll' = [poll EXCEPT !.step = "finish"]
      /\ ghost' = Processed(ghost, poll.msg, result) /\ UNCHANGED <<ring, thr>>
  BY Zenon DEF Status
<1>3. PICK x \in Sessions : x = poll.msg.sess
  BY Zenon, <1>1, <1>2, RingFacts
<1>4. sess' = IF Kind[x] = "ns" \/ result = "unsupported" THEN sess
              ELSE [sess EXCEPT ![x].requestType =
                      IF poll.msg.flush = "FINAL" /\ result = "ok"
                      THEN "FIRST" ELSE "SUBSEQUENT"]
  BY Zenon, <1>3 DEF Status
<1>5. /\ poll' \in [msg : Requests, step : {"status", "finish"}] /\ poll' # None
      /\ poll'.msg = poll.msg /\ poll'.step = "finish"
  <2>1. poll \in [msg : Requests, step : {"status", "finish"}]
    BY Zenon, <1>1, <1>2 DEF TypeOK
  <2>2. /\ poll' \in [msg : Requests, step : {"status", "finish"}]
        /\ poll'.msg = poll.msg /\ poll'.step = "finish"
    BY Zenon, <1>2, <2>1
  <2>3. QED
    BY Zenon, <2>2, CompressionAssumption
<1>6. /\ sess' \in [Sessions -> SessType]
      /\ \A y \in Sessions : /\ sess'[y].live = sess[y].live
                             /\ sess'[y].pending = sess[y].pending
      /\ \A y \in Sessions \ {x} : sess'[y] = sess[y]
      /\ Kind[x] = "stateful" /\ result # "unsupported" =>
            (sess'[x].requestType = "FIRST" <=> poll.msg.flush = "FINAL" /\ result = "ok")
  <2>1. sess \in [Sessions -> SessType]
    BY Zenon, <1>1 DEF TypeOK
  <2>2. CASE Kind[x] = "ns" \/ result = "unsupported"
    BY Zenon, <1>4, <2>1, <2>2
  <2>3. CASE ~(Kind[x] = "ns" \/ result = "unsupported")
    <3>1. PICK r \in {"FIRST", "SUBSEQUENT"} :
            /\ sess' = [sess EXCEPT ![x].requestType = r]
            /\ r = "FIRST" <=> poll.msg.flush = "FINAL" /\ result = "ok"
      BY Zenon, <1>4, <2>3
    <3>2. QED
      BY Zenon, <2>1, <3>1 DEF SessType
  <2>4. QED
    BY Zenon, <2>2, <2>3
<1>7. TypeOK'
  <2>1. \A u \in Threads : ThrOK(u)'
    BY Zenon, <1>1, <1>2, <1>6, ThrSame DEF TypeOK
  <2>2. \A y \in Of({"ns"}) : sess'[y].live
    BY Zenon, <1>1, <1>6 DEF TypeOK, Of
  <2>3. QED
    BY Zenon, <1>1, <1>2, <1>5, <1>6, <2>1, <2>2 DEF TypeOK
<1>8. WaitInv'
  BY Zenon, <1>1, <1>2, <1>5 DEF WaitInv, At
<1>9. /\ ghost'.framed = ghost.framed
      /\ \A y \in Sessions \ {x} : /\ y \in ghost'.open <=> y \in ghost.open
                                   /\ y \in ghost'.unframed <=> y \in ghost.unframed
      /\ Kind[x] = "stateful" =>
            /\ x \in ghost'.open <=> ~(poll.msg.flush = "FINAL" /\ result = "ok")
            /\ x \notin ghost'.unframed => x \notin ghost.unframed /\ result # "unsupported"
  <2>1. CASE Kind[x] # "stateful"
    <3>1. ghost' = ghost
      BY Zenon, <1>2, <1>3, <2>1 DEF Processed
    <3>2. QED
      BY Zenon, <2>1, <3>1
  <2>2. CASE Kind[x] = "stateful"
    <3>1. ghost' = [ghost EXCEPT
                      !.open = IF poll.msg.flush = "FINAL" /\ result = "ok"
                               THEN @ \ {x} ELSE @ \cup {x},
                      !.unframed = IF poll.msg.flush = "FULL" \/ result = "unsupported"
                                   THEN @ \cup {x} ELSE @]
      BY Zenon, <1>2, <1>3, <2>2 DEF Processed
    <3>2. /\ ghost'.framed = ghost.framed
          /\ ghost'.open = IF poll.msg.flush = "FINAL" /\ result = "ok"
                           THEN ghost.open \ {x} ELSE ghost.open \cup {x}
          /\ ghost'.unframed = IF poll.msg.flush = "FULL" \/ result = "unsupported"
                               THEN ghost.unframed \cup {x} ELSE ghost.unframed
      BY <1>1, <3>1 DEF TypeOK
    <3>3. QED
      BY Zenon, <2>2, <3>2
  <2>3. QED
    BY Zenon, <2>1, <2>2
<1>10. ASSUME NEW s \in Stateful, s # x
       PROVE  OneInv(s)' /\ FrameInv(s)'
  <2>1. OneInv(s) /\ FrameInv(s) /\ s \in Sessions
    BY Zenon DEF IInv, Stateful, Of
  <2>2. OnRing(s)' = OnRing(s)
    BY Zenon, <1>2 DEF OnRing
  <2>3. \A j, k \in OnRing(s)' : j = k
    BY Zenon, <2>1, <2>2 DEF OneInv
  <2>4. ~Handled(s)' /\ ~Handled(s)
    BY Zenon, <1>3, <1>5, <1>10 DEF Handled
  <2>5. \A u \in Threads : (u \in Busy(s)' <=> u \in Busy(s)) /\ thr'[u] = thr[u]
    BY Zenon, <1>2 DEF Busy
  <2>6. sess'[s] = sess[s]
    BY Zenon, <1>6, <1>10, <2>1
  <2>7. /\ s \in ghost'.open <=> s \in ghost.open
        /\ s \in ghost'.unframed <=> s \in ghost.unframed
    BY Zenon, <1>9, <1>10, <2>1
  <2>8. QED
    BY Zenon, <2>1, <2>2, <2>3, <2>4, <2>5, <2>6, <2>7, SessionSame
<1>11. ASSUME x \in Stateful
       PROVE  OneInv(x)' /\ FrameInv(x)'
  <2>1. Handled(x) /\ Kind[x] = "stateful"
    BY Zenon, <1>2, <1>3, <1>11 DEF Handled, Stateful, Of
  <2>2. sess[x].pending = 1 /\ sess[x].live /\ \A u : u \notin Busy(x)
    BY Zenon, <1>11, <2>1, SentFacts
  <2>3. OneInv(x)
    BY Zenon, <1>11 DEF IInv
  <2>4. \A k : k \notin OnRing(x)
    BY Zenon, <2>1, <2>3 DEF OneInv
  <2>5. (\A u : u \notin Busy(x)') /\ (\A k : k \notin OnRing(x)')
    BY Zenon, <1>2, <2>2, <2>4 DEF Busy, OnRing
  <2>6. sess'[x].pending = 1 /\ sess'[x].live
    BY Zenon, <1>6, <2>2
  <2>7. OneInv(x)'
    BY Zenon, <2>5, <2>6 DEF OneInv
  <2>8. x \notin ghost'.unframed => (sess'[x].requestType = "FIRST" <=> x \notin ghost'.open)
    BY Zenon, <1>6, <1>9, <2>1
  <2>9. QED
    BY Zenon, <2>5, <2>7, <2>8 DEF FrameInv
<1>12. Stateful' = Stateful /\ StreamFraming'
  BY Zenon, <1>1, <1>9 DEF Stateful, Of, StreamFraming
<1>13. QED
  BY Zenon, <1>7, <1>8, <1>10, <1>11, <1>12 DEF IInv

\* The end of a response: a thread that waits for it returns.
LEMMA WakeFacts ==
    ASSUME TypeOK, WaitInv, poll # None,
           thr' = IF poll.msg.by = None THEN thr ELSE [thr EXCEPT ![poll.msg.by] = Idle]
    PROVE  /\ DOMAIN thr' = Threads
           /\ \A u \in Threads : \/ u # poll.msg.by /\ thr'[u] = thr[u]
                                 \/ /\ u = poll.msg.by /\ thr[u].pc = "wait"
                                    /\ thr'[u].pc = "idle" /\ DOMAIN thr'[u] = {"pc"}
<1>1. DOMAIN thr = Threads /\ poll.msg.by \in Threads \cup {None} /\ None \notin Threads
  <2>1. None \notin Threads
    BY Zenon, CompressionAssumption
  <2>2. QED
    BY Zenon, <2>1, RingFacts DEF TypeOK
<1>2. CASE poll.msg.by = None
  BY Zenon, <1>1, <1>2
<1>3. CASE poll.msg.by # None
  <2>1. PICK t \in Threads : t = poll.msg.by
    BY Zenon, <1>1, <1>3
  <2>2. Return(t) /\ thr[t].pc = "wait"
    BY Zenon, <1>3, <2>1 DEF Return, WaitInv, At
  <2>3. /\ thr'[t].pc = "idle" /\ DOMAIN thr'[t] = {"pc"} /\ DOMAIN thr' = Threads
        /\ \A u \in Threads \ {t} : thr'[u] = thr[u]
    BY Zenon, <2>2, ReturnFacts
  <2>4. QED
    BY Zenon, <2>1, <2>2, <2>3
<1>4. QED
  BY Zenon, <1>2, <1>3

\* What Finish does to the counts.
LEMMA FinishCount ==
    ASSUME IInv, Finish, NEW x \in Sessions, x = poll.msg.sess
    PROVE  /\ sess' \in [Sessions -> SessType]
           /\ \A y \in Sessions : /\ sess'[y].live = sess[y].live
                                  /\ sess'[y].requestType = sess[y].requestType
           /\ \A y \in Sessions \ {x} : sess'[y] = sess[y]
           /\ sess'[x].pending = IF Kind[x] = "ns" THEN sess[x].pending
                                 ELSE sess[x].pending - 1
<1>1. TypeOK /\ sess \in [Sessions -> SessType]
  BY Zenon DEF IInv, TypeOK
<1>2. IF Kind[x] = "ns" \/ (Kind[x] = "stateful" /\ sess[x].pending = 0)
      THEN UNCHANGED sess ELSE Count(x, -1)
  BY Zenon DEF Finish
<1>3. Kind[x] = "stateful" => sess[x].pending # 0
  <2>1. ASSUME Kind[x] = "stateful" PROVE sess[x].pending # 0
    <3>1. x \in Stateful
      BY Zenon, <2>1 DEF Stateful, Of
    <3>2. Handled(x)
      BY Zenon DEF Finish, Handled
    <3>3. sess[x].pending = 1
      BY Zenon, <3>1, <3>2, SentFacts
    <3>4. QED
      BY <3>3
  <2>2. QED
    BY Zenon, <2>1
<1>4. CASE Kind[x] = "ns"
  BY Zenon, <1>1, <1>2, <1>4
<1>5. CASE Kind[x] # "ns"
  <2>1. Count(x, -1)
    BY Zenon, <1>2, <1>3, <1>5
  <2>2. -1 \in Int /\ sess[x].pending + (-1) = sess[x].pending - 1
    BY <1>1 DEF SessType
  <2>3. QED
    BY Zenon, <1>1, <1>5, <2>1, <2>2, CountFacts
<1>6. QED
  BY Zenon, <1>4, <1>5

LEMMA FinishIInv ==
    ASSUME IInv, Finish
    PROVE  IInv'
<1>1. TypeOK /\ WaitInv /\ StreamFraming
  BY Zenon DEF IInv
<1>2. /\ poll # None /\ poll.step = "finish" /\ poll' = None /\ UNCHANGED <<ring, ghost>>
      /\ thr' = IF poll.msg.by = None THEN thr ELSE [thr EXCEPT ![poll.msg.by] = Idle]
  BY Zenon DEF Finish
<1>3. PICK x \in Sessions : x = poll.msg.sess
  BY Zenon, <1>1, <1>2, RingFacts
<1>4. /\ sess' \in [Sessions -> SessType]
      /\ \A y \in Sessions : /\ sess'[y].live = sess[y].live
                             /\ sess'[y].requestType = sess[y].requestType
      /\ \A y \in Sessions \ {x} : sess'[y] = sess[y]
      /\ sess'[x].pending = IF Kind[x] = "ns" THEN sess[x].pending
                            ELSE sess[x].pending - 1
  BY Zenon, <1>3, FinishCount
<1>5. /\ DOMAIN thr' = Threads
      /\ \A u \in Threads : \/ u # poll.msg.by /\ thr'[u] = thr[u]
                            \/ /\ u = poll.msg.by /\ thr[u].pc = "wait"
                               /\ thr'[u].pc = "idle" /\ DOMAIN thr'[u] = {"pc"}
  BY Zenon, <1>1, <1>2, WakeFacts
<1>6. TypeOK'
  <2>1. ASSUME NEW u \in Threads PROVE ThrOK(u)'
    <3>1. CASE thr'[u] = thr[u]
      BY Zenon, <1>1, <1>4, <3>1, ThrSame DEF TypeOK
    <3>2. CASE thr'[u].pc = "idle" /\ DOMAIN thr'[u] = {"pc"}
      BY Zenon, <3>2, IdleOK
    <3>3. QED
      BY Zenon, <1>5, <3>1, <3>2
  <2>2. \A y \in Of({"ns"}) : sess'[y].live
    BY Zenon, <1>1, <1>4 DEF TypeOK, Of
  <2>3. QED
    BY Zenon, <1>1, <1>2, <1>4, <1>5, <2>1, <2>2 DEF TypeOK
<1>7. WaitInv'
  <2>1. ASSUME NEW k \in DOMAIN ring, ring[k].by # None
        PROVE  thr'[ring[k].by].pc = "wait"
    <3>1. ring[k].by \in Threads /\ ring[k].by # poll.msg.by /\ thr[ring[k].by].pc = "wait"
      BY Zenon, <1>1, <1>2, <2>1, RingFacts DEF WaitInv, At
    <3>2. QED
      BY Zenon, <1>5, <3>1
  <2>2. QED
    BY Zenon, <1>1, <1>2, <2>1 DEF WaitInv, At
<1>8. ASSUME NEW s \in Stateful
      PROVE  \A u \in Threads : /\ u \in Busy(s)' <=> u \in Busy(s)
                                /\ u \in Busy(s) => thr'[u] = thr[u]
  <2>1. Kind[s] # "ns"
    BY Zenon DEF Stateful, Of
  <2>2. \A u \in Threads : thr[u].pc = "wait" => Kind[thr[u].sess] = "ns"
    BY Zenon, <1>1 DEF TypeOK, ThrOK
  <2>3. \A u \in Threads : thr[u].pc = "wait" => u \notin Busy(s)
    BY Zenon, <2>1, <2>2 DEF Busy
  <2>4. QED
    BY Zenon, <1>5, <2>3 DEF Busy
<1>9. ASSUME NEW s \in Stateful, s # x
      PROVE  OneInv(s)' /\ FrameInv(s)'
  <2>1. OneInv(s) /\ FrameInv(s) /\ s \in Sessions
    BY Zenon DEF IInv, Stateful, Of
  <2>2. OnRing(s)' = OnRing(s)
    BY Zenon, <1>2 DEF OnRing
  <2>3. \A j, k \in OnRing(s)' : j = k
    BY Zenon, <2>1, <2>2 DEF OneInv
  <2>4. ~Handled(s)' /\ ~Handled(s)
    BY Zenon, <1>2, <1>3, <1>9 DEF Handled
  <2>5. sess'[s] = sess[s]
    BY Zenon, <1>4, <1>9, <2>1
  <2>6. QED
    BY Zenon, <1>2, <1>8, <2>1, <2>2, <2>3, <2>4, <2>5, SessionSame
<1>10. ASSUME x \in Stateful
       PROVE  OneInv(x)' /\ FrameInv(x)'
  <2>1. Handled(x) /\ Kind[x] # "ns"
    BY Zenon, <1>2, <1>3, <1>10 DEF Handled, Stateful, Of
  <2>2. sess[x].pending = 1 /\ \A u : u \notin Busy(x)
    BY Zenon, <1>10, <2>1, SentFacts
  <2>3. OneInv(x) /\ FrameInv(x)
    BY Zenon, <1>10 DEF IInv
  <2>4. \A k : k \notin OnRing(x)
    BY Zenon, <2>1, <2>3 DEF OneInv
  <2>5. (\A u : u \notin Busy(x)') /\ (\A k : k \notin OnRing(x)') /\ ~Handled(x)'
    <3>1. \A u \in Threads : u \notin Busy(x)'
      BY Zenon, <1>8, <1>10, <2>2
    <3>2. QED
      BY Zenon, <1>2, <2>4, <3>1 DEF Busy, OnRing, Handled
  <2>6. sess'[x].pending = 0
    BY <1>4, <2>1, <2>2
  <2>7. OneInv(x)'
    BY Zenon, <2>5, <2>6 DEF OneInv
  <2>8. Settled(x)
    BY Zenon, <1>2, <2>2, <2>4 DEF Settled
  <2>9. QED
    BY Zenon, <1>2, <1>4, <2>3, <2>5, <2>7, <2>8 DEF FrameInv
<1>11. Stateful' = Stateful /\ StreamFraming'
  BY Zenon, <1>1, <1>2 DEF Stateful, Of, StreamFraming
<1>12. QED
  BY Zenon, <1>6, <1>7, <1>9, <1>10, <1>11 DEF IInv

-----------------------------------------------------------------------------
(* The data plane, and the lifetime of a session.                          *)

\* A step outside of the calls, the ring and the poller.
LEMMA ApartIInv ==
    ASSUME IInv, UNCHANGED <<thr, ring, poll>>, sess' \in [Sessions -> SessType],
           \A t \in Threads : thr[t].pc # "idle" => sess'[thr[t].sess].live,
           \A s \in Of({"ns"}) : sess'[s].live, ghost'.framed = ghost.framed,
           \A s \in Stateful : OneInv(s)' /\ FrameInv(s)'
    PROVE  IInv'
<1>1. TypeOK /\ WaitInv /\ StreamFraming
  BY Zenon DEF IInv
<1>2. ASSUME NEW u \in Threads PROVE ThrOK(u)'
  <2>1. /\ ThrOK(u) /\ thr'[u] = thr[u]
        /\ thr'[u].pc # "idle" => sess'[thr'[u].sess].live
    BY Zenon, <1>1 DEF TypeOK
  <2>2. QED
    BY Zenon, <2>1 DEF ThrOK
<1>3. TypeOK'
  BY Zenon, <1>1, <1>2 DEF TypeOK
<1>4. WaitInv'
  BY Zenon, <1>1 DEF WaitInv, At
<1>5. Stateful' = Stateful /\ StreamFraming'
  BY Zenon, <1>1 DEF Stateful, Of, StreamFraming
<1>6. QED
  BY Zenon, <1>3, <1>4, <1>5 DEF IInv

\* ... is nothing to a stateful session that it leaves alone.
LEMMA ApartSame ==
    ASSUME IInv, UNCHANGED <<thr, ring, poll>>, NEW s \in Stateful, sess'[s] = sess[s],
           s \in ghost'.open <=> s \in ghost.open,
           s \in ghost'.unframed <=> s \in ghost.unframed
    PROVE  OneInv(s)' /\ FrameInv(s)'
<1>1. OneInv(s) /\ FrameInv(s)
  BY Zenon DEF IInv
<1>2. OnRing(s)' = OnRing(s) /\ (Handled(s)' <=> Handled(s)) /\ (Handled(s) => poll'.step = poll.step)
  BY Zenon DEF OnRing, Handled
<1>3. \A u \in Threads : (u \in Busy(s)' <=> u \in Busy(s)) /\ thr'[u] = thr[u]
  BY Zenon DEF Busy
<1>4. \A j, k \in OnRing(s)' : j = k
  BY Zenon, <1>1, <1>2 DEF OneInv
<1>5. QED
  BY Zenon, <1>1, <1>2, <1>3, <1>4, SessionSame

\* ... and one on a stateful session that counts nothing starts it afresh, or
\* leaves its request type alone.
LEMMA ApartQuiet ==
    ASSUME IInv, UNCHANGED <<thr, ring, poll>>, NEW s \in Stateful,
           sess[s].pending = 0, sess'[s].pending = 0,
           \/ sess'[s].requestType = "FIRST" /\ s \notin ghost'.open
           \/ /\ sess'[s].requestType = sess[s].requestType
              /\ UNCHANGED <<ghost.open, ghost.unframed>>
    PROVE  OneInv(s)' /\ FrameInv(s)' /\ \A u : u \notin Busy(s)
<1>1. OneInv(s) /\ FrameInv(s)
  BY Zenon DEF IInv
<1>2. (\A u : u \notin Busy(s)) /\ (\A k : k \notin OnRing(s)) /\ ~Handled(s)
  <2>1. sess[s].pending # 1
    OBVIOUS
  <2>2. QED
    BY Zenon, <1>1, <2>1 DEF OneInv
<1>3. (\A u : u \notin Busy(s)') /\ (\A k : k \notin OnRing(s)') /\ ~Handled(s)'
  BY Zenon, <1>2 DEF Busy, OnRing, Handled
<1>4. OneInv(s)'
  <2>1. sess'[s].pending \in {0, 1}
    OBVIOUS
  <2>2. QED
    BY Zenon, <1>3, <2>1 DEF OneInv
<1>5. Settled(s)
  BY Zenon, <1>2 DEF Settled
<1>6. QED
  BY Zenon, <1>1, <1>2, <1>3, <1>4, <1>5 DEF FrameInv

\* A step of the data plane.
LEMMA DataIInv ==
    ASSUME IInv, UNCHANGED <<thr, ring, poll>>, sess' \in [Sessions -> SessType],
           \A s \in Sessions : sess'[s].live = sess[s].live,
           \A s \in Sessions : Kind[s] # "dp" => sess'[s] = sess[s],
           ghost'.open = ghost.open, ghost'.unframed = ghost.unframed,
           ghost'.framed = ghost.framed
    PROVE  IInv'
<1>1. ASSUME NEW s \in Stateful PROVE OneInv(s)' /\ FrameInv(s)'
  <2>1. s \in Sessions /\ Kind[s] # "dp"
    BY Zenon DEF Stateful, Of
  <2>2. QED
    BY Zenon, <2>1, ApartSame
<1>2. \A t \in Threads : thr[t].pc # "idle" => sess'[thr[t].sess].live
  BY Zenon DEF IInv, TypeOK, ThrOK
<1>3. \A s \in Of({"ns"}) : sess'[s].live
  BY Zenon DEF IInv, TypeOK, Of
<1>4. QED
  BY Zenon, <1>1, <1>2, <1>3, ApartIInv

LEMMA EnqueueIInv ==
    ASSUME IInv, NEW s \in Of({"dp", "ns"}), NEW n \in 1 .. Concurrent, NEW now \in BOOLEAN,
           Enqueue(s, n, now)
    PROVE  IInv'
<1>1. TypeOK /\ sess \in [Sessions -> SessType] /\ s \in Sessions
  BY Zenon DEF IInv, TypeOK, Of
<1>2. UNCHANGED <<thr, ring, poll, ghost>>
  BY Zenon DEF Enqueue
<1>3. IF Kind[s] = "dp" THEN Count(s, n) ELSE UNCHANGED sess
  BY Zenon DEF Enqueue
<1>4. n \in Int
  BY CompressionAssumption
<1>5. /\ sess' \in [Sessions -> SessType]
      /\ \A x \in Sessions : sess'[x].live = sess[x].live
      /\ \A x \in Sessions : Kind[x] # "dp" => sess'[x] = sess[x]
  <2>1. CASE Kind[s] = "dp"
    BY Zenon, <1>1, <1>3, <1>4, <2>1, CountFacts
  <2>2. CASE Kind[s] # "dp"
    BY Zenon, <1>1, <1>3, <2>2
  <2>3. QED
    BY Zenon, <2>1, <2>2
<1>6. QED
  BY Zenon, <1>2, <1>5, DataIInv

LEMMA EnqueueFailsIInv ==
    ASSUME IInv, NEW n \in 1 .. Concurrent, EnqueueFails(n)
    PROVE  IInv'
<1>1. sess \in [Sessions -> SessType] /\ UNCHANGED <<sess, thr, ring, poll>>
  BY Zenon DEF IInv, TypeOK, EnqueueFails
<1>2. ghost' = [ghost EXCEPT !.stale = TRUE]
  BY Zenon DEF EnqueueFails
<1>3. /\ ghost'.open = ghost.open /\ ghost'.unframed = ghost.unframed
      /\ ghost'.framed = ghost.framed
  BY <1>2
<1>4. QED
  BY Zenon, <1>1, <1>3, DataIInv

\* What a poll of the data plane does to the counts.
LEMMA PollDpCount ==
    ASSUME TypeOK, NEW n \in 1 .. Concurrent, PollDp(n)
    PROVE  /\ sess' \in [Sessions -> SessType]
           /\ \A s \in Sessions : /\ sess'[s].live = sess[s].live
                                  /\ Kind[s] # "dp" => sess'[s] = sess[s]
                                  /\ Kind[s] = "dp" => sess'[s].pending =
                                        sess[s].pending - Cardinality(Answered(s, n))
<1>1. sess' = [s \in Sessions |->
                 [sess[s] EXCEPT !.pending =
                    IF Kind[s] = "dp" THEN @ - Cardinality(Answered(s, n)) ELSE @]]
  BY Zenon DEF PollDp, Answered
<1>2. DOMAIN sess' = Sessions /\ sess' = [s \in Sessions |-> sess'[s]]
  BY Zenon, <1>1
<1>3. ASSUME NEW s \in Sessions
      PROVE  /\ sess'[s] \in SessType /\ sess'[s].live = sess[s].live
             /\ Kind[s] # "dp" => sess'[s] = sess[s]
             /\ Kind[s] = "dp" =>
                   sess'[s].pending = sess[s].pending - Cardinality(Answered(s, n))
  <2>1. sess[s] \in SessType
    BY Zenon DEF TypeOK
  <2>2. n \in Nat
    BY CompressionAssumption
  <2>3. PICK c \in Nat : c = Cardinality(Answered(s, n))
    BY Zenon, <2>2, AnsweredFinite
  <2>4. sess'[s] = [sess[s] EXCEPT !.pending = IF Kind[s] = "dp" THEN @ - c ELSE @]
    BY Zenon, <1>1, <2>3
  <2>5. QED
    BY <2>1, <2>3, <2>4 DEF SessType
<1>4. sess' \in [Sessions -> SessType]
  BY Zenon, <1>2, <1>3
<1>5. QED
  BY Zenon, <1>3, <1>4

LEMMA PollDpIInv ==
    ASSUME IInv, NEW n \in 1 .. Concurrent, PollDp(n)
    PROVE  IInv'
<1>1. TypeOK /\ UNCHANGED <<thr, ring, poll, ghost>>
  BY Zenon DEF IInv, PollDp
<1>2. QED
  BY Zenon, <1>1, PollDpCount, DataIInv

\* A session that no thread submits on is started, reset or removed.
LEMMA LifeIInv ==
    ASSUME IInv, UNCHANGED <<thr, ring, poll>>, NEW s \in Sessions, Kind[s] # "ns", Unused(s),
           sess' \in [Sessions -> SessType], \A x \in Sessions \ {s} : sess'[x] = sess[x],
           s \in Stateful => OneInv(s)' /\ FrameInv(s)',
           \A x \in Sessions \ {s} : /\ x \in ghost'.open <=> x \in ghost.open
                                     /\ x \in ghost'.unframed <=> x \in ghost.unframed,
           ghost'.framed = ghost.framed
    PROVE  IInv'
<1>1. ASSUME NEW x \in Stateful PROVE OneInv(x)' /\ FrameInv(x)'
  <2>1. CASE x = s
    BY Zenon, <2>1
  <2>2. CASE x # s
    <3>1. x \in Sessions
      BY Zenon DEF Stateful, Of
    <3>2. QED
      BY Zenon, <2>2, <3>1, ApartSame
  <2>3. QED
    BY Zenon, <2>1, <2>2
<1>2. \A t \in Threads : thr[t].pc # "idle" => sess'[thr[t].sess].live
  BY Zenon DEF IInv, TypeOK, ThrOK, Unused, At
<1>3. \A x \in Of({"ns"}) : sess'[x].live
  <2>1. ASSUME NEW x \in Of({"ns"}) PROVE sess'[x].live
    <3>1. x \in Sessions /\ Kind[x] = "ns" /\ sess[x].live
      BY Zenon DEF IInv, TypeOK, Of
    <3>2. QED
      BY Zenon, <3>1
  <2>2. QED
    BY Zenon, <2>1
<1>4. QED
  BY Zenon, <1>1, <1>2, <1>3, ApartIInv

LEMMA InitSessionIInv ==
    ASSUME IInv, NEW s \in Sessions, InitSession(s)
    PROVE  IInv'
<1>1. /\ UNCHANGED <<thr, ring, poll>> /\ sess' = [sess EXCEPT ![s] = Fresh] /\ ~sess[s].live
      /\ ghost' = [ghost EXCEPT !.open = @ \ {s}, !.unframed = @ \ {s}]
  BY Zenon DEF InitSession
<1>2. Kind[s] # "ns"
  BY Zenon DEF InitSession, Own
<1>3. /\ sess' \in [Sessions -> SessType] /\ \A x \in Sessions \ {s} : sess'[x] = sess[x]
      /\ sess'[s].pending = 0 /\ sess'[s].requestType = "FIRST"
  BY <1>1 DEF IInv, TypeOK, SessType, Fresh
<1>4. /\ s \notin ghost'.open /\ ghost'.framed = ghost.framed
      /\ \A x \in Sessions \ {s} : /\ x \in ghost'.open <=> x \in ghost.open
                                   /\ x \in ghost'.unframed <=> x \in ghost.unframed
  BY <1>1
<1>5. Unused(s)
  BY Zenon, <1>1 DEF IInv, TypeOK, ThrOK, Unused, At
<1>6. ASSUME s \in Stateful PROVE OneInv(s)' /\ FrameInv(s)'
  <2>1. sess[s].pending = 0
    BY Zenon, <1>1, <1>6 DEF IInv, OneInv
  <2>2. QED
    BY Zenon, <1>1, <1>3, <1>4, <1>6, <2>1, ApartQuiet
<1>7. QED
  BY Zenon, <1>1, <1>2, <1>3, <1>4, <1>5, <1>6, LifeIInv

LEMMA ResetSessionIInv ==
    ASSUME IInv, NEW s \in Sessions, ResetSession(s)
    PROVE  IInv'
<1>1. /\ UNCHANGED <<thr, ring, poll>> /\ sess[s].pending = 0 /\ Unused(s)
      /\ sess' = IF Kind[s] = "dp" THEN sess ELSE [sess EXCEPT ![s].requestType = "FIRST"]
      /\ ghost' = [ghost EXCEPT !.open = @ \ {s}, !.unframed = @ \ {s}]
  BY Zenon DEF ResetSession, Quiet
<1>2. Kind[s] # "ns"
  BY Zenon DEF ResetSession, Quiet, Own
<1>3. /\ sess' \in [Sessions -> SessType] /\ \A x \in Sessions \ {s} : sess'[x] = sess[x]
      /\ Kind[s] # "dp" => sess'[s].pending = 0 /\ sess'[s].requestType = "FIRST"
  BY <1>1 DEF IInv, TypeOK, SessType
<1>4. /\ s \notin ghost'.open /\ ghost'.framed = ghost.framed
      /\ \A x \in Sessions \ {s} : /\ x \in ghost'.open <=> x \in ghost.open
                                   /\ x \in ghost'.unframed <=> x \in ghost.unframed
  BY <1>1
<1>5. ASSUME s \in Stateful PROVE OneInv(s)' /\ FrameInv(s)'
  <2>1. Kind[s] # "dp"
    BY Zenon, <1>5 DEF Stateful, Of
  <2>2. QED
    BY Zenon, <1>1, <1>3, <1>4, <1>5, <2>1, ApartQuiet
<1>6. QED
  BY Zenon, <1>1, <1>2, <1>3, <1>4, <1>5, LifeIInv

LEMMA RemoveSessionIInv ==
    ASSUME IInv, NEW s \in Sessions, RemoveSession(s)
    PROVE  IInv'
<1>1. /\ UNCHANGED <<thr, ring, poll, ghost>> /\ sess[s].pending = 0 /\ Unused(s)
      /\ sess' = [sess EXCEPT ![s].live = FALSE]
  BY Zenon DEF RemoveSession, Quiet
<1>2. Kind[s] # "ns"
  BY Zenon DEF RemoveSession, Quiet, Own
<1>3. /\ sess' \in [Sessions -> SessType] /\ \A x \in Sessions \ {s} : sess'[x] = sess[x]
      /\ sess'[s].pending = 0 /\ sess'[s].requestType = sess[s].requestType
  <2>1. PICK b \in BOOLEAN : sess' = [sess EXCEPT ![s].live = b]
    BY Zenon, <1>1
  <2>2. sess \in [Sessions -> SessType]
    BY Zenon DEF IInv, TypeOK
  <2>3. DOMAIN sess = Sessions /\ sess[s] \in SessType /\ \A x \in Sessions : sess[x] \in SessType
    BY Zenon, <2>2
  <2>4. /\ DOMAIN sess' = Sessions /\ sess'[s] = [sess[s] EXCEPT !.live = b]
        /\ \A x \in Sessions \ {s} : sess'[x] = sess[x]
    BY Zenon, <2>1, <2>3
  <2>5. /\ [sess[s] EXCEPT !.live = b] \in SessType
        /\ [sess[s] EXCEPT !.live = b].pending = sess[s].pending
        /\ [sess[s] EXCEPT !.live = b].requestType = sess[s].requestType
    BY <2>3 DEF SessType
  <2>6. \A x \in Sessions : sess'[x] \in SessType
    BY Zenon, <2>3, <2>4, <2>5
  <2>7. sess' = [x \in Sessions |-> sess'[x]]
    BY Zenon, <2>1, <2>3
  <2>8. sess' \in [Sessions -> SessType]
    BY Zenon, <2>6, <2>7
  <2>9. QED
    BY Zenon, <1>1, <2>4, <2>5, <2>8
<1>4. ASSUME s \in Stateful PROVE OneInv(s)' /\ FrameInv(s)'
  BY Zenon, <1>1, <1>3, <1>4, ApartQuiet
<1>5. QED
  BY Zenon, <1>1, <1>2, <1>3, <1>4, LifeIInv

-----------------------------------------------------------------------------

LEMMA InitIInv == Init => IInv
<1> SUFFICES ASSUME Init PROVE IInv
  OBVIOUS
<1>1. /\ sess = [s \in Sessions |-> Fresh] /\ ring = <<>> /\ poll = None
      /\ thr = [t \in Threads |-> Idle] /\ ghost.framed /\ ghost.open = {}
  BY Zenon DEF Init
<1>2. \A t \in Threads : thr[t].pc = "idle" /\ DOMAIN thr[t] = {"pc"}
  BY Zenon, <1>1 DEF Idle
<1>3. \A s \in Sessions : /\ sess[s] \in SessType /\ sess[s].live /\ sess[s].pending = 0
                          /\ sess[s].requestType = "FIRST"
  BY <1>1 DEF Fresh, SessType
<1>4. TypeOK
  <2>1. \A t \in Threads : ThrOK(t)
    BY Zenon, <1>2 DEF ThrOK, Single, Chained
  <2>2. sess \in [Sessions -> SessType]
    BY Zenon, <1>1, <1>3
  <2>3. ring \in Seq(Requests)
    BY <1>1
  <2>4. QED
    BY Zenon, <1>1, <1>3, <2>1, <2>2, <2>3 DEF TypeOK, Of
<1>5. DOMAIN ring = {}
  BY <1>1
<1>6. WaitInv
  BY Zenon, <1>1, <1>5 DEF WaitInv
<1>7. ASSUME NEW s \in Stateful PROVE OneInv(s) /\ FrameInv(s)
  <2>1. s \in Sessions
    BY Zenon DEF Stateful, Of
  <2>2. (\A t : t \notin Busy(s)) /\ (\A k : k \notin OnRing(s)) /\ ~Handled(s)
    BY Zenon, <1>1, <1>2, <1>5 DEF Busy, OnRing, Handled
  <2>3. OneInv(s)
    BY Zenon, <1>3, <2>1, <2>2 DEF OneInv
  <2>4. s \notin ghost.open
    BY Zenon, <1>1
  <2>5. FrameInv(s)
    BY Zenon, <1>3, <2>1, <2>2, <2>4 DEF FrameInv
  <2>6. QED
    BY Zenon, <2>3, <2>5
<1>8. QED
  BY Zenon, <1>1, <1>4, <1>6, <1>7 DEF IInv, StreamFraming

LEMMA NextIInv == IInv /\ [Next]_vars => IInv'
<1> SUFFICES ASSUME IInv, [Next]_vars PROVE IInv'
  OBVIOUS
<1>1. ASSUME NEW t \in Threads, Begin(t) PROVE IInv'
  BY Zenon, <1>1, CompressIInv, ChainPerformOpIInv DEF Begin
<1>2. ASSUME NEW t \in Threads, Step(t) PROVE IInv'
  BY Zenon, <1>2, AllocCookieIInv, CreateRequestIInv, PutRefusedIInv, PutRequestIInv,
     RestoreIInv, UndoIInv, ChainCookieIInv, ChainPrepareIInv, ChainPutIInv, ChainErrIInv
     DEF Step
<1>3. ASSUME NEW t \in Threads, Failure(t) PROVE IInv'
  BY Zenon, <1>3, AllocFailsIInv, CreateFailsIInv, ChainPrepareFailsIInv,
     ChainCheckFailsIInv, NsTimeoutIInv DEF Failure
<1>4. ASSUME Respond PROVE IInv'
  BY Zenon, <1>4, PollRingIInv, StatusIInv, FinishIInv DEF Respond
<1>5. ASSUME DataPlane PROVE IInv'
  <2>1. CASE PerformOpNow
    <3>1. UNCHANGED <<sess, thr, ring, poll, ghost>> /\ sess \in [Sessions -> SessType]
      BY Zenon, <2>1 DEF PerformOpNow, IInv, TypeOK
    <3>2. QED
      BY Zenon, <3>1, DataIInv
  <2>2. QED
    BY Zenon, <1>5, <2>1, EnqueueIInv, EnqueueFailsIInv, PollDpIInv DEF DataPlane
<1>6. ASSUME NEW s \in Sessions, Lifetime(s) PROVE IInv'
  <2>1. CASE Flush(s)
    <3>1. UNCHANGED <<sess, thr, ring, poll, ghost>> /\ sess \in [Sessions -> SessType]
      BY Zenon, <2>1 DEF Flush, IInv, TypeOK
    <3>2. QED
      BY Zenon, <3>1, DataIInv
  <2>2. QED
    BY Zenon, <1>6, <2>1, InitSessionIInv, ResetSessionIInv, RemoveSessionIInv DEF Lifetime
<1>7. CASE UNCHANGED vars
  <2>1. UNCHANGED <<sess, thr, ring, poll, ghost>> /\ sess \in [Sessions -> SessType]
    BY Zenon, <1>7 DEF vars, IInv, TypeOK
  <2>2. QED
    BY Zenon, <2>1, DataIInv
<1>8. QED
  BY Zenon, <1>1, <1>2, <1>3, <1>4, <1>5, <1>6, <1>7 DEF Next

\* IInv holds of every reachable state: a stateful session has one request at a
\* time, which it counts, and knows whether a packet is open.
THEOREM Invariance == Spec => []IInv
BY InitIInv, NextIInv, PTL DEF Spec

\* StreamFraming: dcCreateRequest marks a stateful request as start of packet
\* exactly when the session has no packet open, whatever the full ring refused
\* and whichever end of packet failed.
THEOREM StreamFramed == Spec => []StreamFraming
BY Invariance, PTL DEF IInv
=============================================================================
