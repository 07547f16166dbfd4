------------------------- MODULE CompressionCounts --------------------------
(***************************************************************************)
(* What the sessions of Compression count, for every number of threads,    *)
(* sessions and slots: that PendingExact holds.                            *)
(***************************************************************************)
EXTENDS CompressionProofs

\* The sessions of calls, and those of the data plane.
Near == Of({"stateless", "stateful", "chain"})
Dp == Of({"dp"})

\* A session of calls counts what is on its way, and nothing once removed.
Counted(s) ==
    sess[s].pending = Cardinality(OnRing(s)) + (IF Handled(s) THEN 1 ELSE 0)
                      + Cardinality(Submitting(s))

Gone(s) == ~sess[s].live => sess[s].pending = 0

CInv == \A s \in Near : s \notin ghost.miscounted => Counted(s) /\ Gone(s)

\* A request on the other ring is not the data plane's.
Apart ==
    /\ \A k \in DOMAIN ring : ring[k].sess \notin Dp
    /\ poll # None => poll.msg.sess \notin Dp

\* The data plane's ring, as long as no slot was reserved in vain: in_flight
\* is the way from the next response to the tail, the device has been told of
\* no more, and a session counts its slots on that way.
Exact ==
    /\ dp.in_flight = Ahead(dp.next, dp.tail) /\ dp.in_flight <= Concurrent
    /\ Ahead(dp.next, dp.csrTail) <= Ahead(dp.next, dp.tail)
    /\ \A s \in Dp : sess[s].pending = Cardinality(Unanswered(s)) /\ Gone(s)

DInv == DpType /\ Apart /\ (~ghost.stale => Exact)

-----------------------------------------------------------------------------
(* Counting.                                                               *)

LEMMA Finite ==
    ASSUME TypeOK, NEW s
    PROVE  /\ IsFiniteSet(OnRing(s)) /\ Cardinality(OnRing(s)) \in Nat
           /\ IsFiniteSet(Submitting(s)) /\ Cardinality(Submitting(s)) \in Nat
<1>1. Len(ring) \in Nat /\ DOMAIN ring = 1 .. Len(ring)
  BY Zenon, RingFacts
<1>2. IsFiniteSet(DOMAIN ring)
  BY <1>1, FS_Interval
<1>3. OnRing(s) \subseteq DOMAIN ring /\ Submitting(s) \subseteq Threads
  BY Zenon DEF OnRing, Submitting
<1>4. IsFiniteSet(Threads)
  BY Zenon, CompressionAssumption
<1>5. QED
  BY Zenon, <1>2, <1>3, <1>4, FS_Subset, FS_CardinalityType

\* A request that is put leaves its call and is on the ring.
LEMMA Shift ==
    ASSUME NEW r \in Nat, NEW h \in {0, 1}, NEW c \in Nat
    PROVE  r + h + c = (r + 1) + h + (c - 1)
OBVIOUS

\* One element more, one less.
LEMMA OneMore ==
    ASSUME NEW S, NEW T, IsFiniteSet(S), NEW x, x \notin S, x \in T,
           \A y : y # x => (y \in S <=> y \in T)
    PROVE  IsFiniteSet(T) /\ Cardinality(T) = Cardinality(S) + 1
<1>1. T = S \cup {x}
  BY Zenon
<1>2. QED
  BY Zenon, <1>1, FS_AddElement

LEMMA OneLess ==
    ASSUME NEW S, NEW T, IsFiniteSet(S), NEW x, x \in S, x \notin T,
           \A y : y # x => (y \in S <=> y \in T)
    PROVE  IsFiniteSet(T) /\ Cardinality(T) = Cardinality(S) - 1
<1>1. T = S \ {x}
  BY Zenon
<1>2. QED
  BY Zenon, <1>1, FS_RemoveElement

-----------------------------------------------------------------------------
(* The steps of a call.                                                    *)

\* A step of thread t on session x: the session counts the thread in or out,
\* or is miscounted.
LEMMA StepCInv ==
    ASSUME IInv, CInv, NEW t \in Threads, NEW x \in Sessions,
           \A u \in Threads \ {t} : thr'[u] = thr[u], UNCHANGED <<ring, poll>>,
           thr[t].pc = "idle" \/ thr[t].sess = x, thr'[t].pc = "idle" \/ thr'[t].sess = x,
           \A y \in Sessions \ {x} : sess'[y] = sess[y], sess'[x].live,
           \A y \in Near : y \in ghost.miscounted => y \in ghost'.miscounted,
           \/ x \notin Near \/ x \in ghost'.miscounted
           \/ /\ sess'[x].pending = sess[x].pending
              /\ t \in Submitting(x)' <=> t \in Submitting(x)
           \/ /\ sess'[x].pending = sess[x].pending + 1
              /\ t \in Submitting(x)' /\ t \notin Submitting(x)
           \/ /\ sess'[x].pending = sess[x].pending - 1
              /\ t \notin Submitting(x)' /\ t \in Submitting(x)
    PROVE  CInv'
<1>1. TypeOK
  BY Zenon DEF IInv
<1>2. ASSUME NEW s \in Near, s \notin ghost'.miscounted
      PROVE  Counted(s)' /\ Gone(s)'
  <2>1. Counted(s) /\ Gone(s)
    BY Zenon, <1>2 DEF CInv
  <2>2. OnRing(s)' = OnRing(s) /\ (Handled(s)' <=> Handled(s))
    BY Zenon DEF OnRing, Handled
  <2>3. \A u : u # t => (u \in Submitting(s) <=> u \in Submitting(s)')
    BY Zenon DEF Submitting, At
  <2>4. PICK r \in Nat : r = Cardinality(OnRing(s))
    BY Zenon, <1>1, Finite
  <2>5. PICK c \in Nat : c = Cardinality(Submitting(s)) /\ IsFiniteSet(Submitting(s))
    BY Zenon, <1>1, Finite
  <2>6. s \in Sessions
    BY Zenon DEF Near, Of
  <2>7. sess[s].pending = r + (IF Handled(s) THEN 1 ELSE 0) + c
    BY Zenon, <2>1, <2>4, <2>5 DEF Counted
  <2>8. ASSUME sess'[s].pending = r + (IF Handled(s) THEN 1 ELSE 0) + Cardinality(Submitting(s)')
        PROVE  Counted(s)'
    BY Zenon, <2>2, <2>4, <2>8 DEF Counted
  <2>9. CASE /\ sess'[s].pending = sess[s].pending /\ Gone(s)'
             /\ t \in Submitting(s)' <=> t \in Submitting(s)
    <3>1. Submitting(s)' = Submitting(s)
      <4>1. \A u : u \in Submitting(s)' <=> u \in Submitting(s)
        BY Zenon, <2>3, <2>9
      <4>2. QED
        BY Zenon, <4>1
    <3>2. QED
      BY Zenon, <2>5, <2>7, <2>8, <2>9, <3>1
  <2>10. CASE s = x /\ sess'[x].pending = sess[x].pending + 1
              /\ t \in Submitting(x)' /\ t \notin Submitting(x)
    <3>1. Cardinality(Submitting(s)') = c + 1
      BY Zenon, <2>3, <2>5, <2>10, OneMore
    <3>2. sess'[s].pending = r + (IF Handled(s) THEN 1 ELSE 0) + (c + 1)
      BY <2>7, <2>10
    <3>3. QED
      BY Zenon, <2>8, <2>10, <3>1, <3>2 DEF Gone
  <2>11. CASE s = x /\ sess'[x].pending = sess[x].pending - 1
              /\ t \notin Submitting(x)' /\ t \in Submitting(x)
    <3>1. Cardinality(Submitting(s)') = c - 1
      BY Zenon, <2>3, <2>5, <2>11, OneLess
    <3>2. sess'[s].pending = r + (IF Handled(s) THEN 1 ELSE 0) + (c - 1)
      BY <2>7, <2>11
    <3>3. QED
      BY Zenon, <2>8, <2>11, <3>1, <3>2 DEF Gone
  <2>12. CASE s # x
    <3>1. sess'[s] = sess[s] /\ t \notin Submitting(s)' /\ t \notin Submitting(s)
      BY Zenon, <2>6, <2>12 DEF Submitting, At
    <3>2. QED
      BY Zenon, <2>1, <2>9, <3>1 DEF Gone
  <2>13. CASE s = x /\ sess'[x].pending = sess[x].pending
              /\ (t \in Submitting(x)' <=> t \in Submitting(x))
    BY Zenon, <2>9, <2>13 DEF Gone
  <2>14. QED
    BY Zenon, <1>2, <2>10, <2>11, <2>12, <2>13
<1>3. Near' = Near
  BY Zenon DEF Near, Of
<1>4. QED
  BY Zenon, <1>2, <1>3 DEF CInv

\* A step between two steps of a call.
LEMMA MoveCInv ==
    ASSUME IInv, CInv, NEW t \in Threads, thr[t].pc # "idle",
           \A u \in Threads \ {t} : thr'[u] = thr[u], UNCHANGED <<ring, poll>>,
           thr'[t].pc # "idle", thr'[t].sess = thr[t].sess,
           \A y \in Sessions \ {thr[t].sess} : sess'[y] = sess[y],
           sess'[thr[t].sess].live = sess[thr[t].sess].live,
           sess'[thr[t].sess].pending = sess[thr[t].sess].pending,
           \A y \in Near : y \in ghost.miscounted => y \in ghost'.miscounted,
           \/ thr[t].sess \in ghost'.miscounted \/ Kind[thr[t].sess] # "stateless"
           \/ thr[t].pc \in {"put", "undo"} <=> thr'[t].pc \in {"put", "undo"}
    PROVE  CInv'
<1>1. PICK x \in Sessions : x = thr[t].sess /\ sess[x].live
  BY Zenon DEF IInv, TypeOK, ThrOK
<1>2. x \in ghost'.miscounted \/ (t \in Submitting(x)' <=> t \in Submitting(x))
  BY Zenon, <1>1 DEF Submitting, At
<1>3. QED
  BY Zenon, <1>1, <1>2, StepCInv

LEMMA AllocCookieCInv ==
    ASSUME IInv, CInv, NEW t \in Threads, AllocCookie(t)
    PROVE  CInv'
<1>1. thr[t].pc = "alloc" /\ Go(t, "create") /\ UNCHANGED <<sess, ring, poll, ghost>> /\ TypeOK
  BY Zenon DEF AllocCookie, At, IInv
<1>2. QED
  BY <1>1, GoFacts, MoveCInv

LEMMA CreateFailsCInv ==
    ASSUME IInv, CInv, NEW t \in Threads, CreateFails(t)
    PROVE  CInv'
<1>1. /\ thr[t].pc = "create" /\ Go(t, "undo") /\ UNCHANGED <<sess, ring, poll>> /\ TypeOK
      /\ ghost' = [ghost EXCEPT !.miscounted = @ \cup ({thr[t].sess} \cap Of({"stateless"}))]
  BY Zenon DEF CreateFails, At, IInv
<1>2. ghost'.miscounted = ghost.miscounted \cup ({thr[t].sess} \cap Of({"stateless"}))
  BY <1>1
<1>3. thr[t].sess \in Sessions
  BY Zenon, <1>1 DEF TypeOK, ThrOK
<1>4. thr[t].sess \in ghost'.miscounted \/ Kind[thr[t].sess] # "stateless"
  BY Zenon, <1>2, <1>3 DEF Of
<1>5. \A y \in Near : y \in ghost.miscounted => y \in ghost'.miscounted
  BY Zenon, <1>2
<1>6. thr[t].pc # "idle" /\ thr'[t].pc # "idle" /\ thr'[t].sess = thr[t].sess
      /\ \A u \in Threads \ {t} : thr'[u] = thr[u]
  BY <1>1, GoFacts
<1>7. QED
  BY Zenon, <1>1, <1>4, <1>5, <1>6, MoveCInv

LEMMA AllocFailsCInv ==
    ASSUME IInv, CInv, NEW t \in Threads, AllocFails(t)
    PROVE  CInv'
<1>1. /\ thr[t].pc = "alloc" /\ Return(t) /\ UNCHANGED <<sess, ring, poll>> /\ TypeOK
      /\ ghost' = [ghost EXCEPT !.miscounted = @ \cup ({thr[t].sess} \cap Of({"stateful"}))]
  BY Zenon DEF AllocFails, At, IInv
<1>2. PICK x \in Sessions : /\ x = thr[t].sess /\ sess[x].live
                            /\ Kind[x] \in {"stateless", "stateful", "ns"}
  BY Zenon, <1>1 DEF TypeOK, ThrOK, Single
<1>3. ghost'.miscounted = ghost.miscounted \cup ({x} \cap Of({"stateful"}))
  BY <1>1, <1>2
<1>4. \A y \in Near : y \in ghost.miscounted => y \in ghost'.miscounted
  BY Zenon, <1>3
<1>5. thr'[t].pc = "idle" /\ \A u \in Threads \ {t} : thr'[u] = thr[u]
  BY Zenon, <1>1, ReturnFacts
<1>6. \/ x \notin Near \/ x \in ghost'.miscounted
      \/ t \notin Submitting(x)' /\ t \notin Submitting(x)
  BY Zenon, <1>1, <1>2, <1>3, <1>5 DEF Near, Of, Submitting, At
<1>7. QED
  BY Zenon, <1>1, <1>2, <1>4, <1>5, <1>6, StepCInv

LEMMA CompressCInv ==
    ASSUME IInv, CInv, NEW t \in Threads, NEW s \in Of({"stateless", "stateful", "ns"}),
           NEW flush \in Flushes(s), Compress(t, s, flush)
    PROVE  CInv'
<1>1. /\ thr[t].pc = "idle" /\ sess[s].live /\ UNCHANGED <<ring, poll, ghost>>
      /\ Kind[s] = "stateful" => Count(s, 1)
      /\ Kind[s] # "stateful" => UNCHANGED sess
      /\ thr' = [thr EXCEPT ![t] = [pc |-> "alloc", sess |-> s, flush |-> flush]]
  BY Zenon DEF Compress, At
<1>2. s \in Sessions /\ Kind[s] \in {"stateless", "stateful", "ns"} /\ TypeOK
  BY Zenon DEF Of, IInv
<1>3. /\ thr'[t].pc = "alloc" /\ thr'[t].sess = s
      /\ \A u \in Threads \ {t} : thr'[u] = thr[u]
  BY Zenon, <1>1, <1>2, CallFacts
<1>4. CASE Kind[s] = "stateful"
  <2>1. /\ sess'[s].pending = sess[s].pending + 1 /\ sess'[s].live
        /\ \A y \in Sessions \ {s} : sess'[y] = sess[y]
    BY <1>1, <1>2, <1>4, CountFacts
  <2>2. t \in Submitting(s)' /\ t \notin Submitting(s)
    BY Zenon, <1>1, <1>3, <1>4 DEF Submitting, At
  <2>3. QED
    BY Zenon, <1>1, <1>2, <1>3, <2>1, <2>2, StepCInv
<1>5. CASE Kind[s] # "stateful"
  <2>1. \/ s \notin Near
        \/ t \notin Submitting(s)' /\ t \notin Submitting(s)
    BY Zenon, <1>1, <1>2, <1>3, <1>5 DEF Submitting, At, Near, Of
  <2>2. sess' = sess
    BY Zenon, <1>1, <1>5
  <2>3. QED
    BY Zenon, <1>1, <1>2, <1>3, <2>1, <2>2, StepCInv
<1>6. QED
  BY Zenon, <1>4, <1>5

LEMMA ChainPerformOpCInv ==
    ASSUME IInv, CInv, NEW t \in Threads, NEW s \in Of({"chain"}),
           NEW links \in {<<"dc", "sym">>, <<"sym", "dc">>}, ChainPerformOp(t, s, links)
    PROVE  CInv'
<1>1. /\ thr[t].pc = "idle" /\ sess[s].live /\ UNCHANGED <<ring, poll, ghost>>
      /\ Count(s, 1)
      /\ thr' = [thr EXCEPT ![t] = [pc |-> "cookie", sess |-> s, flush |-> "FINAL",
                                    links |-> links, held |-> Holding("chain")]]
  BY Zenon DEF ChainPerformOp, At
<1>2. s \in Sessions /\ Kind[s] = "chain" /\ TypeOK
  BY Zenon DEF Of, IInv
<1>3. /\ thr'[t].pc = "cookie" /\ thr'[t].sess = s
      /\ \A u \in Threads \ {t} : thr'[u] = thr[u]
  BY Zenon, <1>1, <1>2, CallFacts
<1>4. /\ sess'[s].pending = sess[s].pending + 1 /\ sess'[s].live
      /\ \A y \in Sessions \ {s} : sess'[y] = sess[y]
  BY <1>1, <1>2, CountFacts
<1>5. t \in Submitting(s)' /\ t \notin Submitting(s)
  BY Zenon, <1>1, <1>2, <1>3 DEF Submitting, At
<1>6. QED
  BY Zenon, <1>1, <1>2, <1>3, <1>4, <1>5, StepCInv

\* A request that is not sent is counted out.
LEMMA LeaveCInv ==
    ASSUME IInv, CInv, NEW t \in Threads, thr[t].pc \in {"undo", "out_err"}, Return(t),
           Kind[thr[t].sess] = "ns" => UNCHANGED sess,
           Kind[thr[t].sess] # "ns" => Count(thr[t].sess, -1),
           UNCHANGED <<ring, poll, ghost>>
    PROVE  CInv'
<1>1. TypeOK /\ thr[t].pc # "idle"
  BY Zenon DEF IInv
<1>2. PICK x \in Sessions : x = thr[t].sess /\ sess[x].live
  BY Zenon, <1>1 DEF TypeOK, ThrOK
<1>3. /\ thr'[t].pc = "idle" /\ t \notin Submitting(x)'
      /\ \A u \in Threads \ {t} : thr'[u] = thr[u]
  BY Zenon, <1>1, ReturnFacts DEF Submitting, At
<1>4. CASE Kind[x] = "ns"
  <2>1. x \notin Near /\ sess' = sess
    BY Zenon, <1>2, <1>4 DEF Near, Of
  <2>2. QED
    BY Zenon, <1>2, <1>3, <2>1, StepCInv
<1>5. CASE Kind[x] # "ns"
  <2>1. /\ sess'[x].pending = sess[x].pending - 1 /\ sess'[x].live
        /\ \A y \in Sessions \ {x} : sess'[y] = sess[y]
    <3>1. Count(x, -1) /\ sess[x].pending \in Int
      BY Zenon, <1>1, <1>2, <1>5 DEF TypeOK, SessType
    <3>2. QED
      BY <1>1, <1>2, <3>1, CountFacts
  <2>2. t \in Submitting(x)
    <3>1. Kind[x] # "stateless" \/ thr[t].pc # "out_err"
      BY Zenon, <1>1, <1>2 DEF TypeOK, ThrOK, Chained
    <3>2. QED
      BY Zenon, <1>2, <3>1 DEF Submitting, At
  <2>3. QED
    BY Zenon, <1>2, <1>3, <2>1, <2>2, StepCInv
<1>6. QED
  BY Zenon, <1>4, <1>5

LEMMA UndoCInv ==
    ASSUME IInv, CInv, NEW t \in Threads, Undo(t)
    PROVE  CInv'
<1>1. /\ thr[t].pc = "undo" /\ Return(t) /\ UNCHANGED <<ring, poll, ghost>>
      /\ Kind[thr[t].sess] = "ns" => UNCHANGED sess
      /\ Kind[thr[t].sess] # "ns" => Count(thr[t].sess, -1)
  BY Zenon DEF Undo, At
<1>2. QED
  BY Zenon, <1>1, LeaveCInv

LEMMA ChainErrCInv ==
    ASSUME IInv, CInv, NEW t \in Threads, ChainErr(t)
    PROVE  CInv'
<1>1. /\ thr[t].pc = "out_err" /\ Count(thr[t].sess, -1) /\ Return(t)
      /\ UNCHANGED <<ring, poll, ghost>>
  BY Zenon DEF ChainErr, At
<1>2. Kind[thr[t].sess] # "ns"
  BY Zenon, <1>1 DEF IInv, TypeOK, ThrOK, Chained
<1>3. QED
  BY Zenon, <1>1, <1>2, LeaveCInv

LEMMA CreateRequestCInv ==
    ASSUME IInv, CInv, NEW t \in Threads, CreateRequest(t)
    PROVE  CInv'
<1>1. PICK s \in Sessions :
        /\ s = thr[t].sess /\ thr[t].pc = "create" /\ sess[s].live
        /\ Kind[s] \in {"stateless", "stateful", "ns"}
  <2>1. thr[t].pc = "create" /\ ThrOK(t)
    BY Zenon DEF CreateRequest, At, IInv, TypeOK
  <2>2. QED
    BY Zenon, <2>1 DEF ThrOK, Single
<1>2. TypeOK /\ sess \in [Sessions -> SessType]
  BY Zenon DEF IInv, TypeOK
<1>3. /\ UNCHANGED <<ring, poll, ghost>>
      /\ Kind[s] = "stateful" => sess' = [sess EXCEPT ![s] = Framed(@, thr[t].flush)]
      /\ Kind[s] = "stateless" => Count(s, 1)
      /\ Kind[s] = "ns" => UNCHANGED sess
      /\ thr' = [thr EXCEPT ![t] = [pc |-> "put", sess |-> s, flush |-> thr[t].flush,
                          sop |-> Kind[s] # "stateful" \/ sess[s].requestType = "FIRST"]]
  BY Zenon, <1>1, <1>2 DEF CreateRequest, TypeOK
<1>4. /\ thr'[t].pc = "put" /\ thr'[t].sess = s
      /\ \A u \in Threads \ {t} : thr'[u] = thr[u]
  BY Zenon, <1>2, <1>3, CallFacts
<1>5. CASE Kind[s] = "stateless"
  <2>1. /\ sess'[s].pending = sess[s].pending + 1 /\ sess'[s].live
        /\ \A y \in Sessions \ {s} : sess'[y] = sess[y]
    BY <1>1, <1>2, <1>3, <1>5, CountFacts
  <2>2. t \in Submitting(s)' /\ t \notin Submitting(s)
    BY Zenon, <1>1, <1>4, <1>5 DEF Submitting, At
  <2>3. QED
    BY Zenon, <1>1, <1>3, <1>4, <2>1, <2>2, StepCInv
<1>6. CASE Kind[s] # "stateless"
  <2>1. /\ sess'[s].pending = sess[s].pending /\ sess'[s].live = sess[s].live
        /\ \A y \in Sessions \ {s} : sess'[y] = sess[y]
    <3>1. CASE Kind[s] = "ns"
      BY Zenon, <1>3, <3>1
    <3>2. CASE Kind[s] = "stateful"
      <4>1. sess'[s] = Framed(sess[s], thr[t].flush) /\ \A y \in Sessions \ {s} : sess'[y] = sess[y]
        BY Zenon, <1>2, <1>3, <3>2
      <4>2. sess[s] \in SessType
        BY Zenon, <1>2
      <4>3. QED
        BY Zenon, <4>1, <4>2 DEF Framed, SessType
    <3>3. QED
      BY Zenon, <1>1, <1>6, <3>1, <3>2
  <2>2. thr[t].pc # "idle" /\ thr'[t].pc # "idle"
    BY Zenon, <1>1, <1>4
  <2>3. QED
    BY Zenon, <1>1, <1>3, <1>4, <1>6, <2>1, <2>2, MoveCInv
<1>7. QED
  BY Zenon, <1>5, <1>6

LEMMA PutRefusedCInv ==
    ASSUME IInv, CInv, NEW t \in Threads, PutRefused(t)
    PROVE  CInv'
<1>1. /\ thr[t].pc = "put" /\ UNCHANGED <<sess, ring, poll, ghost>> /\ TypeOK
      /\ Go(t, IF Kind[thr[t].sess] = "stateful" THEN "restore" ELSE "undo")
  BY Zenon DEF PutRefused, At, IInv
<1>2. PICK c \in {"restore", "undo"} :
        Go(t, c) /\ (Kind[thr[t].sess] # "stateful" => c = "undo")
  BY Zenon, <1>1
<1>3. /\ thr[t].pc # "idle" /\ thr'[t].pc # "idle" /\ thr'[t].sess = thr[t].sess
      /\ \A u \in Threads \ {t} : thr'[u] = thr[u]
      /\ Kind[thr[t].sess] = "stateless" => thr'[t].pc \in {"put", "undo"}
  BY Zenon, <1>1, <1>2, GoFacts
<1>4. QED
  BY Zenon, <1>1, <1>3, MoveCInv

LEMMA RestoreCInv ==
    ASSUME IInv, CInv, NEW t \in Threads, Restore(t)
    PROVE  CInv'
<1>1. PICK s \in Sessions :
        /\ s = thr[t].sess /\ thr[t].pc = "restore" /\ Kind[s] # "stateless"
        /\ UNCHANGED <<ring, poll, ghost>> /\ Go(t, "undo")
        /\ sess' = [sess EXCEPT ![s].requestType = sess[s].previous]
  <2>1. thr[t].pc = "restore" /\ ThrOK(t)
    BY Zenon DEF Restore, At, IInv, TypeOK
  <2>2. thr[t].sess \in Sessions /\ Kind[thr[t].sess] # "stateless"
    BY Zenon, <2>1 DEF ThrOK
  <2>3. QED
    BY Zenon, <2>1, <2>2 DEF Restore
<1>2. TypeOK /\ sess \in [Sessions -> SessType]
  BY Zenon DEF IInv, TypeOK
<1>3. /\ sess'[s].pending = sess[s].pending /\ sess'[s].live = sess[s].live
      /\ \A y \in Sessions \ {s} : sess'[y] = sess[y]
  BY <1>1, <1>2 DEF SessType
<1>4. /\ thr[t].pc # "idle" /\ thr'[t].pc # "idle" /\ thr'[t].sess = thr[t].sess
      /\ \A u \in Threads \ {t} : thr'[u] = thr[u]
  BY <1>1, <1>2, GoFacts
<1>5. QED
  BY Zenon, <1>1, <1>3, <1>4, MoveCInv

\* A step of a chain that leaves the sessions alone.
LEMMA ChainMoveCInv ==
    ASSUME IInv, CInv, NEW t \in Threads, thr[t].pc \in Chained, thr'[t].pc \in Chained,
           thr'[t].sess = thr[t].sess, \A u \in Threads \ {t} : thr'[u] = thr[u],
           UNCHANGED <<sess, ring, poll, ghost>>
    PROVE  CInv'
<1>1. thr[t].pc # "idle" /\ thr'[t].pc # "idle" /\ Kind[thr[t].sess] # "stateless"
  BY Zenon DEF IInv, TypeOK, ThrOK, Chained
<1>2. QED
  BY Zenon, <1>1, MoveCInv

LEMMA ChainCookieCInv ==
    ASSUME IInv, CInv, NEW t \in Threads, ChainCookie(t)
    PROVE  CInv'
<1>1. thr[t].pc = "cookie" /\ UNCHANGED <<sess, ring, poll, ghost>> /\ TypeOK
  BY Zenon DEF ChainCookie, At, IInv
<1>2. DOMAIN thr = Threads /\ {"pc", "sess", "held"} \subseteq DOMAIN thr[t]
  BY Zenon, <1>1 DEF TypeOK, ThrOK, Chained
<1>3. /\ thr'[t].pc \in Chained /\ thr'[t].sess = thr[t].sess
      /\ \A u \in Threads \ {t} : thr'[u] = thr[u]
  <2>1. CASE Take(t, Head(thr[t].links), "prepare")
    BY Zenon, <1>2, <2>1 DEF Take, Chained
  <2>2. CASE Go(t, "out_err")
    BY Zenon, <1>1, <2>2, GoFacts DEF Chained
  <2>3. QED
    BY Zenon, <2>1, <2>2 DEF ChainCookie
<1>4. thr[t].pc \in Chained
  BY Zenon, <1>1 DEF Chained
<1>5. QED
  BY Zenon, <1>1, <1>3, <1>4, ChainMoveCInv

LEMMA ChainPrepareCInv ==
    ASSUME IInv, CInv, NEW t \in Threads, ChainPrepare(t)
    PROVE  CInv'
<1>1. /\ thr[t].pc = "prepare" /\ UNCHANGED <<sess, ring, poll, ghost>> /\ TypeOK
      /\ thr' = [thr EXCEPT ![t].held["rsp"] = @ + 1, ![t].pc = "cookie",
                            ![t].links = Tail(@)]
  BY Zenon DEF ChainPrepare, At, IInv
<1>2. DOMAIN thr = Threads /\ {"pc", "sess", "held", "links"} \subseteq DOMAIN thr[t]
  BY Zenon, <1>1 DEF TypeOK, ThrOK, Chained
<1>3. /\ thr'[t].pc = "cookie" /\ thr'[t].sess = thr[t].sess
      /\ \A u \in Threads \ {t} : thr'[u] = thr[u]
  BY Zenon, <1>1, <1>2
<1>4. thr[t].pc \in Chained /\ thr'[t].pc \in Chained
  BY Zenon, <1>1, <1>3 DEF Chained
<1>5. QED
  BY Zenon, <1>1, <1>3, <1>4, ChainMoveCInv

LEMMA ChainPrepareFailsCInv ==
    ASSUME IInv, CInv, NEW t \in Threads, ChainPrepareFails(t)
    PROVE  CInv'
<1>1. thr[t].pc = "prepare" /\ Go(t, "out_err") /\ UNCHANGED <<sess, ring, poll, ghost>> /\ TypeOK
  BY Zenon DEF ChainPrepareFails, At, IInv
<1>2. thr[t].pc \in Chained /\ thr[t].pc # "idle" /\ "out_err" \in Chained
  BY Zenon, <1>1 DEF Chained
<1>3. /\ thr'[t].pc = "out_err" /\ thr'[t].sess = thr[t].sess
      /\ \A u \in Threads \ {t} : thr'[u] = thr[u]
  BY Zenon, <1>1, <1>2, GoFacts
<1>4. thr'[t].pc \in Chained
  BY Zenon, <1>2, <1>3
<1>5. QED
  BY Zenon, <1>1, <1>2, <1>3, <1>4, ChainMoveCInv

-----------------------------------------------------------------------------
(* The ring and the responses.                                             *)

\* A request m is put by thread t: it is counted already.
LEMMA PutCInv ==
    ASSUME IInv, CInv, NEW t \in Threads, NEW m \in Requests,
           \A u \in Threads \ {t} : thr'[u] = thr[u], thr[t].pc \in {"put", "cookie"},
           m.sess = thr[t].sess,
           thr'[t].pc = "idle" \/ (thr'[t].sess = m.sess /\ m.sess \notin Near),
           ring' = Append(ring, m), UNCHANGED <<sess, poll>>,
           ghost'.miscounted = ghost.miscounted
    PROVE  CInv'
<1>1. TypeOK /\ thr[t].pc # "idle"
  BY Zenon DEF IInv
<1>2. /\ DOMAIN ring' = DOMAIN ring \cup {Len(ring) + 1}
      /\ Len(ring) + 1 \notin DOMAIN ring /\ ring'[Len(ring) + 1] = m
      /\ \A k \in DOMAIN ring : ring'[k] = ring[k]
  BY Zenon, <1>1, AppendFacts
<1>3. ASSUME NEW s \in Near, s \notin ghost'.miscounted
      PROVE  Counted(s)' /\ Gone(s)'
  <2>1. Counted(s) /\ Gone(s) /\ s \notin ghost.miscounted
    BY Zenon, <1>3 DEF CInv
  <2>2. (Handled(s)' <=> Handled(s)) /\ Gone(s)'
    BY Zenon, <2>1 DEF Handled, Gone
  <2>3. \A u : u # t => (u \in Submitting(s) <=> u \in Submitting(s)')
    BY Zenon DEF Submitting, At
  <2>4. \A k : k # Len(ring) + 1 => (k \in OnRing(s) <=> k \in OnRing(s)')
    BY Zenon, <1>2 DEF OnRing
  <2>5. t \notin Submitting(s)' /\ Len(ring) + 1 \notin OnRing(s)
    BY Zenon, <1>2 DEF Submitting, At, OnRing
  <2>6. PICK r \in Nat : r = Cardinality(OnRing(s)) /\ IsFiniteSet(OnRing(s))
    BY Zenon, <1>1, Finite
  <2>7. PICK c \in Nat : c = Cardinality(Submitting(s)) /\ IsFiniteSet(Submitting(s))
    BY Zenon, <1>1, Finite
  <2>8. sess[s].pending = r + (IF Handled(s) THEN 1 ELSE 0) + c
    BY Zenon, <2>1, <2>6, <2>7 DEF Counted
  <2>9. CASE m.sess = s
    <3>1. t \in Submitting(s)
      <4>1. Kind[s] = "stateless" => thr[t].pc \in {"put", "undo"}
        BY Zenon, <1>1, <2>9 DEF TypeOK, ThrOK, Chained
      <4>2. QED
        BY Zenon, <1>1, <2>9, <4>1 DEF Submitting, At
    <3>2. Cardinality(Submitting(s)') = c - 1
      BY Zenon, <2>3, <2>5, <2>7, <3>1, OneLess
    <3>3. Len(ring) + 1 \in OnRing(s)'
      BY Zenon, <1>2, <2>9 DEF OnRing
    <3>4. Cardinality(OnRing(s)') = r + 1
      BY Zenon, <2>4, <2>5, <2>6, <3>3, OneMore
    <3>5. PICK h \in {0, 1} : h = IF Handled(s) THEN 1 ELSE 0
      BY Zenon
    <3>6. sess[s].pending = r + h + c
      BY Zenon, <2>8, <3>5
    <3>7. sess[s].pending = (r + 1) + h + (c - 1)
      BY Zenon, <3>6, Shift
    <3>8. QED
      BY Zenon, <2>2, <3>2, <3>4, <3>5, <3>7 DEF Counted
  <2>10. CASE m.sess # s
    <3>1. t \notin Submitting(s)
      BY Zenon, <2>10 DEF Submitting
    <3>2. \A u : u \in Submitting(s)' <=> u \in Submitting(s)
      BY Zenon, <2>3, <2>5, <3>1
    <3>3. \A k : k \in OnRing(s)' <=> k \in OnRing(s)
      BY Zenon, <1>2, <2>10 DEF OnRing
    <3>4. Submitting(s)' = Submitting(s) /\ OnRing(s)' = OnRing(s)
      BY Zenon, <3>2, <3>3
    <3>5. QED
      BY Zenon, <2>1, <2>2, <3>4 DEF Counted
  <2>11. QED
    BY Zenon, <2>9, <2>10
<1>4. Near' = Near
  BY Zenon DEF Near, Of
<1>5. QED
  BY Zenon, <1>3, <1>4 DEF CInv

LEMMA PutRequestCInv ==
    ASSUME IInv, CInv, NEW t \in Threads, NEW sync \in BOOLEAN, PutRequest(t, sync)
    PROVE  CInv'
<1>1. PICK s \in Sessions :
        /\ s = thr[t].sess /\ thr[t].pc = "put" /\ thr[t].flush \in {"NONE", "FINAL", "FULL"}
  <2>1. thr[t].pc = "put" /\ ThrOK(t)
    BY Zenon DEF PutRequest, At, IInv, TypeOK
  <2>2. QED
    BY Zenon, <2>1 DEF ThrOK
<1>2. PICK by \in Threads \cup {None} :
        ring' = Append(ring, [sess |-> s, flush |-> thr[t].flush,
                              held |-> Holding("dc"), by |-> by])
  BY Zenon, <1>1 DEF PutRequest
<1>3. /\ UNCHANGED <<sess, poll>> /\ TypeOK
      /\ sync => Go(t, "wait") /\ Kind[s] = "ns"
      /\ ~sync => Return(t)
      /\ ghost' = [ghost EXCEPT !.framed = @ /\
                        (Kind[s] = "stateful" /\ s \notin ghost.unframed =>
                            thr[t].sop = (s \notin ghost.open))]
  BY Zenon, <1>1 DEF PutRequest, IInv
<1>4. Holding("dc") \in [Pools -> Nat]
  <2>1. Nothing \in [Pools -> Nat]
    BY Zenon DEF Nothing
  <2>2. QED
    BY Zenon, <2>1 DEF Holding
<1>5. PICK m \in Requests : m.sess = s /\ ring' = Append(ring, m)
  <2>1. [sess |-> s, flush |-> thr[t].flush, held |-> Holding("dc"), by |-> by] \in Requests
    BY Zenon, <1>1, <1>2, <1>4 DEF Requests
  <2>2. QED
    BY Zenon, <1>2, <2>1
<1>6. ghost'.miscounted = ghost.miscounted
  BY <1>3
<1>7. /\ thr'[t].pc = "idle" \/ (thr'[t].sess = s /\ s \notin Near)
      /\ \A u \in Threads \ {t} : thr'[u] = thr[u]
  <2>1. CASE sync
    <3>1. Kind[s] = "ns" /\ Go(t, "wait") /\ thr[t].pc # "idle"
      BY Zenon, <1>1, <1>3, <2>1
    <3>2. s \notin Near
      BY Zenon, <3>1 DEF Near, Of
    <3>3. QED
      BY Zenon, <1>1, <1>3, <3>1, <3>2, GoFacts
  <2>2. CASE ~sync
    BY Zenon, <1>3, <2>2, ReturnFacts
  <2>3. QED
    BY Zenon, <2>1, <2>2
<1>8. QED
  BY Zenon, <1>1, <1>3, <1>5, <1>6, <1>7, PutCInv

LEMMA ChainPutCInv ==
    ASSUME IInv, CInv, NEW t \in Threads, ChainPut(t)
    PROVE  CInv'
<1>1. PICK s \in Sessions :
        /\ s = thr[t].sess /\ thr[t].pc = "cookie" /\ thr[t].flush \in {"NONE", "FINAL", "FULL"}
        /\ thr[t].held \in [Pools -> Nat]
  <2>1. thr[t].pc = "cookie" /\ ThrOK(t)
    BY Zenon DEF ChainPut, At, IInv, TypeOK
  <2>2. QED
    BY Zenon, <2>1 DEF ThrOK, Chained
<1>2. UNCHANGED <<sess, poll, ghost>> /\ TypeOK
  BY Zenon DEF ChainPut, IInv
<1>3. CASE /\ Return(t)
           /\ ring' = Append(ring, [sess |-> thr[t].sess, flush |-> thr[t].flush,
                                    held |-> thr[t].held, by |-> None])
  <2>1. PICK m \in Requests : m.sess = s /\ ring' = Append(ring, m)
    <3>1. [sess |-> s, flush |-> thr[t].flush, held |-> thr[t].held, by |-> None] \in Requests
      BY Zenon, <1>1 DEF Requests
    <3>2. QED
      BY Zenon, <1>1, <1>3, <3>1
  <2>2. thr'[t].pc = "idle" /\ \A u \in Threads \ {t} : thr'[u] = thr[u]
    BY Zenon, <1>2, <1>3, ReturnFacts
  <2>3. QED
    BY Zenon, <1>1, <1>2, <2>1, <2>2, PutCInv
<1>4. CASE Go(t, "out_err") /\ UNCHANGED ring
  <2>1. thr[t].pc \in Chained /\ thr[t].pc # "idle" /\ "out_err" \in Chained
    BY Zenon, <1>1 DEF Chained
  <2>2. /\ thr'[t].pc = "out_err" /\ thr'[t].sess = thr[t].sess
        /\ \A u \in Threads \ {t} : thr'[u] = thr[u]
    BY Zenon, <1>2, <1>4, <2>1, GoFacts
  <2>3. thr'[t].pc \in Chained
    BY Zenon, <2>1, <2>2
  <2>4. QED
    BY Zenon, <1>2, <1>4, <2>1, <2>2, <2>3, ChainMoveCInv
<1>5. QED
  BY Zenon, <1>3, <1>4 DEF ChainPut

\* A step that leaves the requests of a session where they are.
LEMMA StillCInv ==
    ASSUME CInv,
           ASSUME NEW s \in Near, s \notin ghost'.miscounted
           PROVE  /\ s \notin ghost.miscounted /\ sess'[s].pending = sess[s].pending
                  /\ sess'[s].live = sess[s].live \/ sess[s].pending = 0
                  /\ \A k : k \in OnRing(s)' <=> k \in OnRing(s)
                  /\ Handled(s)' <=> Handled(s)
                  /\ \A t : t \in Submitting(s)' <=> t \in Submitting(s)
    PROVE  CInv'
<1>1. ASSUME NEW s \in Near, s \notin ghost'.miscounted
      PROVE  Counted(s)' /\ Gone(s)'
  <2>1. /\ s \notin ghost.miscounted /\ sess'[s].pending = sess[s].pending
        /\ sess'[s].live = sess[s].live \/ sess[s].pending = 0
        /\ \A k : k \in OnRing(s)' <=> k \in OnRing(s)
        /\ Handled(s)' <=> Handled(s)
        /\ \A t : t \in Submitting(s)' <=> t \in Submitting(s)
    BY Zenon, <1>1
  <2>2. OnRing(s)' = OnRing(s) /\ Submitting(s)' = Submitting(s)
    BY Zenon, <2>1
  <2>3. Counted(s) /\ Gone(s)
    BY Zenon, <2>1 DEF CInv
  <2>4. QED
    BY Zenon, <2>1, <2>2, <2>3 DEF Counted, Gone
<1>2. Near' = Near
  BY Zenon DEF Near, Of
<1>3. QED
  BY Zenon, <1>1, <1>2 DEF CInv

\* A session of calls has no thread that waits for a response.
LEMMA NotWaiting ==
    ASSUME TypeOK, NEW s \in Near, NEW t \in Threads, thr[t].pc = "wait"
    PROVE  t \notin Submitting(s)
<1>1. Kind[thr[t].sess] = "ns" /\ Kind[s] # "ns"
  BY Zenon DEF TypeOK, ThrOK, Near, Of
<1>2. QED
  BY Zenon, <1>1 DEF Submitting

LEMMA ChainCheckFailsCInv ==
    ASSUME IInv, CInv, NEW t \in Threads, ChainCheckFails(t)
    PROVE  CInv'
<1>1. /\ thr[t].pc = "prepare" /\ Go(t, "out_err") /\ UNCHANGED <<sess, ring, poll>>
      /\ ghost' = [ghost EXCEPT !.freedTwice = @ \cup {"sym"}] /\ TypeOK
  BY Zenon DEF ChainCheckFails, At, IInv
<1>2. ghost'.miscounted = ghost.miscounted
  BY <1>1
<1>3. thr[t].pc # "idle" /\ Kind[thr[t].sess] # "stateless"
  BY Zenon, <1>1 DEF TypeOK, ThrOK, Chained
<1>4. thr'[t].pc # "idle" /\ thr'[t].sess = thr[t].sess
      /\ \A u \in Threads \ {t} : thr'[u] = thr[u]
  BY <1>1, GoFacts
<1>5. QED
  BY Zenon, <1>1, <1>2, <1>3, <1>4, MoveCInv

LEMMA NsTimeoutCInv ==
    ASSUME IInv, CInv, NEW t \in Threads, NsTimeout(t)
    PROVE  CInv'
<1>1. /\ thr[t].pc = "wait" /\ Return(t) /\ TypeOK
      /\ ring' = [k \in DOMAIN ring |-> Forget(ring[k], t)]
      /\ poll' = IF poll = None THEN None ELSE [poll EXCEPT !.msg = Forget(@, t)]
      /\ ghost' = [ghost EXCEPT !.freedTwice = @ \cup {"dc"}] /\ sess' = sess
  BY Zenon DEF NsTimeout, At, IInv
<1>2. thr'[t].pc = "idle" /\ \A u \in Threads \ {t} : thr'[u] = thr[u]
  BY Zenon, <1>1, ReturnFacts
<1>3. \A m \in Requests : Forget(m, t).sess = m.sess
  BY Zenon DEF Forget, Requests
<1>4. DOMAIN ring' = DOMAIN ring /\ \A k \in DOMAIN ring : ring'[k].sess = ring[k].sess
  BY Zenon, <1>1, <1>3, RingFacts
<1>5. (poll' = None <=> poll = None) /\ (poll # None => poll'.msg.sess = poll.msg.sess)
  <2>1. CASE poll = None
    BY Zenon, <1>1, <2>1
  <2>2. CASE poll # None
    <3>1. poll \in [msg : Requests, step : {"status", "finish"}]
      BY Zenon, <1>1, <2>2 DEF TypeOK
    <3>2. poll' = [poll EXCEPT !.msg = Forget(poll.msg, t)] /\ poll.msg \in Requests
      BY Zenon, <1>1, <2>2, <3>1
    <3>3. Forget(poll.msg, t) \in Requests
      BY Zenon, <3>2 DEF Forget, Requests
    <3>4. poll' \in [msg : Requests, step : {"status", "finish"}]
      BY Zenon, <3>1, <3>2, <3>3
    <3>5. poll'.msg = Forget(poll.msg, t)
      BY Zenon, <3>1, <3>2
    <3>6. QED
      BY Zenon, <1>3, <2>2, <3>2, <3>4, <3>5, CompressionAssumption
  <2>3. QED
    BY Zenon, <2>1, <2>2
<1>6. ghost'.miscounted = ghost.miscounted
  BY <1>1
<1>7. ASSUME NEW s \in Near
      PROVE  /\ \A k : k \in OnRing(s)' <=> k \in OnRing(s)
             /\ Handled(s)' <=> Handled(s)
             /\ \A u : u \in Submitting(s)' <=> u \in Submitting(s)
  <2>1. \A k : k \in OnRing(s)' <=> k \in OnRing(s)
    BY Zenon, <1>4 DEF OnRing
  <2>2. Handled(s)' <=> Handled(s)
    BY Zenon, <1>5 DEF Handled
  <2>3. t \notin Submitting(s) /\ t \notin Submitting(s)'
    BY Zenon, <1>1, <1>2, NotWaiting DEF Submitting, At
  <2>4. \A u : u # t => (u \in Submitting(s)' <=> u \in Submitting(s))
    BY Zenon, <1>2 DEF Submitting, At
  <2>5. QED
    BY Zenon, <2>1, <2>2, <2>3, <2>4
<1>8. QED
  BY Zenon, <1>1, <1>6, <1>7, StillCInv

LEMMA StatusCInv ==
    ASSUME IInv, CInv, NEW result \in {"ok", "error", "unsupported"}, Status(result)
    PROVE  CInv'
<1>1. /\ poll # None /\ poll' = [poll EXCEPT !.step = "finish"] /\ TypeOK
      /\ ghost' = Processed(ghost, poll.msg, result) /\ UNCHANGED <<ring, thr>>
  BY Zenon DEF Status, IInv
<1>2. PICK x \in Sessions : x = poll.msg.sess
  BY Zenon, <1>1, RingFacts
<1>3. \A y \in Sessions : sess'[y].live = sess[y].live /\ sess'[y].pending = sess[y].pending
  <2>1. sess \in [Sessions -> SessType]
    BY Zenon, <1>1 DEF TypeOK
  <2>2. PICK r : sess' = sess \/ sess' = [sess EXCEPT ![x].requestType = r]
    BY Zenon, <1>2 DEF Status
  <2>3. QED
    BY <2>1, <2>2 DEF SessType
<1>4. poll' # None /\ poll'.msg = poll.msg
  <2>1. poll \in [msg : Requests, step : {"status", "finish"}]
    BY Zenon, <1>1 DEF TypeOK
  <2>2. poll' \in [msg : Requests, step : {"status", "finish"}] /\ poll'.msg = poll.msg
    BY Zenon, <1>1, <2>1
  <2>3. QED
    BY Zenon, <2>2, CompressionAssumption
<1>5. ghost'.miscounted = ghost.miscounted
  <2>1. PICK a, b : ghost' = ghost \/ ghost' = [ghost EXCEPT !.open = a, !.unframed = b]
    BY Zenon, <1>1 DEF Processed
  <2>2. CASE ghost' = ghost
    BY Zenon, <2>2
  <2>3. CASE ghost' = [ghost EXCEPT !.open = a, !.unframed = b]
    BY <2>3
  <2>4. QED
    BY Zenon, <2>1, <2>2, <2>3
<1>6. ASSUME NEW s \in Near
      PROVE  /\ \A k : k \in OnRing(s)' <=> k \in OnRing(s)
             /\ Handled(s)' <=> Handled(s)
             /\ s \in Sessions
             /\ \A u : u \in Submitting(s)' <=> u \in Submitting(s)
  BY Zenon, <1>1, <1>4 DEF OnRing, Handled, Submitting, At, Near, Of
<1>7. QED
  BY Zenon, <1>3, <1>5, <1>6, StillCInv

\* The oldest request leaves the ring: its session has one fewer on it.
LEMMA TailCount ==
    ASSUME TypeOK, ring # <<>>, ring' = Tail(ring), NEW s
    PROVE  Cardinality(OnRing(s)') =
             IF ring[1].sess = s THEN Cardinality(OnRing(s)) - 1 ELSE Cardinality(OnRing(s))
<1>1. /\ 1 \in DOMAIN ring
      /\ \A k \in DOMAIN ring' : k + 1 \in DOMAIN ring /\ ring'[k] = ring[k + 1]
      /\ \A k \in DOMAIN ring : k = 1 \/ (k - 1 \in DOMAIN ring' /\ ring'[k - 1] = ring[k])
      /\ \A k \in DOMAIN ring' : k \in Nat /\ k + 1 # 1
  BY Zenon, TailFacts
<1>2. PICK S : S = OnRing(s) \ {1}
  BY Zenon
<1>3. IsFiniteSet(OnRing(s)) /\ IsFiniteSet(S)
  BY Zenon, <1>2, Finite, FS_RemoveElement
<1>4. Cardinality(S) = IF ring[1].sess = s THEN Cardinality(OnRing(s)) - 1
                       ELSE Cardinality(OnRing(s))
  <2>1. 1 \in OnRing(s) <=> ring[1].sess = s
    BY Zenon, <1>1 DEF OnRing
  <2>2. QED
    BY Zenon, <1>2, <1>3, <2>1, FS_RemoveElement
<1>5. PICK f : f = [k \in S |-> k - 1]
  BY Zenon
<1>6. S \subseteq Int
  BY <1>2, RingFacts DEF OnRing
<1>7. f \in [S -> OnRing(s)']
  <2>1. \A k \in S : k - 1 \in OnRing(s)'
    BY Zenon, <1>1, <1>2 DEF OnRing
  <2>2. QED
    BY Zenon, <1>5, <2>1
<1>8. \A j, k \in S : f[j] = f[k] => j = k
  <2>1. ASSUME NEW j \in S, NEW k \in S, f[j] = f[k] PROVE j = k
    <3>1. j \in Int /\ k \in Int
      BY Zenon, <1>6
    <3>2. j - 1 = k - 1
      BY Zenon, <1>5, <2>1
    <3>3. QED
      BY <3>1, <3>2
  <2>2. QED
    BY Zenon, <2>1
<1>9. ASSUME NEW k \in OnRing(s)' PROVE \E j \in S : f[j] = k
  <2>1. k + 1 \in S /\ k \in Nat
    BY Zenon, <1>1, <1>2 DEF OnRing
  <2>2. f[k + 1] = k
    <3>1. f[k + 1] = (k + 1) - 1
      BY Zenon, <1>5, <2>1
    <3>2. QED
      BY <2>1, <3>1
  <2>3. QED
    BY Zenon, <2>1, <2>2
<1>10. Cardinality(OnRing(s)') = Cardinality(S)
  BY Zenon, <1>3, <1>7, <1>8, <1>9, Correspond
<1>11. QED
  BY Zenon, <1>4, <1>10

LEMMA PollRingCInv ==
    ASSUME IInv, CInv, PollRing
    PROVE  CInv'
<1>1. /\ poll = None /\ ring # <<>> /\ ring' = Tail(ring) /\ TypeOK
      /\ poll' = [msg |-> Head(ring), step |-> "status"] /\ UNCHANGED <<sess, thr, ghost>>
  BY Zenon DEF PollRing, IInv
<1>2. poll' # None /\ poll'.msg = ring[1]
  <2>1. Head(ring) = ring[1] /\ ring[1] \in Requests
    BY Zenon, <1>1, TailFacts, RingFacts
  <2>2. poll' \in [msg : Requests, step : {"status", "finish"}] /\ poll'.msg = ring[1]
    BY Zenon, <1>1, <2>1
  <2>3. QED
    BY Zenon, <2>2, CompressionAssumption
<1>3. ASSUME NEW s \in Near, s \notin ghost'.miscounted
      PROVE  Counted(s)' /\ Gone(s)'
  <2>1. Counted(s) /\ Gone(s)
    BY Zenon, <1>1, <1>3 DEF CInv
  <2>2. ~Handled(s) /\ (Handled(s)' <=> ring[1].sess = s)
    BY Zenon, <1>1, <1>2 DEF Handled
  <2>3. Submitting(s)' = Submitting(s)
    BY Zenon, <1>1 DEF Submitting, At
  <2>4. PICK r \in Nat : r = Cardinality(OnRing(s))
    BY Zenon, <1>1, Finite
  <2>5. PICK c \in Nat : c = Cardinality(Submitting(s))
    BY Zenon, <1>1, Finite
  <2>6. sess[s].pending = r + 0 + c
    BY Zenon, <2>1, <2>2, <2>4, <2>5 DEF Counted
  <2>7. Cardinality(OnRing(s)') = IF ring[1].sess = s THEN r - 1 ELSE r
    BY Zenon, <1>1, <2>4, TailCount
  <2>8. CASE ring[1].sess = s
    <3>1. sess[s].pending = (r - 1) + 1 + c
      BY <2>6
    <3>2. QED
      BY Zenon, <1>1, <2>1, <2>2, <2>3, <2>5, <2>7, <2>8, <3>1 DEF Counted, Gone
  <2>9. CASE ring[1].sess # s
    BY Zenon, <1>1, <2>1, <2>2, <2>3, <2>5, <2>6, <2>7, <2>9 DEF Counted, Gone
  <2>10. QED
    BY Zenon, <2>8, <2>9
<1>4. Near' = Near
  BY Zenon DEF Near, Of
<1>5. QED
  BY Zenon, <1>3, <1>4 DEF CInv

LEMMA FinishCInv ==
    ASSUME IInv, CInv, Finish
    PROVE  CInv'
<1>1. /\ poll # None /\ poll' = None /\ UNCHANGED <<ring, ghost>> /\ TypeOK /\ WaitInv
      /\ thr' = IF poll.msg.by = None THEN thr ELSE [thr EXCEPT ![poll.msg.by] = Idle]
  BY Zenon DEF Finish, IInv
<1>2. PICK x \in Sessions : x = poll.msg.sess
  BY Zenon, <1>1, RingFacts
<1>3. /\ \A y \in Sessions : sess'[y].live = sess[y].live
      /\ \A y \in Sessions \ {x} : sess'[y] = sess[y]
      /\ sess'[x].pending = IF Kind[x] = "ns" THEN sess[x].pending
                            ELSE sess[x].pending - 1
  BY Zenon, <1>2, FinishCount
<1>4. \A u \in Threads : \/ thr'[u] = thr[u]
                         \/ thr[u].pc = "wait" /\ thr'[u].pc = "idle"
  BY Zenon, <1>1, WakeFacts
<1>5. ASSUME NEW s \in Near, s \notin ghost'.miscounted
      PROVE  Counted(s)' /\ Gone(s)'
  <2>1. Counted(s) /\ Gone(s) /\ s \in Sessions
    BY Zenon, <1>1, <1>5 DEF CInv, Near, Of
  <2>2. Submitting(s)' = Submitting(s) /\ OnRing(s)' = OnRing(s)
    <3>1. ASSUME NEW u \in Threads
          PROVE  u \in Submitting(s)' <=> u \in Submitting(s)
      <4>1. CASE thr'[u] = thr[u]
        BY Zenon, <4>1 DEF Submitting, At
      <4>2. CASE thr[u].pc = "wait" /\ thr'[u].pc = "idle"
        <5>1. u \notin Submitting(s) /\ u \notin Submitting(s)'
          BY Zenon, <1>1, <4>2, NotWaiting DEF Submitting, At
        <5>2. QED
          BY Zenon, <5>1
      <4>3. QED
        BY Zenon, <1>4, <4>1, <4>2
    <3>2. \A u : u \in Submitting(s)' <=> u \in Submitting(s)
      BY Zenon, <3>1 DEF Submitting
    <3>3. QED
      BY Zenon, <1>1, <3>2 DEF OnRing
  <2>3. ~Handled(s)' /\ (Handled(s) <=> x = s)
    BY Zenon, <1>1, <1>2 DEF Handled
  <2>4. PICK r \in Nat : r = Cardinality(OnRing(s))
    BY Zenon, <1>1, Finite
  <2>5. PICK c \in Nat : c = Cardinality(Submitting(s))
    BY Zenon, <1>1, Finite
  <2>6. CASE x = s
    <3>1. sess[s].pending = r + 1 + c
      BY Zenon, <2>1, <2>3, <2>4, <2>5, <2>6 DEF Counted
    <3>2. sess'[s].pending = sess[s].pending - 1
      <4>1. Kind[s] # "ns"
        BY Zenon DEF Near, Of
      <4>2. QED
        BY Zenon, <1>3, <2>6, <4>1
    <3>3. sess'[s].pending = r + 0 + c /\ sess[s].pending # 0
      BY <3>1, <3>2
    <3>4. sess[s].live
      BY Zenon, <2>1, <3>3 DEF Gone
    <3>5. QED
      BY Zenon, <1>3, <2>1, <2>2, <2>3, <2>4, <2>5, <3>3, <3>4 DEF Counted, Gone
  <2>7. CASE x # s
    <3>1. sess'[s] = sess[s]
      BY Zenon, <1>3, <2>1, <2>7
    <3>2. QED
      BY Zenon, <2>1, <2>2, <2>3, <2>7, <3>1 DEF Counted, Gone
  <2>8. QED
    BY Zenon, <2>6, <2>7
<1>6. Near' = Near
  BY Zenon DEF Near, Of
<1>7. QED
  BY Zenon, <1>5, <1>6 DEF CInv

-----------------------------------------------------------------------------
(* The data plane, and the lifetime of a session.                          *)

\* A step outside of the calls, the ring and the poller.
LEMMA ApartCInv ==
    ASSUME CInv, UNCHANGED <<thr, ring, poll>>,
           ASSUME NEW s \in Near, s \notin ghost'.miscounted
           PROVE  /\ s \notin ghost.miscounted /\ sess'[s].pending = sess[s].pending
                  /\ sess'[s].live = sess[s].live \/ sess[s].pending = 0
    PROVE  CInv'
<1>1. ASSUME NEW s \in Near, s \notin ghost'.miscounted
      PROVE  /\ s \notin ghost.miscounted /\ sess'[s].pending = sess[s].pending
             /\ sess'[s].live = sess[s].live \/ sess[s].pending = 0
             /\ \A k : k \in OnRing(s)' <=> k \in OnRing(s)
             /\ Handled(s)' <=> Handled(s)
             /\ \A t : t \in Submitting(s)' <=> t \in Submitting(s)
  BY Zenon, <1>1 DEF OnRing, Handled, Submitting, At
<1>2. QED
  BY Zenon, <1>1, StillCInv

\* A step of the data plane.
LEMMA DataCInv ==
    ASSUME CInv, UNCHANGED <<thr, ring, poll>>, ghost'.miscounted = ghost.miscounted,
           \A s \in Sessions : Kind[s] # "dp" => sess'[s] = sess[s]
    PROVE  CInv'
<1>1. \A s \in Near : s \in Sessions /\ Kind[s] # "dp"
  BY Zenon DEF Near, Of
<1>2. QED
  BY Zenon, <1>1, ApartCInv

\* What the data plane's steps leave to the sessions of calls.
LEMMA DataPlaneCInv ==
    ASSUME IInv, CInv, DataPlane
    PROVE  CInv'
<1>1. TypeOK
  BY Zenon DEF IInv
<1>2. ASSUME NEW s \in Of({"dp", "ns"}), NEW n \in 1 .. Concurrent, NEW now \in BOOLEAN,
             Enqueue(s, n, now)
      PROVE  CInv'
  <2>1. /\ UNCHANGED <<thr, ring, poll, ghost>> /\ s \in Sessions
        /\ IF Kind[s] = "dp" THEN Count(s, n) ELSE UNCHANGED sess
    BY Zenon, <1>2 DEF Enqueue, Of
  <2>2. n \in Int
    BY CompressionAssumption
  <2>3. \A x \in Sessions : Kind[x] # "dp" => sess'[x] = sess[x]
    BY Zenon, <1>1, <2>1, <2>2, CountFacts
  <2>4. QED
    BY Zenon, <2>1, <2>3, DataCInv
<1>3. ASSUME NEW n \in 1 .. Concurrent, EnqueueFails(n)
      PROVE  CInv'
  <2>1. UNCHANGED <<sess, thr, ring, poll>> /\ ghost' = [ghost EXCEPT !.stale = TRUE]
    BY Zenon, <1>3 DEF EnqueueFails
  <2>2. ghost'.miscounted = ghost.miscounted
    BY <2>1
  <2>3. QED
    BY Zenon, <2>1, <2>2, DataCInv
<1>4. ASSUME NEW n \in 1 .. Concurrent, PollDp(n)
      PROVE  CInv'
  <2>1. UNCHANGED <<thr, ring, poll, ghost>>
    BY Zenon, <1>4 DEF PollDp
  <2>2. QED
    BY Zenon, <1>1, <1>4, <2>1, PollDpCount, DataCInv
<1>5. CASE PerformOpNow
  <2>1. UNCHANGED <<sess, thr, ring, poll, ghost>>
    BY Zenon, <1>5 DEF PerformOpNow
  <2>2. QED
    BY Zenon, <2>1, DataCInv
<1>6. QED
  BY Zenon, <1>2, <1>3, <1>4, <1>5 DEF DataPlane

LEMMA LifetimeCInv ==
    ASSUME IInv, CInv, NEW s \in Sessions, Lifetime(s)
    PROVE  CInv'
<1>1. sess \in [Sessions -> SessType] /\ Near \subseteq Sessions
  BY Zenon DEF IInv, TypeOK, Near, Of
<1>2. CASE InitSession(s)
  <2>1. /\ UNCHANGED <<thr, ring, poll>> /\ sess' = [sess EXCEPT ![s] = Fresh] /\ ~sess[s].live
        /\ ghost' = [ghost EXCEPT !.open = @ \ {s}, !.unframed = @ \ {s}]
    BY Zenon, <1>2 DEF InitSession
  <2>2. ghost'.miscounted = ghost.miscounted
    BY <2>1
  <2>3. sess'[s].pending = 0 /\ \A x \in Sessions \ {s} : sess'[x] = sess[x]
    BY Zenon, <1>1, <2>1 DEF Fresh
  <2>4. s \in Near /\ s \notin ghost.miscounted => sess[s].pending = 0
    BY Zenon, <2>1 DEF CInv, Gone
  <2>5. QED
    BY Zenon, <1>1, <2>1, <2>2, <2>3, <2>4, ApartCInv
<1>3. CASE Flush(s)
  <2>1. UNCHANGED <<sess, thr, ring, poll, ghost>>
    BY Zenon, <1>3 DEF Flush
  <2>2. QED
    BY Zenon, <2>1, DataCInv
<1>4. CASE ResetSession(s)
  <2>1. /\ UNCHANGED <<thr, ring, poll>>
        /\ sess' = IF Kind[s] = "dp" THEN sess ELSE [sess EXCEPT ![s].requestType = "FIRST"]
        /\ ghost' = [ghost EXCEPT !.open = @ \ {s}, !.unframed = @ \ {s}]
    BY Zenon, <1>4 DEF ResetSession
  <2>2. ghost'.miscounted = ghost.miscounted
    BY <2>1
  <2>3. \A x \in Sessions : sess'[x].pending = sess[x].pending /\ sess'[x].live = sess[x].live
    BY Zenon, <1>1, <2>1 DEF SessType
  <2>4. QED
    BY Zenon, <1>1, <2>1, <2>2, <2>3, ApartCInv
<1>5. CASE RemoveSession(s)
  <2>1. /\ UNCHANGED <<thr, ring, poll, ghost>> /\ sess[s].pending = 0
        /\ sess' = [sess EXCEPT ![s].live = FALSE]
    BY Zenon, <1>5 DEF RemoveSession, Quiet
  <2>2. /\ \A x \in Sessions : sess'[x].pending = sess[x].pending
        /\ \A x \in Sessions \ {s} : sess'[x] = sess[x]
    BY Zenon, <1>1, <2>1 DEF SessType
  <2>3. QED
    BY Zenon, <1>1, <2>1, <2>2, ApartCInv
<1>6. QED
  BY Zenon, <1>2, <1>3, <1>4, <1>5 DEF Lifetime

LEMMA InitCInv == Init => CInv
<1> SUFFICES ASSUME Init, NEW s \in Near PROVE Counted(s) /\ Gone(s)
  BY Zenon DEF CInv
<1>1. /\ sess = [x \in Sessions |-> Fresh] /\ ring = <<>> /\ poll = None
      /\ thr = [t \in Threads |-> Idle]
  BY Zenon DEF Init
<1>2. s \in Sessions
  BY Zenon DEF Near, Of
<1>3. sess[s].pending = 0
  BY Zenon, <1>1, <1>2 DEF Fresh
<1>4. OnRing(s) = {} /\ Submitting(s) = {} /\ ~Handled(s)
  <2>1. DOMAIN ring = {}
    BY <1>1
  <2>2. \A t \in Threads : At(t, "idle")
    BY Zenon, <1>1 DEF At, Idle
  <2>3. QED
    BY Zenon, <1>1, <2>1, <2>2 DEF OnRing, Submitting, Handled
<1>5. Cardinality({}) = 0
  BY Zenon, FS_EmptySet
<1>6. QED
  BY <1>3, <1>4, <1>5 DEF Counted, Gone

LEMMA NextCInv == IInv /\ CInv /\ [Next]_vars => CInv'
<1> SUFFICES ASSUME IInv, CInv, [Next]_vars PROVE CInv'
  OBVIOUS
<1>1. ASSUME NEW t \in Threads, Begin(t) PROVE CInv'
  BY Zenon, <1>1, CompressCInv, ChainPerformOpCInv DEF Begin
<1>2. ASSUME NEW t \in Threads, Step(t) PROVE CInv'
  BY Zenon, <1>2, AllocCookieCInv, CreateRequestCInv, PutRefusedCInv, PutRequestCInv,
     RestoreCInv, UndoCInv, ChainCookieCInv, ChainPrepareCInv, ChainPutCInv, ChainErrCInv
     DEF Step
<1>3. ASSUME NEW t \in Threads, Failure(t) PROVE CInv'
  BY Zenon, <1>3, AllocFailsCInv, CreateFailsCInv, ChainPrepareFailsCInv,
     ChainCheckFailsCInv, NsTimeoutCInv DEF Failure
<1>4. ASSUME Respond PROVE CInv'
  BY Zenon, <1>4, PollRingCInv, StatusCInv, FinishCInv DEF Respond
<1>5. CASE UNCHANGED vars
  <2>1. UNCHANGED <<sess, thr, ring, poll, ghost>>
    BY Zenon, <1>5 DEF vars
  <2>2. QED
    BY Zenon, <2>1, DataCInv
<1>6. QED
  BY Zenon, <1>1, <1>2, <1>3, <1>4, <1>5, DataPlaneCInv, LifetimeCInv DEF Next

-----------------------------------------------------------------------------
(* The steps of the data plane, and the others.                            *)

\* What does not touch the data plane keeps its counts.
LEMMA KeepExact ==
    ASSUME DpType, ~ghost.stale => Exact, dp' = dp,
           DOMAIN ghost' = DOMAIN ghost, ghost'.stale = ghost.stale,
           \A s \in Dp : sess'[s].pending = sess[s].pending /\ (Gone(s) => Gone(s)')
    PROVE  DpType' /\ (~ghost'.stale => Exact')
<1>1. DpType'
  BY Zenon DEF DpType
<1>2. \A s : Unanswered(s)' = Unanswered(s)
  BY Zenon DEF Unanswered
<1>3. Exact => Exact'
  BY Zenon, <1>2 DEF Exact
<1>4. QED
  BY Zenon, <1>1, <1>3

LEMMA KeepDInv ==
    ASSUME DInv, Apart', UNCHANGED dp, DOMAIN ghost' = DOMAIN ghost, ghost'.stale = ghost.stale,
           \A s \in Dp : sess'[s] = sess[s]
    PROVE  DInv'
<1>1. \A s \in Dp : sess'[s].pending = sess[s].pending /\ (Gone(s) => Gone(s)')
  BY Zenon DEF Gone
<1>2. QED
  BY Zenon, <1>1, KeepExact DEF DInv

LEMMA EnqueueDInv ==
    ASSUME IInv, DInv, NEW s \in Of({"dp", "ns"}), NEW n \in 1 .. Concurrent,
           NEW now \in BOOLEAN, Enqueue(s, n, now)
    PROVE  DInv'
<1>1. TypeOK /\ DpType /\ Apart /\ s \in Sessions /\ n \in Nat /\ n \in Int
  BY CompressionAssumption DEF IInv, DInv, Of
<1>2. /\ dp.in_flight + n <= Concurrent /\ sess[s].live
      /\ dp' = [dp EXCEPT !.slot = Written(s, n), !.tail = Wrap(@ + n),
                          !.csrTail = IF now THEN Wrap(dp.tail + n) ELSE @,
                          !.in_flight = @ + n]
      /\ IF Kind[s] = "dp" THEN Count(s, n) ELSE UNCHANGED sess
      /\ UNCHANGED <<ring, poll, ghost>>
  BY Zenon DEF Enqueue, Reserved
<1>3. PICK c : /\ c = IF now THEN Wrap(dp.tail + n) ELSE dp.csrTail
               /\ dp' = [dp EXCEPT !.slot = Written(s, n), !.tail = Wrap(@ + n),
                                   !.csrTail = c, !.in_flight = @ + n]
  BY Zenon, <1>2
<1>4. /\ DOMAIN dp' = DOMAIN dp
      /\ dp'.slot = Written(s, n) /\ dp'.tail = Wrap(dp.tail + n) /\ dp'.next = dp.next
      /\ dp'.csrTail = c /\ dp'.in_flight = dp.in_flight + n
  BY Zenon, <1>1, <1>3 DEF DpType
<1>5. Wrap(dp.tail + n) \in Numbers
  <2>1. dp.tail \in Nat /\ dp.tail + n \in Int
    BY <1>1, CompressionAssumption DEF DpType, Numbers
  <2>2. QED
    BY <2>1, CompressionAssumption DEF Wrap, Numbers
<1>6. DpType'
  <2>1. \A k \in Numbers : Written(s, n)[k] \in Sessions \cup {None}
    <3>1. \A k \in Numbers : dp.slot[k] \in Sessions \cup {None}
      BY Zenon, <1>1 DEF DpType
    <3>2. QED
      BY Zenon, <1>1, <3>1 DEF Written, Numbers
  <2>2. Written(s, n) \in [Numbers -> Sessions \cup {None}]
    BY Zenon, <2>1 DEF Written, Numbers
  <2>3. c \in Numbers
    BY Zenon, <1>1, <1>3, <1>5 DEF DpType
  <2>4. dp'.in_flight \in Int
    BY <1>1, <1>4 DEF DpType
  <2>5. QED
    BY Zenon, <1>1, <1>2, <1>4, <1>5, <2>2, <2>3, <2>4 DEF DpType
<1>7. Apart'
  BY Zenon, <1>1, <1>2 DEF Apart
<1>8. ASSUME ~ghost.stale PROVE Exact'
  <2>1. Exact
    BY Zenon, <1>8 DEF DInv
  <2>2. PICK f \in Numbers : f = Ahead(dp.next, dp.tail) /\ f = dp.in_flight
    BY Zenon, <1>1, <2>1, AheadFacts DEF DpType, Exact
  <2>3. f + n <= Concurrent /\ f + n < Slots /\ f \in Nat
    BY <1>1, <1>2, <2>2, CompressionAssumption DEF Numbers
  <2>4. /\ Ahead(dp'.next, dp'.tail) = f + n
        /\ \A x : x # s => Unanswered(x)' = Unanswered(x)
        /\ Cardinality(Unanswered(s)') = Cardinality(Unanswered(s)) + n
    <3>1. Ahead(dp.next, dp.tail) + n < Slots
      BY Zenon, <2>2, <2>3
    <3>2. QED
      BY Zenon, <1>1, <1>4, <2>2, <3>1, WriteCount
  <2>5. Ahead(dp'.next, dp'.csrTail) <= f + n
    <3>1. CASE now
      <4>1. dp'.csrTail = dp'.tail
        BY Zenon, <1>3, <1>4, <3>1
      <4>2. QED
        BY <1>1, <2>3, <2>4, <4>1
    <3>2. CASE ~now
      <4>1. dp'.csrTail = dp.csrTail
        BY Zenon, <1>3, <1>4, <3>2
      <4>2. PICK e \in Numbers : e = Ahead(dp.next, dp.csrTail)
        BY Zenon, <1>1, AheadFacts DEF DpType
      <4>3. e <= f
        BY Zenon, <2>1, <2>2, <4>2 DEF Exact
      <4>4. e <= f + n
        BY <1>1, <2>3, <4>2, <4>3, CompressionAssumption DEF Numbers
      <4>5. QED
        BY Zenon, <1>4, <4>1, <4>2, <4>4
    <3>3. QED
      BY Zenon, <3>1, <3>2
  <2>6. ASSUME NEW x \in Dp
        PROVE  sess'[x].pending = Cardinality(Unanswered(x)') /\ Gone(x)'
    <3>1. x \in Sessions /\ Kind[x] = "dp" /\ sess[x].pending = Cardinality(Unanswered(x)) /\ Gone(x)
      BY Zenon, <2>1 DEF Exact, Dp, Of
    <3>2. CASE x = s
      <4>1. sess'[x].pending = sess[x].pending + n /\ sess'[x].live = sess[x].live
        BY Zenon, <1>1, <1>2, <3>1, <3>2, CountFacts
      <4>2. QED
        BY Zenon, <1>2, <2>4, <3>1, <3>2, <4>1 DEF Gone
    <3>3. CASE x # s
      <4>1. sess'[x] = sess[x]
        BY Zenon, <1>1, <1>2, <3>1, <3>3, CountFacts
      <4>2. QED
        BY Zenon, <2>4, <3>1, <3>3, <4>1 DEF Gone
    <3>4. QED
      BY Zenon, <3>2, <3>3
  <2>7. dp'.in_flight = f + n
    BY Zenon, <1>4, <2>2
  <2>8. QED
    BY Zenon, <2>3, <2>4, <2>5, <2>6, <2>7 DEF Exact
<1>9. QED
  BY Zenon, <1>2, <1>6, <1>7, <1>8 DEF DInv

LEMMA EnqueueFailsDInv ==
    ASSUME DInv, NEW n \in 1 .. Concurrent, EnqueueFails(n)
    PROVE  DInv'
<1>1. DpType /\ Apart /\ n \in Int
  BY CompressionAssumption DEF DInv
<1>2. /\ dp' = [dp EXCEPT !.tail = IF n = 1 THEN Wrap(@ + 1) ELSE @, !.in_flight = @ + n]
      /\ ghost' = [ghost EXCEPT !.stale = TRUE] /\ UNCHANGED <<ring, poll>>
  BY Zenon DEF EnqueueFails
<1>3. Wrap(dp.tail + 1) \in Numbers
  <2>1. dp.tail + 1 \in Int
    BY <1>1, CompressionAssumption DEF DpType, Numbers
  <2>2. QED
    BY <2>1, CompressionAssumption DEF Wrap, Numbers
<1>4. PICK w \in Numbers : w = IF n = 1 THEN Wrap(dp.tail + 1) ELSE dp.tail
  BY Zenon, <1>1, <1>3 DEF DpType
<1>5. dp' = [dp EXCEPT !.tail = w, !.in_flight = @ + n]
  BY Zenon, <1>2, <1>4
<1>6. /\ DOMAIN dp' = DOMAIN dp
      /\ dp'.slot = dp.slot /\ dp'.tail = w /\ dp'.next = dp.next
      /\ dp'.csrTail = dp.csrTail /\ dp'.in_flight \in Int
  BY <1>1, <1>5 DEF DpType
<1>7. DOMAIN ghost' = DOMAIN ghost /\ ghost'.stale
  BY Zenon, <1>1, <1>2 DEF DpType
<1>8. ghost'.stale \in BOOLEAN
  <2>1. ghost'.stale = TRUE
    BY Zenon, <1>1, <1>2 DEF DpType
  <2>2. QED
    BY Zenon, <2>1
<1>9. DpType'
  BY Zenon, <1>1, <1>6, <1>7, <1>8 DEF DpType
<1>10. Apart'
  BY Zenon, <1>1, <1>2 DEF Apart
<1>11. QED
  BY Zenon, <1>7, <1>9, <1>10 DEF DInv

LEMMA PollDpDInv ==
    ASSUME IInv, DInv, NEW n \in 1 .. Concurrent, PollDp(n)
    PROVE  DInv'
<1>1. TypeOK /\ DpType /\ Apart /\ n \in Nat /\ n \in Int
  BY CompressionAssumption DEF IInv, DInv
<1>2. /\ n <= Ahead(dp.next, dp.csrTail) /\ UNCHANGED <<ring, poll, ghost>>
      /\ dp' = [dp EXCEPT !.next = Wrap(@ + n), !.in_flight = @ - n]
  BY Zenon DEF PollDp, Ahead
<1>3. /\ DOMAIN dp' = DOMAIN dp
      /\ dp'.slot = dp.slot /\ dp'.tail = dp.tail /\ dp'.next = Wrap(dp.next + n)
      /\ dp'.csrTail = dp.csrTail /\ dp'.in_flight = dp.in_flight - n
  BY Zenon, <1>1, <1>2 DEF DpType
<1>4. DpType'
  <2>1. dp.next + n \in Int /\ dp'.in_flight \in Int
    BY <1>1, <1>3, CompressionAssumption DEF DpType, Numbers
  <2>2. Wrap(dp.next + n) \in Numbers
    BY <2>1, CompressionAssumption DEF Wrap, Numbers
  <2>3. QED
    BY Zenon, <1>1, <1>2, <1>3, <2>1, <2>2 DEF DpType
<1>5. Apart'
  BY Zenon, <1>1, <1>2 DEF Apart
<1>6. ASSUME ~ghost.stale PROVE Exact'
  <2>1. Exact
    BY Zenon, <1>6 DEF DInv
  <2>2. PICK f \in Numbers, e \in Numbers :
           /\ f = Ahead(dp.next, dp.tail) /\ f = dp.in_flight
           /\ e = Ahead(dp.next, dp.csrTail)
    BY Zenon, <1>1, <2>1, AheadFacts DEF DpType, Exact
  <2>3. e <= f /\ f <= Concurrent /\ n <= e
    BY Zenon, <1>2, <2>1, <2>2 DEF Exact
  <2>4. f - n <= Concurrent /\ n <= f /\ e - n <= f - n
    BY <1>1, <2>2, <2>3, CompressionAssumption DEF Numbers
  <2>5. n <= Ahead(dp.next, dp.tail) /\ n <= Ahead(dp.next, dp.csrTail)
    BY Zenon, <2>2, <2>3, <2>4
  <2>6. Ahead(dp'.next, dp'.tail) = f - n
    <3>1. dp.next \in Numbers /\ dp.tail \in Numbers
      BY Zenon, <1>1 DEF DpType
    <3>2. Ahead(Wrap(dp.next + n), dp.tail) = Ahead(dp.next, dp.tail) - n
      BY Zenon, <1>1, <2>5, <3>1, ReadFacts
    <3>3. QED
      BY Zenon, <1>3, <2>2, <3>2
  <2>7. Ahead(dp'.next, dp'.csrTail) = e - n
    <3>1. dp.next \in Numbers /\ dp.csrTail \in Numbers
      BY Zenon, <1>1 DEF DpType
    <3>2. Ahead(Wrap(dp.next + n), dp.csrTail) = Ahead(dp.next, dp.csrTail) - n
      BY Zenon, <1>1, <2>5, <3>1, ReadFacts
    <3>3. QED
      BY Zenon, <1>3, <2>2, <3>2
  <2>8. ASSUME NEW x \in Dp
        PROVE  sess'[x].pending = Cardinality(Unanswered(x)') /\ Gone(x)'
    <3>1. x \in Sessions /\ Kind[x] = "dp" /\ sess[x].pending = Cardinality(Unanswered(x)) /\ Gone(x)
      BY Zenon, <2>1 DEF Exact, Dp, Of
    <3>2. sess'[x].live = sess[x].live
          /\ sess'[x].pending = sess[x].pending - Cardinality(Answered(x, n))
      BY Zenon, <1>1, <3>1, PollDpCount
    <3>3. Cardinality(Unanswered(x)') = Cardinality(Unanswered(x)) - Cardinality(Answered(x, n))
      BY Zenon, <1>1, <1>3, <2>5, ReadCount
    <3>4. PICK u \in Nat, v \in Nat, a \in Nat :
             /\ u = Cardinality(Unanswered(x)) /\ v = Cardinality(Unanswered(x)')
             /\ a = Cardinality(Answered(x, n))
      <4>1. Cardinality(Unanswered(x)') \in Nat
        BY Zenon, <1>4, UnansweredNext
      <4>2. QED
        BY Zenon, <1>1, <4>1, UnansweredIs, AnsweredFinite
    <3>5. v = u - a
      BY Zenon, <3>3, <3>4
    <3>6. u = 0 => v = 0
      BY <3>4, <3>5
    <3>7. sess'[x].pending = v
      BY Zenon, <3>1, <3>2, <3>4, <3>5
    <3>8. Gone(x)'
      BY Zenon, <3>1, <3>2, <3>4, <3>6, <3>7 DEF Gone
    <3>9. QED
      BY Zenon, <3>4, <3>7, <3>8
  <2>9. dp'.in_flight = f - n
    BY Zenon, <1>3, <2>2
  <2>10. QED
    BY Zenon, <2>4, <2>6, <2>7, <2>8, <2>9 DEF Exact
<1>7. QED
  BY Zenon, <1>2, <1>4, <1>5, <1>6 DEF DInv

\* A call is not on a session of the data plane.
LEMMA NotDp ==
    ASSUME TypeOK, NEW t \in Threads, thr[t].pc # "idle"
    PROVE  thr[t].sess \in Sessions \ Dp
<1>1. ThrOK(t)
  BY Zenon DEF TypeOK
<1>2. thr[t].sess \in Sessions /\ Kind[thr[t].sess] # "dp"
  BY Zenon, <1>1 DEF ThrOK, Single, Chained
<1>3. QED
  BY Zenon, <1>2 DEF Dp, Of

\* A step of a call that puts no request, on session x.
LEMMA CallDInv ==
    ASSUME IInv, DInv, NEW x \in Sessions \ Dp, UNCHANGED <<ring, poll, dp>>,
           sess' = sess \/ \E r : sess' = [sess EXCEPT ![x] = r],
           ghost' = ghost \/ \E r : ghost' = [ghost EXCEPT !.miscounted = r]
    PROVE  DInv'
<1>1. DOMAIN sess = Sessions /\ DpType /\ Apart
  BY Zenon DEF IInv, TypeOK, DInv
<1>2. \A s \in Dp : sess'[s] = sess[s]
  <2>1. CASE sess' = sess
    BY Zenon, <2>1
  <2>2. CASE \E r : sess' = [sess EXCEPT ![x] = r]
    <3>1. \A s \in Dp : s \in Sessions /\ s # x
      BY Zenon DEF Dp, Of
    <3>2. PICK r : sess' = [sess EXCEPT ![x] = r]
      BY Zenon, <2>2
    <3>3. QED
      BY Zenon, <1>1, <3>1, <3>2
  <2>3. QED
    BY Zenon, <2>1, <2>2
<1>3. DOMAIN ghost' = DOMAIN ghost /\ ghost'.stale = ghost.stale
  <2>1. CASE ghost' = ghost
    BY Zenon, <2>1
  <2>2. ASSUME NEW r, ghost' = [ghost EXCEPT !.miscounted = r]
        PROVE  DOMAIN ghost' = DOMAIN ghost /\ ghost'.stale = ghost.stale
    BY <2>2
  <2>3. QED
    BY Zenon, <2>1, <2>2
<1>4. Apart'
  BY Zenon, <1>1 DEF Apart
<1>5. QED
  BY Zenon, <1>2, <1>3, <1>4, KeepDInv

LEMMA BeginDInv ==
    ASSUME IInv, DInv, NEW t \in Threads, Begin(t)
    PROVE  DInv'
<1>1. TypeOK
  BY Zenon DEF IInv
<1>2. ASSUME NEW s \in Of({"stateless", "stateful", "ns"}), NEW flush, Compress(t, s, flush)
      PROVE  DInv'
  <2>1. s \in Sessions \ Dp
    BY Zenon DEF Of, Dp
  <2>2. UNCHANGED <<ring, poll, dp, ghost>>
    BY Zenon, <1>2 DEF Compress
  <2>3. sess' = sess \/ \E r : sess' = [sess EXCEPT ![s] = r]
    BY Zenon, <1>2 DEF Compress, Count
  <2>4. QED
    BY Zenon, <2>1, <2>2, <2>3, CallDInv
<1>3. ASSUME NEW s \in Of({"chain"}), NEW links, ChainPerformOp(t, s, links)
      PROVE  DInv'
  <2>1. s \in Sessions \ Dp
    BY Zenon DEF Of, Dp
  <2>2. UNCHANGED <<ring, poll, dp, ghost>>
    BY Zenon, <1>3 DEF ChainPerformOp
  <2>3. \E r : sess' = [sess EXCEPT ![s] = r]
    BY Zenon, <1>3 DEF ChainPerformOp, Count
  <2>4. QED
    BY Zenon, <2>1, <2>2, <2>3, CallDInv
<1>4. QED
  BY Zenon, <1>2, <1>3 DEF Begin

\* A request of a call goes on the ring.
LEMMA PutDInv ==
    ASSUME IInv, DInv, UNCHANGED <<sess, poll, dp>>, NEW m \in Requests, m.sess \notin Dp,
           ring' = Append(ring, m),
           DOMAIN ghost' = DOMAIN ghost, ghost'.stale = ghost.stale
    PROVE  DInv'
<1>1. TypeOK /\ Apart
  BY Zenon DEF IInv, DInv
<1>2. \A k \in DOMAIN ring' : ring'[k].sess \notin Dp
  BY Zenon, <1>1, AppendFacts DEF Apart
<1>3. Apart'
  BY Zenon, <1>1, <1>2 DEF Apart
<1>4. QED
  BY Zenon, <1>3, KeepDInv

LEMMA PutRequestDInv ==
    ASSUME IInv, DInv, NEW t \in Threads, NEW sync \in BOOLEAN, PutRequest(t, sync)
    PROVE  DInv'
<1>1. thr[t].pc = "put" /\ thr[t].pc # "idle" /\ TypeOK /\ ThrOK(t)
  BY Zenon DEF PutRequest, At, IInv, TypeOK
<1>2. thr[t].sess \in Sessions \ Dp /\ thr[t].flush \in {"NONE", "FINAL", "FULL"}
  BY Zenon, <1>1, NotDp DEF ThrOK
<1>3. PICK by \in Threads \cup {None} :
        ring' = Append(ring, [sess |-> thr[t].sess, flush |-> thr[t].flush,
                              held |-> Holding("dc"), by |-> by])
  BY Zenon DEF PutRequest
<1>4. PICK r : UNCHANGED <<sess, poll, dp>> /\ ghost' = [ghost EXCEPT !.framed = r]
  BY Zenon DEF PutRequest
<1>5. Holding("dc") \in [Pools -> Nat]
  <2>1. Nothing \in [Pools -> Nat]
    BY Zenon DEF Nothing
  <2>2. QED
    BY Zenon, <2>1 DEF Holding
<1>6. PICK m \in Requests : m.sess = thr[t].sess /\ ring' = Append(ring, m)
  <2>1. [sess |-> thr[t].sess, flush |-> thr[t].flush, held |-> Holding("dc"), by |-> by]
           \in Requests
    BY Zenon, <1>2, <1>3, <1>5 DEF Requests
  <2>2. QED
    BY Zenon, <1>3, <2>1
<1>7. DOMAIN ghost' = DOMAIN ghost /\ ghost'.stale = ghost.stale
  BY <1>4
<1>8. QED
  BY Zenon, <1>2, <1>4, <1>6, <1>7, PutDInv

LEMMA ChainPutDInv ==
    ASSUME IInv, DInv, NEW t \in Threads, ChainPut(t)
    PROVE  DInv'
<1>1. thr[t].pc = "cookie" /\ thr[t].pc # "idle" /\ TypeOK /\ ThrOK(t)
  BY Zenon DEF ChainPut, At, IInv, TypeOK
<1>2. /\ thr[t].sess \in Sessions \ Dp /\ thr[t].flush \in {"NONE", "FINAL", "FULL"}
      /\ thr[t].held \in [Pools -> Nat]
  <2>1. thr[t].pc \in Chained
    BY Zenon, <1>1 DEF Chained
  <2>2. QED
    BY Zenon, <1>1, <2>1, NotDp DEF ThrOK
<1>3. UNCHANGED <<sess, poll, dp, ghost>>
  BY Zenon DEF ChainPut
<1>4. CASE ring' = Append(ring, [sess |-> thr[t].sess, flush |-> thr[t].flush,
                                 held |-> thr[t].held, by |-> None])
  <2>1. PICK m \in Requests : m.sess = thr[t].sess /\ ring' = Append(ring, m)
    <3>1. [sess |-> thr[t].sess, flush |-> thr[t].flush, held |-> thr[t].held, by |-> None]
             \in Requests
      BY Zenon, <1>2 DEF Requests
    <3>2. QED
      BY Zenon, <1>4, <3>1
  <2>2. QED
    BY Zenon, <1>2, <1>3, <2>1, PutDInv
<1>5. CASE UNCHANGED ring
  BY Zenon, <1>2, <1>3, <1>5, CallDInv
<1>6. QED
  BY Zenon, <1>4, <1>5 DEF ChainPut

LEMMA StepDInv ==
    ASSUME IInv, DInv, NEW t \in Threads, Step(t)
    PROVE  DInv'
<1>1. TypeOK
  BY Zenon DEF IInv
<1>2. ASSUME thr[t].pc # "idle", UNCHANGED <<sess, ring, poll, dp, ghost>>
      PROVE  DInv'
  BY Zenon, <1>1, <1>2, NotDp, CallDInv
<1>3. ASSUME thr[t].pc # "idle", UNCHANGED <<ring, poll, dp, ghost>>, NEW r,
             sess' = [sess EXCEPT ![thr[t].sess] = r]
      PROVE  DInv'
  <2>1. PICK x \in Sessions \ Dp : x = thr[t].sess
    BY Zenon, <1>1, <1>3, NotDp
  <2>2. QED
    BY Zenon, <1>3, <2>1, CallDInv
<1>4. CASE AllocCookie(t) \/ PutRefused(t) \/ ChainCookie(t) \/ ChainPrepare(t)
  BY Zenon, <1>2, <1>4 DEF AllocCookie, PutRefused, ChainCookie, ChainPrepare, At
<1>5. CASE CreateRequest(t)
  <2>1. thr[t].pc # "idle" /\ UNCHANGED <<ring, poll, dp, ghost>>
    BY Zenon, <1>5 DEF CreateRequest, At
  <2>2. sess' = sess \/ \E r : sess' = [sess EXCEPT ![thr[t].sess] = r]
    <3>1. ThrOK(t) /\ thr[t].pc = "create"
      BY Zenon, <1>1, <1>5 DEF TypeOK, CreateRequest, At
    <3>2. Kind[thr[t].sess] \in {"stateful", "stateless", "ns"}
      BY Zenon, <3>1 DEF ThrOK, Single
    <3>3. QED
      BY Zenon, <1>5, <3>2 DEF CreateRequest, Count
  <2>3. QED
    BY Zenon, <1>2, <1>3, <2>1, <2>2
<1>6. CASE Restore(t)
  <2>1. thr[t].pc # "idle" /\ UNCHANGED <<ring, poll, dp, ghost>>
    BY Zenon, <1>6 DEF Restore, At
  <2>2. \E r : sess' = [sess EXCEPT ![thr[t].sess] = r]
    BY Zenon, <1>6 DEF Restore
  <2>3. QED
    BY Zenon, <1>3, <2>1, <2>2
<1>7. CASE Undo(t)
  <2>1. thr[t].pc # "idle" /\ UNCHANGED <<ring, poll, dp, ghost>>
    BY Zenon, <1>7 DEF Undo, At
  <2>2. sess' = sess \/ \E r : sess' = [sess EXCEPT ![thr[t].sess] = r]
    BY <1>7 DEF Undo, Count
  <2>3. QED
    BY Zenon, <1>2, <1>3, <2>1, <2>2
<1>8. CASE ChainErr(t)
  <2>1. thr[t].pc # "idle" /\ UNCHANGED <<ring, poll, dp, ghost>>
    BY Zenon, <1>8 DEF ChainErr, At
  <2>2. \E r : sess' = [sess EXCEPT ![thr[t].sess] = r]
    BY Zenon, <1>8 DEF ChainErr, Count
  <2>3. QED
    BY Zenon, <1>3, <2>1, <2>2
<1>9. QED
  BY Zenon, <1>4, <1>5, <1>6, <1>7, <1>8, PutRequestDInv, ChainPutDInv DEF Step

LEMMA NsTimeoutDInv ==
    ASSUME IInv, DInv, NEW t \in Threads, NsTimeout(t)
    PROVE  DInv'
<1>1. /\ ring' = [k \in DOMAIN ring |-> Forget(ring[k], t)] /\ TypeOK /\ Apart
      /\ poll' = IF poll = None THEN None ELSE [poll EXCEPT !.msg = Forget(@, t)]
      /\ ghost' = [ghost EXCEPT !.freedTwice = @ \cup {"dc"}] /\ UNCHANGED <<sess, dp>>
  BY Zenon DEF NsTimeout, IInv, DInv
<1>2. \A m \in Requests : Forget(m, t).sess = m.sess
  BY DEF Forget, Requests
<1>3. \A k \in DOMAIN ring' : ring'[k].sess \notin Dp
  BY Zenon, <1>1, <1>2, RingFacts DEF Apart
<1>4. poll' # None => poll'.msg.sess \notin Dp
  <2>1. CASE poll = None
    BY Zenon, <1>1, <2>1
  <2>2. CASE poll # None
    <3>1. poll \in [msg : Requests, step : {"status", "finish"}]
      BY Zenon, <1>1, <2>2 DEF TypeOK
    <3>2. poll.msg \in Requests /\ poll'.msg = Forget(poll.msg, t)
      BY Zenon, <1>1, <2>2, <3>1
    <3>3. QED
      BY Zenon, <1>1, <1>2, <2>2, <3>2 DEF Apart
  <2>3. QED
    BY Zenon, <2>1, <2>2
<1>5. DOMAIN ghost' = DOMAIN ghost /\ ghost'.stale = ghost.stale
  BY <1>1
<1>6. Apart'
  BY Zenon, <1>3, <1>4 DEF Apart
<1>7. QED
  BY Zenon, <1>1, <1>5, <1>6, KeepDInv

LEMMA FailureDInv ==
    ASSUME IInv, DInv, NEW t \in Threads, Failure(t)
    PROVE  DInv'
<1>1. TypeOK
  BY Zenon DEF IInv
<1>2. ASSUME thr[t].pc # "idle", UNCHANGED <<sess, ring, poll, dp>>,
             ghost' = ghost \/ \E r : ghost' = [ghost EXCEPT !.miscounted = r]
      PROVE  DInv'
  BY Zenon, <1>1, <1>2, NotDp, CallDInv
<1>3. CASE AllocFails(t)
  <2>1. thr[t].pc # "idle" /\ UNCHANGED <<sess, ring, poll, dp>>
    BY Zenon, <1>3 DEF AllocFails, At
  <2>2. \E r : ghost' = [ghost EXCEPT !.miscounted = r]
    BY Zenon, <1>3 DEF AllocFails
  <2>3. QED
    BY Zenon, <1>2, <2>1, <2>2
<1>4. CASE CreateFails(t)
  <2>1. thr[t].pc # "idle" /\ UNCHANGED <<sess, ring, poll, dp>>
    BY Zenon, <1>4 DEF CreateFails, At
  <2>2. \E r : ghost' = [ghost EXCEPT !.miscounted = r]
    BY Zenon, <1>4 DEF CreateFails
  <2>3. QED
    BY Zenon, <1>2, <2>1, <2>2
<1>5. CASE ChainPrepareFails(t)
  BY Zenon, <1>2, <1>5 DEF ChainPrepareFails, At
<1>6. CASE ChainCheckFails(t)
  <2>1. /\ UNCHANGED <<sess, ring, poll, dp>> /\ Apart
        /\ ghost' = [ghost EXCEPT !.freedTwice = @ \cup {"sym"}]
    BY Zenon, <1>6 DEF ChainCheckFails, DInv
  <2>2. DOMAIN ghost' = DOMAIN ghost /\ ghost'.stale = ghost.stale
    BY <2>1
  <2>3. Apart'
    BY Zenon, <2>1 DEF Apart
  <2>4. QED
    BY Zenon, <2>1, <2>2, <2>3, KeepDInv
<1>7. QED
  BY Zenon, <1>3, <1>4, <1>5, <1>6, NsTimeoutDInv DEF Failure

LEMMA RespondDInv ==
    ASSUME IInv, DInv, Respond
    PROVE  DInv'
<1>1. TypeOK /\ Apart /\ DOMAIN sess = Sessions
  BY Zenon DEF IInv, TypeOK, DInv
<1>2. CASE PollRing
  <2>1. /\ ring # <<>> /\ ring' = Tail(ring) /\ UNCHANGED <<sess, dp, ghost>>
        /\ poll' = [msg |-> Head(ring), step |-> "status"]
    BY Zenon, <1>2 DEF PollRing
  <2>2. poll'.msg = ring[1] /\ 1 \in DOMAIN ring
    BY Zenon, <1>1, <2>1, TailFacts
  <2>3. \A k \in DOMAIN ring' : ring'[k].sess \notin Dp
    BY Zenon, <1>1, <2>1, TailFacts DEF Apart
  <2>4. Apart'
    BY Zenon, <1>1, <2>2, <2>3 DEF Apart
  <2>5. QED
    BY Zenon, <2>1, <2>4, KeepDInv
<1>3. ASSUME NEW result \in {"ok", "error", "unsupported"}, Status(result)
      PROVE  DInv'
  <2>1. /\ poll # None /\ poll' = [poll EXCEPT !.step = "finish"] /\ UNCHANGED <<ring, dp>>
        /\ ghost' = Processed(ghost, poll.msg, result)
    BY Zenon, <1>3 DEF Status
  <2>2. PICK x \in Sessions : x = poll.msg.sess /\ x \notin Dp
    BY Zenon, <1>1, <2>1, RingFacts DEF Apart
  <2>3. \A s \in Dp : sess'[s] = sess[s]
    <3>1. PICK r : sess' = sess \/ sess' = [sess EXCEPT ![x].requestType = r]
      BY Zenon, <1>3, <2>2 DEF Status
    <3>2. \A s \in Sessions : s # x => sess'[s] = sess[s]
      BY Zenon, <1>1, <3>1
    <3>3. QED
      BY Zenon, <2>2, <3>2 DEF Dp, Of
  <2>4. poll'.msg = poll.msg
    <3>1. poll \in [msg : Requests, step : {"status", "finish"}]
      BY Zenon, <1>1, <2>1 DEF TypeOK
    <3>2. QED
      BY Zenon, <2>1, <3>1
  <2>5. Apart'
    BY Zenon, <1>1, <2>1, <2>4 DEF Apart
  <2>6. DOMAIN ghost' = DOMAIN ghost /\ ghost'.stale = ghost.stale
    <3>1. PICK a, b : ghost' = ghost \/ ghost' = [ghost EXCEPT !.open = a, !.unframed = b]
      BY Zenon, <2>1 DEF Processed
    <3>2. CASE ghost' = ghost
      BY Zenon, <3>2
    <3>3. CASE ghost' = [ghost EXCEPT !.open = a, !.unframed = b]
      BY <3>3
    <3>4. QED
      BY Zenon, <3>1, <3>2, <3>3
  <2>7. QED
    BY Zenon, <2>1, <2>3, <2>5, <2>6, KeepDInv
<1>4. CASE Finish
  <2>1. poll # None /\ poll' = None /\ UNCHANGED <<ring, dp, ghost>>
    BY Zenon, <1>4 DEF Finish
  <2>2. PICK x \in Sessions : x = poll.msg.sess /\ x \notin Dp
    BY Zenon, <1>1, <2>1, RingFacts DEF Apart
  <2>3. \A s \in Dp : sess'[s] = sess[s]
    BY Zenon, <1>4, <2>2, FinishCount DEF Dp, Of
  <2>4. Apart'
    BY Zenon, <1>1, <2>1 DEF Apart
  <2>5. QED
    BY Zenon, <2>1, <2>3, <2>4, KeepDInv
<1>5. QED
  BY Zenon, <1>2, <1>3, <1>4 DEF Respond

\* The tail is told to the device.
LEMMA ToldDInv ==
    ASSUME DInv, dp' = [dp EXCEPT !.csrTail = dp.tail], UNCHANGED <<sess, ring, poll, ghost>>
    PROVE  DInv'
<1>1. DpType /\ Apart
  BY Zenon DEF DInv
<1>2. /\ DOMAIN dp' = DOMAIN dp
      /\ dp'.slot = dp.slot /\ dp'.tail = dp.tail /\ dp'.next = dp.next
      /\ dp'.csrTail = dp.tail /\ dp'.in_flight = dp.in_flight
  BY Zenon, <1>1 DEF DpType
<1>3. DpType' /\ Apart'
  BY Zenon, <1>1, <1>2 DEF DpType, Apart
<1>4. \A s : Unanswered(s)' = Unanswered(s)
  BY Zenon, <1>2 DEF Unanswered
<1>5. PICK f \in Numbers : f = Ahead(dp.next, dp.tail)
  BY Zenon, <1>1, AheadFacts DEF DpType
<1>6. f <= f
  BY <1>5, CompressionAssumption DEF Numbers
<1>7. Exact => Exact'
  BY Zenon, <1>2, <1>4, <1>5, <1>6 DEF Exact, Gone
<1>8. QED
  BY Zenon, <1>3, <1>7 DEF DInv

LEMMA LifetimeDInv ==
    ASSUME IInv, DInv, NEW s \in Sessions, Lifetime(s)
    PROVE  DInv'
<1>1. sess \in [Sessions -> SessType] /\ DpType /\ Apart /\ Dp \subseteq Sessions
  BY Zenon DEF IInv, TypeOK, DInv, Dp, Of
<1>2. ASSUME UNCHANGED <<ring, poll, dp>>, DOMAIN ghost' = DOMAIN ghost, ghost'.stale = ghost.stale,
             \A x \in Sessions \ {s} : sess'[x] = sess[x],
             s \in Dp /\ ~ghost.stale =>
                sess'[s].pending = sess[s].pending /\ (Gone(s) => Gone(s)')
      PROVE  DInv'
  <2>1. DpType' /\ Apart'
    BY Zenon, <1>1, <1>2 DEF DpType, Apart
  <2>2. ASSUME ~ghost.stale PROVE Exact'
    <3>1. Exact
      BY Zenon, <2>2 DEF DInv
    <3>2. \A x \in Dp : sess'[x].pending = sess[x].pending /\ (Gone(x) => Gone(x)')
      BY Zenon, <1>1, <1>2, <2>2 DEF Gone
    <3>3. QED
      BY Zenon, <1>1, <1>2, <2>2, <3>1, <3>2, KeepExact
  <2>3. QED
    BY Zenon, <1>2, <2>1, <2>2 DEF DInv
<1>3. ASSUME ghost' = [ghost EXCEPT !.open = @ \ {s}, !.unframed = @ \ {s}]
      PROVE  DOMAIN ghost' = DOMAIN ghost /\ ghost'.stale = ghost.stale
  BY <1>3
<1>4. CASE InitSession(s)
  <2>1. /\ UNCHANGED <<ring, poll, dp>> /\ sess' = [sess EXCEPT ![s] = Fresh] /\ ~sess[s].live
        /\ ghost' = [ghost EXCEPT !.open = @ \ {s}, !.unframed = @ \ {s}]
    BY Zenon, <1>4 DEF InitSession
  <2>2. sess'[s].pending = 0 /\ \A x \in Sessions \ {s} : sess'[x] = sess[x]
    BY Zenon, <1>1, <2>1 DEF Fresh
  <2>3. s \in Dp /\ ~ghost.stale => sess[s].pending = 0
    BY Zenon, <2>1 DEF DInv, Exact, Gone
  <2>4. QED
    BY Zenon, <1>2, <1>3, <2>1, <2>2, <2>3 DEF Gone
<1>5. CASE Flush(s)
  BY Zenon, <1>5, ToldDInv DEF Flush
<1>6. CASE ResetSession(s)
  <2>1. /\ UNCHANGED <<ring, poll, dp>>
        /\ sess' = IF Kind[s] = "dp" THEN sess ELSE [sess EXCEPT ![s].requestType = "FIRST"]
        /\ ghost' = [ghost EXCEPT !.open = @ \ {s}, !.unframed = @ \ {s}]
    BY Zenon, <1>6 DEF ResetSession
  <2>2. \A x \in Sessions \ {s} : sess'[x] = sess[x]
    BY Zenon, <1>1, <2>1
  <2>3. s \in Dp => sess' = sess
    BY Zenon, <2>1 DEF Dp, Of
  <2>4. QED
    BY Zenon, <1>2, <1>3, <2>1, <2>2, <2>3 DEF Gone
<1>7. CASE RemoveSession(s)
  <2>1. /\ UNCHANGED <<ring, poll, dp, ghost>> /\ sess[s].pending = 0
        /\ sess' = [sess EXCEPT ![s].live = FALSE]
    BY Zenon, <1>7 DEF RemoveSession, Quiet
  <2>2. /\ sess'[s].pending = sess[s].pending
        /\ \A x \in Sessions \ {s} : sess'[x] = sess[x]
    BY Zenon, <1>1, <2>1 DEF SessType
  <2>3. QED
    BY Zenon, <1>2, <2>1, <2>2 DEF Gone
<1>8. QED
  BY Zenon, <1>4, <1>5, <1>6, <1>7 DEF Lifetime

LEMMA InitDInv == Init => DInv
<1> SUFFICES ASSUME Init PROVE DInv
  OBVIOUS
<1>1. /\ sess = [x \in Sessions |-> Fresh] /\ ring = <<>> /\ poll = None
      /\ dp \in [on : BOOLEAN, slot : [0 .. Slots - 1 -> {None}], tail : {0},
                 csrTail : {0}, next : {0}, in_flight : {0}]
      /\ ghost = [miscounted |-> {}, open |-> {}, unframed |-> {}, framed |-> TRUE,
                  freedTwice |-> {}, stale |-> FALSE]
  BY Zenon DEF Init
<1>2. /\ {"slot", "tail", "csrTail", "next", "in_flight"} \subseteq DOMAIN dp
      /\ dp.slot \in [Numbers -> {None}] /\ dp.tail = 0 /\ dp.csrTail = 0 /\ dp.next = 0
      /\ dp.in_flight = 0
  BY Zenon, <1>1 DEF Numbers
<1>3. 0 \in Numbers /\ 0 \in Int /\ 0 <= Concurrent /\ 0 <= 0
  BY CompressionAssumption DEF Numbers
<1>4. "stale" \in DOMAIN ghost /\ ghost.stale \in BOOLEAN
  BY Zenon, <1>1
<1>5. dp.slot \in [Numbers -> Sessions \cup {None}]
  BY Zenon, <1>2
<1>6. DpType
  BY Zenon, <1>2, <1>3, <1>4, <1>5 DEF DpType
<1>7. Apart
  <2>1. DOMAIN ring = {}
    BY <1>1
  <2>2. QED
    BY Zenon, <1>1, <2>1 DEF Apart
<1>8. Exact
  <2>1. Ahead(0, 0) = 0
    BY <1>3, AheadFacts
  <2>2. ASSUME NEW s \in Dp PROVE sess[s].pending = Cardinality(Unanswered(s)) /\ Gone(s)
    <3>1. s \in Sessions
      BY Zenon DEF Dp, Of
    <3>2. sess[s].pending = 0
      BY Zenon, <1>1, <3>1 DEF Fresh
    <3>3. s # None
      BY Zenon, <3>1, CompressionAssumption
    <3>4. \A k : k \notin Unanswered(s)
      BY Zenon, <1>2, <3>3 DEF Unanswered, Numbers
    <3>5. Unanswered(s) = {}
      BY Zenon, <3>4
    <3>6. QED
      BY Zenon, <3>2, <3>5, FS_EmptySet DEF Gone
  <2>3. QED
    BY Zenon, <1>2, <1>3, <2>1, <2>2 DEF Exact
<1>9. QED
  BY Zenon, <1>6, <1>7, <1>8 DEF DInv

LEMMA NextDInv == IInv /\ DInv /\ [Next]_vars => DInv'
<1> SUFFICES ASSUME IInv, DInv, [Next]_vars PROVE DInv'
  OBVIOUS
<1>1. CASE DataPlane
  <2>1. CASE PerformOpNow
    BY Zenon, <2>1, ToldDInv DEF PerformOpNow
  <2>2. QED
    BY Zenon, <1>1, <2>1, EnqueueDInv, EnqueueFailsDInv, PollDpDInv DEF DataPlane
<1>2. CASE UNCHANGED vars
  <2>1. UNCHANGED <<sess, ring, poll, dp, ghost>>
    BY Zenon, <1>2 DEF vars
  <2>2. Apart'
    BY Zenon, <2>1 DEF DInv, Apart
  <2>3. QED
    BY Zenon, <2>1, <2>2, KeepDInv
<1>3. QED
  BY Zenon, <1>1, <1>2, BeginDInv, StepDInv, FailureDInv, RespondDInv, LifetimeDInv DEF Next

-----------------------------------------------------------------------------
(* The counts.                                                             *)

LEMMA CountsGiven == IInv /\ CInv /\ DInv => PendingExact
<1> SUFFICES ASSUME IInv, CInv, DInv,
                    NEW s \in Sessions \ Of({"ns"}), s \notin ghost.miscounted
             PROVE  /\ IF Kind[s] = "dp"
                       THEN ghost.stale \/ sess[s].pending = Cardinality(Unanswered(s))
                       ELSE sess[s].pending = InFlight(s) + Cardinality(Submitting(s))
                    /\ Kind[s] = "stateful" => sess[s].pending <= 1
  BY Zenon DEF PendingExact
<1>1. CASE Kind[s] = "dp"
  <2>1. s \in Dp
    BY Zenon, <1>1 DEF Dp, Of
  <2>2. Kind[s] # "stateful"
    BY Zenon, <1>1
  <2>3. QED
    BY Zenon, <1>1, <2>1, <2>2 DEF DInv, Exact
<1>2. CASE Kind[s] # "dp"
  <2>1. s \in Near
    BY Zenon, <1>2, CompressionAssumption DEF Near, Of
  <2>2. Counted(s)
    BY Zenon, <2>1 DEF CInv
  <2>3. sess[s].pending = InFlight(s) + Cardinality(Submitting(s))
    BY Zenon, <2>2 DEF Counted, InFlight, OnRing, Handled
  <2>4. ASSUME Kind[s] = "stateful" PROVE sess[s].pending <= 1
    <3>1. sess[s].pending \in {0, 1}
      BY Zenon, <2>4 DEF IInv, Stateful, Of, OneInv
    <3>2. QED
      BY <3>1
  <2>5. QED
    BY Zenon, <1>2, <2>3, <2>4
<1>3. QED
  BY Zenon, <1>1, <1>2

\* CInv and DInv hold of every behaviour: what each session counts, and how
\* the data plane's in_flight, tail and next response stand to one another.
THEOREM CountsInvariance == Spec => [](CInv /\ DInv)
<1>1. Init => CInv /\ DInv
  BY Zenon, InitCInv, InitDInv
<1>2. IInv /\ CInv /\ DInv /\ [Next]_vars => (CInv /\ DInv)'
  BY Zenon, NextCInv, NextDInv
<1>3. QED
  BY <1>1, <1>2, Invariance, PTL DEF Spec

\* A session's pending count is the number of its requests in flight
\* (pendingStatelessCbCount, pendingStatefulCbCount, pendingDpStatelessCbCount),
\* so that no session is reset or removed under a request, for every number of
\* threads, sessions and slots; a session that a failed allocation or creation
\* miscounted, and a ring with a slot reserved in vain, are excepted.
THEOREM PendingCounted == Spec => []PendingExact
BY CountsGiven, Invariance, CountsInvariance, PTL
=============================================================================
