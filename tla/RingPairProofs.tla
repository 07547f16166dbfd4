--------------------------- MODULE RingPairProofs ---------------------------
(***************************************************************************)
(* The inductive invariant of RingPair, the proofs that Init establishes   *)
(* it and the steps of puts, polls and the device preserve it, and what    *)
(* follows from it, for every number of threads, messages and slots; then  *)
(* the refinement of RequestService.                                       *)
(***************************************************************************)
EXTENDS RingPair, FiniteSetTheorems, TLAPS

\* A thread holds the lock of the request ring exactly while it puts, and what
\* it is about to write is a request.
LockInv ==
  /\ \A t \in Threads : put[t] # "none" <=> lock["tx"] = t
  /\ \A t \in Threads : put[t] # "none" => inBuf[t] \in Msgs

\* Only one thread polls, which keeps the flag at or below zero, and it looks
\* at the head of the ring, where its callback has a response.
PollInv ==
  /\ OnePoller
  /\ \A t \in Threads : poll[t] = "callback" => rx[head] # Empty
  /\ \A t \in Threads : Polling(t) => pollingInProgress <= 0 /\ slot[t] = head

\* The CSR shows the tail, and the slots between the device and the tail hold
\* requests.
TxInv ==
  /\ csrTail = tail
  /\ \A k \in TxIndices :
       Distance(devHead, k, TxSlots) < unfetched => tx[k] \in Msgs

\* The head lies between the head CSR and the device, and the slots that are
\* not empty are those between the head and the device.
RxInv ==
  /\ headLag <= Distance(csrHead, devTail, RxSlots)
  /\ \A k \in RxIndices : rx[k] # Empty <=> Distance(head, k, RxSlots) < unread

\* in_flight covers what occupies the rings and the device, and does not
\* exceed the limit while a request is written.
occupied ==
  unfetched + Cardinality(engine) + unread + (IF lock["tx"] = NoThread THEN 0 ELSE 1)

FlightInv ==
  /\ in_flight >= occupied
  /\ \A t \in Threads :
       poll[t] \in {"loop", "callback"} => in_flight >= occupied + msg_counter[t]
  /\ \A t \in Threads : put[t] = "write" => in_flight <= max_requests_inflight

\* The responses whose head write is put off, less those of the current poll.
LagInv ==
  /\ HeadLagBounded
  /\ \A t \in Threads : Polling(t) =>
       headLag + coal_write_count <= min_resps_per_head_write + msg_counter[t]

IInv == TypeOK /\ LockInv /\ PollInv /\ TxInv /\ RxInv /\ FlightInv /\ LagInv
-----------------------------------------------------------------------------
(* Arithmetic on a ring of n slots.                                        *)

\* modulo in adf_user_ring.c is a wrap to zero at the last slot.
LEMMA AdvanceWraps ==
  ASSUME NEW n \in Nat \ {0}, NEW i \in 0 .. n - 1
  PROVE  /\ Advance(i, n) = IF i + 1 = n THEN 0 ELSE i + 1
         /\ Advance(i, n) \in 0 .. n - 1
BY DEF Advance

\* Distances are slots of the ring, zero only from a slot to itself, and they
\* tell slots apart.
LEMMA DistanceRange ==
  ASSUME NEW n \in Nat \ {0}, NEW i \in 0 .. n - 1, NEW j \in 0 .. n - 1
  PROVE  /\ Distance(i, j, n) \in 0 .. n - 1
         /\ Distance(i, j, n) = 0 <=> i = j
         /\ \A k \in 0 .. n - 1 : Distance(i, j, n) = Distance(i, k, n) <=> j = k
BY DEF Distance

\* Moving the far end adds one to the distance, unless it meets the near end.
LEMMA AdvanceEnd ==
  ASSUME NEW n \in Nat \ {0}, NEW i \in 0 .. n - 1, NEW j \in 0 .. n - 1
  PROVE  /\ Advance(j, n) # i => Distance(i, Advance(j, n), n) = Distance(i, j, n) + 1
         /\ Distance(i, Advance(j, n), n) <= Distance(i, j, n) + 1
         /\ Distance(i, j, n) + 1 < n => Advance(j, n) # i
BY AdvanceWraps DEF Distance

\* Moving the near end takes one from the distance and one slot from the span.
LEMMA AdvanceStart ==
  ASSUME NEW n \in Nat \ {0}, NEW i \in 0 .. n - 1, NEW j \in 0 .. n - 1, i # j
  PROVE  /\ Distance(Advance(i, n), j, n) = Distance(i, j, n) - 1
         /\ \A k \in 0 .. n - 1 :
              Distance(Advance(i, n), k, n) < Distance(Advance(i, n), j, n)
                <=> Distance(i, k, n) < Distance(i, j, n) /\ k # i
BY SMTT(30), AdvanceWraps DEF Distance

\* A slot between two others splits their distance.
LEMMA DistanceSplit ==
  ASSUME NEW n \in Nat \ {0}, NEW a \in 0 .. n - 1, NEW b \in 0 .. n - 1,
         NEW c \in 0 .. n - 1, Distance(a, b, n) <= Distance(a, c, n)
  PROVE  Distance(b, c, n) = Distance(a, c, n) - Distance(a, b, n)
BY DEF Distance

-----------------------------------------------------------------------------
(* The invariant is inductive.                                             *)

LEMMA RingSizes ==
  /\ TxSlots \in Nat \ {0} /\ RxSlots \in Nat \ {0}
  /\ TxIndices = 0 .. TxSlots - 1 /\ RxIndices = 0 .. RxSlots - 1
BY RingAssumption DEF TxIndices, RxIndices

\* The distances of the invariant are numbers, and the engine is finite.
LEMMA Counts ==
  ASSUME TypeOK
  PROVE  /\ unfetched \in 0 .. TxSlots - 1 /\ unread \in 0 .. RxSlots - 1
         /\ headLag \in 0 .. RxSlots - 1
         /\ IsFiniteSet(engine) /\ Cardinality(engine) \in Nat
         /\ occupied \in Nat
<1>1. unfetched \in 0 .. TxSlots - 1 /\ unread \in 0 .. RxSlots - 1
      /\ headLag \in 0 .. RxSlots - 1
  BY Zenon, RingSizes, DistanceRange DEF TypeOK, unfetched, unread, headLag
<1>2. IsFiniteSet(engine) /\ Cardinality(engine) \in Nat
  BY Zenon, RingAssumption, FS_Subset, FS_CardinalityType DEF TypeOK
<1>3. QED
  BY <1>1, <1>2, RingSizes DEF occupied

LEMMA InitIInv == Init => IInv
<1> SUFFICES ASSUME Init PROVE IInv
  OBVIOUS
<1>1. TypeOK
  BY RingAssumption DEF Init, TypeOK, TxIndices, RxIndices, Locks
<1>2. unfetched = 0 /\ unread = 0 /\ headLag = 0 /\ occupied = 0
  BY FS_EmptySet DEF Init, unfetched, unread, headLag, Distance, occupied, Locks
<1>3. LockInv /\ PollInv
  BY Zenon, RingAssumption DEF Init, LockInv, PollInv, OnePoller, Polling, Locks
<1>4. TxInv /\ RxInv
  BY SMTT(30), <1>2, RingSizes, DistanceRange DEF Init, TxInv, RxInv
<1>5. FlightInv /\ LagInv
  BY <1>2, RingAssumption DEF Init, FlightInv, LagInv, HeadLagBounded, Polling
<1>6. QED
  BY Zenon, <1>1, <1>3, <1>4, <1>5 DEF IInv

\* The steps of a put leave both rings as the device sees them, but for the
\* tail.
LEMMA PutReserveIInv ==
  ASSUME IInv, NEW t \in Threads, NEW m \in Msgs, PutReserve(t, m)
  PROVE  IInv'
<1> USE DEF PutReserve, MayPut, txVars, rxVars, devVars, pollVars
<1>1. TypeOK'
  BY DEF IInv, TypeOK, Locks
<1>2. LockInv'
  BY Zenon, RingAssumption DEF IInv, TypeOK, LockInv, Locks
<1>3. PollInv' /\ TxInv' /\ RxInv' /\ LagInv'
  BY Zenon DEF IInv, PollInv, OnePoller, Polling, TxInv, RxInv, LagInv, HeadLagBounded,
         unfetched, unread, headLag
<1>4. occupied' = occupied + 1
  BY Counts, RingAssumption
     DEF IInv, TypeOK, occupied, unfetched, unread, Locks
<1>5. FlightInv'
  <2>1. in_flight' = in_flight + 1 /\ in_flight \in Int /\ occupied \in Nat
    BY Zenon, Counts DEF IInv, TypeOK
  <2>2. \A u \in Threads : put'[u] = "write" => in_flight' <= max_requests_inflight
    BY Zenon, <2>1, RingAssumption DEF IInv, TypeOK, LockInv, HasRoom, FlightInv
  <2>3. QED
    BY <1>4, <2>1, <2>2 DEF IInv, TypeOK, FlightInv
<1>6. QED
  BY Zenon, <1>1, <1>2, <1>3, <1>5 DEF IInv

LEMMA PutRetryIInv ==
  ASSUME IInv, NEW t \in Threads, PutRetry(t)
  PROVE  IInv'
<1> USE DEF PutRetry, txVars, rxVars, devVars, pollVars
<1>1. TypeOK'
  BY DEF IInv, TypeOK, Locks
<1>2. LockInv'
  BY RingAssumption DEF IInv, TypeOK, LockInv, Locks
<1>3. PollInv' /\ TxInv' /\ RxInv' /\ LagInv'
  BY Zenon DEF IInv, PollInv, OnePoller, Polling, TxInv, RxInv, LagInv, HeadLagBounded,
         unfetched, unread, headLag
<1>4. occupied' = occupied - 1
  BY Counts, RingAssumption
     DEF IInv, TypeOK, LockInv, occupied, unfetched, unread, Locks
<1>5. FlightInv'
  <2>1. in_flight' = in_flight - 1 /\ in_flight \in Int /\ occupied \in Nat
    BY Zenon, Counts DEF IInv, TypeOK
  <2>2. \A u \in Threads : put'[u] = "write" => in_flight' <= max_requests_inflight
    BY Zenon, <2>1, RingAssumption DEF IInv, TypeOK, LockInv, FlightInv
  <2>3. QED
    BY <1>4, <2>1, <2>2 DEF IInv, TypeOK, FlightInv
<1>6. QED
  BY Zenon, <1>1, <1>2, <1>3, <1>5 DEF IInv

\* in_flight counts the request being written, so there is a slot to spare
\* beyond those the device has not fetched.
LEMMA RoomToWrite ==
  ASSUME IInv, NEW t \in Threads, put[t] = "write"
  PROVE  unfetched + 1 < TxSlots
<1>1. occupied <= max_requests_inflight
  BY Counts, RingAssumption DEF IInv, TypeOK, FlightInv
<1>2. unfetched + 1 <= occupied
  BY Counts, RingAssumption DEF IInv, LockInv, occupied
<1>3. QED
  BY <1>1, <1>2, Counts, RingAssumption DEF IInv

LEMMA PutWriteIInv ==
  ASSUME IInv, NEW t \in Threads, PutWrite(t)
  PROVE  IInv' /\ unfetched' = unfetched + 1
<1> USE DEF PutWrite, rxVars, devVars, pollVars
<1>1. TypeOK'
  <2>1. Advance(tail, TxSlots) \in TxIndices
    BY Zenon, RingSizes, AdvanceWraps DEF IInv, TypeOK
  <2>2. send_seq' \in 0 .. SendSeqModulus - 1
    BY RingAssumption DEF IInv, TypeOK
  <2>3. QED
    BY Zenon, <2>1, <2>2 DEF IInv, TypeOK, Locks
<1>2. LockInv'
  BY RingAssumption DEF IInv, TypeOK, LockInv, Locks
<1>3. PollInv' /\ RxInv' /\ LagInv'
  BY Zenon DEF IInv, PollInv, OnePoller, Polling, RxInv, LagInv, HeadLagBounded,
         unread, headLag
<1>4. unfetched' = unfetched + 1
  BY Zenon, RoomToWrite, RingSizes, AdvanceEnd DEF IInv, TypeOK, TxInv, unfetched
<1>5. TxInv'
  <2> SUFFICES ASSUME NEW k \in TxIndices, Distance(devHead, k, TxSlots) < unfetched'
               PROVE  tx'[k] \in Msgs
    BY Zenon DEF TxInv
  <2>1. CASE k = tail
    BY Zenon, <2>1 DEF IInv, TypeOK, LockInv
  <2>2. CASE k # tail
    <3>1. Distance(devHead, k, TxSlots) < unfetched
      <4>1. Distance(devHead, k, TxSlots) # Distance(devHead, tail, TxSlots)
        BY <2>2, RingSizes, DistanceRange DEF IInv, TypeOK
      <4>2. Distance(devHead, k, TxSlots) \in Int
        BY RingSizes, DistanceRange DEF IInv, TypeOK
      <4>3. QED
        BY <4>1, <4>2, <1>4, Counts DEF IInv, TxInv, unfetched
    <3>2. QED
      BY Zenon, <2>2, <3>1 DEF IInv, TypeOK, TxInv
  <2>3. QED
    BY Zenon, <2>1, <2>2
<1>6. occupied' = occupied
  BY <1>4, Counts, RingAssumption DEF IInv, TypeOK, LockInv, occupied, unread, Locks
<1>7. FlightInv'
  BY Zenon, <1>6 DEF IInv, TypeOK, LockInv, FlightInv
<1>8. QED
  BY Zenon, <1>1, <1>2, <1>3, <1>4, <1>5, <1>7 DEF IInv

LEMMA DevFetchIInv ==
  ASSUME IInv, DevFetch
  PROVE  IInv'
<1> USE DEF DevFetch, rxVars, putVars, pollVars
<1>1. tx[devHead] \in Msgs
  <2>1. Distance(devHead, devHead, TxSlots) = 0 /\ unfetched # 0
    BY RingSizes, DistanceRange DEF IInv, TypeOK, unfetched
  <2>2. QED
    BY <2>1, Counts DEF IInv, TypeOK, TxInv
<1>2. Advance(devHead, TxSlots) \in TxIndices
  BY Zenon, RingSizes, AdvanceWraps DEF IInv, TypeOK
<1>3. TypeOK'
  BY Zenon, <1>1, <1>2 DEF IInv, TypeOK
<1>4. unfetched' = unfetched - 1
  BY Zenon, RingSizes, AdvanceStart DEF IInv, TypeOK, unfetched
<1>5. LockInv' /\ RxInv'
  BY Zenon DEF IInv, LockInv, RxInv, unread, headLag
<1>6. PollInv' /\ LagInv'
  BY Zenon DEF IInv, PollInv, OnePoller, Polling, LagInv, HeadLagBounded, headLag
<1>7. TxInv'
  <2> SUFFICES ASSUME NEW k \in TxIndices, Distance(devHead', k, TxSlots) < unfetched'
               PROVE  tx'[k] \in Msgs
    BY Zenon DEF IInv, TxInv
  <2>1. Distance(devHead, k, TxSlots) < unfetched /\ k # devHead
    BY Zenon, RingSizes, AdvanceStart DEF IInv, TypeOK, unfetched
  <2>2. QED
    BY Zenon, <2>1 DEF IInv, TypeOK, TxInv
<1>8. Cardinality(engine') <= Cardinality(engine) + 1
  BY Counts, FS_AddElement DEF IInv
<1>9. occupied' <= occupied /\ occupied' \in Int
  <2>1. Cardinality(engine') \in Nat
    BY Zenon, Counts, FS_AddElement, FS_CardinalityType DEF IInv
  <2>2. unread' = unread /\ lock' = lock
    BY Zenon DEF unread
  <2>3. QED
    BY <1>4, <1>8, <2>1, <2>2, Counts DEF IInv, occupied
<1>10. FlightInv'
  BY <1>9, Counts DEF IInv, TypeOK, FlightInv
<1>11. QED
  BY Zenon, <1>3, <1>5, <1>6, <1>7, <1>10 DEF IInv

\* The device leaves one slot free before the head CSR, and the head is not
\* behind the head CSR: it writes a slot that is empty.
LEMMA DevRespondIInv ==
  ASSUME IInv, NEW m \in Msgs, DevRespond(m)
  PROVE  IInv' /\ rx[devTail] = Empty
<1> USE DEF DevRespond, txVars, putVars, pollVars
<1>1. Advance(devTail, RxSlots) \in RxIndices
  BY Zenon, RingSizes, AdvanceWraps DEF IInv, TypeOK
<1>2. TypeOK'
  BY Zenon, <1>1 DEF IInv, TypeOK
<1>3. rx[devTail] = Empty
  BY Counts DEF IInv, TypeOK, RxInv, unread
<1>4. Distance(csrHead, devTail', RxSlots) = Distance(csrHead, devTail, RxSlots) + 1
  BY Zenon, RingSizes, AdvanceEnd DEF IInv, TypeOK
<1>5. headLag' = headLag
  BY Zenon DEF headLag
<1>6. headLag <= Distance(csrHead, devTail', RxSlots)
  <2>1. Distance(csrHead, devTail, RxSlots) \in Int
    BY RingSizes, DistanceRange DEF IInv, TypeOK
  <2>2. QED
    BY <2>1, <1>4, Counts DEF IInv, RxInv
<1>7. unread' = unread + 1
  <2>1. unread = Distance(csrHead, devTail, RxSlots) - headLag
    BY Zenon, RingSizes, DistanceSplit DEF IInv, TypeOK, RxInv, unread, headLag
  <2>2. unread' = Distance(csrHead, devTail', RxSlots) - headLag
    BY Zenon, <1>1, <1>6, RingSizes, DistanceSplit DEF IInv, TypeOK, unread, headLag
  <2>3. Distance(csrHead, devTail, RxSlots) \in Int
    BY RingSizes, DistanceRange DEF IInv, TypeOK
  <2>4. QED
    BY <2>1, <2>2, <2>3, <1>4, Counts DEF IInv
<1>8. RxInv'
  <2>1. headLag' <= Distance(csrHead', devTail', RxSlots)
    BY Zenon, <1>5, <1>6
  <2>2. ASSUME NEW k \in RxIndices
        PROVE  rx'[k] # Empty <=> Distance(head', k, RxSlots) < unread'
    <3>1. Distance(head, k, RxSlots) \in Int
          /\ (Distance(head, k, RxSlots) = unread <=> k = devTail)
      <4>1. head \in 0 .. RxSlots - 1 /\ devTail \in 0 .. RxSlots - 1
            /\ k \in 0 .. RxSlots - 1
        BY Zenon, RingSizes DEF IInv, TypeOK
      <4>2. Distance(head, k, RxSlots) \in 0 .. RxSlots - 1
        BY Zenon, <4>1, RingSizes, DistanceRange
      <4>3. Distance(head, k, RxSlots) = Distance(head, devTail, RxSlots) <=> k = devTail
        BY <4>1, RingSizes, DistanceRange
      <4> HIDE DEF DevRespond, txVars, putVars, pollVars
      <4>4. Distance(head, k, RxSlots) \in Int
        BY <4>2
      <4>5. QED
        BY Zenon, <4>3, <4>4 DEF unread
    <3>2. Distance(head, k, RxSlots) < unread'
            <=> Distance(head, k, RxSlots) < unread \/ k = devTail
      BY <3>1, <1>7, Counts DEF IInv
    <3>3. rx'[k] # Empty <=> rx[k] # Empty \/ k = devTail
      BY Zenon, RingAssumption DEF IInv, TypeOK
    <3>4. QED
      BY Zenon, <3>2, <3>3 DEF IInv, RxInv
  <2>3. QED
    BY Zenon, <2>1, <2>2 DEF RxInv
<1>9. LockInv' /\ TxInv'
  BY Zenon DEF IInv, LockInv, TxInv, unfetched
<1>10. PollInv'
  BY Zenon, RingAssumption DEF IInv, TypeOK, PollInv, OnePoller, Polling
<1>11. LagInv'
  BY Zenon, <1>5 DEF IInv, LagInv, HeadLagBounded, Polling
<1>12. Cardinality(engine') = Cardinality(engine) - 1
  BY Zenon, Counts, FS_RemoveElement DEF IInv
<1>13. occupied' = occupied
  BY <1>7, <1>12, Counts DEF IInv, occupied, unfetched
<1>14. FlightInv'
  BY Zenon, <1>13 DEF IInv, FlightInv
<1>15. QED
  BY Zenon, <1>2, <1>3, <1>8, <1>9, <1>10, <1>11, <1>14 DEF IInv

-----------------------------------------------------------------------------
(* The steps of a poll.                                                    *)

\* A poll begins only when the flag is one, that is, when nobody polls.
LEMMA PollBeginIInv ==
  ASSUME IInv, NEW t \in Threads, NEW l \in Locks, NEW q \in Quotas,
         PollBegin(t, l, q)
  PROVE  IInv'
<1> USE DEF PollBegin, MayPoll, DecAndTest, txVars, devVars, putVars
<1>1. TypeOK'
  BY RingAssumption DEF IInv, TypeOK, Locks
<1>2. \A u \in Threads : poll[u] = "none"
  BY DEF IInv, TypeOK, PollInv, Polling
<1>3. LockInv'
  BY Zenon DEF IInv, TypeOK, LockInv, Locks
<1>4. PollInv'
  BY <1>2 DEF IInv, TypeOK, PollInv, OnePoller, Polling
<1>5. TxInv' /\ RxInv'
  BY Zenon DEF IInv, TxInv, RxInv, unfetched, unread, headLag
<1>6. occupied' = occupied
  BY Zenon DEF IInv, TypeOK, occupied, unfetched, unread, Locks
<1>7. FlightInv'
  BY <1>2, <1>6, Counts DEF IInv, TypeOK, FlightInv
<1>8. LagInv'
  BY <1>2, Counts, RingAssumption
     DEF IInv, TypeOK, LagInv, HeadLagBounded, Polling, headLag
<1>9. QED
  BY Zenon, <1>1, <1>3, <1>4, <1>5, <1>7, <1>8 DEF IInv

LEMMA PollMissIInv ==
  ASSUME IInv, NEW t \in Threads, NEW l \in Locks, PollMiss(t, l)
  PROVE  IInv'
<1> USE DEF PollMiss, txVars, devVars, putVars, pollVars
<1>1. TypeOK'
  BY SMTT(30) DEF IInv, TypeOK
<1>2. LockInv' /\ TxInv' /\ RxInv' /\ FlightInv' /\ LagInv'
  BY Zenon DEF IInv, LockInv, TxInv, RxInv, FlightInv, LagInv, HeadLagBounded, Polling,
         occupied, unfetched, unread, headLag
<1>3. PollInv'
  BY SMTT(30) DEF IInv, TypeOK, PollInv, OnePoller, Polling
<1>4. QED
  BY Zenon, <1>1, <1>2, <1>3 DEF IInv

LEMMA PollCallbackIInv ==
  ASSUME IInv, NEW t \in Threads, PollCallback(t)
  PROVE  IInv'
<1> USE DEF PollCallback, MoreToRead, txVars, rxVars, devVars, putVars
<1>1. TypeOK'
  BY Zenon DEF IInv, TypeOK
<1>2. LockInv' /\ TxInv' /\ RxInv'
  BY Zenon DEF IInv, LockInv, TxInv, RxInv, unfetched, unread, headLag
<1>3. PollInv'
  BY DEF IInv, TypeOK, PollInv, OnePoller, Polling
<1>4. FlightInv'
  BY Zenon DEF IInv, TypeOK, FlightInv, occupied, unfetched, unread
<1>5. LagInv'
  BY Zenon DEF IInv, TypeOK, LagInv, HeadLagBounded, Polling, headLag
<1>6. QED
  BY Zenon, <1>1, <1>2, <1>3, <1>4, <1>5 DEF IInv

\* Marking the slot at the head takes it out of the span of the responses.
LEMMA PollMarkIInv ==
  ASSUME IInv, NEW t \in Threads, PollMark(t)
  PROVE  IInv'
<1> USE DEF PollMark, txVars, devVars, putVars
<1>1. Advance(head, RxSlots) \in RxIndices
  BY Zenon, RingSizes, AdvanceWraps DEF IInv, TypeOK
<1>2. TypeOK'
  BY <1>1 DEF IInv, TypeOK
<1>3. slot[t] = head /\ head # devTail
  <2>1. Distance(head, head, RxSlots) < unread
    BY Zenon DEF IInv, TypeOK, PollInv, RxInv
  <2>2. Distance(head, head, RxSlots) = 0
    BY Zenon, RingSizes, DistanceRange DEF IInv, TypeOK
  <2>3. QED
    BY <2>1, <2>2 DEF IInv, TypeOK, PollInv, Polling, unread
<1>4. unread' = unread - 1
  BY <1>3, RingSizes, AdvanceStart DEF IInv, TypeOK, unread
<1>5. headLag < Distance(csrHead, devTail, RxSlots)
  <2>1. headLag # Distance(csrHead, devTail, RxSlots)
    BY <1>3, RingSizes, DistanceRange DEF IInv, TypeOK, headLag
  <2>2. Distance(csrHead, devTail, RxSlots) \in Int
    BY RingSizes, DistanceRange DEF IInv, TypeOK
  <2>3. QED
    BY <2>1, <2>2, Counts DEF IInv, RxInv
<1>6. headLag' <= headLag + 1
  BY Zenon, RingSizes, AdvanceEnd DEF IInv, TypeOK, headLag
<1>7. LockInv' /\ TxInv'
  BY Zenon DEF IInv, LockInv, TxInv, unfetched
<1>8. PollInv'
  BY Zenon DEF IInv, TypeOK, PollInv, OnePoller, Polling
<1>9. RxInv'
  <2>1. headLag' <= Distance(csrHead, devTail, RxSlots)
    <3>1. headLag' \in Int
      BY <1>1, RingSizes, DistanceRange DEF IInv, TypeOK, headLag
    <3>2. Distance(csrHead, devTail, RxSlots) \in Int
      BY RingSizes, DistanceRange DEF IInv, TypeOK
    <3>3. QED
      BY <1>5, <1>6, <3>1, <3>2, Counts DEF IInv
  <2>2. \A k \in RxIndices :
          rx'[k] # Empty <=> Distance(head', k, RxSlots) < unread'
    BY SMTT(30), <1>3, RingSizes, AdvanceStart DEF IInv, TypeOK, RxInv, unread
  <2>3. QED
    BY Zenon, <2>1, <2>2 DEF RxInv
<1>10. occupied' = occupied - 1
  <2>1. unfetched' = unfetched /\ engine' = engine /\ lock' = lock
    BY Zenon DEF unfetched
  <2> HIDE DEF PollMark, txVars, devVars, putVars
  <2>2. unfetched \in Nat /\ Cardinality(engine) \in Nat /\ unread \in Nat
    BY Counts, RingSizes DEF IInv
  <2>3. QED
    BY <2>1, <2>2, <1>4 DEF occupied
<1>11. FlightInv'
  BY SMTT(30), <1>10, Counts DEF IInv, TypeOK, FlightInv, PollInv, OnePoller, Polling
<1>12. LagInv'
  <2>1. headLag' \in Int
    BY <1>1, RingSizes, DistanceRange DEF IInv, TypeOK, headLag
  <2>2. headLag + coal_write_count <= min_resps_per_head_write + msg_counter[t]
    BY Zenon DEF IInv, LagInv, Polling
  <2>3. msg_counter'[t] = msg_counter[t] + 1 /\ msg_counter[t] \in Nat
    BY Zenon DEF IInv, TypeOK
  <2>4. headLag' + coal_write_count' <= min_resps_per_head_write + msg_counter'[t]
    BY <1>6, <2>1, <2>2, <2>3, Counts, RingAssumption DEF IInv, TypeOK
  <2>5. \A u \in Threads : Polling(u)' <=> u = t
    BY Zenon DEF IInv, TypeOK, PollInv, OnePoller, Polling
  <2>6. QED
    BY Zenon, <2>4, <2>5 DEF LagInv, HeadLagBounded
<1>13. QED
  BY Zenon, <1>2, <1>7, <1>8, <1>9, <1>11, <1>12 DEF IInv

\* After a poll has returned, nobody polls.
LEMMA NobodyPolls ==
  ASSUME IInv, NEW t \in Threads, Polling(t), PollReturn(t)
  PROVE  /\ \A u \in Threads : poll'[u] = "none"
         /\ pollingInProgress' = 1
         /\ lock' \in [Locks -> Threads \cup {NoThread}]
         /\ lock'["tx"] = lock["tx"]
         /\ slot' \in [Threads -> RxIndices]
         /\ msg_counter' \in [Threads -> Nat]
         /\ poll' \in [Threads -> {"none"}]
<1>1. poll' \in [Threads -> {"none"}] /\ pollingInProgress' = 1
  BY Zenon DEF IInv, TypeOK, PollInv, OnePoller, Polling, PollReturn
<1>2. lock' \in [Locks -> Threads \cup {NoThread}] /\ lock'["tx"] = lock["tx"]
  BY Zenon DEF IInv, TypeOK, PollReturn, Locks
<1>3. slot' \in [Threads -> RxIndices] /\ msg_counter' \in [Threads -> Nat]
  BY SMTT(30), RingSizes DEF IInv, TypeOK, PollReturn
<1>4. QED
  BY Zenon, <1>1, <1>2, <1>3

LEMMA PollNothingIInv ==
  ASSUME IInv, NEW t \in Threads, PollNothing(t)
  PROVE  IInv'
<1>1. /\ Polling(t) /\ PollReturn(t) /\ msg_counter[t] = 0
      /\ UNCHANGED <<tx, tail, csrTail, send_seq, rx, head, csrHead, coal_write_count>>
      /\ UNCHANGED <<ringResponseQuota, in_flight, devHead, devTail, engine>>
      /\ UNCHANGED <<put, inBuf, busy>>
  BY Zenon DEF PollNothing, Polling, txVars, devVars, putVars
<1>2. /\ \A u \in Threads : poll'[u] = "none"
      /\ pollingInProgress' = 1
      /\ lock' \in [Locks -> Threads \cup {NoThread}]
      /\ lock'["tx"] = lock["tx"]
      /\ slot' \in [Threads -> RxIndices]
      /\ msg_counter' \in [Threads -> Nat]
      /\ poll' \in [Threads -> {"none"}]
  BY Zenon, <1>1, NobodyPolls
<1>3. TypeOK'
  BY <1>1, <1>2 DEF IInv, TypeOK
<1>4. unfetched' = unfetched /\ unread' = unread /\ headLag' = headLag
  BY Zenon, <1>1 DEF unfetched, unread, headLag
<1>5. LockInv' /\ TxInv' /\ RxInv'
  BY Zenon, <1>1, <1>2, <1>4 DEF IInv, LockInv, TxInv, RxInv
<1>6. PollInv'
  BY Zenon, <1>2 DEF PollInv, OnePoller, Polling
<1>7. occupied' = occupied
  BY Zenon, <1>1, <1>2, <1>4 DEF occupied
<1>8. FlightInv'
  BY Zenon, <1>1, <1>2, <1>7 DEF IInv, FlightInv
<1>9. LagInv'
  <2>1. headLag + coal_write_count <= min_resps_per_head_write
    BY <1>1, Counts, RingAssumption DEF IInv, TypeOK, LagInv
  <2>2. QED
    BY Zenon, <1>1, <1>2, <1>4, <2>1 DEF LagInv, HeadLagBounded, Polling
<1>10. QED
  BY Zenon, <1>3, <1>5, <1>6, <1>8, <1>9 DEF IInv

\* The responses read were counted by in_flight on top of what is occupied.
LEMMA PollUncountIInv ==
  ASSUME IInv, NEW t \in Threads, PollUncount(t)
  PROVE  IInv'
<1> USE DEF PollUncount, txVars, rxVars, devVars, putVars
<1>1. TypeOK'
  BY SMTT(30) DEF IInv, TypeOK
<1>2. LockInv' /\ TxInv' /\ RxInv'
  BY Zenon DEF IInv, LockInv, TxInv, RxInv, unfetched, unread, headLag
<1>3. PollInv'
  BY Zenon DEF IInv, TypeOK, PollInv, OnePoller, Polling
<1>4. FlightInv'
  <2>1. occupied' = occupied
    BY Zenon DEF occupied, unfetched, unread
  <2>2. in_flight >= occupied + msg_counter[t] /\ msg_counter[t] \in Nat
    BY Zenon DEF IInv, TypeOK, FlightInv
  <2>3. in_flight' >= occupied' /\ in_flight' <= in_flight
    BY <2>1, <2>2, Counts DEF IInv, TypeOK
  <2>4. \A u \in Threads : poll'[u] \notin {"loop", "callback"}
    BY Zenon DEF IInv, TypeOK, PollInv, OnePoller, Polling
  <2>5. \A u \in Threads : put[u] = "write" => in_flight' <= max_requests_inflight
    BY <2>3, <1>1, RingAssumption DEF IInv, TypeOK, FlightInv
  <2>6. QED
    BY Zenon, <2>3, <2>4, <2>5 DEF FlightInv
<1>5. LagInv'
  BY Zenon DEF IInv, TypeOK, LagInv, HeadLagBounded, Polling, headLag
<1>6. QED
  BY Zenon, <1>1, <1>2, <1>3, <1>4, <1>5 DEF IInv

LEMMA PollPublishIInv ==
  ASSUME IInv, NEW t \in Threads, PollPublish(t)
  PROVE  IInv'
<1>1. /\ Polling(t) /\ PollReturn(t)
      /\ UNCHANGED <<tx, tail, csrTail, send_seq, rx, head>>
      /\ UNCHANGED <<ringResponseQuota, in_flight, devHead, devTail, engine>>
      /\ UNCHANGED <<put, inBuf, busy>>
  BY Zenon DEF PollPublish, Polling, txVars, devVars, putVars
<1>2. \/ coal_write_count' = min_resps_per_head_write /\ csrHead' = head
      \/ /\ ~(msg_counter[t] > coal_write_count)
         /\ coal_write_count' = coal_write_count - msg_counter[t] /\ csrHead' = csrHead
  BY Zenon DEF PollPublish, WritesHead
<1>3. /\ \A u \in Threads : poll'[u] = "none"
      /\ pollingInProgress' = 1
      /\ lock' \in [Locks -> Threads \cup {NoThread}]
      /\ lock'["tx"] = lock["tx"]
      /\ slot' \in [Threads -> RxIndices]
      /\ msg_counter' \in [Threads -> Nat]
      /\ poll' \in [Threads -> {"none"}]
  BY Zenon, <1>1, NobodyPolls
<1>4. /\ msg_counter[t] \in Nat /\ coal_write_count \in 0 .. min_resps_per_head_write
      /\ min_resps_per_head_write \in Nat /\ head \in RxIndices /\ csrHead \in RxIndices
  BY Zenon, RingAssumption DEF IInv, TypeOK
<1>5. coal_write_count' \in 0 .. min_resps_per_head_write /\ csrHead' \in RxIndices
  BY <1>2, <1>4
<1>6. TypeOK'
  BY <1>1, <1>3, <1>5 DEF IInv, TypeOK
<1>7. unfetched' = unfetched /\ unread' = unread
  BY Zenon, <1>1 DEF unfetched, unread
<1>8. LockInv' /\ TxInv'
  BY Zenon, <1>1, <1>3, <1>7 DEF IInv, LockInv, TxInv
<1>9. PollInv'
  BY <1>3 DEF PollInv, OnePoller, Polling
<1>10. csrHead' = head => headLag' = 0
  BY <1>1, <1>4, RingSizes, DistanceRange DEF headLag
<1>11. RxInv'
  <2>1. headLag' <= Distance(csrHead', devTail', RxSlots)
    <3>1. CASE csrHead' = csrHead
      BY Zenon, <1>1, <3>1 DEF IInv, RxInv, headLag
    <3>2. CASE csrHead' = head
      <4>1. Distance(head, devTail, RxSlots) >= 0
        BY SMTT(30), RingSizes, DistanceRange DEF IInv, TypeOK
      <4>2. QED
        BY Zenon, <1>1, <3>2, <4>1, <1>10
    <3>3. QED
      BY Zenon, <1>2, <3>1, <3>2
  <2>2. QED
    BY Zenon, <1>1, <1>7, <2>1 DEF IInv, RxInv
<1>12. FlightInv'
  <2>1. occupied' = occupied
    BY Zenon, <1>1, <1>3, <1>7 DEF occupied
  <2>2. QED
    BY Zenon, <1>1, <1>3, <2>1 DEF IInv, FlightInv
<1>13. LagInv'
  <2>1. headLag' + coal_write_count' <= min_resps_per_head_write
    <3>1. CASE csrHead' = head /\ coal_write_count' = min_resps_per_head_write
      BY <3>1, <1>4, <1>10
    <3>2. CASE /\ csrHead' = csrHead
               /\ coal_write_count' = coal_write_count - msg_counter[t]
      <4>1. headLag' = headLag
        BY Zenon, <1>1, <3>2 DEF headLag
      <4>2. headLag + coal_write_count <= min_resps_per_head_write + msg_counter[t]
        BY Zenon, <1>1 DEF IInv, LagInv
      <4>3. QED
        BY <3>2, <4>1, <4>2, <1>4, Counts DEF IInv
    <3>3. QED
      BY Zenon, <1>2, <3>1, <3>2
  <2>2. QED
    BY Zenon, <1>3, <2>1 DEF LagInv, HeadLagBounded, Polling
<1>14. QED
  BY Zenon, <1>6, <1>8, <1>9, <1>11, <1>12, <1>13 DEF IInv

\* One step per action of Next.
LEMMA NextIInv == IInv /\ [Next]_vars => IInv'
<1> SUFFICES ASSUME IInv, [Next]_vars PROVE IInv'
  BY Zenon
<1>1. CASE UNCHANGED vars
  BY Zenon, <1>1 DEF vars, txVars, rxVars, devVars, putVars, pollVars, IInv, TypeOK,
     LockInv, PollInv, OnePoller, Polling, TxInv, RxInv, FlightInv, occupied,
     LagInv, HeadLagBounded, unfetched, unread, headLag
<1>2. ASSUME NEW t \in Threads, NEW m \in Msgs, PutReserve(t, m) PROVE IInv'
  BY Zenon, <1>2, PutReserveIInv
<1>3. ASSUME NEW t \in Threads, PutStep(t) PROVE IInv'
  BY Zenon, <1>3, PutRetryIInv, PutWriteIInv DEF PutStep
<1>4. ASSUME NEW t \in Threads, NEW l \in Locks, NEW q \in Quotas,
             PollBegin(t, l, q)
      PROVE  IInv'
  BY Zenon, <1>4, PollBeginIInv
<1>5. ASSUME NEW t \in Threads, NEW l \in Locks, PollMiss(t, l) PROVE IInv'
  BY Zenon, <1>5, PollMissIInv
<1>6. ASSUME NEW t \in Threads, PollStep(t) PROVE IInv'
  BY Zenon, <1>6, PollCallbackIInv, PollMarkIInv, PollNothingIInv, PollUncountIInv,
     PollPublishIInv DEF PollStep
<1>7. CASE DevFetch
  BY Zenon, <1>7, DevFetchIInv
<1>8. ASSUME NEW m \in Msgs, DevRespond(m) PROVE IInv'
  BY Zenon, <1>8, DevRespondIInv
<1>9. QED
  BY Zenon, <1>1, <1>2, <1>3, <1>4, <1>5, <1>6, <1>7, <1>8 DEF Next

\* The inductive invariant holds in every reachable state of the ring pair, for
\* any threads, messages, ring sizes and quotas.
THEOREM Invariance == Spec => []IInv
<1>1. Init => IInv
  BY Zenon, InitIInv
<1>2. IInv /\ [Next]_vars => IInv'
  BY Zenon, NextIInv
<1>3. QED
  BY <1>1, <1>2, PTL DEF Spec

-----------------------------------------------------------------------------
(* What follows from it.                                                   *)

\* Every variable of the ring pair keeps its type: offsets stay inside the
\* rings, and coal_write_count does not go below zero.
THEOREM TypeCorrect == Spec => []TypeOK
<1>1. IInv => TypeOK
  BY Zenon DEF IInv
<1>2. QED
  BY <1>1, Invariance, PTL

\* adf_pollRing lets one thread at a time into adf_user_notify_msgs_poll.
THEOREM SinglePoller == Spec => []OnePoller
<1>1. IInv => OnePoller
  BY Zenon DEF IInv, PollInv
<1>2. QED
  BY <1>1, Invariance, PTL

\* The head writes that adf_user_notify_msgs_poll puts off hide at most
\* min_resps_per_head_write responses from the device.
THEOREM HeadWritesCoalesced == Spec => []HeadLagBounded
<1>1. IInv => HeadLagBounded
  BY DEF IInv, LagInv
<1>2. QED
  BY <1>1, Invariance, PTL

\* With interrupts, the head CSR is behind the head of the ring only while a
\* poll has read responses that it has not shown yet.
IrqInv ==
  resp = "ICP_RESP_TYPE_IRQ" =>
    \/ csrHead = head
    \/ \E t \in Threads : poll[t] = "publish" \/ (Polling(t) /\ msg_counter[t] > 0)

LEMMA NextIrqInv == IInv /\ IrqInv /\ [Next]_vars => IrqInv'
<1> SUFFICES ASSUME IInv, IrqInv, [Next]_vars, resp = "ICP_RESP_TYPE_IRQ"
             PROVE  IrqInv'
  BY Zenon DEF IrqInv
<1> USE DEF IrqInv, Polling, IInv, TypeOK
<1>1. CASE UNCHANGED <<head, csrHead, poll, msg_counter>>
  BY Zenon, <1>1
<1>2. ASSUME NEW t \in Threads, NEW l \in Locks, NEW q \in Quotas,
             PollBegin(t, l, q)
      PROVE  IrqInv'
  BY Zenon, <1>2 DEF PollBegin, MayPoll
<1>3. ASSUME NEW t \in Threads, PollCallback(t) PROVE IrqInv'
  BY Zenon, <1>3 DEF PollCallback, rxVars
<1>4. ASSUME NEW t \in Threads, PollMark(t) PROVE IrqInv'
  BY <1>4 DEF PollMark
<1>5. ASSUME NEW t \in Threads, PollNothing(t) PROVE IrqInv'
  BY <1>5 DEF PollNothing, PollReturn
<1>6. ASSUME NEW t \in Threads, PollUncount(t) PROVE IrqInv'
  BY Zenon, <1>6 DEF PollUncount, rxVars
<1>7. ASSUME NEW t \in Threads, PollPublish(t) PROVE IrqInv'
  BY Zenon, <1>7 DEF PollPublish, WritesHead
<1>8. QED
  BY <1>1, <1>2, <1>3, <1>4, <1>5, <1>6, <1>7, ZenonT(60)
     DEF Next, PutReserve, PutStep, PutRetry, PutWrite, PollMiss, PollStep,
         DevFetch, DevRespond, vars, rxVars, pollVars

\* With interrupts adf_user_notify_msgs_poll puts off no head write: once no
\* thread polls, the device sees the head of the ring.
THEOREM IrqHeadWritten == Spec => []IrqHeadCurrent
<1>1. Init => IrqInv
  BY Zenon DEF Init, IrqInv
<1>2. IrqInv => IrqHeadCurrent
  BY Zenon DEF IrqInv, IrqHeadCurrent, Polling
<1>3. QED
  BY <1>1, <1>2, NextIrqInv, Invariance, PTL DEF Spec

\* adf_user_put_msg never writes over a request that was not fetched.
THEOREM RequestsNotOverwritten == Spec => RequestsKept
<1>1. IInv /\ [Next]_vars => [csrTail' # csrTail => unfetched' = unfetched + 1]_vars
  <2> SUFFICES ASSUME IInv, Next, csrTail' # csrTail
               PROVE  unfetched' = unfetched + 1
    BY Zenon DEF vars
  <2>1. PICK t \in Threads : PutWrite(t)
    BY Zenon DEF Next, PutReserve, PutStep, PutRetry, PollBegin, PollMiss, PollStep,
       PollCallback, PollMark, PollNothing, PollUncount, PollPublish, DevFetch,
       DevRespond, txVars
  <2>2. QED
    BY Zenon, <2>1, PutWriteIInv
<1>2. QED
  BY <1>1, Invariance, PTL DEF Spec, RequestsKept

\* Neither the device nor a poll takes away a response before its callback.
THEOREM ResponsesNotOverwritten == Spec => ResponsesKept
<1> DEFINE Kept == \A i \in RxIndices : rx'[i] # rx[i] =>
                     \/ rx[i] = Empty
                     \/ rx'[i] = Empty /\ i = head /\ InCallback(i)
<1>1. IInv /\ [Next]_vars => [Kept]_vars
  <2> SUFFICES ASSUME IInv, Next PROVE Kept
    BY Zenon DEF vars
  <2>1. CASE rx' = rx
    BY Zenon, <2>1
  <2>2. ASSUME NEW t \in Threads, PollMark(t) PROVE Kept
    BY Zenon, <2>2 DEF PollMark, IInv, TypeOK, PollInv, Polling, InCallback
  <2>3. ASSUME NEW m \in Msgs, DevRespond(m) PROVE Kept
    <3>1. rx[devTail] = Empty
      BY Zenon, <2>3, DevRespondIInv
    <3>2. QED
      BY Zenon, <2>3, <3>1 DEF DevRespond, IInv, TypeOK
  <2>4. QED
    BY Zenon, <2>1, <2>2, <2>3
       DEF Next, PutReserve, PutStep, PutRetry, PutWrite, PollBegin, PollMiss,
           PollStep, PollCallback, PollNothing, PollUncount, PollPublish,
           DevFetch, rxVars
<1>2. QED
  BY <1>1, Invariance, PTL DEF Spec, ResponsesKept

-----------------------------------------------------------------------------
(* Where each request is: in_flight is exact, and a ring pair implements   *)
(* RequestService.                                                         *)

\* The slots with a request to fetch, and those with a response whose callback
\* has not begun.
txHeld == {k \in TxIndices : Distance(devHead, k, TxSlots) < unfetched}
rxHeld == {k \in RxIndices : Distance(head, k, RxSlots) < unread /\ ~InCallback(k)}

\* The requests in them.
txMsgs == {tx[k] : k \in txHeld}
rxMsgs == {rx[k] : k \in rxHeld}

\* No request is in two slots, and none is in a ring and the device.
PlaceInv ==
  /\ \A i, j \in txHeld : tx[i] = tx[j] => i = j
  /\ \A i, j \in rxHeld : rx[i] = rx[j] => i = j
  /\ txMsgs \cap engine = {} /\ txMsgs \cap rxMsgs = {} /\ engine \cap rxMsgs = {}

\* The requests in some place are the accepted ones, and the one being put is
\* in use.
HeldInv ==
  /\ accepted = txMsgs \cup engine \cup rxMsgs
  /\ \A t \in Threads : put[t] # "none" => inBuf[t] \in busy

\* in_flight counts no more than FlightInv says.
ExactInv ==
  /\ \A t \in Threads :
       poll[t] \in {"loop", "callback"} => in_flight = occupied + msg_counter[t]
  /\ (\A t \in Threads : poll[t] \in {"none", "publish"}) => in_flight = occupied

JInv == PlaceInv /\ HeldInv /\ ExactInv

-----------------------------------------------------------------------------
LEMMA InitJInv == Init => JInv
<1> SUFFICES ASSUME Init PROVE JInv
  OBVIOUS
<1>1. unfetched = 0 /\ unread = 0 /\ occupied = 0
  BY FS_EmptySet DEF Init, unfetched, unread, Distance, occupied, Locks
<1>2. IInv
  BY Zenon, InitIInv
<1>3. txHeld = {} /\ rxHeld = {}
  <2>1. \A k \in TxIndices : Distance(devHead, k, TxSlots) \in 0 .. TxSlots - 1
    BY Zenon, <1>2, RingSizes, DistanceRange DEF IInv, TypeOK
  <2>2. \A k \in RxIndices : Distance(head, k, RxSlots) \in 0 .. RxSlots - 1
    BY Zenon, <1>2, RingSizes, DistanceRange DEF IInv, TypeOK
  <2>3. QED
    BY <1>1, <2>1, <2>2 DEF txHeld, rxHeld
<1>4. txMsgs = {} /\ rxMsgs = {} /\ engine = {} /\ accepted = {}
  BY Zenon, <1>3 DEF txMsgs, rxMsgs, accepted, Init
<1>5. ExactInv
  BY Zenon, <1>1 DEF Init, ExactInv
<1>6. QED
  BY Zenon, <1>3, <1>4, <1>5 DEF JInv, PlaceInv, HeldInv, Init

\* A callback runs for the response at the head.
LEMMA CallbackAtHead ==
  ASSUME IInv
  PROVE  \A k : InCallback(k) => k = head /\ rx[head] # Empty
BY Zenon DEF IInv, PollInv, Polling, InCallback

\* Only the thread with the lock of the request ring puts.
LEMMA OnePutter ==
  ASSUME IInv
  PROVE  /\ lock["tx"] = NoThread => accepted = busy
         /\ \A t \in Threads : put[t] # "none" => /\ \A u \in Threads : put[u] # "none" => u = t
                                                  /\ accepted = busy \ {inBuf[t]}
<1>1. \A t, u \in Threads : put[t] # "none" /\ put[u] # "none" => u = t
  BY Zenon DEF IInv, LockInv
<1>2. lock["tx"] = NoThread => \A t \in Threads : put[t] = "none"
  BY Zenon, RingAssumption DEF IInv, LockInv
<1>3. QED
  BY Zenon, <1>1, <1>2 DEF accepted

\* Steps that leave the request ring alone.
LEMMA SameTx ==
  ASSUME UNCHANGED <<tx, csrTail, devHead>>
  PROVE  unfetched' = unfetched /\ txHeld' = txHeld /\ txMsgs' = txMsgs
<1>1. unfetched' = unfetched
  BY Zenon DEF unfetched
<1>2. txHeld' = txHeld
  BY Zenon, <1>1 DEF txHeld
<1>3. QED
  BY Zenon, <1>1, <1>2 DEF txMsgs

\* Steps that leave the rings and the device alone.
LEMMA SamePlaces ==
  ASSUME UNCHANGED <<tx, csrTail, devHead, rx, head, devTail, engine>>,
         \A k \in RxIndices : InCallback(k)' <=> InCallback(k)
  PROVE  /\ txMsgs' = txMsgs /\ rxMsgs' = rxMsgs
         /\ unfetched' = unfetched /\ unread' = unread
         /\ PlaceInv => PlaceInv'
<1>1. unfetched' = unfetched /\ unread' = unread
  BY Zenon DEF unfetched, unread
<1>2. txHeld' = txHeld /\ rxHeld' = rxHeld
  BY Zenon, <1>1 DEF txHeld, rxHeld
<1>3. txMsgs' = txMsgs /\ rxMsgs' = rxMsgs
  BY Zenon, <1>2 DEF txMsgs, rxMsgs
<1>4. QED
  BY Zenon, <1>1, <1>2, <1>3 DEF PlaceInv

LEMMA PutReserveJInv ==
  ASSUME IInv, JInv, NEW t \in Threads, NEW m \in Msgs, PutReserve(t, m)
  PROVE  JInv' /\ accepted' = accepted
<1> USE DEF PutReserve, MayPut, txVars, rxVars, devVars, pollVars
<1>1. IInv'
  BY Zenon, PutReserveIInv
<1>2. txMsgs' = txMsgs /\ rxMsgs' = rxMsgs /\ PlaceInv'
  BY Zenon, SamePlaces DEF InCallback, JInv
<1>3. put'[t] # "none" /\ inBuf'[t] = m /\ m \notin busy /\ busy' = busy \cup {m}
  BY Zenon DEF IInv, TypeOK
<1>4. accepted = busy
  BY Zenon, OnePutter
<1>5. \A u \in Threads : put'[u] # "none" => u = t
  BY Zenon, RingAssumption DEF IInv, TypeOK, LockInv
<1>6. accepted' = accepted
  BY Zenon, <1>3, <1>4, <1>5 DEF accepted
<1>7. HeldInv'
  BY Zenon, <1>2, <1>3, <1>5, <1>6 DEF JInv, HeldInv
<1>8. occupied' = occupied + 1
  BY Counts, RingAssumption
     DEF IInv, TypeOK, occupied, unfetched, unread, Locks
<1>9. ExactInv'
  BY <1>8, Counts DEF IInv, TypeOK, JInv, ExactInv
<1>10. QED
  BY Zenon, <1>2, <1>6, <1>7, <1>9 DEF JInv

LEMMA PutRetryJInv ==
  ASSUME IInv, JInv, NEW t \in Threads, PutRetry(t)
  PROVE  JInv' /\ accepted' = accepted
<1> USE DEF PutRetry, txVars, rxVars, devVars, pollVars
<1>1. txMsgs' = txMsgs /\ rxMsgs' = rxMsgs /\ PlaceInv'
  BY Zenon, SamePlaces DEF InCallback, JInv
<1>2. \A u \in Threads : put'[u] = "none"
  BY Zenon DEF IInv, TypeOK, LockInv
<1>3. accepted' = accepted
  BY Zenon, <1>2, OnePutter DEF accepted
<1>4. HeldInv'
  BY Zenon, <1>1, <1>2, <1>3 DEF JInv, HeldInv
<1>5. occupied' = occupied - 1
  BY Counts, RingAssumption
     DEF IInv, TypeOK, LockInv, occupied, unfetched, unread, Locks
<1>6. ExactInv'
  BY <1>5, Counts DEF IInv, TypeOK, JInv, ExactInv
<1>7. QED
  BY Zenon, <1>1, <1>3, <1>4, <1>6 DEF JInv

\* The request goes into the first slot after those of the device.
LEMMA PutWriteJInv ==
  ASSUME IInv, JInv, NEW t \in Threads, PutWrite(t)
  PROVE  /\ JInv'
         /\ inBuf[t] \in Msgs \ accepted /\ accepted' = accepted \cup {inBuf[t]}
<1> USE DEF PutWrite, rxVars, devVars, pollVars
<1>1. PICK m \in Msgs : m = inBuf[t]
  BY Zenon DEF IInv, LockInv
<1>2. unfetched' = unfetched + 1
  BY Zenon, PutWriteIInv
<1>3. ASSUME NEW k \in TxIndices
      PROVE  Distance(devHead, k, TxSlots) < unfetched'
               <=> Distance(devHead, k, TxSlots) < unfetched \/ k = tail
  <2>1. devHead \in 0 .. TxSlots - 1 /\ tail \in 0 .. TxSlots - 1 /\ k \in 0 .. TxSlots - 1
    BY Zenon, RingSizes DEF IInv, TypeOK
  <2>2. Distance(devHead, k, TxSlots) \in 0 .. TxSlots - 1
    BY Zenon, <2>1, RingSizes, DistanceRange
  <2>3. Distance(devHead, k, TxSlots) = Distance(devHead, tail, TxSlots) <=> k = tail
    BY <2>1, RingSizes, DistanceRange
  <2>4. unfetched = Distance(devHead, tail, TxSlots)
    BY Zenon DEF IInv, TxInv, unfetched
  <2>5. QED
    BY <1>2, <2>2, <2>3, <2>4, RingSizes, Counts DEF IInv
<1>4. tail \in TxIndices /\ tail \notin txHeld /\ txHeld' = txHeld \cup {tail}
  <2>1. tail \in TxIndices
    BY Zenon DEF IInv, TypeOK
  <2>2. tail \notin txHeld
    BY Counts DEF IInv, TxInv, unfetched, txHeld
  <2>3. QED
    BY Zenon, <1>3, <2>1, <2>2 DEF txHeld
<1>5. tx'[tail] = m /\ \A k \in txHeld : tx'[k] = tx[k]
  BY Zenon, <1>1, <1>4 DEF IInv, TypeOK, txHeld
<1>6. txMsgs' = txMsgs \cup {m}
  BY Zenon, <1>4, <1>5 DEF txMsgs
<1>7. rxHeld' = rxHeld /\ rxMsgs' = rxMsgs
  <2>1. rxHeld' = rxHeld
    BY Zenon DEF rxHeld, unread, InCallback
  <2>2. QED
    BY Zenon, <2>1 DEF rxMsgs
<1>8. m \notin accepted /\ accepted' = accepted \cup {m}
  <2>1. \A u \in Threads : put'[u] = "none"
    BY Zenon DEF IInv, TypeOK, LockInv
  <2>2. accepted' = busy
    BY Zenon, <2>1 DEF accepted
  <2>3. accepted = busy \ {m} /\ m \in busy
    BY Zenon, <1>1, OnePutter DEF JInv, HeldInv
  <2>4. QED
    BY Zenon, <2>2, <2>3
<1>9. PlaceInv'
  <2>1. m \notin txMsgs /\ m \notin engine /\ m \notin rxMsgs
    BY Zenon, <1>8 DEF JInv, HeldInv
  <2>2. \A i, j \in txHeld' : tx'[i] = tx'[j] => i = j
    BY <1>4, <1>5, <2>1 DEF JInv, PlaceInv, txMsgs
  <2>3. QED
    BY <1>6, <1>7, <2>1, <2>2 DEF JInv, PlaceInv
<1>10. HeldInv'
  BY Zenon, <1>6, <1>7, <1>8 DEF JInv, HeldInv, IInv, TypeOK, LockInv
<1>11. occupied' = occupied
  BY <1>2, Counts, RingAssumption DEF IInv, TypeOK, LockInv, occupied, unread, Locks
<1>12. ExactInv'
  BY Zenon, <1>11 DEF JInv, ExactInv
<1>13. QED
  BY Zenon, <1>1, <1>8, <1>9, <1>10, <1>12 DEF JInv

LEMMA DevFetchJInv ==
  ASSUME IInv, JInv, DevFetch
  PROVE  JInv' /\ accepted' = accepted
<1> USE DEF DevFetch, rxVars, putVars, pollVars
<1>1. PICK h \in TxIndices : h = devHead
  BY Zenon DEF IInv, TypeOK
<1>2. PICK m : m = tx[h]
  OBVIOUS
<1>3. unfetched' = unfetched - 1
  BY Zenon, RingSizes, AdvanceStart DEF IInv, TypeOK, unfetched
<1>4. \A k \in TxIndices : Distance(devHead', k, TxSlots) < unfetched'
                             <=> Distance(devHead, k, TxSlots) < unfetched /\ k # h
  BY Zenon, <1>1, RingSizes, AdvanceStart DEF IInv, TypeOK, unfetched
<1>5. h \in txHeld /\ txHeld' = txHeld \ {h}
  <2>1. Distance(devHead, h, TxSlots) = 0 /\ unfetched # 0
    BY <1>1, RingSizes, DistanceRange DEF IInv, TypeOK, unfetched
  <2>2. QED
    BY <1>4, <2>1, Counts DEF IInv, txHeld
<1>6. \A k \in txHeld' : tx'[k] = tx[k]
  BY Zenon, <1>1, <1>5 DEF IInv, TypeOK, txHeld
<1>7. m \in txMsgs /\ txMsgs' = txMsgs \ {m}
  BY <1>2, <1>5, <1>6 DEF txMsgs, JInv, PlaceInv
<1>8. rxHeld' = rxHeld /\ rxMsgs' = rxMsgs
  <2>1. rxHeld' = rxHeld
    BY Zenon DEF rxHeld, unread, InCallback
  <2>2. QED
    BY Zenon, <2>1 DEF rxMsgs
<1>9. m \notin engine /\ m \notin rxMsgs /\ engine' = engine \cup {m}
  BY Zenon, <1>1, <1>2, <1>7 DEF JInv, PlaceInv
<1>10. PlaceInv'
  <2>1. \A i, j \in txHeld' : tx'[i] = tx'[j] => i = j
    BY <1>5, <1>6 DEF JInv, PlaceInv
  <2>2. \A i, j \in rxHeld' : rx'[i] = rx'[j] => i = j
    BY Zenon, <1>8 DEF JInv, PlaceInv
  <2>3. QED
    BY <1>7, <1>8, <1>9, <2>1, <2>2 DEF JInv, PlaceInv
<1>11. accepted' = accepted
  BY Zenon DEF accepted
<1>12. HeldInv'
  BY Zenon, <1>7, <1>8, <1>9, <1>11 DEF JInv, HeldInv
<1>13. occupied' = occupied
  <2>1. Cardinality(engine') = Cardinality(engine) + 1
    BY Zenon, <1>9, Counts, FS_AddElement DEF IInv
  <2>2. unread' = unread /\ lock' = lock
    BY Zenon DEF unread
  <2>3. QED
    BY <1>3, <2>1, <2>2, Counts DEF IInv, occupied
<1>14. ExactInv'
  BY Zenon, <1>13 DEF JInv, ExactInv
<1>15. QED
  BY Zenon, <1>10, <1>11, <1>12, <1>14 DEF JInv

LEMMA DevRespondJInv ==
  ASSUME IInv, JInv, NEW m \in Msgs, DevRespond(m)
  PROVE  JInv' /\ accepted' = accepted
<1> USE DEF DevRespond, txVars, putVars, pollVars
<1>1. PICK d \in RxIndices : d = devTail
  BY Zenon DEF IInv, TypeOK
<1>2. rx[d] = Empty /\ IInv'
  BY Zenon, <1>1, DevRespondIInv
<1>3. ASSUME NEW k \in RxIndices
      PROVE  Distance(head, k, RxSlots) < unread'
               <=> Distance(head, k, RxSlots) < unread \/ k = d
  <2>1. /\ rx[k] # Empty <=> Distance(head, k, RxSlots) < unread
        /\ rx'[k] # Empty <=> Distance(head, k, RxSlots) < unread'
    BY Zenon, <1>2 DEF IInv, RxInv
  <2>2. rx'[k] # Empty <=> rx[k] # Empty \/ k = d
    BY SMTT(30), <1>1, <1>2, RingAssumption DEF IInv, TypeOK
  <2>3. QED
    BY Zenon, <2>1, <2>2
<1>4. \A k : InCallback(k)' <=> InCallback(k)
  BY Zenon DEF InCallback
<1>5. ~InCallback(d)
  BY Zenon, <1>2, CallbackAtHead
<1>6. d \notin rxHeld /\ rxHeld' = rxHeld \cup {d}
  <2>1. d \notin rxHeld
    BY Zenon, <1>2 DEF IInv, RxInv, rxHeld
  <2>2. QED
    BY Zenon, <1>3, <1>4, <1>5, <2>1 DEF rxHeld
<1>7. rx'[d] = m /\ \A k \in rxHeld : rx'[k] = rx[k]
  BY Zenon, <1>1, <1>6 DEF IInv, TypeOK, rxHeld
<1>8. rxMsgs' = rxMsgs \cup {m}
  BY Zenon, <1>6, <1>7 DEF rxMsgs
<1>9. unfetched' = unfetched /\ txHeld' = txHeld /\ txMsgs' = txMsgs
  BY Zenon, SameTx
<1>10. m \in engine /\ m \notin txMsgs /\ m \notin rxMsgs /\ engine' = engine \ {m}
  BY Zenon DEF JInv, PlaceInv
<1>11. PlaceInv'
  <2>1. \A i, j \in rxHeld' : rx'[i] = rx'[j] => i = j
    BY <1>6, <1>7, <1>10 DEF JInv, PlaceInv, rxMsgs
  <2>2. \A i, j \in txHeld' : tx'[i] = tx'[j] => i = j
    BY Zenon, <1>9 DEF JInv, PlaceInv
  <2>3. QED
    BY <1>8, <1>9, <1>10, <2>1, <2>2 DEF JInv, PlaceInv
<1>12. accepted' = accepted
  BY Zenon DEF accepted
<1>13. HeldInv'
  BY Zenon, <1>8, <1>9, <1>10, <1>12 DEF JInv, HeldInv
<1>14. occupied' = occupied
  <2>1. unread' = unread + 1
    <3>1. PICK x \in 0 .. RxSlots - 1 : x = unread'
      BY ZenonT(30), <1>2, RingSizes, DistanceRange DEF IInv, TypeOK, unread
    <3>2. Distance(head, d, RxSlots) = unread
      BY Zenon, <1>1 DEF unread
    <3>3. unread \in 0 .. RxSlots - 1 /\ unread < x
      BY Zenon, <1>3, <3>1, <3>2, Counts DEF IInv
    <3>4. x = Distance(head, Advance(devTail, RxSlots), RxSlots)
      BY Zenon, <3>1 DEF unread
    <3>5. x <= unread + 1
      BY Zenon, <3>4, RingSizes, AdvanceEnd DEF IInv, TypeOK, unread
    <3>6. QED
      BY SMTT(30), <3>1, <3>3, <3>5, RingSizes
  <2>2. Cardinality(engine') = Cardinality(engine) - 1
    BY Zenon, <1>10, Counts, FS_RemoveElement DEF IInv
  <2>3. QED
    BY <1>9, <2>1, <2>2, Counts DEF IInv, occupied
<1>15. ExactInv'
  BY Zenon, <1>14 DEF JInv, ExactInv
<1>16. QED
  BY Zenon, <1>11, <1>12, <1>13, <1>15 DEF JInv

\* Steps of a poll that neither enter nor leave a callback.
LEMMA QuietPoll ==
  ASSUME IInv, JInv,
         UNCHANGED <<tx, csrTail, devHead, rx, head, devTail, engine, put, inBuf, busy>>,
         \A u \in Threads : poll'[u] = "callback" <=> poll[u] = "callback",
         \A u \in Threads : poll[u] = "callback" => slot'[u] = slot[u],
         lock'["tx"] = lock["tx"],
         ExactInv'
  PROVE  JInv' /\ accepted' = accepted
<1>1. \A k \in RxIndices : InCallback(k)' <=> InCallback(k)
  BY Zenon DEF InCallback
<1>2. txMsgs' = txMsgs /\ rxMsgs' = rxMsgs /\ PlaceInv'
  BY Zenon, <1>1, SamePlaces DEF JInv
<1>3. accepted' = accepted
  BY Zenon DEF accepted
<1>4. HeldInv'
  BY Zenon, <1>2, <1>3 DEF JInv, HeldInv
<1>5. QED
  BY Zenon, <1>2, <1>3, <1>4 DEF JInv

LEMMA SameOccupied ==
  ASSUME UNCHANGED <<csrTail, devHead, head, devTail, engine>>, lock'["tx"] = lock["tx"]
  PROVE  occupied' = occupied
BY Zenon DEF occupied, unfetched, unread

LEMMA PollBeginJInv ==
  ASSUME IInv, JInv, NEW t \in Threads, NEW l \in Locks, NEW q \in Quotas, PollBegin(t, l, q)
  PROVE  JInv' /\ accepted' = accepted
<1>1. /\ pollingInProgress - 1 = 0 /\ l # "tx"
      /\ lock' = [lock EXCEPT ![l] = t]
      /\ poll' = [poll EXCEPT ![t] = "loop"]
      /\ msg_counter' = [msg_counter EXCEPT ![t] = 0]
      /\ UNCHANGED <<tx, csrTail, devHead, rx, head, devTail, engine>>
      /\ UNCHANGED <<put, inBuf, busy, in_flight>>
  BY Zenon DEF PollBegin, MayPoll, DecAndTest, txVars, devVars, putVars
<1>2. /\ poll \in [Threads -> {"none", "loop", "callback", "publish"}]
      /\ msg_counter \in [Threads -> Nat] /\ lock \in [Locks -> Threads \cup {NoThread}]
      /\ pollingInProgress \in Int
  BY Zenon DEF IInv, TypeOK
<1>3. \A u \in Threads : poll[u] = "none"
  BY <1>1, <1>2 DEF IInv, PollInv, Polling
<1>4. lock'["tx"] = lock["tx"]
  BY Zenon, <1>1, <1>2 DEF Locks
<1>5. occupied' = occupied
  BY Zenon, <1>1, <1>4, SameOccupied
<1>6. \A u \in Threads : poll'[u] = (IF u = t THEN "loop" ELSE "none") /\ msg_counter'[t] = 0
  BY Zenon, <1>1, <1>2, <1>3
<1>7. ExactInv'
  <2>1. in_flight = occupied /\ occupied \in Nat
    BY Zenon, <1>3, Counts DEF IInv, JInv, ExactInv
  <2>2. QED
    BY <1>1, <1>5, <1>6, <2>1 DEF ExactInv
<1>8. QED
  BY <1>1, <1>3, <1>4, <1>6, <1>7, QuietPoll

LEMMA PollMissJInv ==
  ASSUME IInv, JInv, NEW t \in Threads, NEW l \in Locks, PollMiss(t, l)
  PROVE  JInv' /\ accepted' = accepted
<1>1. /\ UNCHANGED <<tx, csrTail, devHead, rx, head, devTail, engine, put, inBuf, busy>>
      /\ UNCHANGED <<poll, slot, lock, in_flight, msg_counter>>
  BY Zenon DEF PollMiss, txVars, devVars, putVars, pollVars
<1>2. occupied' = occupied
  BY Zenon, <1>1, SameOccupied
<1>3. ExactInv'
  BY Zenon, <1>1, <1>2 DEF JInv, ExactInv
<1>4. QED
  BY Zenon, <1>1, <1>3, QuietPoll

LEMMA PollNothingJInv ==
  ASSUME IInv, JInv, NEW t \in Threads, PollNothing(t)
  PROVE  JInv' /\ accepted' = accepted
<1>1. /\ poll[t] = "loop" /\ msg_counter[t] = 0 /\ PollReturn(t)
      /\ UNCHANGED <<tx, csrTail, devHead, rx, head, devTail, engine, put, inBuf, busy>>
      /\ in_flight' = in_flight
  BY Zenon DEF PollNothing, txVars, devVars, putVars
<1>2. \A u \in Threads : poll[u] # "callback"
  BY Zenon, <1>1 DEF IInv, PollInv, OnePoller, Polling
<1>3. (\A u \in Threads : poll'[u] = "none") /\ lock'["tx"] = lock["tx"]
  BY Zenon, <1>1, NobodyPolls DEF Polling
<1>4. occupied' = occupied
  BY Zenon, <1>1, <1>3, SameOccupied
<1>5. in_flight = occupied
  BY <1>1, Counts DEF IInv, JInv, ExactInv
<1>6. ExactInv'
  BY Zenon, <1>1, <1>3, <1>4, <1>5 DEF ExactInv
<1>7. QED
  BY Zenon, <1>1, <1>2, <1>3, <1>6, QuietPoll

LEMMA PollUncountJInv ==
  ASSUME IInv, JInv, NEW t \in Threads, PollUncount(t)
  PROVE  JInv' /\ accepted' = accepted
<1>1. /\ poll[t] = "loop" /\ poll' = [poll EXCEPT ![t] = "publish"]
      /\ in_flight' = in_flight - msg_counter[t]
      /\ UNCHANGED <<tx, csrTail, devHead, rx, head, devTail, engine, put, inBuf, busy>>
      /\ UNCHANGED <<slot, lock>>
  BY Zenon DEF PollUncount, txVars, rxVars, devVars, putVars
<1>2. /\ poll \in [Threads -> {"none", "loop", "callback", "publish"}]
      /\ msg_counter[t] \in Nat
  BY Zenon DEF IInv, TypeOK
<1>3. \A u \in Threads : poll[u] # "none" => u = t
  BY Zenon, <1>1 DEF IInv, PollInv, OnePoller, Polling
<1>4. \A u \in Threads : poll'[u] = IF u = t THEN "publish" ELSE "none"
  BY Zenon, <1>1, <1>2, <1>3
<1>5. occupied' = occupied
  BY Zenon, <1>1, SameOccupied
<1>6. in_flight' = occupied'
  <2>1. in_flight = occupied + msg_counter[t] /\ occupied \in Nat
    BY Zenon, <1>1, Counts DEF IInv, JInv, ExactInv
  <2>2. QED
    BY <1>1, <1>2, <1>5, <2>1
<1>7. ExactInv'
  BY Zenon, <1>4, <1>6 DEF ExactInv
<1>8. \A u \in Threads : poll'[u] # "callback" /\ poll[u] # "callback"
  BY <1>1, <1>3, <1>4
<1>9. QED
  BY Zenon, <1>1, <1>7, <1>8, QuietPoll

LEMMA PollPublishJInv ==
  ASSUME IInv, JInv, NEW t \in Threads, PollPublish(t)
  PROVE  JInv' /\ accepted' = accepted
<1>1. poll[t] = "publish" /\ PollReturn(t)
      /\ UNCHANGED <<tx, csrTail, devHead, rx, head, devTail, engine, put, inBuf, busy, in_flight>>
  BY Zenon DEF PollPublish, txVars, devVars, putVars
<1>2. /\ \A u \in Threads : poll'[u] = "none" /\ poll[u] \in {"none", "publish"}
      /\ lock'["tx"] = lock["tx"]
  BY Zenon, <1>1, NobodyPolls DEF IInv, PollInv, OnePoller, Polling
<1>3. occupied' = occupied
  BY Zenon, <1>1, <1>2, SameOccupied
<1>4. in_flight = occupied
  BY Zenon, <1>2 DEF JInv, ExactInv
<1>5. ExactInv'
  BY Zenon, <1>1, <1>2, <1>3, <1>4 DEF ExactInv
<1>6. \A u \in Threads : poll'[u] # "callback" /\ poll[u] # "callback"
  BY Zenon, <1>2
<1>7. QED
  BY Zenon, <1>1, <1>2, <1>5, <1>6, QuietPoll

\* The callback gets an accepted request, and ends it.
LEMMA PollCallbackJInv ==
  ASSUME IInv, JInv, NEW t \in Threads, PollCallback(t)
  PROVE  /\ JInv'
         /\ rx[slot[t]] \in Msgs \cap accepted /\ accepted' = accepted \ {rx[slot[t]]}
<1>1. /\ poll[t] = "loop" /\ rx[slot[t]] # Empty
      /\ poll' = [poll EXCEPT ![t] = "callback"]
      /\ busy' = busy \ {rx[slot[t]]}
      /\ UNCHANGED <<tx, csrTail, devHead, rx, head, devTail, engine>>
      /\ UNCHANGED <<put, inBuf, slot, msg_counter, lock, in_flight>>
  BY Zenon DEF PollCallback, MoreToRead, txVars, rxVars, devVars, putVars
<1>2. slot[t] = head /\ \A u \in Threads : poll[u] # "none" => u = t
  BY Zenon, <1>1 DEF IInv, PollInv, OnePoller, Polling
<1>3. /\ head \in RxIndices /\ rx \in [RxIndices -> Msgs \cup {Empty}]
      /\ poll \in [Threads -> {"none", "loop", "callback", "publish"}]
  BY Zenon DEF IInv, TypeOK
<1>4. PICK h \in RxIndices : h = head /\ h = slot[t]
  BY Zenon, <1>2, <1>3
<1>5. PICK m \in Msgs : m = rx[h]
  BY Zenon, <1>1, <1>3, <1>4
<1>6. \A k : ~InCallback(k)
  BY Zenon, <1>1, <1>2 DEF InCallback
<1>7. \A k : InCallback(k)' <=> k = h
  <2>1. \A u \in Threads : poll'[u] = "callback" <=> u = t
    BY Zenon, <1>1, <1>2, <1>3
  <2>2. QED
    BY Zenon, <1>1, <1>4, <2>1 DEF InCallback
<1>8. h \in rxHeld /\ rxHeld' = rxHeld \ {h}
  <2>1. unread' = unread
    BY Zenon, <1>1 DEF unread
  <2>2. Distance(head, h, RxSlots) < unread
    BY Zenon, <1>1, <1>4 DEF IInv, RxInv
  <2>3. QED
    BY Zenon, <1>1, <1>6, <1>7, <2>1, <2>2 DEF rxHeld
<1>9. m \in rxMsgs /\ rxMsgs' = rxMsgs \ {m}
  <2>1. \A k \in rxHeld : rx[k] = m <=> k = h
    BY Zenon, <1>5, <1>8 DEF JInv, PlaceInv
  <2>2. QED
    BY Zenon, <1>1, <1>8, <2>1 DEF rxMsgs
<1>10. txHeld' = txHeld /\ txMsgs' = txMsgs
  BY Zenon, <1>1, SameTx
<1>11. m \notin txMsgs /\ m \notin engine /\ m \in accepted
  BY Zenon, <1>9 DEF JInv, PlaceInv, HeldInv
<1>12. busy' = busy \ {m} /\ accepted' = accepted \ {m}
  BY Zenon, <1>1, <1>4, <1>5 DEF accepted
<1>13. PlaceInv'
  BY Zenon, <1>1, <1>8, <1>9, <1>10 DEF JInv, PlaceInv
<1>14. HeldInv'
  <2>1. \A u \in Threads : put[u] # "none" => inBuf[u] # m
    BY Zenon, <1>11 DEF accepted
  <2>2. QED
    BY Zenon, <1>1, <1>9, <1>10, <1>11, <1>12, <2>1 DEF JInv, HeldInv
<1>15. occupied' = occupied
  BY Zenon, <1>1, SameOccupied
<1>16. ExactInv'
  BY Zenon, <1>1, <1>3, <1>15 DEF JInv, ExactInv
<1>17. QED
  BY Zenon, <1>4, <1>5, <1>11, <1>12, <1>13, <1>14, <1>16 DEF JInv

\* The slot that is given back held nothing any more.
LEMMA PollMarkJInv ==
  ASSUME IInv, JInv, NEW t \in Threads, PollMark(t)
  PROVE  JInv' /\ accepted' = accepted
<1>1. /\ poll[t] = "callback"
      /\ poll' = [poll EXCEPT ![t] = "loop"]
      /\ rx' = [rx EXCEPT ![slot[t]] = Empty]
      /\ head' = Advance(head, RxSlots)
      /\ msg_counter' = [msg_counter EXCEPT ![t] = msg_counter[t] + 1]
      /\ UNCHANGED <<tx, csrTail, devHead, devTail, engine>>
      /\ UNCHANGED <<put, inBuf, lock, busy, in_flight>>
  BY Zenon DEF PollMark, txVars, devVars, putVars
<1>2. slot[t] = head /\ \A u \in Threads : poll[u] # "none" => u = t
  BY Zenon, <1>1 DEF IInv, PollInv, OnePoller, Polling
<1>3. /\ head \in RxIndices /\ devTail \in RxIndices
      /\ rx \in [RxIndices -> Msgs \cup {Empty}]
      /\ poll \in [Threads -> {"none", "loop", "callback", "publish"}]
      /\ msg_counter \in [Threads -> Nat]
  BY Zenon DEF IInv, TypeOK
<1>4. PICK h \in RxIndices : h = head /\ h = slot[t]
  BY Zenon, <1>2, <1>3
<1>5. h # devTail
  <2>1. rx[head] # Empty
    BY Zenon, <1>1 DEF IInv, PollInv
  <2>2. Distance(head, head, RxSlots) < unread
    BY Zenon, <1>3, <2>1 DEF IInv, RxInv
  <2>3. Distance(head, head, RxSlots) = 0
    BY Zenon, <1>3, RingSizes, DistanceRange
  <2>4. QED
    BY <1>4, <2>2, <2>3 DEF unread
<1>6. unread' = unread - 1
  BY Zenon, <1>1, <1>3, <1>4, <1>5, RingSizes, AdvanceStart DEF unread
<1>7. \A k \in RxIndices : Distance(head', k, RxSlots) < unread'
                             <=> Distance(head, k, RxSlots) < unread /\ k # h
  BY Zenon, <1>1, <1>3, <1>4, <1>5, RingSizes, AdvanceStart DEF unread
<1>8. \A u \in Threads : poll'[u] = IF u = t THEN "loop" ELSE "none"
  BY Zenon, <1>1, <1>2, <1>3
<1>9. \A k : ~InCallback(k)'
  BY Zenon, <1>8 DEF InCallback
<1>10. \A k \in RxIndices : InCallback(k) <=> k = h
  BY Zenon, <1>1, <1>4, CallbackAtHead DEF InCallback
<1>11. rxHeld' = rxHeld
  BY Zenon, <1>7, <1>9, <1>10 DEF rxHeld
<1>12. \A k \in rxHeld : rx'[k] = rx[k]
  BY Zenon, <1>1, <1>3, <1>4, <1>10 DEF rxHeld
<1>13. rxMsgs' = rxMsgs
  BY Zenon, <1>11, <1>12 DEF rxMsgs
<1>14. unfetched' = unfetched /\ txHeld' = txHeld /\ txMsgs' = txMsgs
  BY Zenon, <1>1, SameTx
<1>15. PlaceInv'
  BY <1>1, <1>11, <1>12, <1>13, <1>14 DEF JInv, PlaceInv
<1>16. accepted' = accepted
  BY Zenon, <1>1 DEF accepted
<1>17. HeldInv'
  BY Zenon, <1>1, <1>13, <1>14, <1>16 DEF JInv, HeldInv
<1>18. occupied' = occupied - 1
  <2>1. unfetched \in Nat /\ Cardinality(engine) \in Nat /\ unread \in Nat
    BY Counts, RingSizes DEF IInv
  <2>2. QED
    BY <1>1, <1>6, <1>14, <2>1 DEF occupied
<1>19. ExactInv'
  <2>1. in_flight = occupied + msg_counter[t] /\ occupied \in Nat
    BY Zenon, <1>1, Counts DEF IInv, JInv, ExactInv
  <2>2. in_flight' = occupied' + msg_counter'[t]
    BY <1>1, <1>3, <1>18, <2>1
  <2>3. QED
    BY Zenon, <1>8, <2>2 DEF ExactInv
<1>20. QED
  BY Zenon, <1>15, <1>16, <1>17, <1>19 DEF JInv

-----------------------------------------------------------------------------
(* The requests a ring pair holds are no more than in_flight.              *)

\* A stretch of d slots of a ring has no more than d of them.
LEMMA SpanSize ==
  ASSUME NEW n \in Nat \ {0}, NEW i \in 0 .. n - 1, NEW d \in 0 .. n - 1,
         NEW S, S \subseteq {k \in 0 .. n - 1 : Distance(i, k, n) < d}
  PROVE  IsFiniteSet(S) /\ Cardinality(S) <= d
<1> DEFINE f == [k \in S |-> Distance(i, k, n)]
<1>1. ASSUME NEW k \in S
      PROVE  Distance(i, k, n) \in 0 .. d - 1
  <2>1. k \in 0 .. n - 1 /\ Distance(i, k, n) < d
    OBVIOUS
  <2>2. Distance(i, k, n) \in 0 .. n - 1
    BY Zenon, <2>1, DistanceRange
  <2>3. QED
    BY <2>1, <2>2
<1>2. ASSUME NEW j \in S, NEW k \in S, Distance(i, j, n) = Distance(i, k, n)
      PROVE  j = k
  BY <1>2, DistanceRange
<1>3. f \in Injection(S, 0 .. d - 1)
  BY Zenon, <1>1, <1>2 DEF Injection, IsInjective
<1>4. IsFiniteSet(0 .. d - 1) /\ Cardinality(0 .. d - 1) = d
  <2>1. 0 \in Int /\ d - 1 \in Int
    OBVIOUS
  <2>2. IsFiniteSet(0 .. d - 1)
        /\ Cardinality(0 .. d - 1) = IF 0 > d - 1 THEN 0 ELSE d - 1 - 0 + 1
    BY Zenon, <2>1, FS_Interval
  <2>3. QED
    BY <2>2
<1> HIDE DEF f
<1>5. QED
  BY <1>3, <1>4, FS_Injection

\* An image has no more elements.
LEMMA ImageSize ==
  ASSUME NEW S, IsFiniteSet(S), NEW f
  PROVE  /\ IsFiniteSet({f[k] : k \in S})
         /\ Cardinality({f[k] : k \in S}) <= Cardinality(S)
<1> DEFINE T == {f[k] : k \in S}
           g == [k \in S |-> f[k]]
<1>1. g \in Surjection(S, T)
  BY Zenon DEF Surjection
<1> HIDE DEF g, T
<1>2. IsFiniteSet(T) /\ Cardinality(T) <= Cardinality(S)
  BY Zenon, <1>1, FS_Surjection
<1>3. QED
  BY Zenon, <1>2 DEF T

LEMMA UnionSize ==
  ASSUME NEW S, NEW T, IsFiniteSet(S), IsFiniteSet(T)
  PROVE  IsFiniteSet(S \cup T) /\ Cardinality(S \cup T) <= Cardinality(S) + Cardinality(T)
<1>1. Cardinality(S) \in Nat /\ Cardinality(T) \in Nat
  BY Zenon, FS_CardinalityType
<1>2. IsFiniteSet(S \cap T) /\ Cardinality(S \cap T) \in Nat
  BY Zenon, FS_Intersection, FS_CardinalityType
<1>3. /\ IsFiniteSet(S \cup T)
      /\ Cardinality(S \cup T) = Cardinality(S) + Cardinality(T) - Cardinality(S \cap T)
  BY Zenon, FS_Union
<1>4. QED
  BY <1>1, <1>2, <1>3

LEMMA AcceptedSize ==
  ASSUME IInv, JInv
  PROVE  /\ IsFiniteSet(accepted) /\ Cardinality(accepted) \in Nat
         /\ Cardinality(accepted) <= unfetched + Cardinality(engine) + unread
<1>1. /\ unfetched \in 0 .. TxSlots - 1 /\ unread \in 0 .. RxSlots - 1
      /\ IsFiniteSet(engine) /\ Cardinality(engine) \in Nat
      /\ devHead \in 0 .. TxSlots - 1 /\ head \in 0 .. RxSlots - 1
  BY Zenon, RingSizes, Counts DEF IInv, TypeOK
<1>2. IsFiniteSet(txHeld) /\ Cardinality(txHeld) <= unfetched
  <2>1. txHeld \subseteq {k \in 0 .. TxSlots - 1 : Distance(devHead, k, TxSlots) < unfetched}
    BY Zenon, RingSizes DEF txHeld
  <2>2. QED
    BY Zenon, <1>1, <2>1, RingSizes, SpanSize
<1>3. IsFiniteSet(rxHeld) /\ Cardinality(rxHeld) <= unread
  <2>1. rxHeld \subseteq {k \in 0 .. RxSlots - 1 : Distance(head, k, RxSlots) < unread}
    BY Zenon, RingSizes DEF rxHeld
  <2>2. QED
    BY Zenon, <1>1, <2>1, RingSizes, SpanSize
<1>4. IsFiniteSet(txMsgs) /\ Cardinality(txMsgs) <= Cardinality(txHeld)
  BY Zenon, <1>2, ImageSize DEF txMsgs
<1>5. IsFiniteSet(rxMsgs) /\ Cardinality(rxMsgs) <= Cardinality(rxHeld)
  BY Zenon, <1>3, ImageSize DEF rxMsgs
<1>6. /\ IsFiniteSet(txMsgs \cup engine)
      /\ Cardinality(txMsgs \cup engine) <= Cardinality(txMsgs) + Cardinality(engine)
  BY Zenon, <1>1, <1>4, UnionSize
<1>7. /\ IsFiniteSet(accepted)
      /\ Cardinality(accepted) <= Cardinality(txMsgs \cup engine) + Cardinality(rxMsgs)
  <2>1. accepted = (txMsgs \cup engine) \cup rxMsgs
    BY Zenon DEF JInv, HeldInv
  <2>2. QED
    BY Zenon, <1>5, <1>6, <2>1, UnionSize
<1>8. /\ Cardinality(txHeld) \in Nat /\ Cardinality(rxHeld) \in Nat
      /\ Cardinality(txMsgs) \in Nat /\ Cardinality(rxMsgs) \in Nat
      /\ Cardinality(txMsgs \cup engine) \in Nat /\ Cardinality(accepted) \in Nat
  BY <1>2, <1>3, <1>4, <1>5, <1>6, <1>7, FS_CardinalityType
<1>9. QED
  BY SMTT(30), <1>1, <1>2, <1>3, <1>4, <1>5, <1>6, <1>7, <1>8

\* The test against max_requests_inflight bounds what a ring pair accepts.
LEMMA RoomToAccept ==
  ASSUME IInv, JInv, NEW t \in Threads, put[t] = "write"
  PROVE  Cardinality(accepted) < max_requests_inflight
<1>1. in_flight >= occupied /\ in_flight <= max_requests_inflight /\ in_flight \in Int
  BY Zenon DEF IInv, TypeOK, FlightInv
<1>2. lock["tx"] # NoThread
  BY Zenon, RingAssumption DEF IInv, LockInv
<1>3. unfetched + Cardinality(engine) + unread + 1 = occupied
  BY Zenon, <1>2 DEF occupied
<1>4. /\ unfetched \in Nat /\ Cardinality(engine) \in Nat /\ unread \in Nat
  BY Counts, RingSizes DEF IInv
<1>5. QED
  BY SMTT(30), <1>1, <1>3, <1>4, AcceptedSize, RingAssumption

-----------------------------------------------------------------------------
(* The steps of RequestService.                                            *)

LEMMA NextJInv ==
  ASSUME IInv, JInv, [Next]_vars
  PROVE  JInv' /\ [Service!Next]_accepted
<1>1. CASE UNCHANGED vars
  <2>1. /\ UNCHANGED <<tx, csrTail, devHead, rx, head, devTail, engine, put, inBuf, busy>>
        /\ UNCHANGED <<poll, slot, lock, in_flight, msg_counter>>
    BY Zenon, <1>1 DEF vars, txVars, rxVars, devVars, putVars, pollVars
  <2>2. occupied' = occupied
    BY Zenon, <2>1, SameOccupied
  <2>3. ExactInv'
    BY Zenon, <2>1, <2>2 DEF JInv, ExactInv
  <2>4. QED
    BY Zenon, <2>1, <2>3, QuietPoll
<1>2. ASSUME NEW t \in Threads, NEW m \in Msgs, PutReserve(t, m)
      PROVE  JInv' /\ accepted' = accepted
  BY Zenon, <1>2, PutReserveJInv
<1>3. ASSUME NEW t \in Threads, PutRetry(t)
      PROVE  JInv' /\ accepted' = accepted
  BY Zenon, <1>3, PutRetryJInv
<1>4. ASSUME NEW t \in Threads, PutWrite(t)
      PROVE  JInv' /\ Service!Next
  <2>1. Cardinality(accepted) < max_requests_inflight
    BY Zenon, <1>4, RoomToAccept DEF PutWrite
  <2>2. /\ JInv' /\ inBuf[t] \in Msgs /\ inBuf[t] \notin accepted
        /\ accepted' = accepted \cup {inBuf[t]}
    BY Zenon, <1>4, PutWriteJInv
  <2>3. Service!Cardinality(accepted) = Cardinality(accepted)
    BY Zenon DEF Service!Cardinality, Cardinality
  <2>4. Service!Accept(inBuf[t])
    BY Zenon, <2>1, <2>2, <2>3 DEF Service!Accept
  <2>5. QED
    BY Zenon, <2>2, <2>4 DEF Service!Next
<1>5. ASSUME NEW t \in Threads, NEW l \in Locks, NEW q \in Quotas, PollBegin(t, l, q)
      PROVE  JInv' /\ accepted' = accepted
  BY Zenon, <1>5, PollBeginJInv
<1>6. ASSUME NEW t \in Threads, NEW l \in Locks, PollMiss(t, l)
      PROVE  JInv' /\ accepted' = accepted
  BY Zenon, <1>6, PollMissJInv
<1>7. ASSUME NEW t \in Threads, PollCallback(t)
      PROVE  JInv' /\ Service!Next
  <2>1. /\ JInv' /\ rx[slot[t]] \in Msgs /\ rx[slot[t]] \in accepted
        /\ accepted' = accepted \ {rx[slot[t]]}
    BY Zenon, <1>7, PollCallbackJInv
  <2>2. Service!Answer(rx[slot[t]])
    BY Zenon, <2>1 DEF Service!Answer
  <2>3. QED
    BY Zenon, <2>1, <2>2 DEF Service!Next
<1>8. ASSUME NEW t \in Threads,
             PollMark(t) \/ PollNothing(t) \/ PollUncount(t) \/ PollPublish(t)
      PROVE  JInv' /\ accepted' = accepted
  BY Zenon, <1>8, PollMarkJInv, PollNothingJInv, PollUncountJInv, PollPublishJInv
<1>9. ASSUME DevFetch \/ \E m \in Msgs : DevRespond(m)
      PROVE  JInv' /\ accepted' = accepted
  BY Zenon, <1>9, DevFetchJInv, DevRespondJInv
<1>10. QED
  BY SMTT(30), <1>1, <1>2, <1>3, <1>4, <1>5, <1>6, <1>7, <1>8, <1>9 DEF Next, PutStep, PollStep

-----------------------------------------------------------------------------
(* The theorems.                                                           *)

\* Every step of the threads and the device keeps each request in one place.
THEOREM PlacesInvariance == Spec => []JInv
<1>1. Init => JInv
  BY Zenon, InitJInv
<1>2. IInv /\ JInv /\ [Next]_vars => JInv'
  BY Zenon, NextJInv
<1>3. QED
  BY <1>1, <1>2, Invariance, PTL DEF Spec

LEMMA OneHolder ==
  ASSUME IInv, JInv, NEW m \in Msgs
  PROVE  Cardinality(Holders(m)) = IF m \in accepted THEN 1 ELSE 0
<1> DEFINE A == {<<"tx", i>> : i \in {k \in Span(devHead, csrTail, TxSlots) : tx[k] = m}}
           B == {<<"engine", 0>> : e \in engine \cap {m}}
           C == {<<"rx", i>> : i \in {k \in Span(head, devTail, RxSlots) :
                                        rx[k] = m /\ ~InCallback(k)}}
<1>1. Holders(m) = A \cup B \cup C
  BY Zenon DEF Holders
<1>2. A = {<<"tx", i>> : i \in {k \in txHeld : tx[k] = m}}
  BY Zenon, RingSizes DEF Span, txHeld, unfetched
<1>3. C = {<<"rx", i>> : i \in {k \in rxHeld : rx[k] = m}}
  BY Zenon, RingSizes DEF Span, rxHeld, unread
<1>4. m \notin txMsgs => A = {}
  BY Zenon, <1>2 DEF txMsgs
<1>5. m \notin engine => B = {}
  BY Zenon
<1>6. m \notin rxMsgs => C = {}
  BY Zenon, <1>3 DEF rxMsgs
<1>7. ASSUME m \in txMsgs
      PROVE  \E x : A \cup B \cup C = {x}
  <2>1. B = {} /\ C = {}
    BY Zenon, <1>5, <1>6, <1>7 DEF JInv, PlaceInv
  <2>2. PICK i \in txHeld : tx[i] = m
    BY Zenon, <1>7 DEF txMsgs
  <2>3. {k \in txHeld : tx[k] = m} = {i}
    BY Zenon, <2>2 DEF JInv, PlaceInv
  <2>4. A = {<<"tx", i>>}
    BY Zenon, <1>2, <2>3
  <2>5. QED
    BY Zenon, <2>1, <2>4
<1>8. ASSUME m \in engine
      PROVE  \E x : A \cup B \cup C = {x}
  <2>1. A = {} /\ C = {}
    BY Zenon, <1>4, <1>6, <1>8 DEF JInv, PlaceInv
  <2>2. B = {<<"engine", 0>>}
    BY Zenon, <1>8
  <2>3. QED
    BY Zenon, <2>1, <2>2
<1>9. ASSUME m \in rxMsgs
      PROVE  \E x : A \cup B \cup C = {x}
  <2>1. A = {} /\ B = {}
    BY Zenon, <1>4, <1>5, <1>9 DEF JInv, PlaceInv
  <2>2. PICK i \in rxHeld : rx[i] = m
    BY <1>9 DEF rxMsgs
  <2>3. {k \in rxHeld : rx[k] = m} = {i}
    BY Zenon, <2>2 DEF JInv, PlaceInv
  <2>4. C = {<<"rx", i>>}
    BY Zenon, <1>3, <2>3
  <2>5. QED
    BY Zenon, <2>1, <2>4
<1>10. m \in accepted <=> m \in txMsgs \/ m \in engine \/ m \in rxMsgs
  BY Zenon DEF JInv, HeldInv
<1> HIDE DEF A, B, C
<1>11. CASE m \in accepted
  <2>1. PICK x : Holders(m) = {x}
    BY Zenon, <1>1, <1>7, <1>8, <1>9, <1>10, <1>11
  <2>2. QED
    BY <1>11, <2>1, FS_Singleton
<1>12. CASE m \notin accepted
  <2>1. Holders(m) = {}
    BY Zenon, <1>1, <1>4, <1>5, <1>6, <1>10, <1>12
  <2>2. QED
    BY Zenon, <1>12, <2>1, FS_EmptySet
<1>13. QED
  BY Zenon, <1>11, <1>12

\* in_flight is exact for any number of threads, requests and slots, and every
\* accepted request is in one slot or in the device: neither lost nor
\* duplicated between adf_user_put_msg and its callback.
THEOREM InFlightCounts == Spec => []InFlightExact
<1>1. IInv /\ JInv => InFlightExact
  <2> SUFFICES ASSUME IInv, JInv PROVE InFlightExact
    OBVIOUS
  <2>1. \A m \in Msgs : Cardinality(Holders(m)) = IF m \in accepted THEN 1 ELSE 0
    BY Zenon, OneHolder
  <2>2. QED
    BY Zenon, <2>1 DEF JInv, ExactInv, InFlightExact, occupied
<1>2. QED
  BY <1>1, Invariance, PlacesInvariance, PTL

\* A ring pair implements RequestService: it accepts no request twice and at
\* most max_requests_inflight of them, and each leaves by one callback.
THEOREM ImplementsService == Spec => ServiceSpec
<1>1. Init => Service!Init
  BY Zenon DEF Init, Service!Init, accepted
<1>2. IInv /\ JInv /\ [Next]_vars => [Service!Next]_accepted
  BY Zenon, NextJInv
<1>3. QED
  BY <1>1, <1>2, Invariance, PlacesInvariance, PTL DEF Spec, ServiceSpec, Service!Spec
=============================================================================
