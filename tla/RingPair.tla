------------------------------ MODULE RingPair ------------------------------
(***************************************************************************)
(* A request ring and its response ring, the transport below every SAL     *)
(* service (adf_user_ring.c, adf_user_transport_ctrl.c).  Application      *)
(* threads put requests (icp_adf_transPutMsg -> adf_user_put_msg) and poll *)
(* for responses (icp_adf_pollInstance, icp_adf_pollBank -> adf_pollRing   *)
(* -> adf_user_notify_msgs_poll); the device fetches requests up to the    *)
(* tail CSR and writes responses as long as the head CSR leaves it room.   *)
(* The two rings share one in_flight counter.                              *)
(*                                                                         *)
(* Offsets are counted in messages, not bytes.  A message is the cookie of *)
(* the request, which the response carries back.  A callback may put new   *)
(* requests from inside the poll loop.                                     *)
(***************************************************************************)
EXTENDS Integers, FiniteSets

CONSTANTS
  Threads,                    \* application threads
  Msgs,                       \* request cookies
  TxSlots,                    \* ring_size / message_size of the request ring
  RxSlots,                    \* the same of the response ring
  max_requests_inflight,      \* num_msgs - 1
  min_resps_per_head_write,   \* head writes are coalesced up to this many
  Quotas,                     \* response quotas a poll may be called with
  ICP_NO_RESPONSE_QUOTA,      \* stands for a quota of 0
  resp,                       \* ICP_RESP_TYPE_POLL or ICP_RESP_TYPE_IRQ
  SendSeqModulus,             \* 2^64, the width of send_seq
  MaxMissedPolls,             \* bound on failed polls while a ring is polled
  NoThread,                   \* a lock that is free
  Empty                       \* EMPTY_RING_SIG_WORD

ASSUME RingAssumption ==
  /\ TxSlots \in Nat /\ RxSlots \in Nat
  /\ max_requests_inflight \in Nat \ {0}
  /\ max_requests_inflight < TxSlots
  /\ min_resps_per_head_write \in Nat
  /\ min_resps_per_head_write <= RxSlots \div 2
  /\ RxSlots > 3
  /\ ICP_NO_RESPONSE_QUOTA \in Nat \ {0}
  /\ Quotas \subseteq Nat
  /\ resp \in {"ICP_RESP_TYPE_POLL", "ICP_RESP_TYPE_IRQ"}
  /\ SendSeqModulus \in Nat \ {0}
  /\ MaxMissedPolls \in Nat
  /\ NoThread \notin Threads
  /\ Empty \notin Msgs
  /\ IsFiniteSet(Msgs)

VARIABLES
  \* request ring
  tx, tail, csrTail, send_seq,
  \* response ring
  rx, head, csrHead, coal_write_count, pollingInProgress, ringResponseQuota,
  \* shared by the pair
  in_flight,
  \* device: next request to fetch, next response slot, requests being served
  devHead, devTail, engine,
  \* threads: step of a put, step of a poll, and their locals
  put, inBuf, poll, slot, msg_counter,
  \* user_lock of each ring and user_bank_lock
  lock,
  \* cookies in use by the client: taken before the put, freed in the callback
  busy

txVars   == <<tx, tail, csrTail, send_seq>>
rxVars   == <<rx, head, csrHead, coal_write_count, pollingInProgress,
              ringResponseQuota>>
devVars  == <<devHead, devTail, engine>>
putVars  == <<put, inBuf>>
pollVars == <<poll, slot, msg_counter>>
vars     == <<txVars, rxVars, in_flight, devVars, putVars, pollVars, lock, busy>>

Locks     == {"tx", "rx", "bank"}
TxIndices == 0 .. TxSlots - 1
RxIndices == 0 .. RxSlots - 1

\* modulo(offset + message_size): the ring sizes are powers of two.
Advance(i, n) == (i + 1) % n

\* Number of slots from i up to j, going round a ring of n slots.
Distance(i, j, n) == IF i <= j THEN j - i ELSE j + n - i

unfetched == Distance(devHead, csrTail, TxSlots)
unread    == Distance(head, devTail, RxSlots)
headLag   == Distance(csrHead, head, RxSlots)

-----------------------------------------------------------------------------
\* adf_init_ring_internal and adf_populate_ring_info_internal.
Init ==
  /\ tx = [i \in TxIndices |-> Empty]
  /\ rx = [i \in RxIndices |-> Empty]
  /\ tail = 0 /\ csrTail = 0 /\ send_seq = 0
  /\ head = 0 /\ csrHead = 0
  /\ coal_write_count = 0
  /\ pollingInProgress = 1
  /\ ringResponseQuota = 0
  /\ in_flight = 0
  /\ devHead = 0 /\ devTail = 0 /\ engine = {}
  /\ put = [t \in Threads |-> "none"]
  /\ inBuf = [t \in Threads |-> Empty]
  /\ poll = [t \in Threads |-> "none"]
  /\ slot = [t \in Threads |-> 0]
  /\ msg_counter = [t \in Threads |-> 0]
  /\ lock = [l \in Locks |-> NoThread]
  /\ busy = {}

-----------------------------------------------------------------------------
(* adf_user_put_msg.  A thread puts outside of a poll, or from a callback. *)

MayPut(t) == put[t] = "none" /\ poll[t] \in {"none", "callback"}

\* Mutant: the ring takes one request more than it has slots to spare.
HasRoomOffByOne(flight) == flight <= max_requests_inflight + 1

\* Does the ring have room once in_flight counts this request too?
HasRoom(flight) == flight <= max_requests_inflight

\* Take the ring's lock and count the request.
PutReserve(t, m) ==
  /\ MayPut(t)
  /\ lock["tx"] = NoThread
  /\ m \notin busy
  /\ lock' = [lock EXCEPT !["tx"] = t]
  /\ in_flight' = in_flight + 1
  /\ put' = [put EXCEPT ![t] = IF HasRoom(in_flight + 1) THEN "write" ELSE "retry"]
  /\ inBuf' = [inBuf EXCEPT ![t] = m]
  /\ busy' = busy \cup {m}
  /\ UNCHANGED <<txVars, rxVars, devVars, pollVars>>

\* Mutant: the count of a refused request is not taken back.
PutRetryLeak(t) ==
  /\ put[t] = "retry"
  /\ put' = [put EXCEPT ![t] = "none"]
  /\ inBuf' = [inBuf EXCEPT ![t] = Empty]
  /\ lock' = [lock EXCEPT !["tx"] = NoThread]
  /\ busy' = busy \ {inBuf[t]}
  /\ UNCHANGED <<txVars, rxVars, in_flight, devVars, pollVars>>

\* No room: take the count back and return CPA_STATUS_RETRY.
PutRetry(t) ==
  /\ put[t] = "retry"
  /\ in_flight' = in_flight - 1
  /\ put' = [put EXCEPT ![t] = "none"]
  /\ inBuf' = [inBuf EXCEPT ![t] = Empty]
  /\ lock' = [lock EXCEPT !["tx"] = NoThread]
  /\ busy' = busy \ {inBuf[t]}
  /\ UNCHANGED <<txVars, rxVars, devVars, pollVars>>

\* Copy the message, advance the tail and its CSR, number the request, unlock.
PutWrite(t) ==
  /\ put[t] = "write"
  /\ tx' = [tx EXCEPT ![tail] = inBuf[t]]
  /\ tail' = Advance(tail, TxSlots)
  /\ csrTail' = Advance(tail, TxSlots)
  /\ send_seq' = (send_seq + 1) % SendSeqModulus
  /\ put' = [put EXCEPT ![t] = "none"]
  /\ inBuf' = [inBuf EXCEPT ![t] = Empty]
  /\ lock' = [lock EXCEPT !["tx"] = NoThread]
  /\ UNCHANGED <<rxVars, in_flight, devVars, pollVars, busy>>

-----------------------------------------------------------------------------
(* icp_adf_pollInstance, icp_adf_pollBank, adf_pollRing and                *)
(* adf_user_notify_msgs_poll.                                              *)

\* pollInstance holds the user_lock of the response ring; pollBank holds the
\* lock of the bank.  pollBank polls the rings that E_STAT showed non-empty
\* before the first of them was polled: by the time of this one that may be
\* out of date, so it is no guard here.
MayPoll(t, l) ==
  /\ put[t] = "none" /\ poll[t] = "none"
  /\ l \in {"rx", "bank"}
  /\ lock[l] = NoThread

\* Mutant: a flag that others have driven below one lets the caller in.
DecAndTestLoose(n) == n - 1 <= 0

\* osalAtomicDecAndTest is TRUE only for the step from one to zero.
DecAndTest(n) == n - 1 = 0

PollBegin(t, l, quota) ==
  /\ MayPoll(t, l)
  /\ DecAndTest(pollingInProgress)
  /\ pollingInProgress' = pollingInProgress - 1
  /\ ringResponseQuota' = quota
  /\ lock' = [lock EXCEPT ![l] = t]
  /\ poll' = [poll EXCEPT ![t] = "loop"]
  /\ slot' = [slot EXCEPT ![t] = head]
  /\ msg_counter' = [msg_counter EXCEPT ![t] = 0]
  /\ UNCHANGED <<txVars, rx, head, csrHead, coal_write_count, in_flight,
                 devVars, putVars, busy>>

\* The ring is being polled by another thread: CPA_STATUS_RETRY.
PollMiss(t, l) ==
  /\ MayPoll(t, l)
  /\ ~DecAndTest(pollingInProgress)
  /\ pollingInProgress > -MaxMissedPolls
  /\ pollingInProgress' = pollingInProgress - 1
  /\ UNCHANGED <<txVars, rx, head, csrHead, coal_write_count,
                 ringResponseQuota, in_flight, devVars, putVars, pollVars,
                 lock, busy>>

response_quota ==
  IF ringResponseQuota # 0 THEN ringResponseQuota ELSE ICP_NO_RESPONSE_QUOTA

MoreToRead(t) == rx[slot[t]] # Empty /\ msg_counter[t] < response_quota

\* Enter ring->callback, which frees the cookie of the response.
PollCallback(t) ==
  /\ poll[t] = "loop"
  /\ MoreToRead(t)
  /\ poll' = [poll EXCEPT ![t] = "callback"]
  /\ busy' = busy \ {rx[slot[t]]}
  /\ UNCHANGED <<txVars, rxVars, in_flight, devVars, putVars, slot,
                 msg_counter, lock>>

\* Mutant: the head is advanced before the slot it points to is marked.
PollMarkAfterAdvance(t) ==
  /\ poll[t] = "callback" /\ put[t] = "none"
  /\ rx' = [rx EXCEPT ![Advance(head, RxSlots)] = Empty]
  /\ head' = Advance(head, RxSlots)
  /\ slot' = [slot EXCEPT ![t] = Advance(head, RxSlots)]
  /\ msg_counter' = [msg_counter EXCEPT ![t] = @ + 1]
  /\ poll' = [poll EXCEPT ![t] = "loop"]
  /\ UNCHANGED <<txVars, csrHead, coal_write_count, pollingInProgress,
                 ringResponseQuota, in_flight, devVars, putVars, lock, busy>>

\* The callback is done: mark the slot and advance the head.
PollMark(t) ==
  /\ poll[t] = "callback" /\ put[t] = "none"
  /\ rx' = [rx EXCEPT ![slot[t]] = Empty]
  /\ head' = Advance(head, RxSlots)
  /\ slot' = [slot EXCEPT ![t] = Advance(head, RxSlots)]
  /\ msg_counter' = [msg_counter EXCEPT ![t] = @ + 1]
  /\ poll' = [poll EXCEPT ![t] = "loop"]
  /\ UNCHANGED <<txVars, csrHead, coal_write_count, pollingInProgress,
                 ringResponseQuota, in_flight, devVars, putVars, lock, busy>>

\* Return from adf_pollRing and from its caller: reset the flag, unlock.  The
\* locals go out of scope.
PollReturn(t) ==
  /\ pollingInProgress' = 1
  /\ poll' = [poll EXCEPT ![t] = "none"]
  /\ slot' = [slot EXCEPT ![t] = 0]
  /\ msg_counter' = [msg_counter EXCEPT ![t] = 0]
  /\ lock' = [l \in Locks |-> IF l # "tx" /\ lock[l] = t THEN NoThread ELSE lock[l]]

\* Nothing was read: CPA_STATUS_RETRY.
PollNothing(t) ==
  /\ poll[t] = "loop"
  /\ ~MoreToRead(t)
  /\ msg_counter[t] = 0
  /\ PollReturn(t)
  /\ UNCHANGED <<txVars, rx, head, csrHead, coal_write_count,
                 ringResponseQuota, in_flight, devVars, putVars, busy>>

\* Uncount the requests whose responses were read.
PollUncount(t) ==
  /\ poll[t] = "loop"
  /\ ~MoreToRead(t)
  /\ msg_counter[t] > 0
  /\ in_flight' = in_flight - msg_counter[t]
  /\ poll' = [poll EXCEPT ![t] = "publish"]
  /\ UNCHANGED <<txVars, rxVars, devVars, putVars, slot, msg_counter, lock, busy>>

\* Mutants: the write waits for one response too many, or for a whole batch in
\* a single poll.
WritesHeadLate(counter) ==
  counter > coal_write_count + 1 \/ resp = "ICP_RESP_TYPE_IRQ"
WritesHeadPerPoll(counter) ==
  counter > min_resps_per_head_write \/ resp = "ICP_RESP_TYPE_IRQ"

\* Write the head CSR, or put the write off until enough was read.
WritesHead(counter) ==
  counter > coal_write_count \/ resp = "ICP_RESP_TYPE_IRQ"

\* Mutant: the responses put off are not remembered.
PollPublishForgets(t) ==
  /\ poll[t] = "publish"
  /\ IF WritesHead(msg_counter[t])
     THEN /\ coal_write_count' = min_resps_per_head_write
          /\ csrHead' = head
     ELSE UNCHANGED <<coal_write_count, csrHead>>
  /\ PollReturn(t)
  /\ UNCHANGED <<txVars, rx, head, ringResponseQuota, in_flight, devVars,
                 putVars, busy>>

PollPublish(t) ==
  /\ poll[t] = "publish"
  /\ IF WritesHead(msg_counter[t])
     THEN /\ coal_write_count' = min_resps_per_head_write
          /\ csrHead' = head
     ELSE /\ coal_write_count' = coal_write_count - msg_counter[t]
          /\ UNCHANGED csrHead
  /\ PollReturn(t)
  /\ UNCHANGED <<txVars, rx, head, ringResponseQuota, in_flight, devVars,
                 putVars, busy>>

-----------------------------------------------------------------------------
(* The device, as the CSRs and the shared memory show it (external).       *)

\* Nothing reads a fetched slot before it is written again: its contents are
\* dead, which the model shows by emptying it.
DevFetch ==
  /\ devHead # csrTail
  /\ tx' = [tx EXCEPT ![devHead] = Empty]
  /\ engine' = engine \cup {tx[devHead]}
  /\ devHead' = Advance(devHead, TxSlots)
  /\ UNCHANGED <<tail, csrTail, send_seq, rxVars, in_flight, devTail, putVars,
                 pollVars, lock, busy>>

DevRespond(m) ==
  /\ m \in engine
  /\ Advance(devTail, RxSlots) # csrHead
  /\ engine' = engine \ {m}
  /\ rx' = [rx EXCEPT ![devTail] = m]
  /\ devTail' = Advance(devTail, RxSlots)
  /\ UNCHANGED <<txVars, head, csrHead, coal_write_count, pollingInProgress,
                 ringResponseQuota, in_flight, devHead, putVars, pollVars,
                 lock, busy>>

-----------------------------------------------------------------------------
PutStep(t) == PutRetry(t) \/ PutWrite(t)
PollStep(t) ==
  PollCallback(t) \/ PollMark(t) \/ PollNothing(t) \/ PollUncount(t) \/ PollPublish(t)

Next ==
  \/ \E t \in Threads :
       \/ \E m \in Msgs : PutReserve(t, m)
       \/ PutStep(t)
       \/ \E l \in Locks, q \in Quotas : PollBegin(t, l, q)
       \/ \E l \in Locks : PollMiss(t, l)
       \/ PollStep(t)
  \/ DevFetch
  \/ \E m \in Msgs : DevRespond(m)

Spec == Init /\ [][Next]_vars

\* A call that began goes on, a callback gives up a full ring sooner or later
\* and returns, the device works, and the application polls.
Fairness ==
  /\ \A t \in Threads : WF_vars(PutStep(t) \/ PollStep(t)) /\ SF_vars(PollMark(t))
  /\ WF_vars(\E t \in Threads, q \in Quotas : PollBegin(t, "rx", q))
  /\ WF_vars(DevFetch)
  /\ \A m \in Msgs : SF_vars(DevRespond(m))

FairSpec == Spec /\ Fairness

-----------------------------------------------------------------------------
(* Correctness.                                                            *)

Polling(t) == poll[t] # "none"

\* Requests the ring has accepted whose callback has not begun.
accepted == busy \ {inBuf[t] : t \in {u \in Threads : put[u] # "none"}}

\* Slots of a ring of n slots from i up to j.
Span(i, j, n) == {k \in 0 .. n - 1 : Distance(i, k, n) < Distance(i, j, n)}

InCallback(i) == \E t \in Threads : poll[t] = "callback" /\ slot[t] = i

\* The places that hold request m: fetched by nobody yet, being served, or
\* answered and not yet given to its callback.
Holders(m) ==
  {<<"tx", i>> : i \in {k \in Span(devHead, csrTail, TxSlots) : tx[k] = m}}
    \cup {<<"engine", 0>> : e \in engine \cap {m}}
    \cup {<<"rx", i>> : i \in {k \in Span(head, devTail, RxSlots) :
                                 rx[k] = m /\ ~InCallback(k)}}

\* The variables have their types: offsets stay inside the rings, and
\* coal_write_count never goes below zero.
TypeOK ==
  /\ tx \in [TxIndices -> Msgs \cup {Empty}]
  /\ rx \in [RxIndices -> Msgs \cup {Empty}]
  /\ tail \in TxIndices /\ csrTail \in TxIndices /\ devHead \in TxIndices
  /\ head \in RxIndices /\ csrHead \in RxIndices /\ devTail \in RxIndices
  /\ send_seq \in 0 .. SendSeqModulus - 1
  /\ coal_write_count \in 0 .. min_resps_per_head_write
  /\ pollingInProgress \in Int /\ pollingInProgress <= 1
  /\ ringResponseQuota \in Nat
  /\ in_flight \in Int
  /\ engine \subseteq Msgs
  /\ put \in [Threads -> {"none", "write", "retry"}]
  /\ inBuf \in [Threads -> Msgs \cup {Empty}]
  /\ poll \in [Threads -> {"none", "loop", "callback", "publish"}]
  /\ slot \in [Threads -> RxIndices]
  /\ msg_counter \in [Threads -> Nat]
  /\ lock \in [Locks -> Threads \cup {NoThread}]
  /\ busy \subseteq Msgs

\* pollingInProgress (adf_pollRing) keeps all threads but one out of the poll
\* loop of a ring, although pollInstance and pollBank take different locks and
\* failed attempts drive the flag below zero.
OnePoller == \A t, u \in Threads : Polling(t) /\ Polling(u) => t = u

\* Every accepted request is held in one place, neither lost nor duplicated,
\* and in_flight counts exactly the requests that occupy a ring or the device,
\* the one being put, and those read by the current poll but not uncounted
\* yet: adf_user_put_msg may trust it as the measure of free slots.
InFlightExact ==
  LET occupied == unfetched + Cardinality(engine) + unread
                    + (IF lock["tx"] = NoThread THEN 0 ELSE 1)
  IN  /\ \A t \in Threads : poll[t] \in {"loop", "callback"} =>
           in_flight = occupied + msg_counter[t]
      /\ (\A t \in Threads : poll[t] \in {"none", "publish"}) =>
           in_flight = occupied
      /\ \A m \in Msgs :
           Cardinality(Holders(m)) = IF m \in accepted THEN 1 ELSE 0

\* With interrupts the head CSR is never left behind by a finished poll, so
\* the device does not raise the same interrupt again.
IrqHeadCurrent ==
  resp = "ICP_RESP_TYPE_IRQ" /\ (\A t \in Threads : ~Polling(t)) => csrHead = head

\* Between polls the responses read but not shown in the head CSR, together
\* with the count left until the next write, stay within
\* min_resps_per_head_write, so the coalescing of adf_user_notify_msgs_poll
\* withholds at most half of the ring from the device.
HeadLagBounded ==
  (\A t \in Threads : ~Polling(t)) =>
    headLag + coal_write_count <= min_resps_per_head_write

\* adf_user_put_msg never writes over a request the device has not fetched,
\* nor makes a full ring look empty: each move of the tail adds one request.
RequestsKept ==
  [][csrTail' # csrTail => unfetched' = unfetched + 1]_vars

\* The device never writes over a response that was not read, and software
\* only clears the slot at the head, after its callback has returned.
ResponsesKept ==
  [][\A i \in RxIndices : rx'[i] # rx[i] =>
       \/ rx[i] = Empty
       \/ rx'[i] = Empty /\ i = head /\ InCallback(i)]_vars

\* Every accepted request gets its callback, whatever the ring sizes, quotas
\* and postponed head writes.
EveryRequestAnswered ==
  \A m \in Msgs : (m \in accepted) ~> (m \notin accepted)

\* What the transport promises its clients.
Service == INSTANCE RequestService WITH
             Capacity <- max_requests_inflight, outstanding <- accepted
ServiceSpec == Service!Spec
=============================================================================
