---------------------------- MODULE Compression -----------------------------
(***************************************************************************)
(* The requests of one compression instance and the sessions they belong   *)
(* to: stateless and stateful sessions (dc_datapath.c, dc_session.c),      *)
(* requests without a session (dc_ns_datapath.c), chained compression and  *)
(* symmetric crypto (dc_chain.c), or the data plane (dc_dp.c,              *)
(* adf_user_ETring_mgr_dp.c).  A session counts its requests in flight so  *)
(* that it is not reset or removed under them; a request holds blocks of   *)
(* the instance's memory pools until its response is handled.              *)
(*                                                                         *)
(* The ring pair is its order and its limit (RingPair), the pools are      *)
(* their numbers of free blocks (MemPool).  Buffers, checksums, the locks  *)
(* themselves, and the error state with its dummy responses (Services) are *)
(* left out.  Compression and decompression are not told apart: what is    *)
(* stateful is decompression (dcInitSession refuses other sessions).       *)
(***************************************************************************)
EXTENDS Integers, Sequences, FiniteSetsExt

CONSTANTS
    Threads,      \* those that submit
    Sessions,
    Kind,         \* of each session: stateless, stateful, chain, dp or ns,
                  \*   the last one standing for no session
    Concurrent,   \* numCompConcurrentReq: what the ring holds
    Slots,        \* of the data plane's request ring
    MaxCalls,     \* bounds on the calls and on the faults of a behaviour
    MaxFaults,
    None

\* Lac_MemPoolCreate: compression_mem_pool, and the pools of the chain service.
PoolSize == [dc |-> Concurrent + 1, sym |-> Concurrent + 1,
             chain |-> Concurrent + 1, rsp |-> 2 * (Concurrent + 1)]

Pools == DOMAIN PoolSize

\* A request on the ring: the blocks it holds, and the thread that waits for it.
Requests ==
    [sess : Sessions, flush : {"NONE", "FINAL", "FULL"}, held : [Pools -> Nat],
     by : Threads \cup {None}]

ASSUME CompressionAssumption ==
    /\ IsFiniteSet(Threads)
    /\ Kind \in [Sessions -> {"stateless", "stateful", "chain", "dp", "ns"}]
    /\ Concurrent \in Nat \ {0} /\ Slots \in Nat /\ Slots > Concurrent
    /\ MaxCalls \in Nat /\ MaxFaults \in Nat
    /\ None \notin Threads \cup Sessions
    /\ None \notin [msg : Requests, step : {"status", "finish"}]

VARIABLES
    sess,   \* the session descriptors
    pool,   \* the free blocks of each pool
    ring,   \* the requests put, in order
    poll,   \* the request whose response is handled, or None
    thr,    \* the submitting threads
    dp,     \* the data plane: whether the instance is used through it, and
            \*   its request ring
    left,   \* calls and faults that are left
    ghost   \* history

vars == <<sess, pool, ring, poll, thr, dp, left, ghost>>

Of(kinds) == {s \in Sessions : Kind[s] \in kinds}

Nothing == [p \in Pools |-> 0]

Idle == [pc |-> "idle"]

\* dcInitSession, dcChainInitSessions
Fresh == [live |-> TRUE, requestType |-> "FIRST", previous |-> "FIRST",
          pending |-> 0]

Init ==
    /\ sess = [s \in Sessions |-> Fresh]
    /\ pool = PoolSize
    /\ ring = <<>> /\ poll = None
    /\ thr = [t \in Threads |-> Idle]
    /\ dp \in [on : BOOLEAN, slot : [0 .. Slots - 1 -> {None}], tail : {0},
               csrTail : {0}, next : {0}, in_flight : {0}]
    /\ left = [calls |-> MaxCalls, faults |-> MaxFaults]
    /\ ghost = [miscounted |-> {}, open |-> {}, unframed |-> {},
                framed |-> TRUE, freedTwice |-> {}, stale |-> FALSE]

Called == left.calls > 0 /\ left' = [left EXCEPT !.calls = @ - 1]

Fault == left.faults > 0 /\ left' = [left EXCEPT !.faults = @ - 1]

At(t, pc) == thr[t].pc = pc

Go(t, pc) == thr' = [thr EXCEPT ![t].pc = pc]

Return(t) == thr' = [thr EXCEPT ![t] = Idle]

Count(s, n) == sess' = [sess EXCEPT ![s].pending = @ + n]

Give(held) == pool' = [p \in Pools |-> pool[p] + held[p]]

Holding(c) == [Nothing EXCEPT ![c] = 1]

\* The ring's in_flight includes the request that is being handled.
Room == Len(ring) + (IF poll = None THEN 0 ELSE 1) < Concurrent

-----------------------------------------------------------------------------
(* cpaDcCompressData2, cpaDcDecompressData and their siblings: one         *)
(* stateful request at a time.                                             *)

\* The count is read and incremented under sessionLock.  (A stateful request
\* without data that dcZeroLengthRequests answers changes nothing of this.)
Compress(t, s, flush) ==
    /\ At(t, "idle") /\ Called /\ ~dp.on /\ sess[s].live
    /\ Kind[s] = "stateful" => sess[s].pending = 0
    /\ thr' = [thr EXCEPT ![t] = [pc |-> "alloc", sess |-> s, flush |-> flush]]
    /\ IF Kind[s] = "stateful" THEN Count(s, 1) ELSE UNCHANGED sess
    /\ UNCHANGED <<pool, ring, poll, dp, ghost>>

\* dcCompDecompData, dcNsCompDecompData: a thread tries for a cookie until
\* there is one.
AllocCookie(t) ==
    /\ At(t, "alloc") /\ pool.dc > 0
    /\ pool' = [pool EXCEPT !.dc = @ - 1]
    /\ Go(t, "create")
    /\ UNCHANGED <<sess, ring, poll, dp, left, ghost>>

\* The pool is not active, or there is no memory for the sync cookie.  The
\* call returns and a stateful session's count stays.
AllocFails(t) ==
    /\ At(t, "alloc") /\ Fault
    /\ Return(t)
    /\ ghost' = [ghost EXCEPT !.miscounted = @ \cup
                    ({thr[t].sess} \cap Of({"stateful"}))]
    /\ UNCHANGED <<sess, pool, ring, poll, dp>>

Ends(flush) == flush \in {"FINAL", "FULL"}

\* dcCreateRequest on a stateful session: start and end of packet, and the
\* type of the request after this one.
Framed(d, flush) ==
    [d EXCEPT !.previous = d.requestType,
              !.requestType = IF Ends(flush) THEN "FIRST" ELSE "SUBSEQUENT"]

\* dcCreateRequest, dcNsCreateRequest; a stateless session counts the request
\* it is about to put.
CreateRequest(t) ==
    LET s == thr[t].sess
        first == sess[s].requestType = "FIRST"
    IN  /\ At(t, "create")
        /\ thr' = [thr EXCEPT ![t] = [pc |-> "put", sess |-> s, flush |-> @.flush,
                                      sop |-> Kind[s] # "stateful" \/ first]]
        /\ CASE Kind[s] = "stateful" ->
                  sess' = [sess EXCEPT ![s] = Framed(@, thr[t].flush)]
             [] Kind[s] = "stateless" -> Count(s, 1)
             [] OTHER -> UNCHANGED sess
        /\ UNCHANGED <<pool, ring, poll, dp, left, ghost>>

\* A buffer has no physical address.  A stateless session has not counted the
\* request that is now taken back.
CreateFails(t) ==
    /\ At(t, "create") /\ Fault
    /\ Go(t, "undo")
    /\ ghost' = [ghost EXCEPT !.miscounted = @ \cup
                    ({thr[t].sess} \cap Of({"stateless"}))]
    /\ UNCHANGED <<sess, pool, ring, poll, dp>>

\* SalQatMsg_transPutMsg: the ring takes the request.  A call without a
\* session may wait for its response, LacSync_WaitForCallback.
PutRequest(t, sync) ==
    LET s == thr[t].sess
    IN  /\ At(t, "put") /\ Room
        /\ sync => Kind[s] = "ns"
        /\ ring' = Append(ring,
                     [sess |-> s, flush |-> thr[t].flush, held |-> Holding("dc"),
                      by |-> IF sync THEN t ELSE None])
        /\ IF sync THEN Go(t, "wait") ELSE Return(t)
        /\ ghost' = [ghost EXCEPT !.framed = @ /\
                        (Kind[s] = "stateful" /\ s \notin ghost.unframed =>
                            thr[t].sop = (s \notin ghost.open))]
        /\ UNCHANGED <<sess, pool, poll, dp, left>>

\* ... or it is full: CPA_STATUS_RETRY.
PutRefused(t) ==
    /\ At(t, "put") /\ ~Room
    /\ Go(t, IF Kind[thr[t].sess] = "stateful" THEN "restore" ELSE "undo")
    /\ UNCHANGED <<sess, pool, ring, poll, dp, left, ghost>>

\* Mutant: the request type is not set back.
RestoreNothing(t) ==
    /\ At(t, "restore")
    /\ Go(t, "undo")
    /\ UNCHANGED <<sess, pool, ring, poll, dp, left, ghost>>

\* dcSendRequest: "reset requestType after receiving an retry on the stateful
\* request"
Restore(t) ==
    /\ At(t, "restore")
    /\ sess' = [sess EXCEPT ![thr[t].sess].requestType =
                               sess[thr[t].sess].previous]
    /\ Go(t, "undo")
    /\ UNCHANGED <<pool, ring, poll, dp, left, ghost>>

\* The end of dcCompDecompData and dcNsCompDecompData for a request not sent.
Undo(t) ==
    /\ At(t, "undo")
    /\ IF Kind[thr[t].sess] = "ns" THEN UNCHANGED sess ELSE Count(thr[t].sess, -1)
    /\ Give(Holding("dc"))
    /\ Return(t)
    /\ UNCHANGED <<ring, poll, dp, left, ghost>>

Forget(msg, t) == IF msg.by = t THEN [msg EXCEPT !.by = None] ELSE msg

\* dcNsCompDecompData: "Callback timed out".  The cookie is freed though the
\* device still has the request.
NsTimeout(t) ==
    /\ At(t, "wait") /\ Fault
    /\ Give(Holding("dc"))
    /\ Return(t)
    /\ ring' = [k \in DOMAIN ring |-> Forget(ring[k], t)]
    /\ poll' = IF poll = None THEN None ELSE [poll EXCEPT !.msg = Forget(@, t)]
    /\ ghost' = [ghost EXCEPT !.freedTwice = @ \cup {"dc"}]
    /\ UNCHANGED <<sess, dp>>

-----------------------------------------------------------------------------
(* cpaDcChainPerformOp: a chain cookie, then a cookie and a response       *)
(* descriptor for each link, then the ring.                                *)

Take(t, c, pc) ==
    /\ pool[c] > 0
    /\ pool' = [pool EXCEPT ![c] = @ - 1]
    /\ thr' = [thr EXCEPT ![t].held[c] = @ + 1, ![t].pc = pc]

ChainPerformOp(t, s, links) ==
    /\ At(t, "idle") /\ Called /\ ~dp.on /\ sess[s].live
    /\ pool.chain > 0
    /\ pool' = [pool EXCEPT !.chain = @ - 1]
    /\ Count(s, 1)
    /\ thr' = [thr EXCEPT ![t] = [pc |-> "cookie", sess |-> s, flush |-> "FINAL",
                                  links |-> links, held |-> Holding("chain")]]
    /\ UNCHANGED <<ring, poll, dp, ghost>>

\* The loop of dcChainPerformOp: the next link's cookie.
ChainCookie(t) ==
    /\ At(t, "cookie") /\ thr[t].links # <<>>
    /\ \/ Take(t, Head(thr[t].links), "prepare")
       \/ /\ pool[Head(thr[t].links)] = 0
          /\ Go(t, "out_err")
          /\ UNCHANGED pool
    /\ UNCHANGED <<sess, ring, poll, dp, left, ghost>>

\* dcChainPrepare_CompRequest, dcChainPrepare_SymRequest: the request is
\* created, then a response descriptor is allocated.
ChainPrepare(t) ==
    /\ At(t, "prepare") /\ pool.rsp > 0
    /\ pool' = [pool EXCEPT !.rsp = @ - 1]
    /\ thr' = [thr EXCEPT ![t].held["rsp"] = @ + 1, ![t].pc = "cookie",
                          ![t].links = Tail(@)]
    /\ UNCHANGED <<sess, ring, poll, dp, left, ghost>>

ChainPrepareFails(t) ==
    /\ At(t, "prepare") /\ Fault
    /\ Go(t, "out_err")
    /\ UNCHANGED <<sess, pool, ring, poll, dp, ghost>>

\* LacAlgChain_Perform frees the cookie of a request that does not pass
\* LacCipher_PerformParamCheck or LacHash_PerformParamCheck, and out_err will
\* free it again.
ChainCheckFails(t) ==
    /\ At(t, "prepare") /\ Head(thr[t].links) = "sym" /\ Fault
    /\ Give(Holding("sym"))
    /\ Go(t, "out_err")
    /\ ghost' = [ghost EXCEPT !.freedTwice = @ \cup {"sym"}]
    /\ UNCHANGED <<sess, ring, poll, dp>>

\* The put of dcChainPerformOp.
ChainPut(t) ==
    /\ At(t, "cookie") /\ thr[t].links = <<>>
    /\ \/ /\ Room
          /\ ring' = Append(ring, [sess |-> thr[t].sess, flush |-> thr[t].flush,
                                   held |-> thr[t].held, by |-> None])
          /\ Return(t)
       \/ /\ ~Room
          /\ Go(t, "out_err")
          /\ UNCHANGED ring
    /\ UNCHANGED <<sess, pool, poll, dp, left, ghost>>

\* Mutant: the response descriptors are not freed.
ChainErrKeepsRsp(t) ==
    /\ At(t, "out_err")
    /\ Count(thr[t].sess, -1)
    /\ Give([thr[t].held EXCEPT !.rsp = 0])
    /\ Return(t)
    /\ UNCHANGED <<ring, poll, dp, left, ghost>>

\* dcChainPerformOp, out_err
ChainErr(t) ==
    /\ At(t, "out_err")
    /\ Count(thr[t].sess, -1)
    /\ Give(thr[t].held)
    /\ Return(t)
    /\ UNCHANGED <<ring, poll, dp, left, ghost>>

-----------------------------------------------------------------------------
(* The response callbacks.                                                 *)

\* The poller meets the response of the oldest request.
PollRing ==
    /\ poll = None /\ ring # <<>>
    /\ poll' = [msg |-> Head(ring), step |-> "status"]
    /\ ring' = Tail(ring)
    /\ UNCHANGED <<sess, pool, thr, dp, left, ghost>>

\* Packets as the requests say: an end of packet that succeeds closes one.
\* After FULL, or a request the firmware does not support, the code does not
\* say what the next request is.
Processed(g, msg, result) ==
    IF Kind[msg.sess] # "stateful" THEN g
    ELSE [g EXCEPT !.open = IF msg.flush = "FINAL" /\ result = "ok"
                            THEN @ \ {msg.sess} ELSE @ \cup {msg.sess},
                   !.unframed = IF msg.flush = "FULL" \/ result = "unsupported"
                                THEN @ \cup {msg.sess} ELSE @]

\* dcCompression_ProcessCallback, dcChainCallback_ProcessComp, up to the
\* request type; dcNsCompression_ProcessCallback has none.  An overflow is an
\* error here, whatever the caller is told.
Status(result) ==
    LET s == poll.msg.sess
    IN  /\ poll # None /\ poll.step = "status"
        /\ poll' = [poll EXCEPT !.step = "finish"]
        /\ sess' = IF Kind[s] = "ns" \/ result = "unsupported" THEN sess
                   ELSE [sess EXCEPT ![s].requestType =
                           IF poll.msg.flush = "FINAL" /\ result = "ok"
                           THEN "FIRST" ELSE "SUBSEQUENT"]
        /\ ghost' = Processed(ghost, poll.msg, result)
        /\ UNCHANGED <<pool, ring, thr, dp, left>>

\* Mutant: a stateful session's count is left alone.
FinishUncounted ==
    LET s == poll.msg.sess
    IN  /\ poll # None /\ poll.step = "finish"
        /\ IF Kind[s] \in {"ns", "stateful"} THEN UNCHANGED sess ELSE Count(s, -1)
        /\ Give(poll.msg.held)
        /\ thr' = IF poll.msg.by = None THEN thr
                  ELSE [thr EXCEPT ![poll.msg.by] = Idle]
        /\ poll' = None
        /\ UNCHANGED <<ring, dp, left, ghost>>

\* The end of dcCompression_ProcessCallback, dcNsCompression_ProcessCallback
\* and dcChainProcessResults: the count, the blocks, the caller's callback.
Finish ==
    LET s == poll.msg.sess
    IN  /\ poll # None /\ poll.step = "finish"
        /\ IF Kind[s] = "ns" \/ (Kind[s] = "stateful" /\ sess[s].pending = 0)
           THEN UNCHANGED sess ELSE Count(s, -1)
        /\ Give(poll.msg.held)
        /\ thr' = IF poll.msg.by = None THEN thr
                  ELSE [thr EXCEPT ![poll.msg.by] = Idle]
        /\ poll' = None
        /\ UNCHANGED <<ring, dp, left, ghost>>

-----------------------------------------------------------------------------
(* The data plane, in one thread.                                          *)

Wrap(k) == k % Slots

\* icp_adf_getSingleQueueAddr, icp_adf_getQueueMemory
Reserved(n) == dp.in_flight + n <= Concurrent

Written(s, n) ==
    [k \in 0 .. Slots - 1 |->
        IF Wrap(k - dp.tail + Slots) < n THEN s ELSE dp.slot[k]]

\* cpaDcDpEnqueueOp, cpaDcDpEnqueueOpBatch, with icp_adf_updateQueueTail when
\* the operation is to be performed now.
Enqueue(s, n, now) ==
    /\ Called /\ dp.on /\ Reserved(n) /\ sess[s].live
    /\ dp' = [dp EXCEPT !.slot = Written(s, n), !.tail = Wrap(@ + n),
                        !.csrTail = IF now THEN Wrap(dp.tail + n) ELSE @,
                        !.in_flight = @ + n]
    /\ IF Kind[s] = "dp" THEN Count(s, n) ELSE UNCHANGED sess
    /\ UNCHANGED <<pool, ring, poll, thr, ghost>>

\* dcDpWriteRingMsg fails on a request without a session: what is reserved
\* stays so.  A single request's slot is passed over as well, and the device
\* will read what the slot held before.
EnqueueFails(n) ==
    /\ dp.on /\ Reserved(n) /\ Fault
    /\ dp' = [dp EXCEPT !.tail = IF n = 1 THEN Wrap(@ + 1) ELSE @,
                        !.in_flight = @ + n]
    /\ ghost' = [ghost EXCEPT !.stale = TRUE]
    /\ UNCHANGED <<sess, pool, ring, poll, thr>>

\* icp_adf_queueDataToSend
DataToSend == dp.tail # dp.csrTail

\* cpaDcDpPerformOpNow
PerformOpNow ==
    /\ DataToSend
    /\ dp' = [dp EXCEPT !.csrTail = dp.tail]
    /\ UNCHANGED <<sess, pool, ring, poll, thr, left, ghost>>

\* icp_sal_DcPollDpInstance, icp_adf_pollQueue with n responses; each calls
\* dcCompression_ProcessCallback.  in_flight is adjusted after the callbacks.
PollDp(n) ==
    LET at(j) == dp.slot[Wrap(dp.next + j)]
    IN  /\ n <= Wrap(dp.csrTail - dp.next + Slots)
        /\ \A j \in 0 .. n - 1 : at(j) # None
        /\ sess' = [s \in Sessions |->
              [sess[s] EXCEPT !.pending =
                 IF Kind[s] = "dp"
                 THEN @ - Cardinality({j \in 0 .. n - 1 : at(j) = s}) ELSE @]]
        /\ dp' = [dp EXCEPT !.next = Wrap(@ + n), !.in_flight = @ - n]
        /\ UNCHANGED <<pool, ring, poll, thr, left, ghost>>

-----------------------------------------------------------------------------
(* Sessions.  The application does not reset or remove one that one of its *)
(* threads is submitting on.                                               *)

\* The sessions that the instance has.
Own(s) == Kind[s] \in IF dp.on THEN {"dp"} ELSE {"stateless", "stateful", "chain"}

Unused(s) == \A t \in Threads : ~At(t, "idle") => thr[t].sess # s

\* cpaDcInitSession, cpaDcChainInitSession
InitSession(s) ==
    /\ Own(s) /\ ~sess[s].live /\ Called
    /\ sess' = [sess EXCEPT ![s] = Fresh]
    /\ ghost' = [ghost EXCEPT !.open = @ \ {s}, !.unframed = @ \ {s}]
    /\ UNCHANGED <<pool, ring, poll, thr, dp>>

\* cpaDcResetSession, cpaDcRemoveSession with messages of the data plane
\* unsent: they are sent, and the call is to be tried again.
Flush(s) ==
    /\ Kind[s] = "dp" /\ sess[s].live /\ DataToSend /\ Called
    /\ dp' = [dp EXCEPT !.csrTail = dp.tail]
    /\ UNCHANGED <<sess, pool, ring, poll, thr, ghost>>

Quiet(s) ==
    /\ Own(s) /\ sess[s].live /\ Unused(s) /\ Called
    /\ Kind[s] = "dp" => ~DataToSend
    /\ sess[s].pending = 0

\* cpaDcResetSession, cpaDcChainResetSession
ResetSession(s) ==
    /\ Quiet(s)
    /\ sess' = IF Kind[s] = "dp" THEN sess
               ELSE [sess EXCEPT ![s].requestType = "FIRST"]
    /\ ghost' = [ghost EXCEPT !.open = @ \ {s}, !.unframed = @ \ {s}]
    /\ UNCHANGED <<pool, ring, poll, thr, dp>>

\* cpaDcRemoveSession, cpaDcChainRemoveSession
RemoveSession(s) ==
    /\ Quiet(s)
    /\ sess' = [sess EXCEPT ![s].live = FALSE]
    /\ UNCHANGED <<pool, ring, poll, thr, dp, ghost>>

-----------------------------------------------------------------------------

Flushes(s) ==
    CASE Kind[s] = "stateful" -> {"NONE", "FINAL", "FULL"}
      [] Kind[s] = "stateless" -> {"FULL", "FINAL"}
      [] OTHER -> {"FINAL"}

Step(t) ==
    \/ AllocCookie(t) \/ CreateRequest(t) \/ PutRefused(t)
    \/ \E sync \in BOOLEAN : PutRequest(t, sync)
    \/ Restore(t) \/ Undo(t)
    \/ ChainCookie(t) \/ ChainPrepare(t) \/ ChainPut(t) \/ ChainErr(t)

Failure(t) ==
    \/ AllocFails(t) \/ CreateFails(t) \/ NsTimeout(t)
    \/ ChainPrepareFails(t) \/ ChainCheckFails(t)

Begin(t) ==
    \/ \E s \in Of({"stateless", "stateful", "ns"}) :
          \E flush \in Flushes(s) : Compress(t, s, flush)
    \/ \E s \in Of({"chain"}), links \in {<<"dc", "sym">>, <<"sym", "dc">>} :
          ChainPerformOp(t, s, links)

Respond ==
    \/ PollRing
    \/ \E result \in {"ok", "error", "unsupported"} : Status(result)
    \/ Finish

DataPlane ==
    \/ \E s \in Of({"dp", "ns"}), n \in 1 .. Concurrent, now \in BOOLEAN :
          Enqueue(s, n, now)
    \/ \E n \in 1 .. Concurrent : EnqueueFails(n) \/ PollDp(n)
    \/ PerformOpNow

Lifetime(s) ==
    InitSession(s) \/ Flush(s) \/ ResetSession(s) \/ RemoveSession(s)

Next ==
    \/ \E t \in Threads : Begin(t) \/ Step(t) \/ Failure(t)
    \/ Respond
    \/ DataPlane
    \/ \E s \in Sessions : Lifetime(s)

Spec == Init /\ [][Next]_vars

-----------------------------------------------------------------------------

\* The requests of s that are on the ring or being handled, and the threads
\* between the session's count and the put.
InFlight(s) ==
    Cardinality({k \in DOMAIN ring : ring[k].sess = s})
    + (IF poll # None /\ poll.msg.sess = s THEN 1 ELSE 0)

Submitting(s) ==
    {t \in Threads : ~At(t, "idle") /\ thr[t].sess = s
                     /\ (Kind[s] = "stateless" => thr[t].pc \in {"put", "undo"})}

\* Slots of the data plane between the next response and the tail.
Unanswered(s) ==
    {k \in 0 .. Slots - 1 : dp.slot[k] = s
        /\ Wrap(k - dp.next + Slots) < Wrap(dp.tail - dp.next + Slots)}

\* A session's pending count is the number of its requests in flight, so that
\* cpaDcResetSession and cpaDcRemoveSession succeed only when no response of
\* the session is to come, and a stateful session has one request at most ("Only
\* one in-flight stateful request supported", dc_datapath.c): with refused and
\* failing requests, and unless a failed allocation or creation has already
\* miscounted the session, or a slot of the data plane was reserved in vain.
PendingExact ==
    \A s \in Sessions \ Of({"ns"}) : s \notin ghost.miscounted =>
        /\ IF Kind[s] = "dp"
           THEN ghost.stale \/ sess[s].pending = Cardinality(Unanswered(s))
           ELSE sess[s].pending = InFlight(s) + Cardinality(Submitting(s))
        /\ Kind[s] = "stateful" => sess[s].pending <= 1

\* A stateful request is marked start of packet exactly when no packet of the
\* session is open, also after requests that the full ring refused and ends of
\* packet that failed ("In case of any error for an end of packet request, we
\* need to update the request type for the following request", dc_datapath.c).
StreamFraming == ghost.framed

\* The blocks of p that thread t holds for a request not put yet.
Held(t, p) ==
    IF thr[t].pc \in {"idle", "alloc", "wait"} THEN 0
    ELSE IF Kind[thr[t].sess] = "chain" THEN thr[t].held[p]
    ELSE Holding("dc")[p]

Accounted(p) ==
    LET held(t) == Held(t, p)
        put(k) == ring[k].held[p]
    IN  pool[p] + MapThenSumSet(held, Threads) + MapThenSumSet(put, DOMAIN ring)
        + (IF poll = None THEN 0 ELSE poll.msg.held[p])

\* A block of the pools is free or belongs to one request: every failing path
\* of dcCompDecompData, dcNsCompDecompData and dcChainPerformOp gives back what
\* it took, once, and a response what its request holds.  Excepted are the
\* compression cookies after a synchronous call without a session timed out,
\* and the crypto cookies of chains after one was refused by the checks of
\* LacAlgChain_Perform: these two paths free a cookie twice.
PoolsConserved ==
    \A p \in Pools \ ghost.freedTwice : Accounted(p) = PoolSize[p]

\* "The memory is freed in callback or in sendRequest if an error occurs"
\* (dcNsCompDecompData): no cookie is freed twice, whatever times out, so there
\* are never more free cookies than the pool has.
CookieFreedOnce == pool.dc <= PoolSize.dc

=============================================================================
