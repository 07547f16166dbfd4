----------------------------- MODULE SymSession -----------------------------
(***************************************************************************)
(* One session of the traditional symmetric crypto API: the requests that  *)
(* threads perform on it, the queue that holds requests back while a       *)
(* partial packet is with the device (lac_sym_queue.c, lac_sym_cb.c), the  *)
(* session's reader/writer lock and its count of pending callbacks         *)
(* (lac_sym_alg_chain.c, lac_sym_api.c).                                   *)
(*                                                                         *)
(* The message that is cut into parts is Parts, a sequence of requests;    *)
(* Fulls are requests of their own.  The transport is what RingPair        *)
(* promises: a put fails when in_flight has reached its limit, responses   *)
(* are handled by one thread, the poller, and in_flight goes down only     *)
(* after the poll loop.                                                    *)
(***************************************************************************)
EXTENDS Integers, Sequences, FiniteSets, Functions

CONSTANTS
  Threads,                      \* threads that call the API
  Parts,                        \* the parts of the message, in order
  Fulls,                        \* requests that are full packets
  max_requests_inflight,        \* of the ring the instance sends on
  DEQUEUE_MSGPUT_MAX_RETRIES,
  MaxReaders,                   \* bound on the readers when one is left behind
  NoReq, NoThread, Poller

Reqs == Range(Parts) \cup Fulls

ASSUME SymAssumption ==
  /\ Parts \in Seq(Reqs) /\ IsInjective(Parts)
  /\ Range(Parts) \cap Fulls = {}
  /\ max_requests_inflight \in Nat \ {0}
  /\ DEQUEUE_MSGPUT_MAX_RETRIES \in Nat \ {0, 1}
  /\ MaxReaders \in Nat
  /\ NoReq \notin Reqs
  /\ Poller \notin Threads /\ NoThread \notin Threads \cup {Poller}

IsPart(r) == r \in Range(Parts)

packetType(r) ==
  IF ~IsPart(r) THEN "FULL"
  ELSE IF r = Parts[Len(Parts)] THEN "LAST_PARTIAL" ELSE "PARTIAL"

VARIABLES
  \* session descriptor
  nonBlockingOpsInProgress, queue, hasTail, partialState,
  accessReaders, accessLock, requestQueueLock, pendingCbCount,
  \* threads: step and request of the call they are in
  pc, req,
  \* each request: its progress, the partial flag it was built with, and how
  \* often it was put on the ring
  stage, fwType, puts,
  \* transport: requests that await their response, and the shared counter
  onRing, in_flight,
  \* poller: step, response at hand, retries of the put, responses to uncount
  poll, cur, retries, msg_counter,
  \* history: a part was refused by the ring, its response was not OK, the
  \* queue could not be emptied behind it, or an update failed
  failed

sessionVars   == <<nonBlockingOpsInProgress, queue, hasTail, partialState>>
lockVars      == <<accessReaders, accessLock, requestQueueLock>>
threadVars    == <<pc, req>>
requestVars   == <<stage, fwType, puts>>
transportVars == <<onRing, in_flight>>
pollVars      == <<poll, cur, retries, msg_counter>>
vars == <<sessionVars, lockVars, pendingCbCount, threadVars, requestVars,
          transportVars, pollVars, failed>>

-----------------------------------------------------------------------------
\* A session that was just initialised, its precomputes done.
Init ==
  /\ nonBlockingOpsInProgress = TRUE
  /\ queue = <<>> /\ hasTail = FALSE
  /\ partialState = "FULL"
  /\ accessReaders = 0 /\ accessLock = NoThread /\ requestQueueLock = NoThread
  /\ pendingCbCount = 0
  /\ pc = [t \in Threads |-> "idle"]
  /\ req = [t \in Threads |-> NoReq]
  /\ stage = [r \in Reqs |-> "new"]
  /\ fwType = [r \in Reqs |-> "NONE"]
  /\ puts = [r \in Reqs |-> 0]
  /\ onRing = {} /\ in_flight = 0
  /\ poll = "loop" /\ cur = NoReq /\ retries = 0 /\ msg_counter = 0
  /\ failed = FALSE

-----------------------------------------------------------------------------
(* The transport.                                                          *)

HasRoom == in_flight + 1 <= max_requests_inflight

\* icp_adf_transPutMsg accepts r.
Accept(r) ==
  /\ HasRoom
  /\ in_flight' = in_flight + 1
  /\ onRing' = onRing \cup {r}
  /\ puts' = [puts EXCEPT ![r] = @ + 1]
  /\ stage' = [stage EXCEPT ![r] = "sent"]

-----------------------------------------------------------------------------
(* cpaCySymPerformOp: LacSym_Perform, LacAlgChain_Perform and              *)
(* LacSymQueue_RequestSend.                                                *)

\* LacSym_PartialPacketStateCheck.
PartialPacketStateCheck(type) ==
  \/ partialState = "FULL" /\ type = "PARTIAL"
  \/ partialState = "PARTIAL" /\ type \in {"PARTIAL", "LAST_PARTIAL"}

\* LacSym_PartialPacketStateUpdate.
PartialPacketStateUpdate(type) ==
  IF partialState = "FULL" THEN "PARTIAL"
  ELSE IF type = "LAST_PARTIAL" THEN "FULL" ELSE partialState

\* The application performs the parts in order: the next one once the call
\* for the one before has returned.
PartMayStart(r) ==
  \A i \in 1 .. Len(Parts) - 1 : Parts[i + 1] = r =>
    /\ stage[Parts[i]] \in {"queued", "sent", "done"}
    /\ \A u \in Threads : req[u] # Parts[i]

\* Check the sequence of parts, then lock the session as a reader.
PerformBegin(t, r) ==
  /\ pc[t] = "idle" /\ stage[r] = "new"
  /\ \A u \in Threads : req[u] # r
  /\ IsPart(r) => PartMayStart(r) /\ PartialPacketStateCheck(packetType(r))
  /\ accessLock = NoThread
  /\ accessReaders' = accessReaders + 1
  /\ pc' = [pc EXCEPT ![t] = "build"]
  /\ req' = [req EXCEPT ![t] = r]
  /\ UNCHANGED <<sessionVars, accessLock, requestQueueLock, pendingCbCount,
                 requestVars, transportVars, pollVars, failed>>

\* LacSymQat_packetTypeGet.
packetTypeGet(type) ==
  CASE type = "PARTIAL"      -> IF partialState = "FULL" THEN "START" ELSE "MID"
    [] type = "LAST_PARTIAL" -> "END"
    [] type = "FULL"         -> "NONE"

\* Build the request and count its callback.
PerformBuild(t) ==
  /\ pc[t] = "build"
  /\ fwType' = [fwType EXCEPT ![req[t]] = packetTypeGet(packetType(req[t]))]
  /\ pendingCbCount' = pendingCbCount + 1
  /\ pc' = [pc EXCEPT ![t] = "unlock"]
  /\ UNCHANGED <<sessionVars, lockVars, req, stage, puts, transportVars,
                 pollVars, failed>>

\* The request cannot be built: nothing was counted, the cookie is freed.
PerformFail(t) ==
  /\ pc[t] = "build"
  /\ accessLock = NoThread
  /\ accessReaders' = accessReaders - 1
  /\ pc' = [pc EXCEPT ![t] = "idle"]
  /\ req' = [req EXCEPT ![t] = NoReq]
  /\ UNCHANGED <<sessionVars, accessLock, requestQueueLock, pendingCbCount,
                 requestVars, transportVars, pollVars, failed>>

\* Nor can it when a request for ChaCha20-Poly1305 or AES-GCM in a single pass
\* comes without its additional data: LAC_CHECK_NULL_PARAM returns, the cookie
\* stays allocated and the session locked by a reader that is gone.  An update
\* then waits for ever.
PerformLeave(t) ==
  /\ pc[t] = "build"
  /\ accessReaders < MaxReaders
  /\ pc' = [pc EXCEPT ![t] = "idle"]
  /\ req' = [req EXCEPT ![t] = NoReq]
  /\ UNCHANGED <<sessionVars, lockVars, pendingCbCount, requestVars,
                 transportVars, pollVars, failed>>

PerformUnlock(t) ==
  /\ pc[t] = "unlock"
  /\ accessLock = NoThread
  /\ accessReaders' = accessReaders - 1
  /\ pc' = [pc EXCEPT ![t] = "send"]
  /\ UNCHANGED <<sessionVars, accessLock, requestQueueLock, pendingCbCount,
                 req, requestVars, transportVars, pollVars, failed>>

\* Mutant: a request may pass those that are queued.
MustQueueIgnoresTail == nonBlockingOpsInProgress = FALSE

MustQueue == nonBlockingOpsInProgress = FALSE \/ hasTail

\* A part marks the session before it is put, a full packet is put at once.
ClearToSend(r) == IF IsPart(r) THEN "mark" ELSE "put"

\* LacSymQueue_RequestSend: look at the session without its lock.
SendCheck(t) ==
  /\ pc[t] = "send"
  /\ pc' = [pc EXCEPT ![t] = IF MustQueue THEN "lock" ELSE ClearToSend(req[t])]
  /\ UNCHANGED <<sessionVars, lockVars, pendingCbCount, req, requestVars,
                 transportVars, pollVars, failed>>

\* Under requestQueueLock: look again, and enqueue the request.
SendQueue(t) ==
  /\ pc[t] = "lock"
  /\ requestQueueLock = NoThread
  /\ IF MustQueue
     THEN /\ queue' = Append(queue, req[t])
          /\ hasTail' = TRUE
          /\ stage' = [stage EXCEPT ![req[t]] = "queued"]
          /\ pc' = [pc EXCEPT ![t] = "return"]
     ELSE /\ pc' = [pc EXCEPT ![t] = ClearToSend(req[t])]
          /\ UNCHANGED <<queue, hasTail, stage>>
  /\ UNCHANGED <<nonBlockingOpsInProgress, partialState, lockVars,
                 pendingCbCount, req, fwType, puts, transportVars, pollVars,
                 failed>>

\* Later requests wait until this part completes.
SendMark(t) ==
  /\ pc[t] = "mark"
  /\ nonBlockingOpsInProgress' = FALSE
  /\ pc' = [pc EXCEPT ![t] = "put"]
  /\ UNCHANGED <<queue, hasTail, partialState, lockVars, pendingCbCount, req,
                 requestVars, transportVars, pollVars, failed>>

SendPut(t) ==
  /\ pc[t] = "put"
  /\ Accept(req[t])
  /\ pc' = [pc EXCEPT ![t] = "return"]
  /\ UNCHANGED <<sessionVars, lockVars, pendingCbCount, req, fwType, pollVars,
                 failed>>

\* The ring is full: a part takes its mark back, the callback is not counted
\* any more, and CPA_STATUS_RETRY is returned.
SendRefused(t) ==
  /\ pc[t] = "put"
  /\ ~HasRoom
  /\ nonBlockingOpsInProgress' = (nonBlockingOpsInProgress \/ IsPart(req[t]))
  /\ pendingCbCount' = pendingCbCount - 1
  /\ pc' = [pc EXCEPT ![t] = "idle"]
  /\ req' = [req EXCEPT ![t] = NoReq]
  /\ failed' = (failed \/ IsPart(req[t]))
  /\ UNCHANGED <<queue, hasTail, partialState, lockVars, requestVars,
                 transportVars, pollVars>>

\* LacSym_Perform follows the parts and returns.
PerformReturn(t) ==
  /\ pc[t] = "return"
  /\ partialState' = IF IsPart(req[t])
                     THEN PartialPacketStateUpdate(packetType(req[t]))
                     ELSE partialState
  /\ pc' = [pc EXCEPT ![t] = "idle"]
  /\ req' = [req EXCEPT ![t] = NoReq]
  /\ UNCHANGED <<nonBlockingOpsInProgress, queue, hasTail, lockVars,
                 pendingCbCount, requestVars, transportVars, pollVars,
                 failed>>

-----------------------------------------------------------------------------
(* cpaCySymUpdateSession and cpaCySymRemoveSession.                        *)

\* Mutant: the writer lock does not wait for readers.
UpdateBeginAmongReaders(t) ==
  /\ pc[t] = "idle"
  /\ partialState = "FULL"
  /\ accessLock = NoThread
  /\ pendingCbCount = 0
  /\ accessLock' = t
  /\ nonBlockingOpsInProgress' = FALSE
  /\ pc' = [pc EXCEPT ![t] = "update"]
  /\ UNCHANGED <<queue, hasTail, partialState, accessReaders, requestQueueLock,
                 pendingCbCount, req, requestVars, transportVars, pollVars,
                 failed>>

\* LacAlgChain_LockSessionWriter, and the session blocks for a precompute.
UpdateBegin(t) ==
  /\ pc[t] = "idle"
  /\ partialState = "FULL"
  /\ accessLock = NoThread
  /\ accessReaders = 0 /\ pendingCbCount = 0
  /\ accessLock' = t
  /\ nonBlockingOpsInProgress' = FALSE
  /\ pc' = [pc EXCEPT ![t] = "update"]
  /\ UNCHANGED <<queue, hasTail, partialState, accessReaders, requestQueueLock,
                 pendingCbCount, req, requestVars, transportVars, pollVars,
                 failed>>

\* LacSymAlgChain_HashPrecomputeDoneCb drains the queue, which is empty (see
\* SessionIdle); the session is unlocked.
UpdateEnd(t) ==
  /\ pc[t] = "update"
  /\ requestQueueLock = NoThread
  /\ nonBlockingOpsInProgress' = TRUE
  /\ accessLock' = NoThread
  /\ pc' = [pc EXCEPT ![t] = "idle"]
  /\ UNCHANGED <<queue, hasTail, partialState, accessReaders, requestQueueLock,
                 pendingCbCount, req, requestVars, transportVars, pollVars,
                 failed>>

\* LacHash_PrecomputeDataCreate fails and so does the call; its callback, which
\* would let requests pass again, does not come.
UpdateFail(t) ==
  /\ pc[t] = "update"
  /\ accessLock' = NoThread
  /\ pc' = [pc EXCEPT ![t] = "idle"]
  /\ failed' = TRUE
  /\ UNCHANGED <<sessionVars, accessReaders, requestQueueLock, pendingCbCount,
                 req, requestVars, transportVars, pollVars>>

\* The application removes a session that no call is using; the session goes
\* only if no callback is pending.
RemoveSession(t) ==
  /\ pc[t] = "idle"
  /\ \A u \in Threads : pc[u] = "idle"
  /\ pendingCbCount = 0
  /\ pc' = [u \in Threads |-> "removed"]
  /\ UNCHANGED <<sessionVars, lockVars, pendingCbCount, req, requestVars,
                 transportVars, pollVars, failed>>

-----------------------------------------------------------------------------
(* The poller: LacSymCb_ProcessCallback.                                   *)

\* Mutant: the last part does not let the queue go.
ResponseLastKeeps(r, ok) ==
  /\ poll = "loop"
  /\ r \in onRing
  /\ onRing' = onRing \ {r}
  /\ cur' = r
  /\ poll' = IF packetType(r) = "PARTIAL" /\ ok THEN "lock" ELSE "user"
  /\ failed' = (failed \/ (IsPart(r) /\ ~ok))
  /\ UNCHANGED <<sessionVars, lockVars, pendingCbCount, threadVars,
                 requestVars, in_flight, retries, msg_counter>>

\* A response arrives.  Only a part whose response is good lets the queue go.
Response(r, ok) ==
  /\ poll = "loop"
  /\ r \in onRing
  /\ onRing' = onRing \ {r}
  /\ cur' = r
  /\ poll' = IF IsPart(r) /\ ok THEN "lock" ELSE "user"
  /\ failed' = (failed \/ (IsPart(r) /\ ~ok))
  /\ UNCHANGED <<sessionVars, lockVars, pendingCbCount, threadVars,
                 requestVars, in_flight, retries, msg_counter>>

\* Mutant: the blocking condition is not cleared.
DequeueBeginBlocked ==
  /\ poll = "lock"
  /\ requestQueueLock = NoThread
  /\ requestQueueLock' = Poller
  /\ poll' = "drain"
  /\ UNCHANGED <<sessionVars, accessReaders, accessLock, pendingCbCount,
                 threadVars, requestVars, transportVars, cur, retries,
                 msg_counter, failed>>

\* LacSymCb_PendingReqsDequeue: take the lock, clear the blocking condition.
DequeueBegin ==
  /\ poll = "lock"
  /\ requestQueueLock = NoThread
  /\ requestQueueLock' = Poller
  /\ nonBlockingOpsInProgress' = TRUE
  /\ poll' = "drain"
  /\ UNCHANGED <<queue, hasTail, partialState, accessReaders, accessLock,
                 pendingCbCount, threadVars, requestVars, transportVars, cur,
                 retries, msg_counter, failed>>

MoreToSend == queue # <<>> /\ nonBlockingOpsInProgress

\* Mutant: a part from the queue does not block what is behind it.
DequeueNextUnmarked ==
  /\ poll = "drain"
  /\ MoreToSend
  /\ retries' = 0
  /\ poll' = "put"
  /\ UNCHANGED <<sessionVars, lockVars, pendingCbCount, threadVars,
                 requestVars, transportVars, cur, msg_counter, failed>>

\* Turn to the head of the queue; a part blocks what is behind it.
DequeueNext ==
  /\ poll = "drain"
  /\ MoreToSend
  /\ nonBlockingOpsInProgress' = ~IsPart(Head(queue))
  /\ retries' = 0
  /\ poll' = "put"
  /\ UNCHANGED <<queue, hasTail, partialState, lockVars, pendingCbCount,
                 threadVars, requestVars, transportVars, cur, msg_counter,
                 failed>>

\* Leave the queue: unlock it and go on with the callback.
DequeueLeave ==
  /\ requestQueueLock' = NoThread
  /\ retries' = 0
  /\ poll' = "user"

\* Mutant: the head stays in the queue.
DequeuePutKeepsHead ==
  /\ poll = "put"
  /\ Accept(Head(queue))
  /\ poll' = "drain"
  /\ UNCHANGED <<sessionVars, lockVars, pendingCbCount, threadVars, fwType,
                 cur, retries, msg_counter, failed>>

\* The put succeeds; with the last retry used up it counts as failed.
DequeuePut ==
  /\ poll = "put"
  /\ Accept(Head(queue))
  /\ IF retries + 1 >= DEQUEUE_MSGPUT_MAX_RETRIES
     THEN DequeueLeave /\ failed' = TRUE /\ UNCHANGED queue
     ELSE /\ queue' = Tail(queue)
          /\ poll' = "drain"
          /\ UNCHANGED <<requestQueueLock, retries, failed>>
  /\ UNCHANGED <<nonBlockingOpsInProgress, hasTail, partialState,
                 accessReaders, accessLock, pendingCbCount, threadVars, fwType,
                 cur, msg_counter>>

\* The ring is full: yield and try again, up to the limit.
DequeueRetry ==
  /\ poll = "put"
  /\ ~HasRoom
  /\ IF retries + 1 >= DEQUEUE_MSGPUT_MAX_RETRIES
     THEN DequeueLeave /\ failed' = TRUE
     ELSE /\ retries' = retries + 1
          /\ UNCHANGED <<requestQueueLock, poll, failed>>
  /\ UNCHANGED <<sessionVars, accessReaders, accessLock, pendingCbCount,
                 threadVars, requestVars, transportVars, cur, msg_counter>>

DequeueEnd ==
  /\ poll = "drain"
  /\ ~MoreToSend
  /\ hasTail' = (queue # <<>>)
  /\ DequeueLeave
  /\ UNCHANGED <<nonBlockingOpsInProgress, queue, partialState, accessReaders,
                 accessLock, pendingCbCount, threadVars, requestVars,
                 transportVars, cur, msg_counter, failed>>

\* Free the cookie and call the user.
UserCallback ==
  /\ poll = "user"
  /\ stage' = [stage EXCEPT ![cur] = "done"]
  /\ poll' = "count"
  /\ UNCHANGED <<sessionVars, lockVars, pendingCbCount, threadVars, fwType,
                 puts, transportVars, cur, retries, msg_counter, failed>>

CallbackDone ==
  /\ poll = "count"
  /\ pendingCbCount' = pendingCbCount - 1
  /\ msg_counter' = msg_counter + 1
  /\ cur' = NoReq
  /\ poll' = "loop"
  /\ UNCHANGED <<sessionVars, lockVars, threadVars, requestVars, transportVars,
                 retries, failed>>

\* The poll loop ends: uncount the requests that were answered.
PollEnd ==
  /\ poll = "loop"
  /\ msg_counter > 0
  /\ in_flight' = in_flight - msg_counter
  /\ msg_counter' = 0
  /\ UNCHANGED <<sessionVars, lockVars, pendingCbCount, threadVars,
                 requestVars, onRing, poll, cur, retries, failed>>

-----------------------------------------------------------------------------
CallStep(t) ==
  \/ PerformBuild(t) \/ PerformFail(t) \/ PerformLeave(t) \/ PerformUnlock(t)
  \/ SendCheck(t) \/ SendQueue(t) \/ SendMark(t) \/ SendPut(t)
  \/ SendRefused(t) \/ PerformReturn(t) \/ UpdateEnd(t) \/ UpdateFail(t)

PollStep ==
  \/ DequeueBegin \/ DequeueNext \/ DequeuePut \/ DequeueRetry \/ DequeueEnd
  \/ UserCallback \/ CallbackDone \/ PollEnd

Next ==
  \/ \E t \in Threads :
       \/ \E r \in Reqs : PerformBegin(t, r)
       \/ CallStep(t)
       \/ UpdateBegin(t)
       \/ RemoveSession(t)
  \/ \E r \in Reqs, ok \in BOOLEAN : Response(r, ok)
  \/ PollStep

Spec == Init /\ [][Next]_vars

\* Calls that began go on, the device answers and the application polls.
Fairness ==
  /\ \A t \in Threads : WF_vars(CallStep(t))
  /\ WF_vars(PollStep)
  /\ WF_vars(\E r \in Reqs, ok \in BOOLEAN : Response(r, ok))

FairSpec == Spec /\ Fairness

-----------------------------------------------------------------------------
(* Properties.                                                             *)

\* The parts that use the session's cipherPartialOpState: a part that is about
\* to be put, by a call or from the queue, or that is with the device.
PartsInUse ==
  {r \in Range(Parts) :
     \/ r \in onRing
     \/ poll = "put" /\ r = Head(queue)
     \/ \E t \in Threads : pc[t] = "put" /\ req[t] = r}

\* "This can only be done when no other partials are in flight for this
\* session" (lac_sym_queue.c, lac_sym_cb.c): whichever of a calling thread and
\* the callback sends it, at most one part uses the session's state.
OnePartInUse == Cardinality(PartsInUse) <= 1

\* A part goes to the device only after the one before it was answered, and
\* with the flag of its place in the message: partialState, which is written
\* after the put, is never read too early (LacSymQat_packetTypeGet).
PartsInOrder ==
  \A i \in 1 .. Len(Parts) : puts[Parts[i]] > 0 =>
    /\ i > 1 => puts[Parts[i - 1]] > 0 /\ Parts[i - 1] \notin onRing
    /\ fwType[Parts[i]] = IF i = 1 THEN "START"
                          ELSE IF i = Len(Parts) THEN "END" ELSE "MID"

\* No request is put on the ring twice, by the call and from the queue or by
\* the retry loop of LacSymCb_PendingReqsDequeue, which takes a put that
\* succeeds on the last retry for a failed one; and what is still in the queue
\* was not put.
SentOnce ==
  /\ \A r \in Reqs : puts[r] <= 1
  /\ \A i \in 1 .. Len(queue) : puts[queue[i]] = 0

\* No request is queued, with the device or in its callback.
NoneOutstanding == queue = <<>> /\ onRing = {} /\ poll = "loop"

\* While cpaCySymUpdateSession rewrites the content descriptor no call builds
\* a request from it and no request that refers to it is outstanding; and a
\* session that cpaCySymRemoveSession has freed is not touched again, by a
\* queued request, a response or a callback.
SessionIdle ==
  \A t \in Threads :
    /\ pc[t] \in {"update", "removed"} => NoneOutstanding
    /\ pc[t] = "update" =>
         \A u \in Threads \ {t} : pc[u] \in {"idle", "return"}

\* "... the message will instead be pushed on to the request queue for the
\* session and will be sent later to the QAT once the blocking condition is
\* cleared" (lac_sym_queue.h): a queue is not left behind by a session that
\* does not block.
QueueNotStranded ==
  queue # <<>> => nonBlockingOpsInProgress = FALSE \/ poll \in {"drain", "put"}

\* A queue that fills up drains: what is queued is sent, to the last request,
\* unless a part or an update of the session failed, which the application is
\* told (LacSymCb_PendingReqsDequeue).
QueuedSent ==
  (\E r \in Reqs : stage[r] = "queued")
    ~> (\A r \in Reqs : stage[r] # "queued") \/ failed

\* Every callback that is counted comes, so that the session can be removed,
\* unless a part or an update failed.
CallbacksComplete == []<>(pendingCbCount = 0 \/ failed)

=============================================================================
