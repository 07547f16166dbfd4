-------------------------- MODULE SymSessionProofs --------------------------
(***************************************************************************)
(* Proofs about SymSession, for every number of threads, parts, full       *)
(* packets and retries, and every size of the ring.                        *)
(***************************************************************************)
EXTENDS SymSession, FiniteSetTheorems, TLAPS

TypeOK ==
  /\ nonBlockingOpsInProgress \in BOOLEAN /\ hasTail \in BOOLEAN
  /\ queue \in Seq(Reqs)
  /\ partialState \in {"FULL", "PARTIAL"}
  /\ accessLock \in Threads \cup {NoThread}
  /\ pc \in [Threads -> {"idle", "build", "unlock", "send", "lock", "mark", "put",
                         "return", "update", "removed"}]
  /\ req \in [Threads -> Reqs \cup {NoReq}]
  /\ stage \in [Reqs -> {"new", "queued", "sent", "done"}]
  /\ fwType \in [Reqs -> {"NONE", "START", "MID", "END"}]
  /\ puts \in [Reqs -> Nat]
  /\ onRing \subseteq Reqs /\ in_flight \in Int
  /\ poll \in {"loop", "lock", "drain", "put", "user", "count"}
  /\ cur \in Reqs \cup {NoReq}
  /\ retries \in Nat /\ msg_counter \in Nat

\* A call has a request of its own, which was neither queued nor put before the
\* last steps of the call.
Sending == {"unlock", "send", "lock", "mark", "put"}

CallInv ==
  /\ \A t \in Threads :
       /\ pc[t] \in {"build"} \cup Sending => req[t] \in Reqs /\ stage[req[t]] = "new"
       /\ pc[t] = "return" => req[t] \in Reqs /\ stage[req[t]] # "new"
       /\ pc[t] \in {"idle", "update", "removed"} => req[t] = NoReq
  /\ \A t, u \in Threads : req[t] = req[u] /\ req[t] # NoReq => t = u

\* The queue holds the queued requests, each once, and hasTail shows that it
\* holds some.
QueueInv ==
  /\ \A i \in 1 .. Len(queue) : stage[queue[i]] = "queued"
  /\ \A r \in Reqs : stage[r] = "queued" => \E i \in 1 .. Len(queue) : queue[i] = r
  /\ \A i, j \in 1 .. Len(queue) : queue[i] = queue[j] => i = j
  /\ (queue # <<>> => hasTail)

\* A request that was sent is on the ring or in its callback.
RingInv ==
  /\ \A r \in onRing : stage[r] = "sent" /\ r # cur
  /\ \A r \in Reqs : stage[r] = "sent" => r \in onRing \/ r = cur
  /\ \A r \in Reqs : puts[r] = IF stage[r] \in {"new", "queued"} THEN 0 ELSE 1

\* The poller holds a response except in its loop.  It gives up a put only on
\* a full ring, and nothing makes room while it tries: only it uncounts.
PollInv ==
  /\ poll = "loop" <=> cur = NoReq
  /\ poll \in {"lock", "drain", "put", "user"} => stage[cur] = "sent"
  /\ poll = "count" => stage[cur] = "done"
  /\ poll = "put" => queue # <<>>
  /\ poll = "lock" => IsPart(cur)
  /\ retries # 0 => poll = "put" /\ ~HasRoom

IInv == TypeOK /\ CallInv /\ QueueInv /\ RingInv /\ PollInv

-----------------------------------------------------------------------------
\* The readers and the writer of the session.  A call that returned without
\* unlocking (PerformLeave) is counted as a reader for ever.
Readers == {t \in Threads : pc[t] \in {"build", "unlock"}}

LockInv ==
  /\ IsFiniteSet(Readers)
  /\ accessReaders \in Nat /\ Cardinality(Readers) <= accessReaders
  /\ \A t \in Threads : pc[t] = "update" <=> accessLock = t

\* The requests whose callbacks pendingCbCount counts.
Pending ==
  {r \in Reqs : \/ stage[r] \in {"queued", "sent"}
                \/ r = cur
                \/ \E t \in Threads : req[t] = r /\ pc[t] \in Sending}

PendInv == IsFiniteSet(Pending) /\ pendingCbCount = Cardinality(Pending)

\* With SessionIdle: all calls see a session go.
IdleInv ==
  /\ SessionIdle
  /\ \A t, u \in Threads : pc[t] = "removed" => pc[u] = "removed"

JInv == LockInv /\ PendInv /\ IdleInv

-----------------------------------------------------------------------------
(* Requests: where each is, and how often it was put.                      *)

LEMMA InitIInv == Init => IInv
<1> SUFFICES ASSUME Init PROVE IInv
  OBVIOUS
<1>1. TypeOK
  <2>1. nonBlockingOpsInProgress \in BOOLEAN /\ hasTail \in BOOLEAN
    BY Zenon DEF Init
  <2>2. queue \in Seq(Reqs)
    BY DEF Init
  <2>3. puts \in [Reqs -> Nat] /\ retries \in Nat /\ msg_counter \in Nat /\ in_flight \in Int
    BY DEF Init
  <2>4. QED
    BY Zenon, <2>1, <2>2, <2>3 DEF Init, TypeOK
<1>2. CallInv
  BY Zenon DEF Init, CallInv, Sending
<1>3. QueueInv /\ RingInv /\ PollInv
  BY DEF Init, QueueInv, RingInv, PollInv
<1>4. QED
  BY Zenon, <1>1, <1>2, <1>3 DEF IInv

\* Steps that touch neither the queue, nor the ring, nor the poller.
LEMMA RestKept ==
  ASSUME IInv,
         UNCHANGED <<queue, hasTail, stage, puts, onRing, in_flight, poll, cur, retries>>
  PROVE  QueueInv' /\ RingInv' /\ PollInv'
BY DEF IInv, QueueInv, RingInv, PollInv, HasRoom

\* A step of one call, before its request gets anywhere.
LEMMA CallKept ==
  ASSUME IInv, NEW t \in Threads, NEW p, NEW x,
         pc' = [pc EXCEPT ![t] = p], req' = [req EXCEPT ![t] = x], stage' = stage,
         x # NoReq => \A u \in Threads : req[u] = x => u = t,
         p \in {"build"} \cup Sending => x \in Reqs /\ stage[x] = "new",
         p = "return" => x \in Reqs /\ stage[x] # "new",
         p \in {"idle", "update", "removed"} => x = NoReq
  PROVE  CallInv'
<1>1. pc \in [Threads -> {"idle", "build", "unlock", "send", "lock", "mark", "put",
                          "return", "update", "removed"}]
      /\ req \in [Threads -> Reqs \cup {NoReq}]
  BY Zenon DEF IInv, TypeOK
<1>2. \A u \in Threads \ {t} : pc'[u] = pc[u] /\ req'[u] = req[u]
  BY Zenon, <1>1
<1>3. pc'[t] = p /\ req'[t] = x
  BY Zenon, <1>1
<1>4. ASSUME NEW u \in Threads
      PROVE  /\ pc'[u] \in {"build"} \cup Sending => req'[u] \in Reqs /\ stage'[req'[u]] = "new"
             /\ pc'[u] = "return" => req'[u] \in Reqs /\ stage'[req'[u]] # "new"
             /\ pc'[u] \in {"idle", "update", "removed"} => req'[u] = NoReq
  BY <1>2, <1>3 DEF IInv, CallInv
<1>5. ASSUME NEW u \in Threads, NEW v \in Threads, req'[u] = req'[v], req'[u] # NoReq
      PROVE  u = v
  BY <1>2, <1>3, <1>5 DEF IInv, CallInv
<1>6. QED
  BY Zenon, <1>4, <1>5 DEF CallInv

\* A call goes on to its next step with the request it has.
LEMMA CallMoves ==
  ASSUME IInv, NEW t \in Threads, NEW p \in Sending, pc[t] \in {"build"} \cup Sending,
         pc' = [pc EXCEPT ![t] = p], UNCHANGED <<req, stage>>
  PROVE  CallInv'
<1>1. req' = [req EXCEPT ![t] = req[t]]
  BY Zenon DEF IInv, TypeOK
<1>2. /\ req[t] # NoReq => \A u \in Threads : req[u] = req[t] => u = t
      /\ req[t] \in Reqs /\ stage[req[t]] = "new"
  BY Zenon DEF IInv, CallInv
<1>3. p # "return" /\ p \notin {"idle", "update", "removed"}
  BY Zenon DEF Sending
<1>4. QED
  BY Zenon, <1>1, <1>2, <1>3, CallKept

\* A call returns.
LEMMA CallEnds ==
  ASSUME IInv, NEW t \in Threads,
         pc' = [pc EXCEPT ![t] = "idle"], req' = [req EXCEPT ![t] = NoReq], stage' = stage
  PROVE  CallInv'
BY Zenon, CallKept DEF Sending

\* Steps of the poller: calls see no change.
LEMMA CallsUntouched ==
  ASSUME IInv, UNCHANGED <<pc, req>>,
         \A r \in Reqs : stage'[r] = "new" <=> stage[r] = "new"
  PROVE  CallInv'
BY Zenon DEF IInv, CallInv

LEMMA PerformBeginIInv ==
  ASSUME IInv, NEW t \in Threads, NEW r \in Reqs, PerformBegin(t, r)
  PROVE  IInv'
<1>1. /\ pc[t] = "idle" /\ stage[r] = "new" /\ \A u \in Threads : req[u] # r
      /\ pc' = [pc EXCEPT ![t] = "build"] /\ req' = [req EXCEPT ![t] = r]
      /\ UNCHANGED <<nonBlockingOpsInProgress, queue, hasTail, partialState, accessLock>>
      /\ UNCHANGED <<stage, fwType, puts, onRing, in_flight>>
      /\ UNCHANGED <<poll, cur, retries, msg_counter>>
  BY Zenon DEF PerformBegin, sessionVars, requestVars, transportVars, pollVars
<1>2. TypeOK'
  BY Zenon, <1>1 DEF IInv, TypeOK
<1>3. CallInv'
  BY Zenon, <1>1, CallKept DEF Sending
<1>4. QED
  BY Zenon, <1>1, <1>2, <1>3, RestKept DEF IInv

LEMMA PerformBuildIInv ==
  ASSUME IInv, NEW t \in Threads, PerformBuild(t)
  PROVE  IInv'
<1>1. /\ pc[t] = "build"
      /\ fwType' = [fwType EXCEPT ![req[t]] = packetTypeGet(packetType(req[t]))]
      /\ pc' = [pc EXCEPT ![t] = "unlock"] /\ req' = req
      /\ UNCHANGED <<nonBlockingOpsInProgress, queue, hasTail, partialState, accessLock>>
      /\ UNCHANGED <<stage, puts, onRing, in_flight>>
      /\ UNCHANGED <<poll, cur, retries, msg_counter>>
  BY Zenon DEF PerformBuild, sessionVars, lockVars, transportVars, pollVars
<1>2. packetTypeGet(packetType(req[t])) \in {"NONE", "START", "MID", "END"}
  BY Zenon DEF packetTypeGet, packetType
<1>3. TypeOK'
  BY Zenon, <1>1, <1>2 DEF IInv, TypeOK
<1>4. CallInv'
  BY Zenon, <1>1, CallMoves DEF Sending
<1>5. QED
  BY Zenon, <1>1, <1>3, <1>4, RestKept DEF IInv

LEMMA PerformFailIInv ==
  ASSUME IInv, NEW t \in Threads, PerformFail(t) \/ PerformLeave(t)
  PROVE  IInv'
<1>1. /\ pc' = [pc EXCEPT ![t] = "idle"] /\ req' = [req EXCEPT ![t] = NoReq]
      /\ UNCHANGED <<nonBlockingOpsInProgress, queue, hasTail, partialState, accessLock>>
      /\ UNCHANGED <<stage, fwType, puts, onRing, in_flight>>
      /\ UNCHANGED <<poll, cur, retries, msg_counter>>
  BY Zenon DEF PerformFail, PerformLeave, sessionVars, lockVars, requestVars, transportVars,
     pollVars
<1>2. TypeOK'
  BY Zenon, <1>1 DEF IInv, TypeOK
<1>3. CallInv'
  BY Zenon, <1>1, CallEnds
<1>4. QED
  BY Zenon, <1>1, <1>2, <1>3, RestKept DEF IInv

LEMMA PerformUnlockIInv ==
  ASSUME IInv, NEW t \in Threads, PerformUnlock(t)
  PROVE  IInv'
<1>1. /\ pc[t] = "unlock" /\ pc' = [pc EXCEPT ![t] = "send"] /\ req' = req
      /\ UNCHANGED <<nonBlockingOpsInProgress, queue, hasTail, partialState, accessLock>>
      /\ UNCHANGED <<stage, fwType, puts, onRing, in_flight>>
      /\ UNCHANGED <<poll, cur, retries, msg_counter>>
  BY Zenon DEF PerformUnlock, sessionVars, lockVars, requestVars, transportVars, pollVars
<1>2. TypeOK'
  BY Zenon, <1>1 DEF IInv, TypeOK
<1>3. CallInv'
  BY Zenon, <1>1, CallMoves DEF Sending
<1>4. QED
  BY Zenon, <1>1, <1>2, <1>3, RestKept DEF IInv

LEMMA SendCheckIInv ==
  ASSUME IInv, NEW t \in Threads, SendCheck(t)
  PROVE  IInv'
<1>1. /\ pc[t] = "send" /\ req' = req
      /\ \E p \in {"lock", "mark", "put"} : pc' = [pc EXCEPT ![t] = p]
      /\ UNCHANGED <<nonBlockingOpsInProgress, queue, hasTail, partialState, accessLock>>
      /\ UNCHANGED <<stage, fwType, puts, onRing, in_flight>>
      /\ UNCHANGED <<poll, cur, retries, msg_counter>>
  BY Zenon DEF SendCheck, ClearToSend, sessionVars, lockVars, requestVars, transportVars, pollVars
<1>2. TypeOK'
  BY Zenon, <1>1 DEF IInv, TypeOK
<1>3. CallInv'
  BY Zenon, <1>1, CallMoves DEF Sending
<1>4. QED
  BY Zenon, <1>1, <1>2, <1>3, RestKept DEF IInv

LEMMA SendMarkIInv ==
  ASSUME IInv, NEW t \in Threads, SendMark(t)
  PROVE  IInv'
<1>1. /\ pc[t] = "mark" /\ pc' = [pc EXCEPT ![t] = "put"] /\ req' = req
      /\ nonBlockingOpsInProgress' \in BOOLEAN
      /\ UNCHANGED <<queue, hasTail, partialState, accessLock>>
      /\ UNCHANGED <<stage, fwType, puts, onRing, in_flight>>
      /\ UNCHANGED <<poll, cur, retries, msg_counter>>
  BY Zenon DEF SendMark, sessionVars, lockVars, requestVars, transportVars, pollVars
<1>2. TypeOK'
  BY Zenon, <1>1 DEF IInv, TypeOK
<1>3. CallInv'
  BY Zenon, <1>1, CallMoves DEF Sending
<1>4. QED
  BY Zenon, <1>1, <1>2, <1>3, RestKept DEF IInv

LEMMA SendRefusedIInv ==
  ASSUME IInv, NEW t \in Threads, SendRefused(t)
  PROVE  IInv'
<1>1. /\ pc' = [pc EXCEPT ![t] = "idle"] /\ req' = [req EXCEPT ![t] = NoReq]
      /\ nonBlockingOpsInProgress' = (nonBlockingOpsInProgress \/ IsPart(req[t]))
      /\ UNCHANGED <<queue, hasTail, partialState, accessLock>>
      /\ UNCHANGED <<stage, fwType, puts, onRing, in_flight>>
      /\ UNCHANGED <<poll, cur, retries, msg_counter>>
  BY Zenon DEF SendRefused, sessionVars, lockVars, requestVars, transportVars, pollVars
<1>2. TypeOK'
  BY Zenon, <1>1 DEF IInv, TypeOK
<1>3. CallInv'
  BY Zenon, <1>1, CallEnds
<1>4. QED
  BY Zenon, <1>1, <1>2, <1>3, RestKept DEF IInv

LEMMA PerformReturnIInv ==
  ASSUME IInv, NEW t \in Threads, PerformReturn(t)
  PROVE  IInv'
<1>1. /\ pc' = [pc EXCEPT ![t] = "idle"] /\ req' = [req EXCEPT ![t] = NoReq]
      /\ partialState' \in {"FULL", "PARTIAL", partialState}
      /\ UNCHANGED <<nonBlockingOpsInProgress, queue, hasTail, accessLock>>
      /\ UNCHANGED <<stage, fwType, puts, onRing, in_flight>>
      /\ UNCHANGED <<poll, cur, retries, msg_counter>>
  BY Zenon DEF PerformReturn, PartialPacketStateUpdate, sessionVars, lockVars, requestVars, transportVars, pollVars
<1>2. TypeOK'
  BY Zenon, <1>1 DEF IInv, TypeOK
<1>3. CallInv'
  BY Zenon, <1>1, CallEnds
<1>4. QED
  BY Zenon, <1>1, <1>2, <1>3, RestKept DEF IInv

\* The calls that change the session have no request.
LEMMA UpdateMoves ==
  ASSUME IInv, NEW t \in Threads, NEW p \in {"idle", "update"}, pc[t] \in {"idle", "update"},
         pc' = [pc EXCEPT ![t] = p], UNCHANGED <<req, stage>>
  PROVE  CallInv'
<1>1. req[t] = NoReq /\ req' = [req EXCEPT ![t] = NoReq]
  BY Zenon DEF IInv, TypeOK, CallInv
<1>2. p \notin {"build"} \cup Sending /\ p # "return"
  BY Zenon DEF Sending
<1>3. QED
  BY Zenon, <1>1, <1>2, CallKept

LEMMA UpdateBeginIInv ==
  ASSUME IInv, NEW t \in Threads, UpdateBegin(t)
  PROVE  IInv'
<1>1. /\ pc[t] = "idle" /\ pc' = [pc EXCEPT ![t] = "update"] /\ req' = req
      /\ nonBlockingOpsInProgress' \in BOOLEAN /\ accessLock' = t
      /\ UNCHANGED <<queue, hasTail, partialState>>
      /\ UNCHANGED <<stage, fwType, puts, onRing, in_flight>>
      /\ UNCHANGED <<poll, cur, retries, msg_counter>>
  BY Zenon DEF UpdateBegin, sessionVars, lockVars, requestVars, transportVars, pollVars
<1>2. TypeOK'
  BY Zenon, <1>1 DEF IInv, TypeOK
<1>3. CallInv'
  BY Zenon, <1>1, UpdateMoves
<1>4. QED
  BY Zenon, <1>1, <1>2, <1>3, RestKept DEF IInv

LEMMA UpdateEndIInv ==
  ASSUME IInv, NEW t \in Threads, UpdateEnd(t)
  PROVE  IInv'
<1>1. /\ pc[t] = "update" /\ pc' = [pc EXCEPT ![t] = "idle"] /\ req' = req
      /\ nonBlockingOpsInProgress' \in BOOLEAN /\ accessLock' = NoThread
      /\ UNCHANGED <<queue, hasTail, partialState>>
      /\ UNCHANGED <<stage, fwType, puts, onRing, in_flight>>
      /\ UNCHANGED <<poll, cur, retries, msg_counter>>
  BY Zenon DEF UpdateEnd, sessionVars, lockVars, requestVars, transportVars, pollVars
<1>2. TypeOK'
  BY Zenon, <1>1 DEF IInv, TypeOK
<1>3. CallInv'
  BY Zenon, <1>1, UpdateMoves
<1>4. QED
  BY Zenon, <1>1, <1>2, <1>3, RestKept DEF IInv

LEMMA UpdateFailIInv ==
  ASSUME IInv, NEW t \in Threads, UpdateFail(t)
  PROVE  IInv'
<1>1. /\ pc[t] = "update" /\ pc' = [pc EXCEPT ![t] = "idle"] /\ req' = req
      /\ accessLock' = NoThread
      /\ UNCHANGED <<nonBlockingOpsInProgress, queue, hasTail, partialState>>
      /\ UNCHANGED <<stage, fwType, puts, onRing, in_flight>>
      /\ UNCHANGED <<poll, cur, retries, msg_counter>>
  BY Zenon DEF UpdateFail, sessionVars, lockVars, requestVars, transportVars, pollVars
<1>2. TypeOK'
  BY Zenon, <1>1 DEF IInv, TypeOK
<1>3. CallInv'
  BY Zenon, <1>1, UpdateMoves
<1>4. QED
  BY Zenon, <1>1, <1>2, <1>3, RestKept DEF IInv

LEMMA RemoveSessionIInv ==
  ASSUME IInv, NEW t \in Threads, RemoveSession(t)
  PROVE  IInv'
<1>1. /\ \A u \in Threads : pc[u] = "idle"
      /\ pc' = [u \in Threads |-> "removed"] /\ req' = req
      /\ UNCHANGED <<nonBlockingOpsInProgress, queue, hasTail, partialState, accessLock>>
      /\ UNCHANGED <<stage, fwType, puts, onRing, in_flight>>
      /\ UNCHANGED <<poll, cur, retries, msg_counter>>
  BY Zenon DEF RemoveSession, sessionVars, lockVars, requestVars, transportVars, pollVars
<1>2. TypeOK'
  BY Zenon, <1>1 DEF IInv, TypeOK
<1>3. CallInv'
  BY Zenon, <1>1 DEF IInv, CallInv, Sending
<1>4. QED
  BY Zenon, <1>1, <1>2, <1>3, RestKept DEF IInv

LEMMA AppendFacts ==
  ASSUME NEW S, NEW q \in Seq(S), NEW e \in S
  PROVE  /\ Append(q, e) \in Seq(S) /\ Append(q, e) # <<>>
         /\ Len(q) \in Nat /\ Len(Append(q, e)) = Len(q) + 1
         /\ \A i \in 1 .. Len(q) : Append(q, e)[i] = q[i]
         /\ Append(q, e)[Len(q) + 1] = e
OBVIOUS

LEMMA TailFacts ==
  ASSUME NEW S, NEW q \in Seq(S), q # <<>>
  PROVE  /\ Tail(q) \in Seq(S) /\ Head(q) = q[1] /\ Head(q) \in S
         /\ Len(q) \in Nat \ {0} /\ Len(Tail(q)) = Len(q) - 1
         /\ \A i \in 1 .. Len(q) - 1 : Tail(q)[i] = q[i + 1]
OBVIOUS

\* A call has queued or put its request.
LEMMA CallSends ==
  ASSUME IInv, NEW t \in Threads, NEW x, x # "new", pc[t] \in Sending,
         pc' = [pc EXCEPT ![t] = "return"], req' = req,
         stage' = [stage EXCEPT ![req[t]] = x]
  PROVE  CallInv'
<1>1. /\ pc \in [Threads -> {"idle", "build", "unlock", "send", "lock", "mark", "put",
                             "return", "update", "removed"}]
      /\ stage \in [Reqs -> {"new", "queued", "sent", "done"}]
  BY Zenon DEF IInv, TypeOK
<1>2. req[t] \in Reqs /\ req[t] # NoReq
  BY Zenon, SymAssumption DEF IInv, CallInv
<1>3. pc'[t] = "return" /\ \A u \in Threads \ {t} : pc'[u] = pc[u]
  BY Zenon, <1>1
<1>4. stage'[req[t]] = x /\ \A r \in Reqs \ {req[t]} : stage'[r] = stage[r]
  BY Zenon, <1>1, <1>2
<1>5. \A u \in Threads \ {t} : req[u] # req[t]
  BY Zenon, <1>2 DEF IInv, CallInv
<1>6. ASSUME NEW u \in Threads
      PROVE  /\ pc'[u] \in {"build"} \cup Sending => req'[u] \in Reqs /\ stage'[req'[u]] = "new"
             /\ pc'[u] = "return" => req'[u] \in Reqs /\ stage'[req'[u]] # "new"
             /\ pc'[u] \in {"idle", "update", "removed"} => req'[u] = NoReq
  <2>1. CASE u = t
    BY Zenon, <1>2, <1>3, <1>4, <2>1 DEF Sending
  <2>2. CASE u # t
    BY Zenon, <1>3, <1>4, <1>5, <2>2 DEF IInv, CallInv
  <2>3. QED
    BY Zenon, <2>1, <2>2
<1>7. QED
  BY Zenon, <1>6 DEF IInv, CallInv

LEMMA SendQueueIInv ==
  ASSUME IInv, NEW t \in Threads, SendQueue(t)
  PROVE  IInv'
<1>1. /\ pc[t] = "lock" /\ req' = req
      /\ UNCHANGED <<nonBlockingOpsInProgress, partialState, accessLock>>
      /\ UNCHANGED <<fwType, puts, onRing, in_flight>>
      /\ UNCHANGED <<poll, cur, retries, msg_counter>>
  BY Zenon DEF SendQueue, lockVars, transportVars, pollVars
<1>2. CASE /\ UNCHANGED <<queue, hasTail, stage>>
           /\ \E p \in {"mark", "put"} : pc' = [pc EXCEPT ![t] = p]
  <2>1. TypeOK'
    BY Zenon, <1>1, <1>2 DEF IInv, TypeOK
  <2>2. CallInv'
    BY Zenon, <1>1, <1>2, CallMoves DEF Sending
  <2>3. QED
    BY Zenon, <1>1, <1>2, <2>1, <2>2, RestKept DEF IInv
<1>3. CASE /\ queue' = Append(queue, req[t]) /\ hasTail' = TRUE
           /\ stage' = [stage EXCEPT ![req[t]] = "queued"]
           /\ pc' = [pc EXCEPT ![t] = "return"]
  <2>1. PICK r \in Reqs : r = req[t] /\ stage[r] = "new"
    BY Zenon, <1>1 DEF IInv, CallInv, Sending
  <2>2. queue \in Seq(Reqs) /\ stage \in [Reqs -> {"new", "queued", "sent", "done"}]
    BY Zenon DEF IInv, TypeOK
  <2>3. stage'[r] = "queued" /\ \A x \in Reqs \ {r} : stage'[x] = stage[x]
    BY Zenon, <1>3, <2>1, <2>2
  <2>4. /\ queue' \in Seq(Reqs) /\ queue' # <<>> /\ Len(queue) \in Nat
        /\ Len(queue') = Len(queue) + 1 /\ queue'[Len(queue) + 1] = r
        /\ \A i \in 1 .. Len(queue) : queue'[i] = queue[i]
    BY <1>3, <2>1, <2>2, AppendFacts
  <2>5. TypeOK'
    BY Zenon, <1>1, <1>3, <2>1, <2>4 DEF IInv, TypeOK
  <2>6. CallInv'
    BY Zenon, <1>1, <1>3, CallSends DEF Sending
  <2>7. \A i \in 1 .. Len(queue) : queue[i] \in Reqs /\ stage[queue[i]] = "queued" /\ queue[i] # r
    BY <2>1, <2>2 DEF IInv, QueueInv
  <2>8. QueueInv'
    <3>1. \A i \in 1 .. Len(queue') : i \in 1 .. Len(queue) \/ i = Len(queue) + 1
      BY <2>4
    <3>2. /\ \A i \in 1 .. Len(queue) : i \in 1 .. Len(queue')
          /\ Len(queue) + 1 \in 1 .. Len(queue')
      BY <2>4
    <3>3. \A i \in 1 .. Len(queue') : stage'[queue'[i]] = "queued"
      BY Zenon, <2>3, <2>4, <2>7, <3>1
    <3>4. \A x \in Reqs : stage'[x] = "queued" => \E i \in 1 .. Len(queue') : queue'[i] = x
      BY Zenon, <2>3, <2>4, <3>2 DEF IInv, QueueInv
    <3>5. ASSUME NEW i \in 1 .. Len(queue'), NEW j \in 1 .. Len(queue'), queue'[i] = queue'[j]
          PROVE  i = j
      <4>1. CASE i \in 1 .. Len(queue) /\ j \in 1 .. Len(queue)
        BY Zenon, <2>4, <3>5, <4>1 DEF IInv, QueueInv
      <4>2. CASE i = Len(queue) + 1 /\ j \in 1 .. Len(queue)
        BY Zenon, <2>4, <2>7, <3>5, <4>2
      <4>3. CASE i \in 1 .. Len(queue) /\ j = Len(queue) + 1
        BY Zenon, <2>4, <2>7, <3>5, <4>3
      <4>4. QED
        BY Zenon, <3>1, <4>1, <4>2, <4>3
    <3>6. QED
      BY Zenon, <1>3, <3>3, <3>4, <3>5 DEF QueueInv
  <2>9. RingInv'
    BY Zenon, <1>1, <2>1, <2>3 DEF IInv, TypeOK, RingInv
  <2>10. PollInv'
    <3>1. cur # NoReq => cur \in Reqs /\ cur # r
      BY Zenon, <2>1 DEF IInv, TypeOK, PollInv
    <3>2. QED
      BY Zenon, <1>1, <2>3, <2>4, <3>1 DEF IInv, PollInv, HasRoom
  <2>11. QED
    BY Zenon, <2>5, <2>6, <2>8, <2>9, <2>10 DEF IInv
<1>4. QED
  BY Zenon, <1>2, <1>3 DEF SendQueue, ClearToSend

\* The response at hand belongs to a request that was sent.
LEMMA CurStage ==
  ASSUME IInv
  PROVE  cur \in Reqs => stage[cur] \in {"sent", "done"}
<1> SUFFICES ASSUME cur \in Reqs PROVE stage[cur] \in {"sent", "done"}
  OBVIOUS
<1>1. poll # "loop"
  BY Zenon, SymAssumption DEF IInv, PollInv
<1>2. QED
  BY Zenon, <1>1 DEF IInv, TypeOK, PollInv

\* A request that was new or queued is put on a ring with room.
LEMMA PutRing ==
  ASSUME IInv, NEW r \in Reqs, stage[r] \in {"new", "queued"}, Accept(r)
  PROVE  /\ RingInv' \/ cur' # cur
         /\ retries = 0 /\ puts' \in [Reqs -> Nat]
         /\ stage' \in [Reqs -> {"new", "queued", "sent", "done"}]
         /\ stage'[r] = "sent" /\ \A x \in Reqs \ {r} : stage'[x] = stage[x]
<1>1. /\ HasRoom /\ onRing' = onRing \cup {r}
      /\ puts' = [puts EXCEPT ![r] = puts[r] + 1]
      /\ stage' = [stage EXCEPT ![r] = "sent"]
  BY Zenon DEF Accept
<1>2. stage \in [Reqs -> {"new", "queued", "sent", "done"}] /\ puts \in [Reqs -> Nat]
  BY Zenon DEF IInv, TypeOK
<1>3. puts[r] = 0
  BY Zenon DEF IInv, RingInv
<1>4. /\ stage'[r] = "sent" /\ \A x \in Reqs \ {r} : stage'[x] = stage[x]
      /\ stage' \in [Reqs -> {"new", "queued", "sent", "done"}]
  BY Zenon, <1>1, <1>2
<1>5. /\ puts'[r] = 1 /\ \A x \in Reqs \ {r} : puts'[x] = puts[x]
      /\ puts' \in [Reqs -> Nat]
  BY <1>1, <1>2, <1>3
<1>6. r # cur
  BY Zenon, CurStage
<1>7. ASSUME cur' = cur
      PROVE  RingInv'
  <2>1. \A x \in onRing' : stage'[x] = "sent" /\ x # cur'
    BY Zenon, <1>1, <1>4, <1>6, <1>7 DEF IInv, TypeOK, RingInv
  <2>2. \A x \in Reqs : stage'[x] = "sent" => x \in onRing' \/ x = cur'
    BY Zenon, <1>1, <1>4, <1>7 DEF IInv, RingInv
  <2>3. \A x \in Reqs : puts'[x] = IF stage'[x] \in {"new", "queued"} THEN 0 ELSE 1
    BY Zenon, <1>4, <1>5 DEF IInv, RingInv
  <2>4. QED
    BY Zenon, <2>1, <2>2, <2>3 DEF RingInv
<1>8. retries = 0
  BY Zenon, <1>1 DEF IInv, PollInv
<1>9. QED
  BY Zenon, <1>4, <1>5, <1>7, <1>8

LEMMA SendPutIInv ==
  ASSUME IInv, NEW t \in Threads, SendPut(t)
  PROVE  IInv'
<1>1. /\ pc[t] = "put" /\ Accept(req[t]) /\ req' = req
      /\ pc' = [pc EXCEPT ![t] = "return"]
      /\ in_flight' = in_flight + 1 /\ onRing' = onRing \cup {req[t]}
      /\ stage' = [stage EXCEPT ![req[t]] = "sent"]
      /\ UNCHANGED <<nonBlockingOpsInProgress, queue, hasTail, partialState, accessLock>>
      /\ UNCHANGED <<fwType, poll, cur, retries, msg_counter>>
  BY Zenon DEF SendPut, Accept, sessionVars, lockVars, pollVars
<1>2. PICK r \in Reqs : r = req[t] /\ stage[r] = "new"
  BY Zenon, <1>1 DEF IInv, CallInv, Sending
<1>3. /\ RingInv' /\ retries = 0 /\ puts' \in [Reqs -> Nat]
      /\ stage' \in [Reqs -> {"new", "queued", "sent", "done"}]
      /\ stage'[r] = "sent" /\ \A x \in Reqs \ {r} : stage'[x] = stage[x]
  BY Zenon, <1>1, <1>2, PutRing
<1>4. in_flight' \in Int
  BY <1>1 DEF IInv, TypeOK
<1>5. TypeOK'
  BY Zenon, <1>1, <1>2, <1>3, <1>4 DEF IInv, TypeOK
<1>6. CallInv'
  BY Zenon, <1>1, CallSends DEF Sending
<1>7. QueueInv'
  <2>1. \A i \in 1 .. Len(queue) : queue[i] \in Reqs /\ queue[i] # r
    BY <1>2 DEF IInv, TypeOK, QueueInv
  <2>2. \A x \in Reqs : stage'[x] = "queued" => stage[x] = "queued"
    BY Zenon, <1>3
  <2>3. queue' = queue /\ hasTail' = hasTail
    BY Zenon, <1>1
  <2>4. QED
    BY Zenon, <1>3, <2>1, <2>2, <2>3 DEF IInv, QueueInv
<1>8. PollInv'
  <2>1. cur # NoReq => cur \in Reqs /\ cur # r
    BY Zenon, <1>2 DEF IInv, TypeOK, PollInv
  <2>2. QED
    BY Zenon, <1>1, <1>3, <2>1 DEF IInv, PollInv
<1>9. QED
  BY Zenon, <1>3, <1>5, <1>6, <1>7, <1>8 DEF IInv

-----------------------------------------------------------------------------
(* Requests and the steps of the poller.                                   *)

LEMMA ResponseIInv ==
  ASSUME IInv, NEW r \in Reqs, NEW ok \in BOOLEAN, Response(r, ok)
  PROVE  IInv'
<1>1. /\ poll = "loop" /\ r \in onRing /\ onRing' = onRing \ {r} /\ cur' = r
      /\ UNCHANGED <<nonBlockingOpsInProgress, queue, hasTail, partialState, accessLock>>
      /\ UNCHANGED <<pc, req, stage, fwType, puts, in_flight, retries, msg_counter>>
  BY Zenon DEF Response, sessionVars, lockVars, threadVars, requestVars
<1>2. poll' = "user" \/ (poll' = "lock" /\ IsPart(r))
  BY Zenon DEF Response
<1>3. TypeOK'
  BY Zenon, <1>1, <1>2 DEF IInv, TypeOK
<1>4. CallInv'
  BY Zenon, <1>1, CallsUntouched
<1>5. QueueInv'
  BY Zenon, <1>1 DEF IInv, QueueInv
<1>6. cur = NoReq /\ retries = 0 /\ stage[r] = "sent" /\ r # NoReq
  BY Zenon, <1>1, SymAssumption DEF IInv, PollInv, RingInv
<1>7. RingInv'
  <2>1. \A x \in Reqs : stage[x] = "sent" => x \in onRing
    BY Zenon, <1>6, SymAssumption DEF IInv, RingInv
  <2>2. QED
    BY Zenon, <1>1, <2>1 DEF IInv, RingInv
<1>8. PollInv'
  BY Zenon, <1>1, <1>2, <1>6 DEF PollInv
<1>9. QED
  BY Zenon, <1>3, <1>4, <1>5, <1>7, <1>8 DEF IInv

\* Steps with the response at hand that neither put nor finish a request.
LEMMA PollerMoves ==
  ASSUME IInv, UNCHANGED <<queue, partialState, accessLock, pc, req, stage, fwType, puts>>,
         UNCHANGED <<onRing, in_flight, cur, msg_counter>>,
         nonBlockingOpsInProgress' \in BOOLEAN, hasTail' \in BOOLEAN,
         queue # <<>> => hasTail',
         poll \in {"lock", "drain", "put"}, poll' \in {"drain", "put", "user"},
         poll' = "put" => queue # <<>>,
         retries' \in Nat, retries' # 0 => poll' = "put" /\ ~HasRoom
  PROVE  IInv'
<1>1. TypeOK'
  BY Zenon DEF IInv, TypeOK
<1>2. CallInv'
  BY Zenon, CallsUntouched
<1>3. QueueInv' /\ RingInv'
  BY DEF IInv, QueueInv, RingInv
<1>4. stage[cur] = "sent" /\ cur # NoReq
  BY Zenon DEF IInv, PollInv
<1>5. PollInv'
  BY Zenon, <1>4 DEF PollInv, HasRoom
<1>6. QED
  BY Zenon, <1>1, <1>2, <1>3, <1>5 DEF IInv

LEMMA DequeueBeginIInv ==
  ASSUME IInv, DequeueBegin
  PROVE  IInv'
<1>1. /\ poll = "lock" /\ poll' = "drain" /\ nonBlockingOpsInProgress' = TRUE
      /\ UNCHANGED <<queue, hasTail, partialState, accessLock, pc, req, stage, fwType, puts>>
      /\ UNCHANGED <<onRing, in_flight, cur, retries, msg_counter>>
  BY Zenon DEF DequeueBegin, threadVars, requestVars, transportVars
<1>2. retries = 0 /\ hasTail \in BOOLEAN /\ (queue # <<>> => hasTail)
  BY Zenon, <1>1 DEF IInv, TypeOK, PollInv, QueueInv
<1>3. retries' \in Nat /\ ~(retries' # 0)
  BY Zenon, <1>1, <1>2 DEF IInv, PollInv
<1>4. QED
  BY Zenon, <1>1, <1>2, <1>3, PollerMoves

LEMMA DequeueNextIInv ==
  ASSUME IInv, DequeueNext
  PROVE  IInv'
<1>1. /\ poll = "drain" /\ poll' = "put" /\ queue # <<>> /\ retries' = 0
      /\ nonBlockingOpsInProgress' = ~IsPart(Head(queue))
      /\ UNCHANGED <<queue, hasTail, partialState, accessLock, pc, req, stage, fwType, puts>>
      /\ UNCHANGED <<onRing, in_flight, cur, msg_counter>>
  BY Zenon DEF DequeueNext, MoreToSend, lockVars, threadVars, requestVars, transportVars
<1>2. nonBlockingOpsInProgress' \in BOOLEAN
  BY Zenon, <1>1
<1>3. hasTail' \in BOOLEAN /\ (queue # <<>> => hasTail')
  BY Zenon, <1>1 DEF IInv, TypeOK, QueueInv
<1>4. retries' \in Nat
  BY Zenon, <1>1
<1>5. QED
  BY Zenon, <1>1, <1>2, <1>3, <1>4, PollerMoves

LEMMA DequeueRetryIInv ==
  ASSUME IInv, DequeueRetry
  PROVE  IInv'
<1>1. /\ poll = "put" /\ ~HasRoom
      /\ \/ poll' = "user" /\ retries' = 0
         \/ poll' = "put" /\ retries' = retries + 1
      /\ UNCHANGED <<nonBlockingOpsInProgress, queue, hasTail, partialState, accessLock>>
      /\ UNCHANGED <<pc, req, stage, fwType, puts, onRing, in_flight, cur, msg_counter>>
  BY Zenon DEF DequeueRetry, DequeueLeave, sessionVars, threadVars, requestVars, transportVars
<1>2. /\ nonBlockingOpsInProgress' \in BOOLEAN /\ hasTail' \in BOOLEAN
      /\ queue # <<>> /\ hasTail'
  BY Zenon, <1>1 DEF IInv, TypeOK, QueueInv, PollInv
<1>3. retries' \in Nat
  BY <1>1 DEF IInv, TypeOK
<1>4. QED
  BY Zenon, <1>1, <1>2, <1>3, PollerMoves

LEMMA DequeueEndIInv ==
  ASSUME IInv, DequeueEnd
  PROVE  IInv'
<1>1. /\ poll = "drain" /\ poll' = "user" /\ retries' = 0 /\ hasTail' = (queue # <<>>)
      /\ UNCHANGED <<nonBlockingOpsInProgress, queue, partialState, accessLock>>
      /\ UNCHANGED <<pc, req, stage, fwType, puts, onRing, in_flight, cur, msg_counter>>
  BY Zenon DEF DequeueEnd, DequeueLeave, threadVars, requestVars, transportVars
<1>2. nonBlockingOpsInProgress' \in BOOLEAN /\ hasTail' \in BOOLEAN /\ (queue # <<>> => hasTail')
  BY Zenon, <1>1 DEF IInv, TypeOK
<1>3. retries' \in Nat
  BY Zenon, <1>1
<1>4. QED
  BY Zenon, <1>1, <1>2, <1>3, PollerMoves

\* A put succeeds at the first try: the ring has no room from one try to the next.
LEMMA DequeuePutFacts ==
  ASSUME IInv, DequeuePut
  PROVE  /\ poll = "put" /\ Accept(Head(queue)) /\ queue' = Tail(queue)
         /\ poll' = "drain" /\ retries = 0 /\ retries' = 0 /\ failed' = failed
         /\ in_flight' = in_flight + 1 /\ onRing' = onRing \cup {Head(queue)}
         /\ stage' = [stage EXCEPT ![Head(queue)] = "sent"]
         /\ UNCHANGED <<nonBlockingOpsInProgress, hasTail, partialState>>
         /\ UNCHANGED <<accessReaders, accessLock, requestQueueLock, pendingCbCount>>
         /\ UNCHANGED <<pc, req, fwType, cur, msg_counter>>
<1>1. HasRoom /\ poll = "put"
  BY Zenon DEF DequeuePut, Accept
<1>2. retries = 0
  BY Zenon, <1>1 DEF IInv, PollInv
<1>3. ~(retries + 1 >= DEQUEUE_MSGPUT_MAX_RETRIES)
  BY <1>2, SymAssumption
<1>4. QED
  BY Zenon, <1>1, <1>2, <1>3 DEF DequeuePut, Accept, threadVars

LEMMA DequeuePutIInv ==
  ASSUME IInv, DequeuePut
  PROVE  IInv'
<1>1. /\ poll = "put" /\ Accept(Head(queue)) /\ queue' = Tail(queue)
      /\ poll' = "drain" /\ retries = 0 /\ retries' = 0
      /\ in_flight' = in_flight + 1 /\ onRing' = onRing \cup {Head(queue)}
      /\ UNCHANGED <<nonBlockingOpsInProgress, hasTail, partialState, accessLock>>
      /\ UNCHANGED <<pc, req, fwType, cur, msg_counter>>
  BY Zenon, DequeuePutFacts
<1>2. queue \in Seq(Reqs) /\ queue # <<>>
  BY Zenon, <1>1 DEF IInv, TypeOK, PollInv
<1>3. PICK n \in Nat : n = Len(queue) /\ n > 0
  BY <1>2
<1>4. /\ queue' \in Seq(Reqs) /\ Len(queue') = n - 1 /\ Head(queue) = queue[1]
      /\ \A i \in 1 .. n - 1 : queue'[i] = queue[i + 1]
  BY Zenon, <1>1, <1>2, <1>3, TailFacts
<1>5. \A i \in 1 .. n - 1 : i + 1 \in 1 .. n /\ i + 1 # 1
  BY <1>3
<1>6. 1 \in 1 .. n /\ \A i \in 1 .. n : i = 1 \/ (i - 1 \in 1 .. n - 1 /\ (i - 1) + 1 = i)
  BY <1>3
<1>7. \A i \in 1 .. n : queue[i] \in Reqs /\ stage[queue[i]] = "queued"
  BY <1>2, <1>3 DEF IInv, QueueInv
<1>8. \A i, j \in 1 .. n : queue[i] = queue[j] => i = j
  BY Zenon, <1>3 DEF IInv, QueueInv
<1>9. PICK r \in Reqs : r = Head(queue) /\ r = queue[1] /\ stage[r] = "queued"
  BY Zenon, <1>4, <1>6, <1>7
<1>10. /\ RingInv' /\ puts' \in [Reqs -> Nat]
      /\ stage' \in [Reqs -> {"new", "queued", "sent", "done"}]
      /\ stage'[r] = "sent" /\ \A x \in Reqs \ {r} : stage'[x] = stage[x]
  BY Zenon, <1>1, <1>9, PutRing
<1>11. TypeOK'
  <2>1. in_flight' \in Int /\ retries' \in Nat
    BY <1>1 DEF IInv, TypeOK
  <2>2. onRing' \subseteq Reqs
    BY Zenon, <1>1, <1>9 DEF IInv, TypeOK
  <2>3. poll' \in {"loop", "lock", "drain", "put", "user", "count"}
    BY Zenon, <1>1
  <2>4. QED
    BY Zenon, <1>1, <1>4, <1>10, <2>1, <2>2, <2>3 DEF IInv, TypeOK
<1>12. CallInv'
  BY Zenon, <1>1, <1>9, <1>10, CallsUntouched
<1>13. QueueInv'
  <2>1. \A i \in 1 .. n - 1 : queue[i + 1] \in Reqs \ {r}
    BY Zenon, <1>5, <1>6, <1>9, <1>7, <1>8
  <2>2. \A i \in 1 .. n - 1 : stage'[queue'[i]] = "queued"
    <3> TAKE i \in 1 .. n - 1
    <3>1. queue'[i] = queue[i + 1] /\ stage[queue[i + 1]] = "queued"
      BY Zenon, <1>4, <1>5, <1>7
    <3>2. stage'[queue[i + 1]] = stage[queue[i + 1]]
      BY Zenon, <1>10, <2>1
    <3>3. QED
      BY Zenon, <3>1, <3>2
  <2>3. ASSUME NEW x \in Reqs, stage'[x] = "queued"
        PROVE  \E i \in 1 .. n - 1 : queue'[i] = x
    <3>1. x # r /\ stage[x] = "queued"
      BY Zenon, <1>10, <2>3
    <3>2. PICK k \in 1 .. n : queue[k] = x
      BY Zenon, <1>3, <3>1 DEF IInv, QueueInv
    <3>3. k # 1
      BY Zenon, <1>4, <1>9, <3>1, <3>2
    <3>4. QED
      BY Zenon, <1>4, <1>6, <3>2, <3>3
  <2>4. ASSUME NEW i \in 1 .. n - 1, NEW j \in 1 .. n - 1, queue'[i] = queue'[j]
        PROVE  i = j
    <3>1. queue[i + 1] = queue[j + 1]
      BY Zenon, <1>4, <2>4
    <3>2. i + 1 = j + 1
      BY Zenon, <1>5, <1>8, <3>1
    <3>3. QED
      BY <3>2
  <2>5. hasTail'
    BY Zenon, <1>1, <1>2 DEF IInv, QueueInv
  <2>6. QED
    BY Zenon, <1>4, <2>2, <2>3, <2>4, <2>5 DEF QueueInv
<1>14. PollInv'
  <2>1. cur \in Reqs /\ cur # NoReq /\ stage[cur] = "sent"
    BY Zenon, <1>1 DEF IInv, TypeOK, PollInv
  <2>2. stage'[cur] = "sent"
    BY Zenon, <1>10, <2>1
  <2>3. QED
    BY Zenon, <1>1, <2>1, <2>2 DEF PollInv
<1>15. QED
  BY Zenon, <1>10, <1>11, <1>12, <1>13, <1>14 DEF IInv

LEMMA UserCallbackIInv ==
  ASSUME IInv, UserCallback
  PROVE  IInv'
<1>1. /\ poll = "user" /\ poll' = "count" /\ stage' = [stage EXCEPT ![cur] = "done"]
      /\ UNCHANGED <<nonBlockingOpsInProgress, queue, hasTail, partialState, accessLock>>
      /\ UNCHANGED <<pc, req, fwType, puts, onRing, in_flight, cur, retries, msg_counter>>
  BY Zenon DEF UserCallback, sessionVars, lockVars, threadVars, transportVars
<1>2. PICK r \in Reqs : r = cur /\ stage[r] = "sent" /\ r # NoReq
  BY Zenon, <1>1 DEF IInv, TypeOK, PollInv
<1>3. /\ stage'[r] = "done" /\ \A x \in Reqs \ {r} : stage'[x] = stage[x]
      /\ stage' \in [Reqs -> {"new", "queued", "sent", "done"}]
  BY Zenon, <1>1, <1>2 DEF IInv, TypeOK
<1>4. TypeOK'
  BY Zenon, <1>1, <1>3 DEF IInv, TypeOK
<1>5. CallInv'
  BY Zenon, <1>1, <1>2, <1>3, CallsUntouched
<1>6. QueueInv'
  <2>1. \A i \in 1 .. Len(queue) : queue[i] \in Reqs /\ queue[i] # r
    BY <1>2 DEF IInv, TypeOK, QueueInv
  <2>2. QED
    BY <1>1, <1>3, <2>1 DEF IInv, QueueInv
<1>7. RingInv'
  <2>1. \A x \in onRing : x \in Reqs \ {r} /\ stage[x] = "sent"
    BY Zenon, <1>2 DEF IInv, TypeOK, RingInv
  <2>2. \A x \in Reqs : puts'[x] = IF stage'[x] \in {"new", "queued"} THEN 0 ELSE 1
    BY Zenon, <1>1, <1>2, <1>3 DEF IInv, RingInv
  <2>3. QED
    BY Zenon, <1>1, <1>2, <1>3, <2>1, <2>2 DEF IInv, RingInv
<1>8. PollInv'
  <2>1. retries' = 0
    BY Zenon, <1>1 DEF IInv, PollInv
  <2>2. QED
    BY Zenon, <1>1, <1>2, <1>3, <2>1 DEF PollInv
<1>9. QED
  BY Zenon, <1>4, <1>5, <1>6, <1>7, <1>8 DEF IInv

LEMMA CallbackDoneIInv ==
  ASSUME IInv, CallbackDone
  PROVE  IInv'
<1>1. /\ poll = "count" /\ poll' = "loop" /\ cur' = NoReq /\ msg_counter' = msg_counter + 1
      /\ UNCHANGED <<nonBlockingOpsInProgress, queue, hasTail, partialState, accessLock>>
      /\ UNCHANGED <<pc, req, stage, fwType, puts, onRing, in_flight, retries>>
  BY Zenon DEF CallbackDone, sessionVars, lockVars, threadVars, requestVars, transportVars
<1>2. msg_counter' \in Nat
  BY <1>1 DEF IInv, TypeOK
<1>3. TypeOK'
  BY Zenon, <1>1, <1>2 DEF IInv, TypeOK
<1>4. CallInv'
  BY Zenon, <1>1, CallsUntouched
<1>5. QueueInv'
  BY Zenon, <1>1 DEF IInv, QueueInv
<1>6. stage[cur] = "done" /\ retries = 0
  BY Zenon, <1>1 DEF IInv, PollInv
<1>7. RingInv'
  <2>1. \A x \in Reqs : x # NoReq /\ (stage[x] = "sent" => x # cur)
    BY Zenon, <1>6, SymAssumption
  <2>2. \A x \in onRing : x # NoReq
    BY Zenon, SymAssumption DEF IInv, TypeOK
  <2>3. QED
    BY Zenon, <1>1, <2>1, <2>2 DEF IInv, RingInv
<1>8. PollInv'
  BY Zenon, <1>1, <1>6 DEF PollInv
<1>9. QED
  BY Zenon, <1>3, <1>4, <1>5, <1>7, <1>8 DEF IInv

LEMMA PollEndIInv ==
  ASSUME IInv, PollEnd
  PROVE  IInv'
<1>1. /\ poll = "loop" /\ in_flight' = in_flight - msg_counter /\ msg_counter' = 0
      /\ UNCHANGED <<nonBlockingOpsInProgress, queue, hasTail, partialState, accessLock>>
      /\ UNCHANGED <<pc, req, stage, fwType, puts, onRing, poll, cur, retries>>
  BY Zenon DEF PollEnd, sessionVars, lockVars, threadVars, requestVars
<1>2. in_flight' \in Int /\ msg_counter' \in Nat
  BY <1>1 DEF IInv, TypeOK
<1>3. TypeOK'
  BY Zenon, <1>1, <1>2 DEF IInv, TypeOK
<1>4. CallInv'
  BY Zenon, <1>1, CallsUntouched
<1>5. QueueInv' /\ RingInv'
  BY <1>1 DEF IInv, QueueInv, RingInv
<1>6. PollInv'
  BY Zenon, <1>1 DEF IInv, PollInv
<1>7. QED
  BY Zenon, <1>3, <1>4, <1>5, <1>6 DEF IInv

LEMMA NextIInv == IInv /\ [Next]_vars => IInv'
<1> SUFFICES ASSUME IInv, [Next]_vars PROVE IInv'
  OBVIOUS
<1>1. CASE UNCHANGED vars
  <2>1. /\ UNCHANGED <<nonBlockingOpsInProgress, queue, hasTail, partialState, accessLock>>
        /\ UNCHANGED <<pc, req, stage, fwType, puts, onRing, in_flight>>
        /\ UNCHANGED <<poll, cur, retries, msg_counter>>
    BY Zenon, <1>1 DEF vars, sessionVars, lockVars, threadVars, requestVars, transportVars, pollVars
  <2>2. QED
    BY Zenon, <2>1, RestKept, CallsUntouched DEF IInv, TypeOK
<1>2. ASSUME NEW t \in Threads, CallStep(t)
      PROVE  IInv'
  BY Zenon, <1>2, PerformBuildIInv, PerformFailIInv, PerformUnlockIInv, SendCheckIInv,
     SendQueueIInv, SendMarkIInv, SendPutIInv, SendRefusedIInv, PerformReturnIInv,
     UpdateEndIInv, UpdateFailIInv DEF CallStep
<1>3. ASSUME PollStep
      PROVE  IInv'
  BY Zenon, <1>3, DequeueBeginIInv, DequeueNextIInv, DequeuePutIInv, DequeueRetryIInv,
     DequeueEndIInv, UserCallbackIInv, CallbackDoneIInv, PollEndIInv DEF PollStep
<1>4. QED
  BY Zenon, <1>1, <1>2, <1>3, PerformBeginIInv, UpdateBeginIInv, RemoveSessionIInv,
     ResponseIInv DEF Next

\* The inductive invariant of the requests: where each is, and who owns it.
THEOREM Invariance == Spec => []IInv
BY InitIInv, NextIInv, PTL DEF Spec

\* SentOnce: no request is put on the ring twice, by a call and from the queue or
\* by the retry loop of LacSymCb_PendingReqsDequeue.
THEOREM NotSentTwice == Spec => []SentOnce
<1>1. IInv => SentOnce
  <2> SUFFICES ASSUME IInv PROVE SentOnce
    OBVIOUS
  <2>1. \A r \in Reqs : puts[r] \in {0, 1} /\ (stage[r] = "queued" => puts[r] = 0)
    BY Zenon DEF IInv, RingInv
  <2>2. \A i \in 1 .. Len(queue) : queue[i] \in Reqs /\ stage[queue[i]] = "queued"
    BY DEF IInv, TypeOK, QueueInv
  <2>3. QED
    BY <2>1, <2>2 DEF SentOnce
<1>2. QED
  BY <1>1, Invariance, PTL

-----------------------------------------------------------------------------
(* The session's lock and its count of callbacks.                          *)

\* Steps that add a member to a set, or remove one, keep a count of it.
LEMMA CountAdd ==
  ASSUME NEW S, NEW x, NEW n \in Int, IsFiniteSet(S), n = Cardinality(S), x \notin S
  PROVE  IsFiniteSet(S \cup {x}) /\ n + 1 = Cardinality(S \cup {x})
BY Zenon, FS_AddElement

LEMMA CountRemove ==
  ASSUME NEW S, NEW x, NEW n \in Int, IsFiniteSet(S), n = Cardinality(S), x \in S
  PROVE  IsFiniteSet(S \ {x}) /\ n - 1 = Cardinality(S \ {x})
BY Zenon, FS_RemoveElement

\* The same for a number that the count does not exceed.
LEMMA BoundAdd ==
  ASSUME NEW S, NEW x, NEW n \in Nat, IsFiniteSet(S), Cardinality(S) <= n, x \notin S
  PROVE  /\ IsFiniteSet(S \cup {x}) /\ n + 1 \in Nat
         /\ Cardinality(S \cup {x}) <= n + 1
<1>1. IsFiniteSet(S \cup {x}) /\ Cardinality(S \cup {x}) = Cardinality(S) + 1
  BY Zenon, FS_AddElement
<1>2. Cardinality(S) \in Nat
  BY Zenon, FS_CardinalityType
<1>3. QED
  BY <1>1, <1>2

LEMMA BoundRemove ==
  ASSUME NEW S, NEW x, NEW n \in Nat, IsFiniteSet(S), Cardinality(S) <= n, x \in S
  PROVE  /\ IsFiniteSet(S \ {x}) /\ n - 1 \in Nat
         /\ Cardinality(S \ {x}) <= n - 1 /\ Cardinality(S \ {x}) <= n
<1>1. IsFiniteSet(S \ {x}) /\ Cardinality(S \ {x}) = Cardinality(S) - 1
  BY Zenon, FS_RemoveElement
<1>2. Cardinality(S) \in Nat /\ Cardinality(S \ {x}) \in Nat
  BY Zenon, <1>1, FS_CardinalityType
<1>3. QED
  BY <1>1, <1>2

LEMMA CountsAreInts ==
  ASSUME JInv
  PROVE  accessReaders \in Int /\ pendingCbCount \in Int
<1>1. accessReaders \in Nat /\ pendingCbCount \in Nat
  BY Zenon, FS_CardinalityType DEF JInv, LockInv, PendInv
<1>2. QED
  BY <1>1

\* A session whose counts are 0 has no reader, and no request to answer.
LEMMA CountsZero ==
  ASSUME IInv, JInv
  PROVE  /\ accessReaders = 0 => Readers = {}
         /\ pendingCbCount = 0 =>
              NoneOutstanding /\ \A t \in Threads : pc[t] \notin Sending
<1>1. accessReaders = 0 => Readers = {}
  <2>1. Cardinality(Readers) \in Nat /\ Cardinality(Readers) <= accessReaders
    BY Zenon, FS_CardinalityType DEF JInv, LockInv
  <2>2. accessReaders = 0 => Cardinality(Readers) = 0
    BY <2>1
  <2>3. QED
    BY Zenon, <2>2, FS_EmptySet DEF JInv, LockInv
<1>2. SUFFICES ASSUME Pending = {}
               PROVE  NoneOutstanding /\ \A t \in Threads : pc[t] \notin Sending
  BY Zenon, <1>1, FS_EmptySet DEF JInv, PendInv
<1>3. \A t \in Threads : pc[t] \notin Sending
  BY Zenon, <1>2 DEF IInv, CallInv, Pending
<1>4. \A r \in Reqs : stage[r] \notin {"queued", "sent"} /\ r # cur
  BY Zenon, <1>2 DEF Pending
<1>5. onRing = {}
  BY Zenon, <1>4 DEF IInv, TypeOK, RingInv
<1>6. poll = "loop"
  BY Zenon, <1>4 DEF IInv, TypeOK, PollInv
<1>7. queue = <<>>
  <2> SUFFICES ASSUME queue # <<>> PROVE FALSE
    OBVIOUS
  <2>1. queue[1] \in Reqs /\ 1 \in 1 .. Len(queue)
    BY TailFacts DEF IInv, TypeOK
  <2>2. QED
    BY Zenon, <1>4, <2>1 DEF IInv, QueueInv
<1>8. QED
  BY Zenon, <1>3, <1>5, <1>6, <1>7 DEF NoneOutstanding

\* Calls come and go, and no request is counted or uncounted.
LEMMA PendKept ==
  ASSUME JInv, UNCHANGED <<stage, cur, pendingCbCount>>,
         \A u \in Threads : \/ pc[u] \notin Sending /\ pc'[u] \notin Sending
                            \/ pc[u] \in Sending /\ pc'[u] \in Sending /\ req'[u] = req[u]
  PROVE  PendInv'
<1>1. ASSUME NEW r \in Reqs
      PROVE  (\E u \in Threads : req'[u] = r /\ pc'[u] \in Sending)
             <=> (\E u \in Threads : req[u] = r /\ pc[u] \in Sending)
  BY Zenon
<1>2. Pending' = Pending
  BY Zenon, <1>1 DEF Pending
<1>3. QED
  BY Zenon, <1>2 DEF JInv, PendInv

\* The same for readers and the writer.
LEMMA LockKept ==
  ASSUME JInv, UNCHANGED <<accessReaders, accessLock>>,
         \A u \in Threads : /\ pc[u] \in {"build", "unlock"} <=> pc'[u] \in {"build", "unlock"}
                            /\ pc[u] = "update" <=> pc'[u] = "update"
  PROVE  LockInv'
<1>1. Readers' = Readers
  BY Zenon DEF Readers
<1>2. QED
  BY Zenon, <1>1 DEF JInv, LockInv

\* While a call builds or sends a request, the session is neither updated nor
\* removed; the same holds while a request is outstanding.
Free == \A u \in Threads : pc[u] \notin {"update", "removed"}

LEMMA CallHolds ==
  ASSUME JInv, NEW t \in Threads, pc[t] \in {"build"} \cup Sending
  PROVE  Free
<1>1. pc[t] \notin {"idle", "return", "update", "removed"}
  BY Zenon DEF Sending
<1>2. ASSUME NEW u \in Threads, pc[u] = "update"
      PROVE  FALSE
  <2>1. u # t
    BY Zenon, <1>1, <1>2
  <2>2. QED
    BY Zenon, <1>1, <1>2, <2>1 DEF JInv, IdleInv, SessionIdle
<1>3. ASSUME NEW u \in Threads, pc[u] = "removed"
      PROVE  FALSE
  BY Zenon, <1>1, <1>3 DEF JInv, IdleInv
<1>4. QED
  BY Zenon, <1>2, <1>3 DEF Free

LEMMA PollerHolds ==
  ASSUME JInv, ~NoneOutstanding
  PROVE  Free
BY Zenon DEF JInv, IdleInv, SessionIdle, Free

LEMMA FreeIdle ==
  ASSUME \A u \in Threads : pc'[u] \notin {"update", "removed"}
  PROVE  IdleInv'
BY Zenon DEF IdleInv, SessionIdle

LEMMA InitJInv == Init => JInv
<1> SUFFICES ASSUME Init PROVE JInv
  OBVIOUS
<1>1. Readers = {} /\ Pending = {}
  BY Zenon, SymAssumption DEF Init, Readers, Pending, Sending
<1>2. IsFiniteSet({}) /\ Cardinality({}) = 0 /\ 0 \in Nat /\ 0 <= 0
  BY FS_EmptySet
<1>3. accessLock = NoThread /\ \A t \in Threads : pc[t] = "idle"
  BY Zenon DEF Init
<1>4. \A t \in Threads : t # NoThread
  BY Zenon, SymAssumption
<1>5. LockInv
  BY Zenon, <1>1, <1>2, <1>3, <1>4 DEF Init, LockInv
<1>6. PendInv
  BY Zenon, <1>1, <1>2 DEF Init, PendInv
<1>7. IdleInv
  BY Zenon, <1>3 DEF IdleInv, SessionIdle
<1>8. QED
  BY Zenon, <1>5, <1>6, <1>7 DEF JInv

\* A step of one call leaves the others where they are.
LEMMA OneCall ==
  ASSUME IInv, NEW t \in Threads, NEW p, pc' = [pc EXCEPT ![t] = p]
  PROVE  pc'[t] = p /\ \A u \in Threads \ {t} : pc'[u] = pc[u]
BY Zenon DEF IInv, TypeOK

LEMMA OneReq ==
  ASSUME IInv, NEW t \in Threads, NEW x, req' = [req EXCEPT ![t] = x]
  PROVE  req'[t] = x /\ \A u \in Threads \ {t} : req'[u] = req[u]
BY Zenon DEF IInv, TypeOK

LEMMA PerformBeginJInv ==
  ASSUME IInv, JInv, NEW t \in Threads, NEW r \in Reqs, PerformBegin(t, r)
  PROVE  JInv'
<1>1. /\ pc[t] = "idle" /\ accessLock = NoThread /\ accessReaders' = accessReaders + 1
      /\ pc' = [pc EXCEPT ![t] = "build"] /\ req' = [req EXCEPT ![t] = r]
      /\ UNCHANGED <<accessLock, pendingCbCount, stage, cur>>
  BY Zenon DEF PerformBegin, requestVars, pollVars
<1>2. pc'[t] = "build" /\ \A u \in Threads \ {t} : pc'[u] = pc[u]
  BY Zenon, <1>1, OneCall
<1>3. req'[t] = r /\ \A u \in Threads \ {t} : req'[u] = req[u]
  BY Zenon, <1>1, OneReq
<1>4. Free
  <2>1. \A u \in Threads : u # NoThread
    BY Zenon, SymAssumption
  <2>2. QED
    BY Zenon, <1>1, <2>1 DEF JInv, LockInv, IdleInv, Free
<1>5. LockInv'
  <2>1. t \notin Readers /\ Readers' = Readers \cup {t}
    BY Zenon, <1>1, <1>2 DEF Readers
  <2>2. /\ IsFiniteSet(Readers') /\ accessReaders' \in Nat
        /\ Cardinality(Readers') <= accessReaders'
    BY Zenon, <1>1, <2>1, BoundAdd DEF JInv, LockInv
  <2>3. \A u \in Threads : pc'[u] = "update" <=> pc[u] = "update"
    BY Zenon, <1>1, <1>2
  <2>4. QED
    BY Zenon, <1>1, <2>2, <2>3 DEF JInv, LockInv
<1>6. PendInv'
  <2>1. "idle" \notin Sending /\ "build" \notin Sending
    BY Zenon DEF Sending
  <2>2. QED
    BY Zenon, <1>1, <1>2, <1>3, <2>1, PendKept
<1>7. IdleInv'
  BY <1>2, <1>4, FreeIdle DEF Free
<1>8. QED
  BY Zenon, <1>5, <1>6, <1>7 DEF JInv

LEMMA PerformBuildJInv ==
  ASSUME IInv, JInv, NEW t \in Threads, PerformBuild(t)
  PROVE  JInv'
<1>1. /\ pc[t] = "build" /\ pendingCbCount' = pendingCbCount + 1
      /\ pc' = [pc EXCEPT ![t] = "unlock"]
      /\ UNCHANGED <<accessReaders, accessLock, req, stage, cur>>
  BY Zenon DEF PerformBuild, lockVars, pollVars
<1>2. pc'[t] = "unlock" /\ \A u \in Threads \ {t} : pc'[u] = pc[u]
  BY Zenon, <1>1, OneCall
<1>3. Free
  BY Zenon, <1>1, CallHolds
<1>4. LockInv'
  BY Zenon, <1>1, <1>2, LockKept
<1>5. PendInv'
  <2>1. PICK r \in Reqs : r = req[t] /\ stage[r] = "new"
    BY Zenon, <1>1 DEF IInv, CallInv
  <2>2. "build" \notin Sending /\ "unlock" \in Sending
    BY Zenon DEF Sending
  <2>3. \A u \in Threads : req[u] = r => u = t
    BY Zenon, <2>1, SymAssumption DEF IInv, CallInv
  <2>4. r # cur
    BY Zenon, <2>1, CurStage
  <2>5. r \notin Pending
    BY Zenon, <1>1, <2>1, <2>2, <2>3, <2>4 DEF Pending
  <2>6. Pending' = Pending \cup {r}
    <3>1. ASSUME NEW x \in Reqs
          PROVE  (\E u \in Threads : req'[u] = x /\ pc'[u] \in Sending)
                 <=> (x = r \/ \E u \in Threads : req[u] = x /\ pc[u] \in Sending)
      BY Zenon, <1>1, <1>2, <2>1, <2>2
    <3>2. QED
      BY Zenon, <1>1, <3>1 DEF Pending
  <2>7. QED
    BY Zenon, <1>1, <2>5, <2>6, CountsAreInts, CountAdd DEF JInv, PendInv
<1>6. IdleInv'
  BY Zenon, <1>2, <1>3, FreeIdle DEF Free
<1>7. QED
  BY Zenon, <1>4, <1>5, <1>6 DEF JInv

LEMMA PerformFailJInv ==
  ASSUME IInv, JInv, NEW t \in Threads, PerformFail(t) \/ PerformLeave(t)
  PROVE  JInv'
<1>1. /\ pc[t] = "build" /\ accessReaders' \in {accessReaders, accessReaders - 1}
      /\ pc' = [pc EXCEPT ![t] = "idle"] /\ req' = [req EXCEPT ![t] = NoReq]
      /\ UNCHANGED <<accessLock, pendingCbCount, stage, cur>>
  BY Zenon DEF PerformFail, PerformLeave, lockVars, requestVars, pollVars
<1>2. pc'[t] = "idle" /\ \A u \in Threads \ {t} : pc'[u] = pc[u] /\ req'[u] = req[u]
  BY Zenon, <1>1, OneCall, OneReq
<1>3. Free
  BY Zenon, <1>1, CallHolds
<1>4. LockInv'
  <2>1. t \in Readers /\ Readers' = Readers \ {t}
    BY Zenon, <1>1, <1>2 DEF Readers
  <2>2. /\ IsFiniteSet(Readers') /\ accessReaders' \in Nat
        /\ Cardinality(Readers') <= accessReaders'
    <3>1. /\ IsFiniteSet(Readers) /\ accessReaders \in Nat
          /\ Cardinality(Readers) <= accessReaders
      BY Zenon DEF JInv, LockInv
    <3>2. /\ IsFiniteSet(Readers \ {t}) /\ accessReaders - 1 \in Nat
          /\ Cardinality(Readers \ {t}) <= accessReaders - 1
          /\ Cardinality(Readers \ {t}) <= accessReaders
      BY Zenon, <2>1, <3>1, BoundRemove
    <3>3. CASE accessReaders' = accessReaders
      BY Zenon, <2>1, <3>1, <3>2, <3>3
    <3>4. CASE accessReaders' = accessReaders - 1
      BY Zenon, <2>1, <3>2, <3>4
    <3>5. QED
      BY Zenon, <1>1, <3>3, <3>4
  <2>3. \A u \in Threads : pc'[u] = "update" <=> pc[u] = "update"
    BY Zenon, <1>1, <1>2
  <2>4. QED
    BY Zenon, <1>1, <2>2, <2>3 DEF JInv, LockInv
<1>5. PendInv'
  <2>1. "idle" \notin Sending /\ "build" \notin Sending
    BY Zenon DEF Sending
  <2>2. QED
    BY Zenon, <1>1, <1>2, <2>1, PendKept
<1>6. IdleInv'
  BY <1>2, <1>3, FreeIdle DEF Free
<1>7. QED
  BY Zenon, <1>4, <1>5, <1>6 DEF JInv

LEMMA PerformUnlockJInv ==
  ASSUME IInv, JInv, NEW t \in Threads, PerformUnlock(t)
  PROVE  JInv'
<1>1. /\ pc[t] = "unlock" /\ accessReaders' = accessReaders - 1
      /\ pc' = [pc EXCEPT ![t] = "send"]
      /\ UNCHANGED <<accessLock, pendingCbCount, req, stage, cur>>
  BY Zenon DEF PerformUnlock, requestVars, pollVars
<1>2. pc'[t] = "send" /\ \A u \in Threads \ {t} : pc'[u] = pc[u]
  BY Zenon, <1>1, OneCall
<1>3. Free
  BY Zenon, <1>1, CallHolds DEF Sending
<1>4. LockInv'
  <2>1. t \in Readers /\ Readers' = Readers \ {t}
    BY Zenon, <1>1, <1>2 DEF Readers
  <2>2. /\ IsFiniteSet(Readers') /\ accessReaders' \in Nat
        /\ Cardinality(Readers') <= accessReaders'
    BY Zenon, <1>1, <2>1, BoundRemove DEF JInv, LockInv
  <2>3. \A u \in Threads : pc'[u] = "update" <=> pc[u] = "update"
    BY Zenon, <1>1, <1>2
  <2>4. QED
    BY Zenon, <1>1, <2>2, <2>3 DEF JInv, LockInv
<1>5. PendInv'
  <2>1. "unlock" \in Sending /\ "send" \in Sending
    BY Zenon DEF Sending
  <2>2. QED
    BY Zenon, <1>1, <1>2, <2>1, PendKept
<1>6. IdleInv'
  BY <1>2, <1>3, FreeIdle DEF Free
<1>7. QED
  BY Zenon, <1>4, <1>5, <1>6 DEF JInv

\* Steps of LacSymQueue_RequestSend up to the put.
LEMMA SendMovesJInv ==
  ASSUME IInv, JInv, NEW t \in Threads, NEW p \in {"lock", "mark", "put"},
         pc[t] \in {"send", "lock", "mark"}, pc' = [pc EXCEPT ![t] = p],
         UNCHANGED <<accessReaders, accessLock, pendingCbCount, req, stage, cur>>
  PROVE  JInv'
<1>1. pc'[t] = p /\ \A u \in Threads \ {t} : pc'[u] = pc[u]
  BY Zenon, OneCall
<1>2. pc[t] \in Sending /\ p \in Sending
  BY Zenon DEF Sending
<1>3. Free
  BY Zenon, <1>2, CallHolds
<1>4. LockInv'
  BY Zenon, <1>1, LockKept
<1>5. PendInv'
  BY Zenon, <1>1, <1>2, PendKept
<1>6. IdleInv'
  BY Zenon, <1>1, <1>3, FreeIdle DEF Free
<1>7. QED
  BY Zenon, <1>4, <1>5, <1>6 DEF JInv

\* The request is queued or put: it stays pending.
LEMMA SendsJInv ==
  ASSUME IInv, JInv, NEW t \in Threads, NEW x \in {"queued", "sent"},
         pc[t] \in {"lock", "put"}, pc' = [pc EXCEPT ![t] = "return"],
         stage' = [stage EXCEPT ![req[t]] = x],
         UNCHANGED <<accessReaders, accessLock, pendingCbCount, req, cur>>
  PROVE  JInv'
<1>1. pc'[t] = "return" /\ \A u \in Threads \ {t} : pc'[u] = pc[u]
  BY Zenon, OneCall
<1>2. pc[t] \in Sending /\ "return" \notin Sending
  BY Zenon DEF Sending
<1>3. Free
  BY Zenon, <1>2, CallHolds
<1>4. LockInv'
  BY Zenon, <1>1, LockKept
<1>5. PendInv'
  <2>1. PICK r \in Reqs : r = req[t] /\ stage[r] = "new"
    BY Zenon, <1>2 DEF IInv, CallInv
  <2>2. stage'[r] = x /\ \A y \in Reqs \ {r} : stage'[y] = stage[y]
    BY Zenon, <2>1 DEF IInv, TypeOK
  <2>3. r \in Pending /\ r \in Pending'
    BY Zenon, <1>2, <2>1, <2>2 DEF Pending
  <2>4. ASSUME NEW y \in Reqs \ {r}
        PROVE  (\E u \in Threads : req'[u] = y /\ pc'[u] \in Sending)
               <=> (\E u \in Threads : req[u] = y /\ pc[u] \in Sending)
    BY Zenon, <1>1, <1>2, <2>1
  <2>5. \A y \in Reqs \ {r} : y \in Pending' <=> y \in Pending
    BY Zenon, <2>2, <2>4 DEF Pending
  <2>6. Pending \subseteq Reqs /\ Pending' \subseteq Reqs
    BY Zenon DEF Pending
  <2>7. Pending' = Pending
    <3>1. \A y \in Reqs : y \in Pending' <=> y \in Pending
      BY Zenon, <2>3, <2>5
    <3>2. QED
      BY Zenon, <2>6, <3>1
  <2>8. QED
    BY Zenon, <2>7 DEF JInv, PendInv
<1>6. IdleInv'
  BY <1>1, <1>3, FreeIdle DEF Free
<1>7. QED
  BY Zenon, <1>4, <1>5, <1>6 DEF JInv

LEMMA SendCheckJInv ==
  ASSUME IInv, JInv, NEW t \in Threads, SendCheck(t)
  PROVE  JInv'
<1>1. /\ pc[t] = "send" /\ \E p \in {"lock", "mark", "put"} : pc' = [pc EXCEPT ![t] = p]
      /\ UNCHANGED <<accessReaders, accessLock, pendingCbCount, req, stage, cur>>
  BY Zenon DEF SendCheck, ClearToSend, lockVars, requestVars, pollVars
<1>2. QED
  BY Zenon, <1>1, SendMovesJInv

LEMMA SendQueueJInv ==
  ASSUME IInv, JInv, NEW t \in Threads, SendQueue(t)
  PROVE  JInv'
<1>1. /\ pc[t] = "lock"
      /\ UNCHANGED <<accessReaders, accessLock, pendingCbCount, req, cur>>
  BY Zenon DEF SendQueue, lockVars, pollVars
<1>2. CASE /\ \E p \in {"mark", "put"} : pc' = [pc EXCEPT ![t] = p]
           /\ stage' = stage
  BY Zenon, <1>1, <1>2, SendMovesJInv
<1>3. CASE /\ pc' = [pc EXCEPT ![t] = "return"]
           /\ stage' = [stage EXCEPT ![req[t]] = "queued"]
  BY Zenon, <1>1, <1>3, SendsJInv
<1>4. QED
  BY Zenon, <1>2, <1>3 DEF SendQueue, ClearToSend

LEMMA SendMarkJInv ==
  ASSUME IInv, JInv, NEW t \in Threads, SendMark(t)
  PROVE  JInv'
<1>1. /\ pc[t] = "mark" /\ pc' = [pc EXCEPT ![t] = "put"]
      /\ UNCHANGED <<accessReaders, accessLock, pendingCbCount, req, stage, cur>>
  BY Zenon DEF SendMark, lockVars, requestVars, pollVars
<1>2. QED
  BY Zenon, <1>1, SendMovesJInv

LEMMA SendPutJInv ==
  ASSUME IInv, JInv, NEW t \in Threads, SendPut(t)
  PROVE  JInv'
<1>1. /\ pc[t] = "put" /\ pc' = [pc EXCEPT ![t] = "return"]
      /\ stage' = [stage EXCEPT ![req[t]] = "sent"]
      /\ UNCHANGED <<accessReaders, accessLock, pendingCbCount, req, cur>>
  BY DEF SendPut, Accept, lockVars, pollVars
<1>2. QED
  BY Zenon, <1>1, SendsJInv

LEMMA SendRefusedJInv ==
  ASSUME IInv, JInv, NEW t \in Threads, SendRefused(t)
  PROVE  JInv'
<1>1. /\ pc[t] = "put" /\ pendingCbCount' = pendingCbCount - 1
      /\ pc' = [pc EXCEPT ![t] = "idle"] /\ req' = [req EXCEPT ![t] = NoReq]
      /\ UNCHANGED <<accessReaders, accessLock, stage, cur>>
  BY Zenon DEF SendRefused, lockVars, requestVars, pollVars
<1>2. pc'[t] = "idle" /\ \A u \in Threads \ {t} : pc'[u] = pc[u] /\ req'[u] = req[u]
  BY Zenon, <1>1, OneCall, OneReq
<1>3. "put" \in Sending /\ "idle" \notin Sending
  BY Zenon DEF Sending
<1>4. Free
  BY Zenon, <1>1, <1>3, CallHolds
<1>5. LockInv'
  BY Zenon, <1>1, <1>2, LockKept
<1>6. PendInv'
  <2>1. PICK r \in Reqs : r = req[t] /\ stage[r] = "new"
    BY Zenon, <1>1, <1>3 DEF IInv, CallInv
  <2>2. \A u \in Threads : req[u] = r => u = t
    BY Zenon, <2>1, SymAssumption DEF IInv, CallInv
  <2>3. r # cur
    BY Zenon, <2>1, CurStage
  <2>4. r \in Pending
    BY Zenon, <1>1, <1>3, <2>1 DEF Pending
  <2>5. Pending' = Pending \ {r}
    <3>1. ASSUME NEW x \in Reqs
          PROVE  (\E u \in Threads : req'[u] = x /\ pc'[u] \in Sending)
                 <=> (x # r /\ \E u \in Threads : req[u] = x /\ pc[u] \in Sending)
      BY Zenon, <1>2, <1>3, <2>1, <2>2
    <3>2. stage[r] \notin {"queued", "sent"}
      BY Zenon, <2>1
    <3>3. \A x \in Reqs : x \in Pending' <=> x \in Pending /\ x # r
      BY Zenon, <1>1, <2>3, <3>1, <3>2 DEF Pending
    <3>4. Pending \subseteq Reqs /\ Pending' \subseteq Reqs
      BY Zenon DEF Pending
    <3>5. QED
      BY Zenon, <3>3, <3>4
  <2>6. QED
    BY Zenon, <1>1, <2>4, <2>5, CountsAreInts, CountRemove DEF JInv, PendInv
<1>7. IdleInv'
  BY <1>2, <1>4, FreeIdle DEF Free
<1>8. QED
  BY Zenon, <1>5, <1>6, <1>7 DEF JInv

LEMMA PerformReturnJInv ==
  ASSUME IInv, JInv, NEW t \in Threads, PerformReturn(t)
  PROVE  JInv'
<1>1. /\ pc[t] = "return"
      /\ pc' = [pc EXCEPT ![t] = "idle"] /\ req' = [req EXCEPT ![t] = NoReq]
      /\ UNCHANGED <<accessReaders, accessLock, pendingCbCount, stage, cur>>
      /\ UNCHANGED <<queue, onRing, poll>>
  BY Zenon DEF PerformReturn, lockVars, requestVars, transportVars, pollVars
<1>2. pc'[t] = "idle" /\ \A u \in Threads \ {t} : pc'[u] = pc[u] /\ req'[u] = req[u]
  BY Zenon, <1>1, OneCall, OneReq
<1>3. LockInv'
  BY Zenon, <1>1, <1>2, LockKept
<1>4. PendInv'
  <2>1. "idle" \notin Sending /\ "return" \notin Sending
    BY Zenon DEF Sending
  <2>2. QED
    BY Zenon, <1>1, <1>2, <2>1, PendKept
<1>5. IdleInv'
  <2>1. \A u \in Threads : pc[u] # "removed" /\ pc'[u] # "removed"
    BY Zenon, <1>1, <1>2 DEF JInv, IdleInv
  <2>2. ASSUME NEW u \in Threads, pc'[u] = "update"
        PROVE  NoneOutstanding' /\ \A v \in Threads \ {u} : pc'[v] \in {"idle", "return"}
    <3>1. u # t /\ pc[u] = "update"
      BY Zenon, <1>2, <2>2
    <3>2. NoneOutstanding /\ \A v \in Threads \ {u} : pc[v] \in {"idle", "return"}
      BY Zenon, <3>1 DEF JInv, IdleInv, SessionIdle
    <3>3. QED
      BY Zenon, <1>1, <1>2, <3>2 DEF NoneOutstanding
  <2>3. QED
    BY Zenon, <2>1, <2>2 DEF IdleInv, SessionIdle
<1>6. QED
  BY Zenon, <1>3, <1>4, <1>5 DEF JInv

LEMMA UpdateBeginJInv ==
  ASSUME IInv, JInv, NEW t \in Threads, UpdateBegin(t)
  PROVE  JInv'
<1>1. /\ pc[t] = "idle" /\ accessLock = NoThread /\ accessLock' = t
      /\ accessReaders = 0 /\ pendingCbCount = 0
      /\ pc' = [pc EXCEPT ![t] = "update"]
      /\ UNCHANGED <<accessReaders, pendingCbCount, req, stage, cur>>
      /\ UNCHANGED <<queue, onRing, poll>>
  BY Zenon DEF UpdateBegin, requestVars, transportVars, pollVars
<1>2. pc'[t] = "update" /\ \A u \in Threads \ {t} : pc'[u] = pc[u]
  BY Zenon, <1>1, OneCall
<1>3. \A u \in Threads : pc[u] # "update" /\ pc[u] # "removed"
  <2>1. \A u \in Threads : u # NoThread
    BY Zenon, SymAssumption
  <2>2. QED
    BY Zenon, <1>1, <2>1 DEF JInv, LockInv, IdleInv
<1>4. LockInv'
  <2>1. Readers' = Readers
    BY Zenon, <1>1, <1>2 DEF Readers
  <2>2. \A u \in Threads : pc'[u] = "update" <=> accessLock' = u
    BY Zenon, <1>1, <1>2, <1>3
  <2>3. QED
    BY Zenon, <1>1, <2>1, <2>2 DEF JInv, LockInv
<1>5. PendInv'
  <2>1. "idle" \notin Sending /\ "update" \notin Sending
    BY Zenon DEF Sending
  <2>2. QED
    BY Zenon, <1>1, <1>2, <2>1, PendKept
<1>6. IdleInv'
  <2>1. NoneOutstanding /\ Readers = {} /\ \A u \in Threads : pc[u] \notin Sending
    BY Zenon, <1>1, CountsZero
  <2>2. NoneOutstanding'
    BY Zenon, <1>1, <2>1 DEF NoneOutstanding
  <2>3. ASSUME NEW u \in Threads
        PROVE  pc[u] \in {"idle", "return"}
    <3>1. pc[u] \notin {"build", "unlock"}
      BY Zenon, <2>1 DEF Readers
    <3>2. pc[u] \in {"idle", "build", "unlock", "send", "lock", "mark", "put", "return",
                     "update", "removed"}
      BY Zenon DEF IInv, TypeOK
    <3>3. QED
      BY Zenon, <1>3, <2>1, <3>1, <3>2 DEF Sending
  <2>4. \A u \in Threads : pc'[u] # "removed"
    BY Zenon, <1>2, <1>3
  <2>5. ASSUME NEW u \in Threads, pc'[u] = "update", NEW v \in Threads \ {u}
        PROVE  pc'[v] \in {"idle", "return"}
    <3>1. u = t
      BY Zenon, <1>2, <1>3, <2>5
    <3>2. QED
      BY Zenon, <1>2, <2>3, <3>1
  <2>6. QED
    BY Zenon, <2>2, <2>4, <2>5 DEF IdleInv, SessionIdle
<1>7. QED
  BY Zenon, <1>4, <1>5, <1>6 DEF JInv

\* The writer leaves, its update done or failed.
LEMMA UpdateLeavesJInv ==
  ASSUME IInv, JInv, NEW t \in Threads, pc[t] = "update", accessLock' = NoThread,
         pc' = [pc EXCEPT ![t] = "idle"],
         UNCHANGED <<accessReaders, pendingCbCount, req, stage, cur>>
  PROVE  JInv'
<1>1. pc'[t] = "idle" /\ \A u \in Threads \ {t} : pc'[u] = pc[u]
  BY Zenon, OneCall
<1>2. \A u \in Threads \ {t} : pc[u] \in {"idle", "return"}
  BY Zenon DEF JInv, IdleInv, SessionIdle
<1>3. LockInv'
  <2>1. Readers' = Readers
    BY Zenon, <1>1 DEF Readers
  <2>2. \A u \in Threads : u # NoThread
    BY Zenon, SymAssumption
  <2>3. \A u \in Threads : pc'[u] # "update" /\ accessLock' # u
    BY Zenon, <1>1, <1>2, <2>2
  <2>4. QED
    BY Zenon, <2>1, <2>3 DEF JInv, LockInv
<1>4. PendInv'
  <2>1. "idle" \notin Sending /\ "update" \notin Sending
    BY Zenon DEF Sending
  <2>2. QED
    BY Zenon, <1>1, <2>1, PendKept
<1>5. IdleInv'
  BY <1>1, <1>2, FreeIdle
<1>6. QED
  BY Zenon, <1>3, <1>4, <1>5 DEF JInv

LEMMA UpdateEndJInv ==
  ASSUME IInv, JInv, NEW t \in Threads, UpdateEnd(t)
  PROVE  JInv'
<1>1. /\ pc[t] = "update" /\ accessLock' = NoThread /\ pc' = [pc EXCEPT ![t] = "idle"]
      /\ UNCHANGED <<accessReaders, pendingCbCount, req, stage, cur>>
  BY DEF UpdateEnd, requestVars, pollVars
<1>2. QED
  BY Zenon, <1>1, UpdateLeavesJInv

LEMMA UpdateFailJInv ==
  ASSUME IInv, JInv, NEW t \in Threads, UpdateFail(t)
  PROVE  JInv'
<1>1. /\ pc[t] = "update" /\ accessLock' = NoThread /\ pc' = [pc EXCEPT ![t] = "idle"]
      /\ UNCHANGED <<accessReaders, pendingCbCount, req, stage, cur>>
  BY Zenon DEF UpdateFail, requestVars, pollVars
<1>2. QED
  BY Zenon, <1>1, UpdateLeavesJInv

LEMMA RemoveSessionJInv ==
  ASSUME IInv, JInv, NEW t \in Threads, RemoveSession(t)
  PROVE  JInv'
<1>1. /\ pendingCbCount = 0
      /\ UNCHANGED <<accessReaders, accessLock, pendingCbCount, req, stage, cur>>
      /\ UNCHANGED <<queue, onRing, poll>>
  BY Zenon DEF RemoveSession, sessionVars, lockVars, requestVars, transportVars, pollVars
<1>2. \A u \in Threads : pc[u] = "idle" /\ pc'[u] = "removed"
  BY Zenon DEF RemoveSession
<1>3. LockInv'
  BY <1>1, <1>2, LockKept
<1>4. PendInv'
  <2>1. "idle" \notin Sending /\ "removed" \notin Sending
    BY Zenon DEF Sending
  <2>2. QED
    BY Zenon, <1>1, <1>2, <2>1, PendKept
<1>5. NoneOutstanding'
  BY Zenon, <1>1, CountsZero DEF NoneOutstanding
<1>6. IdleInv'
  BY <1>2, <1>5 DEF IdleInv, SessionIdle
<1>7. QED
  BY Zenon, <1>3, <1>4, <1>6 DEF JInv

\* Steps of the poller while a request is outstanding: calls see no change.
LEMMA PollerJInv ==
  ASSUME IInv, JInv, ~NoneOutstanding,
         UNCHANGED <<accessReaders, accessLock, pendingCbCount, pc, req>>,
         \A x \in Reqs : stage'[x] \in {"queued", "sent"} \/ x = cur'
                         <=> stage[x] \in {"queued", "sent"} \/ x = cur
  PROVE  JInv'
<1>1. LockInv'
  BY Zenon, LockKept
<1>2. PendInv'
  <2>1. Pending' = Pending
    BY Zenon DEF Pending
  <2>2. QED
    BY Zenon, <2>1 DEF JInv, PendInv
<1>3. IdleInv'
  BY Zenon, PollerHolds, FreeIdle DEF Free
<1>4. QED
  BY Zenon, <1>1, <1>2, <1>3 DEF JInv

LEMMA ResponseJInv ==
  ASSUME IInv, JInv, NEW r \in Reqs, NEW ok \in BOOLEAN, Response(r, ok)
  PROVE  JInv'
<1>1. /\ poll = "loop" /\ r \in onRing /\ cur' = r
      /\ UNCHANGED <<accessReaders, accessLock, pendingCbCount, pc, req>>
      /\ stage' = stage
  BY Zenon DEF Response, lockVars, threadVars, requestVars
<1>2. ~NoneOutstanding
  BY <1>1 DEF NoneOutstanding
<1>3. stage[r] = "sent" /\ cur = NoReq /\ \A x \in Reqs : x # NoReq
  BY Zenon, <1>1, SymAssumption DEF IInv, RingInv, PollInv
<1>4. \A x \in Reqs : stage'[x] \in {"queued", "sent"} \/ x = cur'
                      <=> stage[x] \in {"queued", "sent"} \/ x = cur
  BY Zenon, <1>1, <1>3
<1>5. QED
  BY Zenon, <1>1, <1>2, <1>4, PollerJInv

LEMMA DequeueJInv ==
  ASSUME IInv, JInv, DequeueBegin \/ DequeueNext \/ DequeueRetry \/ DequeueEnd
  PROVE  JInv'
<1>1. /\ poll # "loop" /\ stage' = stage /\ cur' = cur
      /\ UNCHANGED <<accessReaders, accessLock, pendingCbCount, pc, req>>
  <2>1. CASE DequeueBegin
    BY Zenon, <2>1 DEF DequeueBegin, threadVars, requestVars
  <2>2. CASE DequeueNext
    BY Zenon, <2>2 DEF DequeueNext, lockVars, threadVars, requestVars
  <2>3. CASE DequeueRetry
    BY Zenon, <2>3 DEF DequeueRetry, threadVars, requestVars
  <2>4. CASE DequeueEnd
    BY Zenon, <2>4 DEF DequeueEnd, threadVars, requestVars
  <2>5. QED
    BY Zenon, <2>1, <2>2, <2>3, <2>4
<1>2. ~NoneOutstanding
  BY Zenon, <1>1 DEF NoneOutstanding
<1>3. QED
  BY Zenon, <1>1, <1>2, PollerJInv

LEMMA DequeuePutJInv ==
  ASSUME IInv, JInv, DequeuePut
  PROVE  JInv'
<1>1. /\ poll = "put" /\ stage' = [stage EXCEPT ![Head(queue)] = "sent"] /\ cur' = cur
      /\ UNCHANGED <<accessReaders, accessLock, pendingCbCount, pc, req>>
  BY Zenon, DequeuePutFacts
<1>2. ~NoneOutstanding
  BY Zenon, <1>1 DEF NoneOutstanding
<1>3. PICK r \in Reqs : r = Head(queue) /\ stage[r] = "queued"
  <2>1. Head(queue) = queue[1] /\ Head(queue) \in Reqs /\ 1 \in 1 .. Len(queue)
    BY <1>1, TailFacts DEF IInv, TypeOK, PollInv
  <2>2. QED
    BY Zenon, <2>1 DEF IInv, QueueInv
<1>4. stage'[r] = "sent" /\ \A x \in Reqs \ {r} : stage'[x] = stage[x]
  BY Zenon, <1>1, <1>3 DEF IInv, TypeOK
<1>5. \A x \in Reqs : stage'[x] \in {"queued", "sent"} \/ x = cur'
                      <=> stage[x] \in {"queued", "sent"} \/ x = cur
  BY Zenon, <1>1, <1>3, <1>4
<1>6. QED
  BY Zenon, <1>1, <1>2, <1>5, PollerJInv

LEMMA UserCallbackJInv ==
  ASSUME IInv, JInv, UserCallback
  PROVE  JInv'
<1>1. /\ poll = "user" /\ stage' = [stage EXCEPT ![cur] = "done"] /\ cur' = cur
      /\ UNCHANGED <<accessReaders, accessLock, pendingCbCount, pc, req>>
  BY Zenon DEF UserCallback, lockVars, threadVars
<1>2. ~NoneOutstanding
  BY Zenon, <1>1 DEF NoneOutstanding
<1>3. \A x \in Reqs \ {cur} : stage'[x] = stage[x]
  BY Zenon, <1>1 DEF IInv, TypeOK
<1>4. \A x \in Reqs : stage'[x] \in {"queued", "sent"} \/ x = cur'
                      <=> stage[x] \in {"queued", "sent"} \/ x = cur
  BY Zenon, <1>1, <1>3
<1>5. QED
  BY Zenon, <1>1, <1>2, <1>4, PollerJInv

LEMMA CallbackDoneJInv ==
  ASSUME IInv, JInv, CallbackDone
  PROVE  JInv'
<1>1. /\ poll = "count" /\ pendingCbCount' = pendingCbCount - 1 /\ cur' = NoReq
      /\ UNCHANGED <<accessReaders, accessLock, pc, req, stage>>
  BY Zenon DEF CallbackDone, lockVars, threadVars, requestVars
<1>2. PICK r \in Reqs : r = cur /\ stage[r] = "done"
  BY Zenon, <1>1 DEF IInv, TypeOK, PollInv
<1>3. LockInv'
  BY Zenon, <1>1, LockKept
<1>4. PendInv'
  <2>1. \A u \in Threads : req[u] = r => pc[u] \notin Sending
    BY Zenon, <1>2 DEF IInv, CallInv
  <2>2. stage[r] \notin {"queued", "sent"} /\ \A x \in Reqs : x # NoReq
    BY Zenon, <1>2, SymAssumption
  <2>3. r \in Pending
    BY Zenon, <1>2 DEF Pending
  <2>4. \A x \in Reqs : x \in Pending' <=> x \in Pending /\ x # r
    BY Zenon, <1>1, <1>2, <2>1, <2>2 DEF Pending
  <2>5. Pending \subseteq Reqs /\ Pending' \subseteq Reqs
    BY Zenon DEF Pending
  <2>6. Pending' = Pending \ {r}
    BY Zenon, <2>4, <2>5
  <2>7. QED
    BY Zenon, <1>1, <2>3, <2>6, CountsAreInts, CountRemove DEF JInv, PendInv
<1>5. IdleInv'
  <2>1. ~NoneOutstanding
    BY Zenon, <1>1 DEF NoneOutstanding
  <2>2. QED
    BY Zenon, <1>1, <2>1, PollerHolds, FreeIdle DEF Free
<1>6. QED
  BY Zenon, <1>3, <1>4, <1>5 DEF JInv

\* Steps that touch nothing of the session's lock and counts.
LEMMA StutterJInv ==
  ASSUME JInv, UNCHANGED <<accessReaders, accessLock, pendingCbCount, pc, req>>,
         UNCHANGED <<queue, stage, onRing, poll, cur>>
  PROVE  JInv'
<1>1. LockInv' /\ PendInv'
  BY Zenon, LockKept, PendKept
<1>2. IdleInv'
  BY Zenon DEF JInv, IdleInv, SessionIdle, NoneOutstanding
<1>3. QED
  BY Zenon, <1>1, <1>2 DEF JInv

LEMMA NextJInv == IInv /\ JInv /\ [Next]_vars => JInv'
<1> SUFFICES ASSUME IInv, JInv, [Next]_vars PROVE JInv'
  OBVIOUS
<1>1. CASE UNCHANGED vars \/ PollEnd
  <2>1. /\ UNCHANGED <<accessReaders, accessLock, pendingCbCount, pc, req>>
        /\ UNCHANGED <<queue, stage, onRing, poll, cur>>
    BY Zenon, <1>1 DEF vars, PollEnd, sessionVars, lockVars, threadVars, requestVars,
                transportVars, pollVars
  <2>2. QED
    BY Zenon, <2>1, StutterJInv
<1>2. ASSUME NEW t \in Threads, CallStep(t)
      PROVE  JInv'
  BY Zenon, <1>2, PerformBuildJInv, PerformFailJInv, PerformUnlockJInv, SendCheckJInv,
     SendQueueJInv, SendMarkJInv, SendPutJInv, SendRefusedJInv, PerformReturnJInv,
     UpdateEndJInv, UpdateFailJInv DEF CallStep
<1>3. ASSUME PollStep
      PROVE  JInv'
  BY Zenon, <1>1, <1>3, DequeueJInv, DequeuePutJInv, UserCallbackJInv, CallbackDoneJInv
     DEF PollStep
<1>4. QED
  BY Zenon, <1>1, <1>2, <1>3, PerformBeginJInv, UpdateBeginJInv, RemoveSessionJInv,
     ResponseJInv DEF Next

\* accessReaders is no less than the readers, pendingCbCount counts what it
\* should, and the writer lock excludes readers and outstanding requests.
THEOREM LockInvariance == Spec => []JInv
BY InitJInv, NextJInv, Invariance, PTL DEF Spec

\* SessionIdle: nothing uses the session while cpaCySymUpdateSession rewrites it,
\* and nothing touches it once cpaCySymRemoveSession has freed it.
THEOREM IdleWhenWritten == Spec => []SessionIdle
<1>1. JInv => SessionIdle
  BY Zenon DEF JInv, IdleInv
<1>2. QED
  BY <1>1, LockInvariance, PTL

-----------------------------------------------------------------------------
(* The parts of the message: what their order rests on, and why at most    *)
(* one of them uses the session.                                           *)

\* The call that performed part i has begun, and it has returned.
Called(i) == \E t \in Threads : req[t] = Parts[i]
Begun(i) == stage[Parts[i]] # "new" \/ Called(i)
Returned(i) == stage[Parts[i]] # "new" /\ ~Called(i)

\* The calls for the parts come one after the other.
SeqInv ==
  /\ \A j \in 1 .. Len(Parts) : Begun(j) => \A i \in 1 .. j - 1 : Returned(i)
  /\ \A i \in 1 .. Len(Parts) : Begun(i) => Len(Parts) > 1

\* partialState tells whether the message has begun and not ended.
StateInv ==
  partialState = "PARTIAL" <=>
    \E i \in 1 .. Len(Parts) : Returned(i) /\ ~Returned(Len(Parts))

Flag(i) == IF i = 1 THEN "START" ELSE IF i = Len(Parts) THEN "END" ELSE "MID"

\* A part that was built has the flag of its place.
Built(i) ==
  stage[Parts[i]] # "new" \/ \E t \in Threads : req[t] = Parts[i] /\ pc[t] \in Sending

FlagInv == \A i \in 1 .. Len(Parts) : Built(i) => fwType[Parts[i]] = Flag(i)

\* Parts are queued in their order.
OrderInv ==
  \A i, j \in 1 .. Len(Parts), a, b \in 1 .. Len(queue) :
    queue[a] = Parts[i] /\ queue[b] = Parts[j] /\ a < b => i < j

\* A part in use: about to be put, with the device, or answered with the
\* session still blocked for it.
InUse(r) ==
  \/ r \in onRing
  \/ poll = "lock" /\ r = cur
  \/ poll = "put" /\ r = Head(queue)
  \/ \E t \in Threads : pc[t] = "put" /\ req[t] = r

\* One part is in use, and the session blocks for it.
UseInv ==
  /\ \A i, j \in 1 .. Len(Parts) : InUse(Parts[i]) /\ InUse(Parts[j]) => i = j
  /\ \A i \in 1 .. Len(Parts) : InUse(Parts[i]) => nonBlockingOpsInProgress = FALSE

\* Once a call has found that it need not queue its part, the parts before it
\* are done with, whatever happened since it looked.
MarkInv ==
  \A t \in Threads, j \in 1 .. Len(Parts) :
    pc[t] \in {"mark", "put"} /\ req[t] = Parts[j] =>
      \A i \in 1 .. j - 1 : stage[Parts[i]] \in {"sent", "done"} /\ ~InUse(Parts[i])

\* A part that was put found the one before it answered.
AnsweredInv ==
  \A j \in 1 .. Len(Parts) : stage[Parts[j]] \in {"sent", "done"} =>
    \A i \in 1 .. j - 1 : stage[Parts[i]] \in {"sent", "done"} /\ ~InUse(Parts[i])

KInv ==
  SeqInv /\ StateInv /\ FlagInv /\ OrderInv /\ UseInv /\ MarkInv /\ AnsweredInv

-----------------------------------------------------------------------------
(* The parts of the message.                                               *)

LEMMA PartsFacts ==
  /\ Len(Parts) \in Nat
  /\ \A i \in 1 .. Len(Parts) : Parts[i] \in Reqs /\ IsPart(Parts[i])
  /\ \A i, j \in 1 .. Len(Parts) : Parts[i] = Parts[j] => i = j
  /\ \A r : IsPart(r) => \E i \in 1 .. Len(Parts) : r = Parts[i]
<1>1. Parts \in Seq(Reqs)
  BY Zenon, SymAssumption
<1>2. Len(Parts) \in Nat /\ DOMAIN Parts = 1 .. Len(Parts)
  BY <1>1
<1>3. \A i, j \in 1 .. Len(Parts) : Parts[i] = Parts[j] => i = j
  BY Zenon, <1>2, SymAssumption DEF IsInjective
<1>4. \A r : IsPart(r) => \E i \in 1 .. Len(Parts) : r = Parts[i]
  BY Zenon, <1>2 DEF IsPart, Range
<1>5. \A i \in 1 .. Len(Parts) : IsPart(Parts[i])
  BY Zenon, <1>2 DEF IsPart, Range
<1>6. \A i \in 1 .. Len(Parts) : Parts[i] \in Reqs
  BY Zenon, <1>5 DEF IsPart, Reqs
<1>7. QED
  BY Zenon, <1>2, <1>3, <1>4, <1>5, <1>6

\* Of the parts whose calls have begun, only the last may still be in its call.
LEMMA CalledLast ==
  ASSUME SeqInv, NEW i \in 1 .. Len(Parts), NEW j \in 1 .. Len(Parts), Called(i), Begun(j)
  PROVE  ~(i < j) /\ (Called(j) => i = j)
<1>1. Len(Parts) \in Nat
  BY Zenon, PartsFacts
<1>2. \A k, m \in 1 .. Len(Parts) : Begun(m) /\ k < m => Returned(k)
  BY <1>1 DEF SeqInv
<1>3. ~(i < j)
  BY Zenon, <1>2 DEF Returned
<1>4. ASSUME Called(j)
      PROVE  ~(j < i)
  <2>1. Begun(i)
    BY Zenon DEF Begun
  <2>2. QED
    BY Zenon, <1>2, <1>4, <2>1 DEF Returned
<1>5. QED
  BY <1>1, <1>3, <1>4

\* Steps after which no more parts are begun or built, and the same returned.
LEMMA CallsFrame ==
  ASSUME KInv, partialState' = partialState,
         \A i \in 1 .. Len(Parts) :
           /\ (Begun(i)' => Begun(i)) /\ (Returned(i)' <=> Returned(i))
           /\ (Built(i)' => Built(i)) /\ fwType'[Parts[i]] = fwType[Parts[i]]
  PROVE  SeqInv' /\ StateInv' /\ FlagInv'
<1>1. Len(Parts) \in Nat
  BY Zenon, PartsFacts
<1>2. SeqInv'
  <2>1. \A i, j \in 1 .. Len(Parts) : Begun(j) /\ i < j => Returned(i)
    BY <1>1 DEF KInv, SeqInv
  <2>2. ASSUME NEW j \in 1 .. Len(Parts), Begun(j)', NEW i \in 1 .. j - 1
        PROVE  Returned(i)'
    <3>1. i \in 1 .. Len(Parts) /\ i < j
      BY <1>1
    <3>2. QED
      BY Zenon, <2>1, <2>2, <3>1
  <2>3. \A i \in 1 .. Len(Parts) : Begun(i)' => Len(Parts) > 1
    BY Zenon DEF KInv, SeqInv
  <2>4. QED
    BY Zenon, <2>2, <2>3 DEF SeqInv
<1>3. StateInv'
  <2>1. Len(Parts) = 0 \/ Len(Parts) \in 1 .. Len(Parts)
    BY <1>1
  <2>2. CASE Len(Parts) = 0
    <3>1. \A i \in 1 .. Len(Parts) : FALSE
      BY <2>2
    <3>2. QED
      BY Zenon, <3>1 DEF KInv, StateInv
  <2>3. CASE Len(Parts) \in 1 .. Len(Parts)
    BY Zenon, <2>3 DEF KInv, StateInv
  <2>4. QED
    BY Zenon, <2>1, <2>2, <2>3
<1>4. FlagInv'
  BY Zenon DEF KInv, FlagInv, Flag
<1>5. QED
  BY Zenon, <1>2, <1>3, <1>4

\* Steps that take no request and give none up.
LEMMA CallsGoOn ==
  ASSUME KInv, UNCHANGED <<partialState, req, fwType>>,
         \A r \in Reqs : stage'[r] = "new" <=> stage[r] = "new",
         \A u \in Threads : pc'[u] \in Sending => pc[u] \in Sending
  PROVE  SeqInv' /\ StateInv' /\ FlagInv'
<1>1. \A i \in 1 .. Len(Parts) : Parts[i] \in Reqs
  BY Zenon, PartsFacts
<1>2. ASSUME NEW i \in 1 .. Len(Parts)
      PROVE  /\ (Begun(i)' => Begun(i)) /\ (Returned(i)' <=> Returned(i))
             /\ (Built(i)' => Built(i)) /\ fwType'[Parts[i]] = fwType[Parts[i]]
  BY Zenon, <1>1 DEF Begun, Returned, Called, Built
<1>3. QED
  BY Zenon, <1>2, CallsFrame

\* A call gives up a request that got nowhere.
LEMMA CallsDrop ==
  ASSUME KInv, UNCHANGED <<partialState, fwType, stage>>, NEW t \in Threads,
         req[t] \in Reqs, stage[req[t]] = "new",
         req'[t] = NoReq, pc'[t] \notin Sending,
         \A u \in Threads \ {t} : req'[u] = req[u] /\ pc'[u] = pc[u]
  PROVE  SeqInv' /\ StateInv' /\ FlagInv'
<1>1. \A i \in 1 .. Len(Parts) : Parts[i] # NoReq
  BY Zenon, PartsFacts, SymAssumption
<1>2. ASSUME NEW i \in 1 .. Len(Parts)
      PROVE  /\ (Begun(i)' => Begun(i)) /\ (Returned(i)' <=> Returned(i))
             /\ (Built(i)' => Built(i)) /\ fwType'[Parts[i]] = fwType[Parts[i]]
  <2>1. Called(i)' => Called(i)
    BY Zenon, <1>1 DEF Called
  <2>2. Called(i) => Called(i)' \/ stage[Parts[i]] = "new"
    BY Zenon DEF Called
  <2>3. Built(i)' => Built(i)
    BY Zenon DEF Built
  <2>4. QED
    BY Zenon, <2>1, <2>2, <2>3 DEF Begun, Returned
<1>3. QED
  BY Zenon, <1>2, CallsFrame

\* A call queues or puts its request.
LEMMA CallsSend ==
  ASSUME KInv, UNCHANGED <<partialState, fwType, req>>, NEW t \in Threads, NEW x,
         req[t] \in Reqs, pc[t] \in Sending,
         stage[req[t]] = "new", stage'[req[t]] = x, x # "new",
         \A r \in Reqs \ {req[t]} : stage'[r] = stage[r],
         \A u \in Threads : pc'[u] \in Sending => pc[u] \in Sending
  PROVE  SeqInv' /\ StateInv' /\ FlagInv'
<1>1. \A i \in 1 .. Len(Parts) : Parts[i] \in Reqs
  BY Zenon, PartsFacts
<1>2. ASSUME NEW i \in 1 .. Len(Parts)
      PROVE  /\ (Begun(i)' => Begun(i)) /\ (Returned(i)' <=> Returned(i))
             /\ (Built(i)' => Built(i)) /\ fwType'[Parts[i]] = fwType[Parts[i]]
  <2>1. Called(i)' <=> Called(i)
    BY Zenon DEF Called
  <2>2. CASE Parts[i] = req[t]
    <3>1. Called(i) /\ Built(i)
      BY Zenon, <2>2 DEF Called, Built
    <3>2. QED
      BY Zenon, <2>1, <3>1 DEF Begun, Returned
  <2>3. CASE Parts[i] # req[t]
    BY Zenon, <1>1, <2>1, <2>3 DEF Begun, Returned, Built
  <2>4. QED
    BY Zenon, <2>2, <2>3
<1>3. QED
  BY Zenon, <1>2, CallsFrame

\* Steps after which no more parts are in use, marked or put.
LEMMA UseFrame ==
  ASSUME KInv,
         \A i \in 1 .. Len(Parts) : InUse(Parts[i])' =>
           /\ InUse(Parts[i])
           /\ nonBlockingOpsInProgress' \in {nonBlockingOpsInProgress, FALSE},
         \A u \in Threads : pc'[u] \in {"mark", "put"} =>
           pc[u] \in {"mark", "put"} /\ req'[u] = req[u],
         \A i \in 1 .. Len(Parts) :
           stage'[Parts[i]] \in {"sent", "done"} <=> stage[Parts[i]] \in {"sent", "done"}
  PROVE  UseInv' /\ MarkInv' /\ AnsweredInv'
<1>1. \A j \in 1 .. Len(Parts) : \A i \in 1 .. j - 1 : i \in 1 .. Len(Parts)
  BY PartsFacts
<1>2. UseInv'
  <2>1. \A i, j \in 1 .. Len(Parts) : InUse(Parts[i])' /\ InUse(Parts[j])' => i = j
    BY Zenon DEF KInv, UseInv
  <2>2. \A i \in 1 .. Len(Parts) : InUse(Parts[i])' => nonBlockingOpsInProgress' = FALSE
    BY Zenon DEF KInv, UseInv
  <2>3. QED
    BY Zenon, <2>1, <2>2 DEF UseInv
<1>3. ASSUME NEW t \in Threads, NEW j \in 1 .. Len(Parts),
             pc'[t] \in {"mark", "put"}, req'[t] = Parts[j], NEW i \in 1 .. j - 1
      PROVE  stage'[Parts[i]] \in {"sent", "done"} /\ ~InUse(Parts[i])'
  <2>1. pc[t] \in {"mark", "put"} /\ req[t] = Parts[j]
    BY Zenon, <1>3
  <2>2. stage[Parts[i]] \in {"sent", "done"} /\ ~InUse(Parts[i])
    BY Zenon, <2>1 DEF KInv, MarkInv
  <2>3. QED
    BY Zenon, <1>1, <2>2
<1>4. ASSUME NEW j \in 1 .. Len(Parts), stage'[Parts[j]] \in {"sent", "done"},
             NEW i \in 1 .. j - 1
      PROVE  stage'[Parts[i]] \in {"sent", "done"} /\ ~InUse(Parts[i])'
  <2>1. stage[Parts[i]] \in {"sent", "done"} /\ ~InUse(Parts[i])
    BY Zenon, <1>4 DEF KInv, AnsweredInv
  <2>2. QED
    BY Zenon, <1>1, <2>1
<1>5. MarkInv' /\ AnsweredInv'
  BY Zenon, <1>3, <1>4 DEF MarkInv, AnsweredInv
<1>6. QED
  BY Zenon, <1>2, <1>5

\* Steps of calls that put nothing.
LEMMA CallsUse ==
  ASSUME KInv, UNCHANGED <<queue, onRing, poll, cur, stage>>,
         nonBlockingOpsInProgress' \in {nonBlockingOpsInProgress, FALSE},
         \A u \in Threads : pc'[u] \in {"mark", "put"} => pc'[u] = pc[u] /\ req'[u] = req[u]
  PROVE  OrderInv' /\ UseInv' /\ MarkInv' /\ AnsweredInv'
<1>1. OrderInv'
  BY Zenon DEF KInv, OrderInv
<1>2. ASSUME NEW r, InUse(r)'
      PROVE  InUse(r)
  <2>1. (\E u \in Threads : pc'[u] = "put" /\ req'[u] = r) =>
          \E u \in Threads : pc[u] = "put" /\ req[u] = r
    BY Zenon
  <2>2. QED
    BY Zenon, <1>2, <2>1 DEF InUse
<1>3. \A u \in Threads : pc'[u] \in {"mark", "put"} =>
        pc[u] \in {"mark", "put"} /\ req'[u] = req[u]
  BY Zenon
<1>4. QED
  BY Zenon, <1>1, <1>2, <1>3, UseFrame

LEMMA InitKInv == Init => KInv
<1> SUFFICES ASSUME Init PROVE KInv
  OBVIOUS
<1>1. /\ \A r \in Reqs : stage[r] = "new" /\ \A t \in Threads : req[t] = NoReq /\ pc[t] = "idle"
      /\ partialState = "FULL" /\ onRing = {} /\ poll = "loop" /\ queue = <<>>
  BY Zenon DEF Init
<1>2. \A i \in 1 .. Len(Parts) : Parts[i] \in Reqs /\ Parts[i] # NoReq
  BY Zenon, PartsFacts, SymAssumption
<1>3. ASSUME NEW i \in 1 .. Len(Parts)
      PROVE  /\ ~Begun(i) /\ ~Returned(i) /\ ~Built(i) /\ ~InUse(Parts[i])
             /\ stage[Parts[i]] = "new"
  <2>1. "idle" \notin Sending
    BY Zenon DEF Sending
  <2>2. QED
    BY Zenon, <1>1, <1>2, <2>1 DEF Begun, Returned, Called, Built, InUse
<1>4. SeqInv
  BY Zenon, <1>3 DEF SeqInv
<1>5. StateInv
  BY Zenon, <1>1, <1>3 DEF StateInv
<1>6. FlagInv /\ UseInv
  BY Zenon, <1>3 DEF FlagInv, UseInv
<1>7. MarkInv /\ AnsweredInv
  BY Zenon, <1>1, <1>2, <1>3 DEF MarkInv, AnsweredInv
<1>8. OrderInv
  BY <1>1 DEF OrderInv
<1>9. QED
  BY Zenon, <1>4, <1>5, <1>6, <1>7, <1>8 DEF KInv

LEMMA PerformBeginKInv ==
  ASSUME IInv, KInv, NEW t \in Threads, NEW r \in Reqs, PerformBegin(t, r)
  PROVE  KInv'
<1>1. /\ pc[t] = "idle" /\ stage[r] = "new" /\ \A u \in Threads : req[u] # r
      /\ IsPart(r) => PartMayStart(r) /\ PartialPacketStateCheck(packetType(r))
      /\ pc' = [pc EXCEPT ![t] = "build"] /\ req' = [req EXCEPT ![t] = r]
      /\ UNCHANGED <<nonBlockingOpsInProgress, queue, partialState, stage, fwType>>
      /\ UNCHANGED <<onRing, poll, cur>>
  BY Zenon DEF PerformBegin, sessionVars, requestVars, transportVars, pollVars
<1>2. pc'[t] = "build" /\ \A u \in Threads \ {t} : pc'[u] = pc[u]
  BY Zenon, <1>1, OneCall
<1>3. req'[t] = r /\ \A u \in Threads \ {t} : req'[u] = req[u]
  BY Zenon, <1>1, OneReq
<1>4. req[t] = NoReq
  BY Zenon, <1>1 DEF IInv, CallInv
<1>5. OrderInv' /\ UseInv' /\ MarkInv' /\ AnsweredInv'
  <2>1. \A u \in Threads : pc'[u] \in {"mark", "put"} => pc'[u] = pc[u] /\ req'[u] = req[u]
    BY Zenon, <1>2, <1>3
  <2>2. QED
    BY Zenon, <1>1, <2>1, CallsUse
<1>6. /\ Len(Parts) \in Nat
      /\ \A i \in 1 .. Len(Parts) : Parts[i] \in Reqs /\ IsPart(Parts[i]) /\ Parts[i] # NoReq
      /\ \A i, j \in 1 .. Len(Parts) : Parts[i] = Parts[j] => i = j
  BY Zenon, PartsFacts, SymAssumption
<1>7. ASSUME NEW i \in 1 .. Len(Parts)
      PROVE  /\ Called(i)' <=> Called(i) \/ Parts[i] = r
             /\ Begun(i)' <=> Begun(i) \/ Parts[i] = r
             /\ Returned(i)' <=> Returned(i)
             /\ Built(i)' => Built(i)
  <2>1. Called(i)' <=> Called(i) \/ Parts[i] = r
    BY Zenon, <1>3, <1>4, <1>6 DEF Called
  <2>2. Begun(i)' <=> Begun(i) \/ Parts[i] = r
    BY Zenon, <1>1, <2>1 DEF Begun
  <2>3. Returned(i)' <=> Returned(i)
    BY Zenon, <1>1, <2>1 DEF Returned
  <2>4. "build" \notin Sending
    BY Zenon DEF Sending
  <2>5. Built(i)' => Built(i)
    BY Zenon, <1>1, <1>2, <1>3, <2>4 DEF Built
  <2>6. QED
    BY Zenon, <2>1, <2>2, <2>3, <2>5
<1>8. CASE ~IsPart(r)
  <2>1. \A i \in 1 .. Len(Parts) : Parts[i] # r
    BY Zenon, <1>6, <1>8
  <2>2. SeqInv' /\ StateInv' /\ FlagInv'
    BY Zenon, <1>1, <1>7, <2>1, CallsFrame
  <2>3. QED
    BY Zenon, <1>5, <2>2 DEF KInv
<1>9. CASE IsPart(r)
  <2>1. PICK j \in 1 .. Len(Parts) : Parts[j] = r
    BY Zenon, <1>9, PartsFacts
  <2>2. \A i \in 1 .. Len(Parts) : Parts[i] = r => i = j
    BY Zenon, <1>6, <2>1
  <2>3. \A i, k \in 1 .. Len(Parts) : Begun(k) /\ i < k => Returned(i)
    BY <1>6 DEF KInv, SeqInv
  <2>4. ~Returned(j)
    BY Zenon, <1>1, <2>1 DEF Returned
  <2>5. StateInv' /\ FlagInv'
    <3>1. Len(Parts) \in 1 .. Len(Parts)
      BY <1>6, <2>1
    <3>2. StateInv'
      BY Zenon, <1>1, <1>7, <3>1 DEF KInv, StateInv
    <3>3. FlagInv'
      BY Zenon, <1>1, <1>7 DEF KInv, FlagInv, Flag
    <3>4. QED
      BY Zenon, <3>2, <3>3
  <2>6. ASSUME NEW i \in 1 .. Len(Parts), i < j
        PROVE  Returned(i)
    <3>1. j - 1 \in 1 .. Len(Parts) - 1 /\ (j - 1) + 1 = j /\ j - 1 \in 1 .. Len(Parts)
      BY <1>6, <2>6
    <3>2. stage[Parts[j - 1]] \in {"queued", "sent", "done"} /\ \A u \in Threads : req[u] # Parts[j - 1]
      BY Zenon, <1>1, <1>9, <2>1, <3>1 DEF PartMayStart
    <3>3. Returned(j - 1) /\ Begun(j - 1)
      BY Zenon, <3>2 DEF Returned, Begun, Called
    <3>4. i = j - 1 \/ i < j - 1
      BY <2>6
    <3>5. QED
      BY Zenon, <2>3, <3>1, <3>3, <3>4
  <2>7. Len(Parts) > 1
    <3> SUFFICES ASSUME ~(Len(Parts) > 1) PROVE FALSE
      OBVIOUS
    <3>1. Len(Parts) = 1 /\ j = 1 /\ \A i \in 1 .. Len(Parts) : i = 1
      <4>1. PICK n \in Nat : n = Len(Parts)
        BY Zenon, <1>6
      <4>2. j \in 1 .. n /\ ~(n > 1)
        BY Zenon, <4>1
      <4>3. n = 1 /\ j = 1 /\ \A i \in 1 .. n : i = 1
        BY <4>2
      <4>4. QED
        BY Zenon, <4>1, <4>3
    <3>2. packetType(r) = "LAST_PARTIAL"
      BY Zenon, <1>9, <2>1, <3>1 DEF packetType
    <3>3. partialState = "PARTIAL"
      BY <1>1, <1>9, <3>2 DEF PartialPacketStateCheck
    <3>4. QED
      BY Zenon, <2>4, <3>1, <3>3 DEF KInv, StateInv
  <2>8. SeqInv'
    <3>1. ASSUME NEW k \in 1 .. Len(Parts), Begun(k)', NEW i \in 1 .. k - 1
          PROVE  Returned(i)'
      <4>1. i \in 1 .. Len(Parts) /\ i < k
        BY <1>6
      <4>2. Returned(i)
        BY Zenon, <1>7, <2>2, <2>3, <2>6, <3>1, <4>1
      <4>3. QED
        BY Zenon, <1>7, <4>1, <4>2
    <3>2. QED
      BY Zenon, <2>7, <3>1 DEF SeqInv
  <2>9. QED
    BY Zenon, <1>5, <2>5, <2>8 DEF KInv
<1>10. QED
  BY Zenon, <1>8, <1>9

LEMMA PartType ==
  ASSUME NEW j \in 1 .. Len(Parts)
  PROVE  packetType(Parts[j]) = IF j = Len(Parts) THEN "LAST_PARTIAL" ELSE "PARTIAL"
<1>1. IsPart(Parts[j]) /\ Len(Parts) \in 1 .. Len(Parts)
  BY PartsFacts
<1>2. Parts[j] = Parts[Len(Parts)] <=> j = Len(Parts)
  BY Zenon, <1>1, PartsFacts
<1>3. QED
  BY Zenon, <1>1, <1>2 DEF packetType

\* While a part is in its call, partialState tells whether it is the first.
LEMMA CalledState ==
  ASSUME IInv, KInv, NEW j \in 1 .. Len(Parts), Called(j)
  PROVE  /\ Len(Parts) > 1 /\ ~Returned(Len(Parts))
         /\ partialState = IF j = 1 THEN "FULL" ELSE "PARTIAL"
<1>1. Len(Parts) \in Nat /\ 1 \in 1 .. Len(Parts) /\ Len(Parts) \in 1 .. Len(Parts)
  BY PartsFacts
<1>2. Begun(j)
  BY Zenon DEF Begun
<1>3. \A k, m \in 1 .. Len(Parts) : Begun(m) /\ k < m => Returned(k)
  BY <1>1 DEF KInv, SeqInv
<1>4. \A i \in 1 .. Len(Parts) : Returned(i) => i < j
  <2> TAKE i \in 1 .. Len(Parts)
  <2>1. SUFFICES ASSUME Returned(i) PROVE i < j
    OBVIOUS
  <2>2. i # j
    BY Zenon, <2>1 DEF Returned
  <2>3. Begun(i)
    BY Zenon, <2>1 DEF Returned, Begun
  <2>4. ~(j < i)
    BY Zenon, <1>3, <2>3 DEF Returned
  <2>5. QED
    BY <1>1, <2>2, <2>4
<1>5. Len(Parts) > 1
  BY Zenon, <1>2 DEF KInv, SeqInv
<1>6. ~Returned(Len(Parts))
  <2>1. ~(Len(Parts) < j)
    BY <1>1
  <2>2. QED
    BY Zenon, <1>1, <1>4, <2>1
<1>7. (\E i \in 1 .. Len(Parts) : Returned(i)) <=> j # 1
  <2>1. j # 1 => 1 < j
    BY <1>1
  <2>2. \A i \in 1 .. Len(Parts) : ~(i < 1)
    BY <1>1
  <2>3. QED
    BY Zenon, <1>1, <1>2, <1>3, <1>4, <2>1, <2>2
<1>8. partialState = "PARTIAL" <=> j # 1
  BY Zenon, <1>6, <1>7 DEF KInv, StateInv
<1>9. QED
  BY Zenon, <1>5, <1>6, <1>8 DEF IInv, TypeOK

LEMMA PerformBuildKInv ==
  ASSUME IInv, KInv, NEW t \in Threads, PerformBuild(t)
  PROVE  KInv'
<1>1. /\ pc[t] = "build"
      /\ fwType' = [fwType EXCEPT ![req[t]] = packetTypeGet(packetType(req[t]))]
      /\ pc' = [pc EXCEPT ![t] = "unlock"]
      /\ UNCHANGED <<nonBlockingOpsInProgress, queue, partialState, req, stage>>
      /\ UNCHANGED <<onRing, poll, cur>>
  BY Zenon DEF PerformBuild, sessionVars, transportVars, pollVars
<1>2. pc'[t] = "unlock" /\ \A u \in Threads \ {t} : pc'[u] = pc[u]
  BY Zenon, <1>1, OneCall
<1>3. PICK r \in Reqs : r = req[t] /\ stage[r] = "new"
  BY Zenon, <1>1 DEF IInv, CallInv
<1>4. /\ fwType'[r] = packetTypeGet(packetType(r))
      /\ \A x \in Reqs \ {r} : fwType'[x] = fwType[x]
  BY Zenon, <1>1, <1>3 DEF IInv, TypeOK
<1>5. OrderInv' /\ UseInv' /\ MarkInv' /\ AnsweredInv'
  <2>1. \A u \in Threads : pc'[u] \in {"mark", "put"} => pc'[u] = pc[u] /\ req'[u] = req[u]
    BY <1>1, <1>2
  <2>2. QED
    BY Zenon, <1>1, <2>1, CallsUse
<1>6. SeqInv' /\ StateInv'
  <2>1. ASSUME NEW i \in 1 .. Len(Parts)
        PROVE  (Begun(i)' <=> Begun(i)) /\ (Returned(i)' <=> Returned(i))
    BY Zenon, <1>1 DEF Begun, Returned, Called
  <2>2. \A j \in 1 .. Len(Parts) : \A i \in 1 .. j - 1 : i \in 1 .. Len(Parts)
    BY PartsFacts
  <2>3. SeqInv'
    BY Zenon, <2>1, <2>2 DEF KInv, SeqInv
  <2>4. \A i \in 1 .. Len(Parts) : Len(Parts) \in 1 .. Len(Parts)
    BY PartsFacts
  <2>5. StateInv'
    BY Zenon, <1>1, <2>1, <2>4 DEF KInv, StateInv
  <2>6. QED
    BY Zenon, <2>3, <2>5
<1>7. ASSUME NEW i \in 1 .. Len(Parts), Built(i)'
      PROVE  fwType'[Parts[i]] = Flag(i)
  <2>1. CASE Parts[i] = r
    <3>1. Called(i)
      BY Zenon, <1>3, <2>1 DEF Called
    <3>2. Len(Parts) > 1 /\ partialState = IF i = 1 THEN "FULL" ELSE "PARTIAL"
      BY Zenon, <3>1, CalledState
    <3>3. packetType(r) = IF i = Len(Parts) THEN "LAST_PARTIAL" ELSE "PARTIAL"
      BY Zenon, <2>1, PartType
    <3>4. QED
      BY <1>4, <2>1, <3>2, <3>3 DEF packetTypeGet, Flag
  <2>2. CASE Parts[i] # r
    <3>1. Parts[i] \in Reqs
      BY Zenon, PartsFacts
    <3>2. Built(i)
      BY Zenon, <1>1, <1>2, <1>3, <1>7, <2>2 DEF Built
    <3>3. QED
      BY Zenon, <1>4, <2>2, <3>1, <3>2 DEF KInv, FlagInv
  <2>3. QED
    BY Zenon, <2>1, <2>2
<1>8. FlagInv'
  BY Zenon, <1>7 DEF FlagInv, Flag
<1>9. QED
  BY Zenon, <1>5, <1>6, <1>8 DEF KInv

LEMMA PerformFailKInv ==
  ASSUME IInv, KInv, NEW t \in Threads, PerformFail(t) \/ PerformLeave(t)
  PROVE  KInv'
<1>1. /\ pc[t] = "build"
      /\ pc' = [pc EXCEPT ![t] = "idle"] /\ req' = [req EXCEPT ![t] = NoReq]
      /\ UNCHANGED <<nonBlockingOpsInProgress, queue, partialState, stage, fwType>>
      /\ UNCHANGED <<onRing, poll, cur>>
  BY Zenon DEF PerformFail, PerformLeave, sessionVars, requestVars, transportVars, pollVars
<1>2. /\ pc'[t] = "idle" /\ req'[t] = NoReq
      /\ \A u \in Threads \ {t} : pc'[u] = pc[u] /\ req'[u] = req[u]
  BY Zenon, <1>1, OneCall, OneReq
<1>3. req[t] \in Reqs /\ stage[req[t]] = "new"
  BY Zenon, <1>1 DEF IInv, CallInv
<1>4. "idle" \notin Sending
  BY DEF Sending
<1>5. SeqInv' /\ StateInv' /\ FlagInv'
  BY Zenon, <1>1, <1>2, <1>3, <1>4, CallsDrop
<1>6. \A u \in Threads : pc'[u] \in {"mark", "put"} => pc'[u] = pc[u] /\ req'[u] = req[u]
  BY <1>2
<1>7. OrderInv' /\ UseInv' /\ MarkInv' /\ AnsweredInv'
  BY Zenon, <1>1, <1>6, CallsUse
<1>8. QED
  BY Zenon, <1>5, <1>7 DEF KInv

LEMMA PerformUnlockKInv ==
  ASSUME IInv, KInv, NEW t \in Threads, PerformUnlock(t)
  PROVE  KInv'
<1>1. /\ pc[t] = "unlock" /\ pc' = [pc EXCEPT ![t] = "send"]
      /\ UNCHANGED <<nonBlockingOpsInProgress, queue, partialState, req, stage, fwType>>
      /\ UNCHANGED <<onRing, poll, cur>>
  BY DEF PerformUnlock, sessionVars, requestVars, transportVars, pollVars
<1>2. pc'[t] = "send" /\ \A u \in Threads \ {t} : pc'[u] = pc[u]
  BY Zenon, <1>1, OneCall
<1>3. "unlock" \in Sending
  BY DEF Sending
<1>4. SeqInv' /\ StateInv' /\ FlagInv'
  BY Zenon, <1>1, <1>2, <1>3, CallsGoOn
<1>5. \A u \in Threads : pc'[u] \in {"mark", "put"} => pc'[u] = pc[u] /\ req'[u] = req[u]
  BY <1>1, <1>2
<1>6. OrderInv' /\ UseInv' /\ MarkInv' /\ AnsweredInv'
  BY Zenon, <1>1, <1>5, CallsUse
<1>7. QED
  BY Zenon, <1>4, <1>6 DEF KInv

\* A call finds that it need not queue its request: nothing is queued, and no
\* part is in use.
LEMMA ClearKInv ==
  ASSUME IInv, KInv, NEW t \in Threads, pc[t] \in {"send", "lock"}, ~MustQueue,
         pc' = [pc EXCEPT ![t] = ClearToSend(req[t])],
         UNCHANGED <<nonBlockingOpsInProgress, queue, partialState, req, stage, fwType>>,
         UNCHANGED <<onRing, poll, cur>>
  PROVE  KInv'
<1>1. pc'[t] = ClearToSend(req[t]) /\ \A u \in Threads \ {t} : pc'[u] = pc[u]
  BY Zenon, OneCall
<1>2. pc[t] \in Sending
  BY DEF Sending
<1>3. SeqInv' /\ StateInv' /\ FlagInv'
  BY Zenon, <1>1, <1>2, CallsGoOn
<1>4. nonBlockingOpsInProgress # FALSE /\ queue = <<>>
  BY Zenon DEF MustQueue, IInv, QueueInv
<1>5. OrderInv'
  BY Zenon DEF KInv, OrderInv
<1>6. /\ \A i \in 1 .. Len(Parts) : IsPart(Parts[i]) /\ Parts[i] \in Reqs
      /\ \A j \in 1 .. Len(Parts) : \A i \in 1 .. j - 1 : i \in 1 .. Len(Parts)
  BY PartsFacts
<1>7. ASSUME NEW i \in 1 .. Len(Parts)
      PROVE  ~InUse(Parts[i]) /\ ~InUse(Parts[i])'
  <2>1. ~InUse(Parts[i])
    BY Zenon, <1>4 DEF KInv, UseInv
  <2>2. ASSUME NEW u \in Threads, pc'[u] = "put", req'[u] = Parts[i]
        PROVE  FALSE
    <3>1. CASE u = t
      BY <1>1, <1>6, <2>2, <3>1 DEF ClearToSend
    <3>2. CASE u # t
      BY Zenon, <1>1, <2>1, <2>2, <3>2 DEF InUse
    <3>3. QED
      BY Zenon, <3>1, <3>2
  <2>3. QED
    BY Zenon, <2>1, <2>2 DEF InUse
<1>8. UseInv'
  BY Zenon, <1>7 DEF UseInv
<1>9. ASSUME NEW j \in 1 .. Len(Parts), req[t] = Parts[j], NEW i \in 1 .. j - 1
      PROVE  stage[Parts[i]] \in {"sent", "done"}
  <2>1. Begun(j)
    BY Zenon, <1>9 DEF Begun, Called
  <2>2. Returned(i)
    BY Zenon, <2>1 DEF KInv, SeqInv
  <2>3. stage[Parts[i]] # "new" /\ Parts[i] \in Reqs
    BY Zenon, <1>6, <2>2 DEF Returned
  <2>4. stage[Parts[i]] # "queued"
    <3>1. \A k \in 1 .. Len(queue) : FALSE
      BY <1>4
    <3>2. QED
      BY Zenon, <2>3, <3>1 DEF IInv, QueueInv
  <2>5. stage[Parts[i]] \in {"new", "queued", "sent", "done"}
    BY Zenon, <2>3 DEF IInv, TypeOK
  <2>6. QED
    BY Zenon, <2>3, <2>4, <2>5
<1>10. MarkInv'
  <2>1. ASSUME NEW u \in Threads, NEW j \in 1 .. Len(Parts), pc'[u] \in {"mark", "put"},
               req'[u] = Parts[j], NEW i \in 1 .. j - 1
        PROVE  stage'[Parts[i]] \in {"sent", "done"} /\ ~InUse(Parts[i])'
    <3>1. CASE u = t
      BY Zenon, <1>6, <1>7, <1>9, <2>1, <3>1
    <3>2. CASE u # t
      <4>1. pc[u] \in {"mark", "put"} /\ req[u] = Parts[j]
        BY Zenon, <1>1, <2>1, <3>2
      <4>2. QED
        BY Zenon, <1>6, <1>7, <4>1 DEF KInv, MarkInv
    <3>3. QED
      BY Zenon, <3>1, <3>2
  <2>2. QED
    BY Zenon, <2>1 DEF MarkInv
<1>11. AnsweredInv'
  BY Zenon, <1>6, <1>7 DEF KInv, AnsweredInv
<1>12. QED
  BY Zenon, <1>3, <1>5, <1>8, <1>10, <1>11 DEF KInv

LEMMA SendCheckKInv ==
  ASSUME IInv, KInv, NEW t \in Threads, SendCheck(t)
  PROVE  KInv'
<1>1. /\ pc[t] = "send"
      /\ pc' = [pc EXCEPT ![t] = IF MustQueue THEN "lock" ELSE ClearToSend(req[t])]
      /\ UNCHANGED <<nonBlockingOpsInProgress, queue, partialState, req, stage, fwType>>
      /\ UNCHANGED <<onRing, poll, cur>>
  BY Zenon DEF SendCheck, sessionVars, requestVars, transportVars, pollVars
<1>2. CASE ~MustQueue
  BY Zenon, <1>1, <1>2, ClearKInv
<1>3. CASE MustQueue
  <2>1. pc'[t] = "lock" /\ \A u \in Threads \ {t} : pc'[u] = pc[u]
    BY Zenon, <1>1, <1>3, OneCall
  <2>2. "send" \in Sending
    BY DEF Sending
  <2>3. SeqInv' /\ StateInv' /\ FlagInv'
    BY Zenon, <1>1, <2>1, <2>2, CallsGoOn
  <2>4. \A u \in Threads : pc'[u] \in {"mark", "put"} => pc'[u] = pc[u] /\ req'[u] = req[u]
    BY <1>1, <2>1
  <2>5. OrderInv' /\ UseInv' /\ MarkInv' /\ AnsweredInv'
    BY Zenon, <1>1, <2>4, CallsUse
  <2>6. QED
    BY Zenon, <2>3, <2>5 DEF KInv
<1>4. QED
  BY <1>2, <1>3

LEMMA SendQueueKInv ==
  ASSUME IInv, KInv, NEW t \in Threads, SendQueue(t)
  PROVE  KInv'
<1>1. /\ pc[t] = "lock"
      /\ UNCHANGED <<nonBlockingOpsInProgress, partialState, req, fwType>>
      /\ UNCHANGED <<onRing, poll, cur>>
  BY DEF SendQueue, transportVars, pollVars
<1>2. CASE ~MustQueue
  <2>1. pc' = [pc EXCEPT ![t] = ClearToSend(req[t])] /\ UNCHANGED <<queue, stage>>
    BY Zenon, <1>2 DEF SendQueue
  <2>2. QED
    BY Zenon, <1>1, <1>2, <2>1, ClearKInv
<1>3. CASE MustQueue
  <2>1. /\ queue' = Append(queue, req[t]) /\ pc' = [pc EXCEPT ![t] = "return"]
        /\ stage' = [stage EXCEPT ![req[t]] = "queued"]
    BY Zenon, <1>3 DEF SendQueue
  <2>2. PICK r \in Reqs : r = req[t] /\ stage[r] = "new"
    BY Zenon, <1>1 DEF IInv, CallInv, Sending
  <2>3. stage'[r] = "queued" /\ \A x \in Reqs \ {r} : stage'[x] = stage[x]
    BY Zenon, <2>1, <2>2 DEF IInv, TypeOK
  <2>4. pc'[t] = "return" /\ \A u \in Threads \ {t} : pc'[u] = pc[u]
    BY Zenon, <2>1, OneCall
  <2>5. SeqInv' /\ StateInv' /\ FlagInv'
    <3>1. "lock" \in Sending /\ "return" \notin Sending
      BY Zenon DEF Sending
    <3>2. QED
      BY Zenon, <1>1, <2>2, <2>3, <2>4, <3>1, CallsSend
  <2>6. PICK n \in Nat : n = Len(queue)
    BY DEF IInv, TypeOK
  <2>7. /\ Len(queue') = n + 1 /\ queue'[n + 1] = r
        /\ \A i \in 1 .. n : queue'[i] = queue[i] /\ queue[i] \in Reqs
    BY <2>1, <2>2, <2>6, AppendFacts DEF IInv, TypeOK
  <2>8. poll = "put" => Head(queue') = Head(queue)
    <3> SUFFICES ASSUME poll = "put" PROVE Head(queue') = Head(queue)
      OBVIOUS
    <3>1. queue # <<>> /\ queue \in Seq(Reqs)
      BY Zenon DEF IInv, TypeOK, PollInv
    <3>2. QED
      BY <2>1, <2>2, <3>1
  <2>9. \A i \in 1 .. Len(Parts) : Parts[i] \in Reqs
    BY Zenon, PartsFacts
  <2>10. UseInv' /\ MarkInv' /\ AnsweredInv'
    <3>1. \A i \in 1 .. Len(Parts) : InUse(Parts[i])' => InUse(Parts[i])
      <4>1. \A u \in Threads : pc'[u] = "put" => pc[u] = "put"
        BY Zenon, <2>4
      <4>2. QED
        BY Zenon, <1>1, <2>8, <4>1 DEF InUse
    <3>2. \A u \in Threads : pc'[u] \in {"mark", "put"} => pc[u] \in {"mark", "put"}
      BY Zenon, <2>4
    <3>3. \A i \in 1 .. Len(Parts) :
            stage'[Parts[i]] \in {"sent", "done"} <=> stage[Parts[i]] \in {"sent", "done"}
      BY Zenon, <2>2, <2>3, <2>9
    <3>4. QED
      BY Zenon, <1>1, <3>1, <3>2, <3>3, UseFrame
  <2>11. OrderInv'
    <3>1. ASSUME NEW i \in 1 .. Len(Parts), NEW j \in 1 .. Len(Parts),
                 NEW a \in 1 .. Len(queue'), NEW b \in 1 .. Len(queue'),
                 queue'[a] = Parts[i], queue'[b] = Parts[j], a < b
          PROVE  i < j
      <4>1. a \in 1 .. n /\ (b \in 1 .. n \/ b = n + 1)
        BY <2>6, <2>7, <3>1
      <4>2. CASE b \in 1 .. n
        <5>1. queue[a] = Parts[i] /\ queue[b] = Parts[j]
          BY Zenon, <2>7, <3>1, <4>1, <4>2
        <5>2. QED
          BY Zenon, <2>6, <3>1, <4>1, <4>2, <5>1 DEF KInv, OrderInv
      <4>3. CASE b = n + 1
        <5>1. Called(j)
          BY Zenon, <2>2, <2>7, <3>1, <4>3 DEF Called
        <5>2. stage[Parts[i]] = "queued"
          <6>1. queue[a] = Parts[i]
            BY Zenon, <2>7, <3>1, <4>1
          <6>2. stage[queue[a]] = "queued"
            BY Zenon, <2>6, <4>1 DEF IInv, QueueInv
          <6>3. QED
            BY Zenon, <6>1, <6>2
        <5>3. Begun(i) /\ i # j
          BY Zenon, <2>2, <2>7, <3>1, <4>3, <5>2 DEF Begun
        <5>4. ~(j < i)
          BY Zenon, <5>1, <5>3, CalledLast DEF KInv
        <5>5. QED
          BY <5>3, <5>4, PartsFacts
      <4>4. QED
        BY <4>1, <4>2, <4>3
    <3>2. QED
      BY Zenon, <3>1 DEF OrderInv
  <2>12. QED
    BY Zenon, <2>5, <2>10, <2>11 DEF KInv
<1>4. QED
  BY <1>2, <1>3

\* The poller turns to a request that is queued.
LEMMA HeadQueued ==
  ASSUME IInv, queue # <<>>
  PROVE  /\ Head(queue) \in Reqs /\ stage[Head(queue)] = "queued"
         /\ Head(queue) = queue[1] /\ 1 \in 1 .. Len(queue)
<1>1. Head(queue) = queue[1] /\ Head(queue) \in Reqs /\ 1 \in 1 .. Len(queue)
  BY TailFacts DEF IInv, TypeOK
<1>2. QED
  BY Zenon, <1>1 DEF IInv, QueueInv

LEMMA InUseBegun ==
  ASSUME IInv, NEW i \in 1 .. Len(Parts), InUse(Parts[i])
  PROVE  Begun(i)
<1>1. CASE Parts[i] \in onRing
  BY Zenon, <1>1 DEF IInv, RingInv, Begun
<1>2. CASE poll = "lock" /\ Parts[i] = cur
  BY Zenon, <1>2 DEF IInv, PollInv, Begun
<1>3. CASE poll = "put" /\ Parts[i] = Head(queue)
  <2>1. stage[Parts[i]] = "queued"
    BY Zenon, <1>3, HeadQueued DEF IInv, PollInv
  <2>2. QED
    BY Zenon, <2>1 DEF Begun
<1>4. CASE \E t \in Threads : pc[t] = "put" /\ req[t] = Parts[i]
  BY Zenon, <1>4 DEF Begun, Called
<1>5. QED
  BY Zenon, <1>1, <1>2, <1>3, <1>4 DEF InUse

\* A part takes the session: none before it is in use, and none after it has begun.
LEMMA SendMarkKInv ==
  ASSUME IInv, KInv, NEW t \in Threads, SendMark(t)
  PROVE  KInv'
<1>1. /\ pc[t] = "mark" /\ nonBlockingOpsInProgress' = FALSE /\ pc' = [pc EXCEPT ![t] = "put"]
      /\ UNCHANGED <<queue, partialState, req, stage, fwType, onRing, poll, cur>>
  BY Zenon DEF SendMark, requestVars, transportVars, pollVars
<1>2. pc'[t] = "put" /\ \A u \in Threads \ {t} : pc'[u] = pc[u]
  BY Zenon, <1>1, OneCall
<1>3. SeqInv' /\ StateInv' /\ FlagInv'
  <2>1. "mark" \in Sending
    BY Zenon DEF Sending
  <2>2. QED
    BY Zenon, <1>1, <1>2, <2>1, CallsGoOn
<1>4. OrderInv'
  BY Zenon, <1>1 DEF KInv, OrderInv
<1>5. /\ Len(Parts) \in Nat
      /\ \A j \in 1 .. Len(Parts) : \A i \in 1 .. j - 1 : i \in 1 .. Len(Parts) /\ i < j
      /\ \A i, j \in 1 .. Len(Parts) : i < j => i \in 1 .. j - 1
      /\ \A i, j \in 1 .. Len(Parts) : i < j \/ i = j \/ j < i
  BY PartsFacts
<1>6. ASSUME NEW i \in 1 .. Len(Parts), InUse(Parts[i])'
      PROVE  InUse(Parts[i]) \/ req[t] = Parts[i]
  BY Zenon, <1>1, <1>2, <1>6 DEF InUse
<1>7. ASSUME NEW j \in 1 .. Len(Parts), req[t] = Parts[j],
             NEW i \in 1 .. Len(Parts), InUse(Parts[i])
      PROVE  FALSE
  <2>1. Called(j) /\ Begun(i)
    BY Zenon, <1>7, InUseBegun DEF Called
  <2>2. ~(j < i)
    BY Zenon, <2>1, CalledLast DEF KInv
  <2>3. ~(i < j)
    BY Zenon, <1>1, <1>5, <1>7 DEF KInv, MarkInv
  <2>4. i = j
    BY Zenon, <1>5, <2>2, <2>3
  <2>5. stage[Parts[j]] = "new" /\ Parts[j] \in Reqs
    BY Zenon, <1>1, <1>7 DEF IInv, CallInv, Sending
  <2>6. Parts[j] \notin onRing
    BY Zenon, <2>5 DEF IInv, RingInv
  <2>7. Parts[j] # cur
    BY Zenon, <2>5, CurStage
  <2>8. ~(poll = "put" /\ Parts[j] = Head(queue))
    BY Zenon, <2>5, HeadQueued DEF IInv, PollInv
  <2>9. \A u \in Threads : req[u] = Parts[j] => u = t
    BY Zenon, <1>7, <2>5, SymAssumption DEF IInv, CallInv
  <2>10. QED
    BY Zenon, <1>1, <1>7, <2>4, <2>6, <2>7, <2>8, <2>9 DEF InUse
<1>8. UseInv'
  <2>1. \A i, j \in 1 .. Len(Parts) : Parts[i] = Parts[j] => i = j
    BY Zenon, PartsFacts
  <2>2. ASSUME NEW i \in 1 .. Len(Parts), NEW j \in 1 .. Len(Parts),
               InUse(Parts[i])', InUse(Parts[j])'
        PROVE  i = j
    BY Zenon, <1>6, <1>7, <2>1, <2>2 DEF KInv, UseInv
  <2>3. QED
    BY Zenon, <1>1, <2>2 DEF UseInv
<1>9. ASSUME NEW u \in Threads, NEW j \in 1 .. Len(Parts), pc'[u] \in {"mark", "put"},
             req'[u] = Parts[j], NEW i \in 1 .. j - 1
      PROVE  stage'[Parts[i]] \in {"sent", "done"} /\ ~InUse(Parts[i])'
  <2>1. pc[u] \in {"mark", "put"} /\ req[u] = Parts[j]
    BY Zenon, <1>1, <1>2, <1>9
  <2>2. stage[Parts[i]] \in {"sent", "done"} /\ ~InUse(Parts[i])
    BY Zenon, <2>1 DEF KInv, MarkInv
  <2>3. req[t] # Parts[i]
    <3>1. stage[req[t]] = "new"
      BY Zenon, <1>1 DEF IInv, CallInv, Sending
    <3>2. QED
      BY <2>2, <3>1
  <2>4. QED
    BY Zenon, <1>1, <1>5, <1>6, <2>2, <2>3
<1>10. ASSUME NEW j \in 1 .. Len(Parts), stage'[Parts[j]] \in {"sent", "done"},
              NEW i \in 1 .. j - 1
       PROVE  stage'[Parts[i]] \in {"sent", "done"} /\ ~InUse(Parts[i])'
  <2>1. stage[Parts[i]] \in {"sent", "done"} /\ ~InUse(Parts[i])
    BY Zenon, <1>1, <1>10 DEF KInv, AnsweredInv
  <2>2. req[t] # Parts[i]
    <3>1. stage[req[t]] = "new"
      BY Zenon, <1>1 DEF IInv, CallInv, Sending
    <3>2. QED
      BY <2>1, <3>1
  <2>3. QED
    BY Zenon, <1>1, <1>5, <1>6, <2>1, <2>2
<1>11. MarkInv' /\ AnsweredInv'
  BY Zenon, <1>9, <1>10 DEF MarkInv, AnsweredInv
<1>12. QED
  BY Zenon, <1>3, <1>4, <1>8, <1>11 DEF KInv

LEMMA SendPutKInv ==
  ASSUME IInv, KInv, NEW t \in Threads, SendPut(t)
  PROVE  KInv'
<1>1. /\ pc[t] = "put" /\ pc' = [pc EXCEPT ![t] = "return"]
      /\ onRing' = onRing \cup {req[t]}
      /\ stage' = [stage EXCEPT ![req[t]] = "sent"]
      /\ UNCHANGED <<nonBlockingOpsInProgress, queue, partialState, req, fwType, poll, cur>>
  BY Zenon DEF SendPut, Accept, sessionVars, pollVars
<1>2. pc'[t] = "return" /\ \A u \in Threads \ {t} : pc'[u] = pc[u]
  BY Zenon, <1>1, OneCall
<1>3. PICK r \in Reqs : r = req[t] /\ stage[r] = "new"
  BY Zenon, <1>1 DEF IInv, CallInv, Sending
<1>4. stage'[r] = "sent" /\ \A x \in Reqs \ {r} : stage'[x] = stage[x]
  BY Zenon, <1>1, <1>3 DEF IInv, TypeOK
<1>5. SeqInv' /\ StateInv' /\ FlagInv'
  <2>1. "put" \in Sending /\ "return" \notin Sending
    BY Zenon DEF Sending
  <2>2. QED
    BY Zenon, <1>1, <1>2, <1>3, <1>4, <2>1, CallsSend
<1>6. OrderInv'
  BY Zenon, <1>1 DEF KInv, OrderInv
<1>7. /\ \A i \in 1 .. Len(Parts) : Parts[i] \in Reqs
      /\ \A j \in 1 .. Len(Parts) : \A i \in 1 .. j - 1 : i \in 1 .. Len(Parts)
  BY PartsFacts
<1>8. ASSUME NEW x, InUse(x)'
      PROVE  InUse(x)
  <2>1. \A u \in Threads : pc'[u] = "put" => pc[u] = "put"
    BY Zenon, <1>2
  <2>2. CASE x = r
    BY Zenon, <1>1, <1>3, <2>2 DEF InUse
  <2>3. CASE x # r
    BY Zenon, <1>1, <1>3, <1>8, <2>1, <2>3 DEF InUse
  <2>4. QED
    BY Zenon, <2>2, <2>3
<1>9. UseInv'
  BY Zenon, <1>1, <1>8 DEF KInv, UseInv
<1>10. ASSUME NEW x \in Reqs, stage[x] \in {"sent", "done"}, ~InUse(x)
       PROVE  stage'[x] \in {"sent", "done"} /\ ~InUse(x)'
  BY Zenon, <1>4, <1>8, <1>10
<1>11. ASSUME NEW u \in Threads, NEW j \in 1 .. Len(Parts), pc'[u] \in {"mark", "put"},
              req'[u] = Parts[j], NEW i \in 1 .. j - 1
       PROVE  stage'[Parts[i]] \in {"sent", "done"} /\ ~InUse(Parts[i])'
  <2>1. pc[u] \in {"mark", "put"} /\ req[u] = Parts[j]
    BY <1>1, <1>2, <1>11
  <2>2. stage[Parts[i]] \in {"sent", "done"} /\ ~InUse(Parts[i])
    BY Zenon, <2>1 DEF KInv, MarkInv
  <2>3. QED
    BY Zenon, <1>7, <1>10, <2>2
<1>12. ASSUME NEW j \in 1 .. Len(Parts), stage'[Parts[j]] \in {"sent", "done"},
              NEW i \in 1 .. j - 1
       PROVE  stage'[Parts[i]] \in {"sent", "done"} /\ ~InUse(Parts[i])'
  <2>1. CASE Parts[j] = r
    <3>1. stage[Parts[i]] \in {"sent", "done"} /\ ~InUse(Parts[i])
      BY Zenon, <1>1, <1>3, <2>1 DEF KInv, MarkInv
    <3>2. QED
      BY Zenon, <1>7, <1>10, <3>1
  <2>2. CASE Parts[j] # r
    <3>1. stage[Parts[i]] \in {"sent", "done"} /\ ~InUse(Parts[i])
      BY Zenon, <1>4, <1>7, <1>12, <2>2 DEF KInv, AnsweredInv
    <3>2. QED
      BY Zenon, <1>7, <1>10, <3>1
  <2>3. QED
    BY <2>1, <2>2
<1>13. MarkInv' /\ AnsweredInv'
  BY Zenon, <1>11, <1>12 DEF MarkInv, AnsweredInv
<1>14. QED
  BY Zenon, <1>5, <1>6, <1>9, <1>13 DEF KInv

LEMMA SendRefusedKInv ==
  ASSUME IInv, KInv, NEW t \in Threads, SendRefused(t)
  PROVE  KInv'
<1>1. /\ pc[t] = "put"
      /\ nonBlockingOpsInProgress' = (nonBlockingOpsInProgress \/ IsPart(req[t]))
      /\ pc' = [pc EXCEPT ![t] = "idle"] /\ req' = [req EXCEPT ![t] = NoReq]
      /\ UNCHANGED <<queue, partialState, stage, fwType, onRing, poll, cur>>
  BY DEF SendRefused, requestVars, transportVars, pollVars
<1>2. /\ pc'[t] = "idle" /\ req'[t] = NoReq
      /\ \A u \in Threads \ {t} : pc'[u] = pc[u] /\ req'[u] = req[u]
  BY Zenon, <1>1, OneCall, OneReq
<1>3. PICK r \in Reqs : r = req[t] /\ stage[r] = "new"
  BY Zenon, <1>1 DEF IInv, CallInv, Sending
<1>4. SeqInv' /\ StateInv' /\ FlagInv'
  <2>1. "idle" \notin Sending
    BY Zenon DEF Sending
  <2>2. QED
    BY Zenon, <1>1, <1>2, <1>3, <2>1, CallsDrop
<1>5. OrderInv'
  BY Zenon, <1>1 DEF KInv, OrderInv
<1>6. ASSUME NEW x, InUse(x)'
      PROVE  InUse(x)
  <2>1. \A u \in Threads : pc'[u] = "put" => pc[u] = "put" /\ req'[u] = req[u]
    BY Zenon, <1>2
  <2>2. QED
    BY Zenon, <1>1, <1>6, <2>1 DEF InUse
<1>7. InUse(r) /\ ~InUse(r)'
  <2>1. r \notin onRing
    BY Zenon, <1>3 DEF IInv, RingInv
  <2>2. r # cur
    BY Zenon, <1>3, CurStage
  <2>3. ~(poll = "put" /\ r = Head(queue))
    BY Zenon, <1>3, HeadQueued DEF IInv, PollInv
  <2>4. \A u \in Threads : req[u] = r => u = t
    BY Zenon, <1>3, SymAssumption DEF IInv, CallInv
  <2>5. \A u \in Threads : ~(pc'[u] = "put" /\ req'[u] = r)
    BY Zenon, <1>2, <2>4
  <2>6. QED
    BY Zenon, <1>1, <1>3, <2>1, <2>2, <2>3, <2>5 DEF InUse
<1>8. ASSUME NEW i \in 1 .. Len(Parts), InUse(Parts[i])'
      PROVE  nonBlockingOpsInProgress' \in {nonBlockingOpsInProgress, FALSE}
  <2>1. CASE IsPart(r)
    <3>1. PICK j \in 1 .. Len(Parts) : r = Parts[j]
      BY Zenon, <2>1, PartsFacts
    <3>2. i = j
      BY Zenon, <1>6, <1>7, <1>8, <3>1 DEF KInv, UseInv
    <3>3. QED
      BY Zenon, <1>7, <1>8, <3>1, <3>2
  <2>2. CASE ~IsPart(r)
    BY Zenon, <1>1, <1>3, <2>2 DEF IInv, TypeOK
  <2>3. QED
    BY Zenon, <2>1, <2>2
<1>9. \A u \in Threads : pc'[u] \in {"mark", "put"} =>
        pc[u] \in {"mark", "put"} /\ req'[u] = req[u]
  BY Zenon, <1>2
<1>10. UseInv' /\ MarkInv' /\ AnsweredInv'
  BY Zenon, <1>1, <1>6, <1>8, <1>9, UseFrame
<1>11. QED
  BY Zenon, <1>4, <1>5, <1>10 DEF KInv

LEMMA PerformReturnKInv ==
  ASSUME IInv, KInv, NEW t \in Threads, PerformReturn(t)
  PROVE  KInv'
<1>1. /\ pc[t] = "return"
      /\ partialState' = IF IsPart(req[t])
                         THEN PartialPacketStateUpdate(packetType(req[t]))
                         ELSE partialState
      /\ pc' = [pc EXCEPT ![t] = "idle"] /\ req' = [req EXCEPT ![t] = NoReq]
      /\ UNCHANGED <<nonBlockingOpsInProgress, queue, stage, fwType, onRing, poll, cur>>
  BY Zenon DEF PerformReturn, requestVars, transportVars, pollVars
<1>2. /\ pc'[t] = "idle" /\ req'[t] = NoReq
      /\ \A u \in Threads \ {t} : pc'[u] = pc[u] /\ req'[u] = req[u]
  BY Zenon, <1>1, OneCall, OneReq
<1>3. PICK r \in Reqs : r = req[t] /\ stage[r] # "new"
  BY Zenon, <1>1 DEF IInv, CallInv
<1>4. OrderInv' /\ UseInv' /\ MarkInv' /\ AnsweredInv'
  <2>1. \A u \in Threads : pc'[u] \in {"mark", "put"} => pc'[u] = pc[u] /\ req'[u] = req[u]
    BY <1>2
  <2>2. QED
    BY Zenon, <1>1, <2>1, CallsUse
<1>5. \A u \in Threads : req[u] = r => u = t
  BY Zenon, <1>3, SymAssumption DEF IInv, CallInv
<1>6. /\ Len(Parts) \in Nat
      /\ \A i \in 1 .. Len(Parts) : Parts[i] # NoReq /\ Parts[i] \in Reqs
      /\ \A i, j \in 1 .. Len(Parts) : Parts[i] = Parts[j] => i = j
      /\ \A i \in 1 .. Len(Parts) : IsPart(Parts[i])
  BY Zenon, PartsFacts, SymAssumption
<1>7. ASSUME NEW i \in 1 .. Len(Parts)
      PROVE  /\ Begun(i)' => Begun(i)
             /\ Returned(i)' <=> Returned(i) \/ Parts[i] = r
             /\ Built(i)' => Built(i)
  <2>1. Called(i)' <=> Called(i) /\ Parts[i] # r
    <3>1. Called(i)' => Called(i) /\ Parts[i] # r
      BY Zenon, <1>2, <1>5, <1>6 DEF Called
    <3>2. Called(i) /\ Parts[i] # r => Called(i)'
      BY Zenon, <1>2, <1>3 DEF Called
    <3>3. QED
      BY <3>1, <3>2
  <2>2. Begun(i)' => Begun(i)
    BY Zenon, <1>1, <2>1 DEF Begun
  <2>3. Returned(i)' <=> Returned(i) \/ Parts[i] = r
    BY Zenon, <1>1, <1>3, <2>1 DEF Returned
  <2>4. "idle" \notin Sending
    BY Zenon DEF Sending
  <2>5. Built(i)' => Built(i)
    BY Zenon, <1>1, <1>2, <2>4 DEF Built
  <2>6. QED
    BY Zenon, <2>2, <2>3, <2>5
<1>8. CASE ~IsPart(r)
  <2>1. \A i \in 1 .. Len(Parts) : Parts[i] # r
    BY Zenon, <1>6, <1>8
  <2>2. partialState' = partialState
    BY Zenon, <1>1, <1>3, <1>8
  <2>3. SeqInv' /\ StateInv' /\ FlagInv'
    BY Zenon, <1>1, <1>7, <2>1, <2>2, CallsFrame
  <2>4. QED
    BY Zenon, <1>4, <2>3 DEF KInv
<1>9. CASE IsPart(r)
  <2>1. PICK j \in 1 .. Len(Parts) : Parts[j] = r
    BY Zenon, <1>9, PartsFacts
  <2>2. \A i \in 1 .. Len(Parts) : Parts[i] = r <=> i = j
    BY Zenon, <1>6, <2>1
  <2>3. Called(j)
    BY Zenon, <1>3, <2>1 DEF Called
  <2>4. /\ Len(Parts) > 1 /\ ~Returned(Len(Parts))
        /\ partialState = IF j = 1 THEN "FULL" ELSE "PARTIAL"
    BY Zenon, <2>3, CalledState
  <2>5. packetType(r) = IF j = Len(Parts) THEN "LAST_PARTIAL" ELSE "PARTIAL"
    BY Zenon, <2>1, PartType
  <2>6. partialState' = IF j = Len(Parts) THEN "FULL" ELSE "PARTIAL"
    BY <1>1, <1>3, <1>9, <2>4, <2>5 DEF PartialPacketStateUpdate
  <2>7. StateInv'
    <3>1. Len(Parts) \in 1 .. Len(Parts)
      BY <1>6, <2>4
    <3>2. Returned(Len(Parts))' <=> j = Len(Parts)
      BY Zenon, <1>7, <2>2, <2>4, <3>1
    <3>3. Returned(j)'
      BY Zenon, <1>7, <2>1
    <3>4. QED
      BY Zenon, <2>6, <3>2, <3>3 DEF StateInv
  <2>8. SeqInv'
    <3>1. ASSUME NEW k \in 1 .. Len(Parts), Begun(k)', NEW i \in 1 .. k - 1
          PROVE  Returned(i)'
      <4>1. Returned(i)
        BY Zenon, <1>7, <3>1 DEF KInv, SeqInv
      <4>2. i \in 1 .. Len(Parts)
        BY <1>6
      <4>3. QED
        BY Zenon, <1>7, <4>1, <4>2
    <3>2. QED
      BY Zenon, <2>4, <3>1 DEF SeqInv
  <2>9. FlagInv'
    BY Zenon, <1>1, <1>7 DEF KInv, FlagInv, Flag
  <2>10. QED
    BY Zenon, <1>4, <2>7, <2>8, <2>9 DEF KInv
<1>10. QED
  BY Zenon, <1>8, <1>9

\* The session is updated or removed: no part is in use then.
LEMMA WriterKInv ==
  ASSUME IInv, JInv, KInv, NEW t \in Threads,
         UpdateBegin(t) \/ UpdateEnd(t) \/ UpdateFail(t) \/ RemoveSession(t)
  PROVE  KInv'
<1>1. /\ UNCHANGED <<queue, partialState, req, stage, fwType, onRing, poll, cur>>
      /\ UpdateEnd(t) \/ nonBlockingOpsInProgress' \in {nonBlockingOpsInProgress, FALSE}
  <2>1. CASE UpdateBegin(t)
    BY Zenon, <2>1 DEF UpdateBegin, requestVars, transportVars, pollVars
  <2>2. CASE UpdateEnd(t)
    BY Zenon, <2>2 DEF UpdateEnd, requestVars, transportVars, pollVars
  <2>3. CASE UpdateFail(t)
    BY Zenon, <2>3 DEF UpdateFail, sessionVars, requestVars, transportVars, pollVars
  <2>4. CASE RemoveSession(t)
    BY Zenon, <2>4 DEF RemoveSession, sessionVars, requestVars, transportVars, pollVars
  <2>5. QED
    BY Zenon, <2>1, <2>2, <2>3, <2>4
<1>2. \A u \in Threads : pc'[u] = pc[u] \/ pc'[u] \in {"idle", "update", "removed"}
  <2>1. CASE RemoveSession(t)
    BY Zenon, <2>1 DEF RemoveSession
  <2>2. CASE UpdateBegin(t)
    BY Zenon, <2>2, OneCall DEF UpdateBegin
  <2>3. CASE UpdateEnd(t)
    BY Zenon, <2>3, OneCall DEF UpdateEnd
  <2>4. CASE UpdateFail(t)
    BY Zenon, <2>4, OneCall DEF UpdateFail
  <2>5. QED
    BY Zenon, <2>1, <2>2, <2>3, <2>4
<1>3. SeqInv' /\ StateInv' /\ FlagInv'
  <2>1. \A u \in Threads : pc'[u] \in Sending => pc[u] \in Sending
    BY <1>2 DEF Sending
  <2>2. QED
    BY Zenon, <1>1, <2>1, CallsGoOn
<1>4. \A u \in Threads : pc'[u] \in {"mark", "put"} => pc'[u] = pc[u] /\ req'[u] = req[u]
  BY Zenon, <1>1, <1>2
<1>5. CASE nonBlockingOpsInProgress' \in {nonBlockingOpsInProgress, FALSE}
  BY Zenon, <1>1, <1>3, <1>4, <1>5, CallsUse DEF KInv
<1>6. CASE UpdateEnd(t)
  <2>1. pc[t] = "update"
    BY Zenon, <1>6 DEF UpdateEnd
  <2>2. onRing = {} /\ poll = "loop"
    BY Zenon, <2>1 DEF JInv, IdleInv, SessionIdle, NoneOutstanding
  <2>3. \A u \in Threads : pc[u] # "put"
    BY <2>1 DEF JInv, IdleInv, SessionIdle
  <2>4. \A u \in Threads : pc'[u] # "put"
    BY Zenon, <1>2, <2>3
  <2>5. \A i \in 1 .. Len(Parts) : ~InUse(Parts[i])'
    BY <1>1, <2>2, <2>4 DEF InUse
  <2>6. \A u \in Threads : pc'[u] \in {"mark", "put"} =>
          pc[u] \in {"mark", "put"} /\ req'[u] = req[u]
    BY Zenon, <1>4
  <2>7. UseInv' /\ MarkInv' /\ AnsweredInv'
    BY Zenon, <1>1, <2>5, <2>6, UseFrame
  <2>8. OrderInv'
    BY Zenon, <1>1 DEF KInv, OrderInv
  <2>9. QED
    BY Zenon, <1>3, <2>7, <2>8 DEF KInv
<1>7. QED
  BY Zenon, <1>1, <1>5, <1>6

\* Steps of the poller after which no more parts are in use.
LEMMA PollerKInv ==
  ASSUME IInv, KInv, UNCHANGED <<queue, partialState, pc, req, fwType>>,
         \A r \in Reqs : stage'[r] \in {"sent", "done"} <=> stage[r] \in {"sent", "done"},
         \A r \in Reqs : stage'[r] = "new" <=> stage[r] = "new",
         \A i \in 1 .. Len(Parts) : InUse(Parts[i])' =>
           /\ InUse(Parts[i])
           /\ nonBlockingOpsInProgress' \in {nonBlockingOpsInProgress, FALSE}
  PROVE  KInv'
<1>1. SeqInv' /\ StateInv' /\ FlagInv'
  BY Zenon, CallsGoOn
<1>2. OrderInv'
  BY Zenon DEF KInv, OrderInv
<1>3. \A i \in 1 .. Len(Parts) :
        stage'[Parts[i]] \in {"sent", "done"} <=> stage[Parts[i]] \in {"sent", "done"}
  BY Zenon, PartsFacts
<1>4. UseInv' /\ MarkInv' /\ AnsweredInv'
  BY Zenon, <1>3, UseFrame
<1>5. QED
  BY Zenon, <1>1, <1>2, <1>4 DEF KInv

LEMMA ResponseKInv ==
  ASSUME IInv, KInv, NEW r \in Reqs, NEW ok \in BOOLEAN, Response(r, ok)
  PROVE  KInv'
<1>1. /\ poll = "loop" /\ poll' \in {"lock", "user"} /\ r \in onRing
      /\ onRing' = onRing \ {r} /\ cur' = r
      /\ UNCHANGED <<queue, partialState, pc, req, fwType, stage, nonBlockingOpsInProgress>>
  BY Zenon DEF Response, sessionVars, threadVars, requestVars
<1>2. poll' # "put"
  BY Zenon, <1>1
<1>3. \A x : InUse(x)' => InUse(x)
  BY Zenon, <1>1, <1>2 DEF InUse
<1>4. QED
  BY Zenon, <1>1, <1>3, PollerKInv

LEMMA DequeueBeginKInv ==
  ASSUME IInv, KInv, DequeueBegin
  PROVE  KInv'
<1>1. /\ poll = "lock" /\ poll' = "drain"
      /\ UNCHANGED <<queue, partialState, pc, req, fwType, stage, onRing, cur>>
  BY Zenon DEF DequeueBegin, threadVars, requestVars, transportVars
<1>2. PICK j \in 1 .. Len(Parts) : cur = Parts[j] /\ InUse(Parts[j])
  BY Zenon, <1>1, PartsFacts DEF IInv, PollInv, InUse
<1>3. ASSUME NEW i \in 1 .. Len(Parts), InUse(Parts[i])'
      PROVE  FALSE
  <2>1. poll' # "lock" /\ poll' # "put"
    BY Zenon, <1>1
  <2>2. InUse(Parts[i])
    BY Zenon, <1>1, <1>3, <2>1 DEF InUse
  <2>3. i = j
    BY Zenon, <1>2, <2>2 DEF KInv, UseInv
  <2>4. stage[cur] = "sent" /\ cur \notin onRing
    BY Zenon, <1>1 DEF IInv, PollInv, RingInv
  <2>5. PICK u \in Threads : pc[u] = "put" /\ req[u] = cur
    BY Zenon, <1>1, <1>2, <1>3, <2>1, <2>3, <2>4 DEF InUse
  <2>6. stage[cur] = "new"
    BY Zenon, <2>5 DEF IInv, CallInv, Sending
  <2>7. QED
    BY Zenon, <2>4, <2>6
<1>4. QED
  BY Zenon, <1>1, <1>3, PollerKInv

LEMMA DequeueLeavesKInv ==
  ASSUME IInv, KInv, DequeueRetry \/ DequeueEnd
  PROVE  KInv'
<1>1. /\ poll \in {"put", "drain"} /\ poll' \in {"put", "user"} /\ (poll' = "put" => poll = "put")
      /\ UNCHANGED <<queue, partialState, pc, req, fwType, stage, onRing, cur>>
      /\ UNCHANGED nonBlockingOpsInProgress
  <2>1. CASE DequeueRetry
    BY Zenon, <2>1 DEF DequeueRetry, DequeueLeave, sessionVars, threadVars, requestVars, transportVars
  <2>2. CASE DequeueEnd
    BY Zenon, <2>2 DEF DequeueEnd, DequeueLeave, threadVars, requestVars, transportVars
  <2>3. QED
    BY Zenon, <2>1, <2>2
<1>2. poll' # "lock"
  BY Zenon, <1>1
<1>3. \A x : InUse(x)' => InUse(x)
  BY Zenon, <1>1, <1>2 DEF InUse
<1>4. QED
  BY Zenon, <1>1, <1>3, PollerKInv

LEMMA UserCallbackKInv ==
  ASSUME IInv, KInv, UserCallback
  PROVE  KInv'
<1>1. /\ poll = "user" /\ poll' = "count" /\ stage' = [stage EXCEPT ![cur] = "done"]
      /\ UNCHANGED <<queue, partialState, pc, req, fwType, onRing, cur>>
      /\ UNCHANGED nonBlockingOpsInProgress
  BY DEF UserCallback, sessionVars, threadVars, transportVars
<1>2. PICK r \in Reqs : r = cur /\ stage[r] = "sent"
  BY Zenon, <1>1 DEF IInv, TypeOK, PollInv
<1>3. stage'[r] = "done" /\ \A x \in Reqs \ {r} : stage'[x] = stage[x]
  BY Zenon, <1>1, <1>2 DEF IInv, TypeOK
<1>4. \A x \in Reqs : /\ stage'[x] \in {"sent", "done"} <=> stage[x] \in {"sent", "done"}
                      /\ stage'[x] = "new" <=> stage[x] = "new"
  BY Zenon, <1>2, <1>3
<1>5. poll' # "lock" /\ poll' # "put"
  BY Zenon, <1>1
<1>6. \A x : InUse(x)' => InUse(x)
  BY Zenon, <1>1, <1>5 DEF InUse
<1>7. QED
  BY Zenon, <1>1, <1>4, <1>6, PollerKInv

\* The poller is between two responses.
LEMMA BetweenKInv ==
  ASSUME IInv, KInv, CallbackDone \/ PollEnd \/ UNCHANGED vars
  PROVE  KInv'
<1>1. /\ poll' = "loop" \/ (poll' = poll /\ cur' = cur)
      /\ UNCHANGED <<queue, partialState, pc, req, fwType, stage, onRing>>
      /\ UNCHANGED nonBlockingOpsInProgress
  <2>1. CASE CallbackDone
    BY <2>1 DEF CallbackDone, sessionVars, threadVars, requestVars, transportVars
  <2>2. CASE PollEnd
    BY Zenon, <2>2 DEF PollEnd, sessionVars, threadVars, requestVars
  <2>3. CASE UNCHANGED vars
    BY <2>3 DEF vars, sessionVars, threadVars, requestVars, transportVars, pollVars
  <2>4. QED
    BY Zenon, <2>1, <2>2, <2>3
<1>2. \A x : InUse(x)' => InUse(x)
  BY Zenon, <1>1 DEF InUse
<1>3. QED
  BY Zenon, <1>1, <1>2, PollerKInv

\* The poller turns to the head of the queue.  No part is in use, and a call that
\* need not queue its part saw those before it go.
LEMMA DequeueNextKInv ==
  ASSUME IInv, KInv, DequeueNext
  PROVE  KInv'
<1>1. /\ poll = "drain" /\ poll' = "put" /\ queue # <<>> /\ nonBlockingOpsInProgress # FALSE
      /\ nonBlockingOpsInProgress' = ~IsPart(Head(queue))
      /\ UNCHANGED <<queue, partialState, pc, req, fwType, stage, onRing, cur>>
  BY Zenon DEF DequeueNext, MoreToSend, threadVars, requestVars, transportVars
<1>2. SeqInv' /\ StateInv' /\ FlagInv'
  BY Zenon, <1>1, CallsGoOn
<1>3. OrderInv'
  BY Zenon, <1>1 DEF KInv, OrderInv
<1>4. PICK h \in Reqs : h = Head(queue) /\ stage[h] = "queued"
  BY Zenon, <1>1, HeadQueued
<1>5. /\ \A i \in 1 .. Len(Parts) : IsPart(Parts[i])
      /\ \A i, j \in 1 .. Len(Parts) : Parts[i] = Parts[j] => i = j
      /\ \A j \in 1 .. Len(Parts) : \A i \in 1 .. j - 1 : i \in 1 .. Len(Parts)
  BY PartsFacts
<1>6. ASSUME NEW i \in 1 .. Len(Parts), InUse(Parts[i])'
      PROVE  Parts[i] = h
  <2>1. ~InUse(Parts[i])
    BY Zenon, <1>1 DEF KInv, UseInv
  <2>2. poll' # "lock"
    BY Zenon, <1>1
  <2>3. QED
    BY Zenon, <1>1, <1>4, <1>6, <2>1, <2>2 DEF InUse
<1>7. UseInv'
  <2>1. ASSUME NEW i \in 1 .. Len(Parts), InUse(Parts[i])'
        PROVE  nonBlockingOpsInProgress' = FALSE
    BY Zenon, <1>1, <1>4, <1>5, <1>6, <2>1
  <2>2. \A i, j \in 1 .. Len(Parts) : InUse(Parts[i])' /\ InUse(Parts[j])' => i = j
    BY Zenon, <1>5, <1>6
  <2>3. QED
    BY Zenon, <2>1, <2>2 DEF UseInv
<1>8. ASSUME NEW i \in 1 .. Len(Parts), stage[Parts[i]] \in {"sent", "done"}
      PROVE  stage'[Parts[i]] \in {"sent", "done"} /\ ~InUse(Parts[i])'
  <2>1. Parts[i] # h
    BY Zenon, <1>4, <1>8
  <2>2. QED
    BY Zenon, <1>1, <1>6, <1>8, <2>1
<1>9. MarkInv'
  <2>1. ASSUME NEW u \in Threads, NEW j \in 1 .. Len(Parts), pc'[u] \in {"mark", "put"},
               req'[u] = Parts[j], NEW i \in 1 .. j - 1
        PROVE  stage'[Parts[i]] \in {"sent", "done"} /\ ~InUse(Parts[i])'
    <3>1. pc[u] \in {"mark", "put"} /\ req[u] = Parts[j]
      BY Zenon, <1>1, <2>1
    <3>2. stage[Parts[i]] \in {"sent", "done"}
      BY Zenon, <3>1 DEF KInv, MarkInv
    <3>3. QED
      BY Zenon, <1>5, <1>8, <3>2
  <2>2. QED
    BY Zenon, <2>1 DEF MarkInv
<1>10. AnsweredInv'
  <2>1. ASSUME NEW j \in 1 .. Len(Parts), stage'[Parts[j]] \in {"sent", "done"},
               NEW i \in 1 .. j - 1
        PROVE  stage'[Parts[i]] \in {"sent", "done"} /\ ~InUse(Parts[i])'
    <3>1. stage[Parts[i]] \in {"sent", "done"}
      BY Zenon, <1>1, <2>1 DEF KInv, AnsweredInv
    <3>2. QED
      BY Zenon, <1>5, <1>8, <3>1
  <2>2. QED
    BY Zenon, <2>1 DEF AnsweredInv
<1>11. QED
  BY Zenon, <1>2, <1>3, <1>7, <1>9, <1>10 DEF KInv

\* The head of the queue is put: the parts before it were queued before it, and
\* are not in use because it is.
LEMMA DequeuePutKInv ==
  ASSUME IInv, KInv, DequeuePut
  PROVE  KInv'
<1>1. /\ poll = "put" /\ queue' = Tail(queue) /\ poll' = "drain"
      /\ onRing' = onRing \cup {Head(queue)}
      /\ stage' = [stage EXCEPT ![Head(queue)] = "sent"]
      /\ UNCHANGED <<nonBlockingOpsInProgress, partialState, pc, req, fwType, cur>>
  BY Zenon, DequeuePutFacts
<1>2. queue # <<>> /\ queue \in Seq(Reqs)
  BY Zenon, <1>1 DEF IInv, TypeOK, PollInv
<1>3. PICK h \in Reqs : h = Head(queue) /\ h = queue[1] /\ stage[h] = "queued"
  BY Zenon, <1>2, HeadQueued
<1>4. stage'[h] = "sent" /\ \A x \in Reqs \ {h} : stage'[x] = stage[x]
  BY Zenon, <1>1, <1>3 DEF IInv, TypeOK
<1>5. SeqInv' /\ StateInv' /\ FlagInv'
  <2>1. \A r \in Reqs : stage'[r] = "new" <=> stage[r] = "new"
    BY Zenon, <1>3, <1>4
  <2>2. QED
    BY Zenon, <1>1, <2>1, CallsGoOn
<1>6. PICK n \in Nat : n = Len(queue) /\ n > 0 /\ Len(queue') = n - 1
  BY <1>1, <1>2, TailFacts
<1>7. \A a \in 1 .. n - 1 : queue'[a] = queue[a + 1] /\ a + 1 \in 1 .. n
  BY <1>1, <1>2, <1>6, TailFacts
<1>8. OrderInv'
  <2>1. ASSUME NEW i \in 1 .. Len(Parts), NEW j \in 1 .. Len(Parts),
               NEW a \in 1 .. n - 1, NEW b \in 1 .. n - 1,
               queue'[a] = Parts[i], queue'[b] = Parts[j], a < b
        PROVE  i < j
    <3>1. a + 1 < b + 1
      BY <2>1
    <3>2. queue[a + 1] = Parts[i] /\ queue[b + 1] = Parts[j]
      BY Zenon, <1>7, <2>1
    <3>3. a + 1 \in 1 .. Len(queue) /\ b + 1 \in 1 .. Len(queue)
      BY Zenon, <1>6, <1>7
    <3>4. QED
      BY Zenon, <3>1, <3>2, <3>3 DEF KInv, OrderInv
  <2>2. QED
    BY Zenon, <1>6, <2>1 DEF OrderInv
<1>9. /\ \A i \in 1 .. Len(Parts) : Parts[i] \in Reqs
      /\ \A j \in 1 .. Len(Parts) : \A i \in 1 .. j - 1 : i \in 1 .. Len(Parts) /\ i < j
  BY PartsFacts
<1>10. ASSUME NEW x, InUse(x)'
       PROVE  InUse(x)
  <2>1. poll' # "put" /\ poll' # "lock"
    BY Zenon, <1>1
  <2>2. QED
    BY Zenon, <1>1, <1>10, <2>1 DEF InUse
<1>11. UseInv'
  BY Zenon, <1>1, <1>10 DEF KInv, UseInv
<1>12. ASSUME NEW x \in Reqs, stage[x] \in {"sent", "done"}, ~InUse(x)
       PROVE  stage'[x] \in {"sent", "done"} /\ ~InUse(x)'
  BY Zenon, <1>4, <1>10, <1>12
<1>13. MarkInv'
  <2>1. ASSUME NEW u \in Threads, NEW j \in 1 .. Len(Parts), pc'[u] \in {"mark", "put"},
               req'[u] = Parts[j], NEW i \in 1 .. j - 1
        PROVE  stage'[Parts[i]] \in {"sent", "done"} /\ ~InUse(Parts[i])'
    <3>1. pc[u] \in {"mark", "put"} /\ req[u] = Parts[j]
      BY Zenon, <1>1, <2>1
    <3>2. stage[Parts[i]] \in {"sent", "done"} /\ ~InUse(Parts[i])
      BY Zenon, <3>1 DEF KInv, MarkInv
    <3>3. QED
      BY Zenon, <1>9, <1>12, <3>2
  <2>2. QED
    BY Zenon, <2>1 DEF MarkInv
<1>14. ASSUME NEW j \in 1 .. Len(Parts), Parts[j] = h, NEW i \in 1 .. j - 1
       PROVE  stage[Parts[i]] \in {"sent", "done"} /\ ~InUse(Parts[i])
  <2>1. i \in 1 .. Len(Parts) /\ i < j /\ i # j /\ ~(j < i)
    BY <1>9, PartsFacts
  <2>2. Begun(j)
    BY Zenon, <1>3, <1>14 DEF Begun
  <2>3. stage[Parts[i]] # "new"
    BY Zenon, <2>2 DEF KInv, SeqInv, Returned
  <2>4. ASSUME stage[Parts[i]] = "queued"
        PROVE  FALSE
    <3>1. PICK b \in 1 .. Len(queue) : queue[b] = Parts[i]
      BY Zenon, <1>9, <2>1, <2>4 DEF IInv, QueueInv
    <3>2. 1 \in 1 .. Len(queue) /\ queue[1] = Parts[j]
      BY Zenon, <1>2, <1>3, <1>14, HeadQueued
    <3>3. b # 1
      BY Zenon, <2>1, <3>1, <3>2, PartsFacts
    <3>4. 1 < b
      BY <1>6, <3>3
    <3>5. QED
      BY Zenon, <2>1, <3>1, <3>2, <3>4 DEF KInv, OrderInv
  <2>5. stage[Parts[i]] \in {"new", "queued", "sent", "done"}
    BY Zenon, <1>9, <2>1 DEF IInv, TypeOK
  <2>6. InUse(Parts[j])
    BY Zenon, <1>1, <1>3, <1>14 DEF InUse
  <2>7. ~InUse(Parts[i])
    BY Zenon, <2>1, <2>6 DEF KInv, UseInv
  <2>8. QED
    BY Zenon, <2>3, <2>4, <2>5, <2>7
<1>15. AnsweredInv'
  <2>1. ASSUME NEW j \in 1 .. Len(Parts), stage'[Parts[j]] \in {"sent", "done"},
               NEW i \in 1 .. j - 1
        PROVE  stage'[Parts[i]] \in {"sent", "done"} /\ ~InUse(Parts[i])'
    <3>1. CASE Parts[j] = h
      BY Zenon, <1>9, <1>12, <1>14, <3>1
    <3>2. CASE Parts[j] # h
      <4>1. stage[Parts[i]] \in {"sent", "done"} /\ ~InUse(Parts[i])
        BY Zenon, <1>4, <1>9, <2>1, <3>2 DEF KInv, AnsweredInv
      <4>2. QED
        BY Zenon, <1>9, <1>12, <4>1
    <3>3. QED
      BY <3>1, <3>2
  <2>2. QED
    BY Zenon, <2>1 DEF AnsweredInv
<1>16. QED
  BY Zenon, <1>5, <1>8, <1>11, <1>13, <1>15 DEF KInv

LEMMA NextKInv == IInv /\ JInv /\ KInv /\ [Next]_vars => KInv'
<1> SUFFICES ASSUME IInv, JInv, KInv, [Next]_vars PROVE KInv'
  OBVIOUS
<1>1. ASSUME NEW t \in Threads, CallStep(t)
      PROVE  KInv'
  BY Zenon, <1>1, PerformBuildKInv, PerformFailKInv, PerformUnlockKInv, SendCheckKInv,
     SendQueueKInv, SendMarkKInv, SendPutKInv, SendRefusedKInv, PerformReturnKInv,
     WriterKInv DEF CallStep
<1>2. ASSUME PollStep
      PROVE  KInv'
  BY Zenon, <1>2, DequeueBeginKInv, DequeueNextKInv, DequeuePutKInv, DequeueLeavesKInv,
     UserCallbackKInv, BetweenKInv DEF PollStep
<1>3. QED
  BY Zenon, <1>1, <1>2, PerformBeginKInv, WriterKInv, ResponseKInv, BetweenKInv DEF Next

\* The inductive invariant of the message: its parts are called, built, queued and
\* put in their order, and at most one of them uses the session.
THEOREM MessageInvariance == Spec => []KInv
BY InitKInv, NextKInv, Invariance, LockInvariance, PTL DEF Spec

\* OnePartInUse: whichever of a calling thread and the callback sends it, at most
\* one part uses the session's cipherPartialOpState.
THEOREM PartsExclusive == Spec => []OnePartInUse
<1>1. KInv => OnePartInUse
  <2> SUFFICES ASSUME KInv PROVE OnePartInUse
    OBVIOUS
  <2>1. ASSUME NEW r \in PartsInUse, NEW x \in PartsInUse
        PROVE  r = x
    <3>1. IsPart(r) /\ InUse(r) /\ IsPart(x) /\ InUse(x)
      BY Zenon DEF PartsInUse, InUse, IsPart
    <3>2. PICK i \in 1 .. Len(Parts) : r = Parts[i]
      BY Zenon, <3>1, PartsFacts
    <3>3. PICK j \in 1 .. Len(Parts) : x = Parts[j]
      BY Zenon, <3>1, PartsFacts
    <3>4. QED
      BY Zenon, <3>1, <3>2, <3>3 DEF KInv, UseInv
  <2>2. CASE PartsInUse = {}
    BY <2>2, FS_EmptySet DEF OnePartInUse
  <2>3. CASE PartsInUse # {}
    <3>1. PICK r : r \in PartsInUse
      BY Zenon, <2>3
    <3>2. PartsInUse = {r}
      BY Zenon, <2>1, <3>1
    <3>3. Cardinality({r}) = 1
      BY Zenon, FS_Singleton
    <3>4. QED
      BY <3>2, <3>3 DEF OnePartInUse
  <2>4. QED
    BY Zenon, <2>2, <2>3
<1>2. QED
  BY <1>1, MessageInvariance, PTL

\* PartsInOrder: a part goes to the device only after the one before it was
\* answered, and with the flag of its place in the message.
THEOREM PartsOrdered == Spec => []PartsInOrder
<1>1. IInv /\ KInv => PartsInOrder
  <2> SUFFICES ASSUME IInv, KInv PROVE PartsInOrder
    OBVIOUS
  <2>1. SUFFICES ASSUME NEW i \in 1 .. Len(Parts), puts[Parts[i]] > 0
                 PROVE  /\ i > 1 => puts[Parts[i - 1]] > 0 /\ Parts[i - 1] \notin onRing
                        /\ fwType[Parts[i]] = Flag(i)
    BY Zenon DEF PartsInOrder, Flag
  <2>2. \A r \in Reqs : puts[r] > 0 <=> stage[r] \in {"sent", "done"}
    <3> TAKE r \in Reqs
    <3>1. /\ stage[r] \in {"new", "queued", "sent", "done"}
          /\ puts[r] = IF stage[r] \in {"new", "queued"} THEN 0 ELSE 1
      BY Zenon DEF IInv, TypeOK, RingInv
    <3>2. QED
      BY <3>1
  <2>3. \A k \in 1 .. Len(Parts) : Parts[k] \in Reqs
    BY Zenon, PartsFacts
  <2>4. stage[Parts[i]] \in {"sent", "done"}
    BY Zenon, <2>1, <2>2, <2>3
  <2>5. fwType[Parts[i]] = Flag(i)
    <3>1. Built(i)
      BY Zenon, <2>4 DEF Built
    <3>2. QED
      BY Zenon, <3>1 DEF KInv, FlagInv
  <2>6. ASSUME i > 1
        PROVE  puts[Parts[i - 1]] > 0 /\ Parts[i - 1] \notin onRing
    <3>1. i - 1 \in 1 .. i - 1 /\ i - 1 \in 1 .. Len(Parts)
      BY <2>6, PartsFacts
    <3>2. stage[Parts[i - 1]] \in {"sent", "done"} /\ ~InUse(Parts[i - 1])
      BY Zenon, <2>4, <3>1 DEF KInv, AnsweredInv
    <3>3. QED
      BY Zenon, <2>2, <2>3, <3>1, <3>2 DEF InUse
  <2>7. QED
    BY Zenon, <2>5, <2>6
<1>2. QED
  BY <1>1, Invariance, MessageInvariance, PTL
=============================================================================
