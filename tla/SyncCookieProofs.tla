-------------------------- MODULE SyncCookieProofs --------------------------
(***************************************************************************)
(* Proofs about SyncCookie: for any number of callers, addresses and       *)
(* calls, a callback finds its cookie allocated and a caller that is woken *)
(* reads the result of its own call.                                       *)
(***************************************************************************)
EXTENDS SyncCookie, TLAPS

Msgs == [call : Calls, tag : Addrs]

\* The requests whose callback has not posted the semaphore yet.
Pending == inFlight \cup (IF cbStep = "poll" THEN {} ELSE {cb})

TypeOK ==
  /\ heap \subseteq Addrs
  /\ status \in [Addrs -> Calls \cup {None}]
  /\ complete \in [Addrs -> BOOLEAN] /\ canceled \in [Addrs -> BOOLEAN]
  /\ sem \in [Addrs -> Nat]
  /\ pc \in [Callers -> {"idle", "send", "wait", "destroy"}]
  /\ cookie \in [Callers -> Addrs \cup {None}]
  /\ calls \in [Callers -> 0 .. MaxCalls]
  /\ result \in [Callers -> Calls \cup {None}]
  /\ \A c \in Callers : pc[c] # "idle" => calls[c] > 0
  /\ inFlight \subseteq Msgs
  /\ cbStep \in {"poll", "write", "post"}
  /\ cbStep # "poll" => cb \in Msgs \ inFlight

\* A caller has a cookie from Create to Destroy, which nobody else has and
\* which is not cancelled.
OwnersInv ==
  \A c \in Callers :
    /\ cookie[c] = None <=> pc[c] = "idle"
    /\ cookie[c] # None => cookie[c] \in heap /\ ~canceled[cookie[c]]
    /\ \A d \in Callers : cookie[c] # None /\ cookie[c] = cookie[d] => c = d

\* A cookie without a caller was cancelled.
LeakInv ==
  \A a \in heap :
    (\A c \in Callers : cookie[c] # a) => canceled[a] /\ ~complete[a]

\* A request that was not answered keeps its cookie incomplete, so that its
\* caller cannot free it; no two have one cookie.
PendingInv ==
  /\ \A m, n \in Pending : m.tag = n.tag => m = n
  /\ \A m \in Pending :
       /\ m.tag \in heap /\ ~complete[m.tag]
       /\ \A c \in Callers : cookie[c] = m.tag =>
            pc[c] \in {"wait", "destroy"} /\ m.call = Call(c) /\ sem[m.tag] = 0

\* What the callback wrote is there when the caller is woken.
ResultInv ==
  /\ \A c \in Callers : pc[c] = "send" =>
       sem[cookie[c]] = 0 /\ ~complete[cookie[c]]
  /\ \A c \in Callers : pc[c] = "wait" /\ sem[cookie[c]] > 0 =>
       status[cookie[c]] = Call(c)
  /\ cbStep = "post" => status[cb.tag] = cb.call
  /\ OwnResult

IInv == TypeOK /\ OwnersInv /\ LeakInv /\ PendingInv /\ ResultInv

-----------------------------------------------------------------------------

\* A message that is pending names a call and an address.
LEMMA PendingMsgs ==
  ASSUME TypeOK
  PROVE  Pending \subseteq Msgs
BY DEF TypeOK, Pending

\* A caller that has a cookie is in a call.
LEMMA CallType ==
  ASSUME IInv, NEW c \in Callers, cookie[c] # None
  PROVE  Call(c) \in Calls
BY SyncAssumption DEF IInv, TypeOK, OwnersInv, Call, Calls

LEMMA InitIInv == Init => IInv
BY SyncAssumption
   DEF Init, IInv, TypeOK, OwnersInv, LeakInv, PendingInv, ResultInv, Pending,
       OwnResult

\* A new cookie lies where no request that is pending points.
LEMMA CreateIInv ==
  ASSUME IInv, NEW c \in Callers, NEW a \in Addrs, Create(c, a)
  PROVE  IInv'
<1> USE DEF Create, IInv, TypeOK
<1>1. TypeOK'
  BY SyncAssumption
<1>2. OwnersInv'
  BY SyncAssumption DEF OwnersInv
<1>3. LeakInv'
  BY SyncAssumption DEF OwnersInv, LeakInv
<1>4. Pending' = Pending /\ Pending \subseteq Msgs
  BY PendingMsgs DEF Pending
<1>5. PendingInv'
  BY <1>4, SyncAssumption DEF PendingInv, OwnersInv, Call, Msgs
<1>6. ResultInv'
  BY <1>4, SyncAssumption
     DEF ResultInv, PendingInv, OwnersInv, OwnResult, Call, Pending, Msgs
<1>7. QED
  BY <1>1, <1>2, <1>3, <1>5, <1>6

\* No request of the cookie was pending before this one is sent.
LEMMA SendIInv ==
  ASSUME IInv, NEW c \in Callers, Send(c)
  PROVE  IInv'
<1> DEFINE msg == [call |-> Call(c), tag |-> cookie[c]]
<1> USE DEF Send, cookieVars
<1>1. cookie[c] \in Addrs /\ cookie[c] # None /\ cookie[c] \in heap
  BY DEF IInv, TypeOK, OwnersInv
<1>2. msg \in Msgs
  BY <1>1, CallType DEF Msgs
<1>3. \A m \in Pending : m.tag # msg.tag
  BY <1>1 DEF IInv, PendingInv
<1>4. Pending' = Pending \cup {msg}
  BY DEF Pending
<1>5. TypeOK'
  <2>1. cbStep # "poll" => cb # msg
    BY <1>3 DEF Pending
  <2>2. QED
    BY <1>1, <1>2, <2>1 DEF IInv, TypeOK, OwnersInv
<1>6. OwnersInv' /\ LeakInv'
  BY DEF IInv, TypeOK, OwnersInv, LeakInv
<1>7. PendingInv'
  <2>1. \A m, n \in Pending' : m.tag = n.tag => m = n
    BY <1>3, <1>4 DEF IInv, PendingInv
  <2>2. ASSUME NEW m \in Pending
        PROVE  /\ m.tag \in heap /\ ~complete[m.tag]
               /\ \A d \in Callers : cookie[d] = m.tag =>
                    /\ pc'[d] \in {"wait", "destroy"}
                    /\ m.call = Call(d)' /\ sem[m.tag] = 0
    BY <1>3 DEF IInv, TypeOK, PendingInv, Call
  <2>3. /\ msg.tag \in heap /\ ~complete[msg.tag]
        /\ \A d \in Callers : cookie[d] = msg.tag =>
             /\ pc'[d] \in {"wait", "destroy"}
             /\ msg.call = Call(d)' /\ sem[msg.tag] = 0
    BY <1>1 DEF IInv, TypeOK, OwnersInv, ResultInv, Call
  <2>4. QED
    BY <1>4, <2>1, <2>2, <2>3 DEF PendingInv
<1>8. ResultInv'
  BY <1>1 DEF IInv, TypeOK, ResultInv, OwnResult, Call
<1>9. QED
  BY <1>5, <1>6, <1>7, <1>8 DEF IInv

LEMMA SendFailIInv ==
  ASSUME IInv, NEW c \in Callers, SendFail(c)
  PROVE  IInv'
<1> USE DEF SendFail
<1>1. cookie[c] \in Addrs /\ cookie[c] # None /\ Pending' = Pending
  BY DEF IInv, TypeOK, OwnersInv, Pending
<1>2. TypeOK'
  BY <1>1 DEF IInv, TypeOK
<1>3. OwnersInv' /\ LeakInv'
  BY <1>1 DEF IInv, TypeOK, OwnersInv, LeakInv
<1>4. \A m \in Pending : m.tag # cookie[c]
  BY DEF IInv, PendingInv
<1>5. PendingInv'
  BY <1>1, <1>4 DEF IInv, TypeOK, PendingInv, Call
<1>6. ResultInv'
  BY <1>1 DEF IInv, TypeOK, OwnersInv, ResultInv, OwnResult, Call
<1>7. QED
  BY <1>2, <1>3, <1>5, <1>6 DEF IInv

\* The semaphore was posted, so the callback has left the cookie.
LEMMA WakeIInv ==
  ASSUME IInv, NEW c \in Callers, Wake(c)
  PROVE  IInv'
<1> USE DEF Wake
<1>1. cookie[c] \in Addrs /\ cookie[c] # None /\ Pending' = Pending
  BY DEF IInv, TypeOK, OwnersInv, Pending
<1>2. \A m \in Pending : m.tag # cookie[c]
  BY <1>1 DEF IInv, TypeOK, PendingInv
<1>3. status[cookie[c]] = Call(c)
  BY DEF IInv, ResultInv
<1>4. TypeOK'
  BY <1>1 DEF IInv, TypeOK
<1>5. OwnersInv' /\ LeakInv'
  BY <1>1 DEF IInv, TypeOK, OwnersInv, LeakInv
<1>6. PendingInv'
  BY <1>1, <1>2 DEF IInv, TypeOK, PendingInv, Call
<1>7. ResultInv'
  BY <1>1, <1>3 DEF IInv, TypeOK, OwnersInv, ResultInv, OwnResult, Call
<1>8. QED
  BY <1>4, <1>5, <1>6, <1>7 DEF IInv

LEMMA TimeoutIInv ==
  ASSUME IInv, NEW c \in Callers, Timeout(c)
  PROVE  IInv'
<1> USE DEF Timeout, cookieVars
<1>1. TypeOK'
  BY DEF IInv, TypeOK
<1>2. OwnersInv' /\ LeakInv'
  BY DEF IInv, TypeOK, OwnersInv, LeakInv
<1>3. PendingInv'
  BY DEF IInv, TypeOK, PendingInv, Pending, Call
<1>4. ResultInv'
  BY DEF IInv, TypeOK, ResultInv, OwnResult, Call
<1>5. QED
  BY <1>1, <1>2, <1>3, <1>4 DEF IInv

\* A cookie that is freed is complete, and then no request of it is pending;
\* one that is not complete stays and is cancelled.
LEMMA DestroyIInv ==
  ASSUME IInv, NEW c \in Callers, Destroy(c)
  PROVE  IInv'
<1> USE DEF Destroy
<1>1. /\ cookie[c] \in Addrs /\ cookie[c] # None /\ cookie[c] \in heap
      /\ Pending' = Pending
  BY DEF IInv, TypeOK, OwnersInv, Pending
<1>2. TypeOK'
  BY Zenon, <1>1 DEF IInv, TypeOK
<1>3. OwnersInv'
  BY <1>1 DEF IInv, TypeOK, OwnersInv
<1>4. LeakInv'
  BY <1>1, SyncAssumption DEF IInv, TypeOK, OwnersInv, LeakInv
<1>5. PendingInv'
  BY <1>1, PendingMsgs, SyncAssumption DEF IInv, TypeOK, PendingInv, Call, Msgs
<1>6. ResultInv'
  BY <1>1 DEF IInv, TypeOK, OwnersInv, ResultInv, OwnResult, Call
<1>7. QED
  BY <1>2, <1>3, <1>4, <1>5, <1>6 DEF IInv

LEMMA CallbackBeginIInv ==
  ASSUME IInv, NEW m \in inFlight, CallbackBegin(m)
  PROVE  IInv'
<1> USE DEF CallbackBegin, cookieVars, callerVars
<1>1. TypeOK'
  BY DEF IInv, TypeOK
<1>2. OwnersInv' /\ LeakInv'
  BY DEF IInv, OwnersInv, LeakInv
<1>3. Pending' \subseteq Pending
  BY DEF Pending
<1>4. PendingInv'
  BY <1>3 DEF IInv, PendingInv, Call
<1>5. ResultInv'
  BY DEF IInv, ResultInv, OwnResult, Call
<1>6. QED
  BY <1>1, <1>2, <1>4, <1>5 DEF IInv

\* The caller of the cookie that is written has not been woken.
LEMMA CallbackWriteIInv ==
  ASSUME IInv, CallbackWrite
  PROVE  IInv'
<1> USE DEF CallbackWrite, callerVars
<1>1. cb \in Msgs /\ cb \in Pending /\ Pending' = Pending
  BY DEF IInv, TypeOK, Pending
<1>2. cb.tag \in Addrs /\ cb.call \in Calls
  BY <1>1 DEF Msgs
<1>3. TypeOK'
  BY <1>2 DEF IInv, TypeOK
<1>4. OwnersInv' /\ LeakInv'
  BY DEF IInv, OwnersInv, LeakInv
<1>5. PendingInv'
  BY <1>1 DEF IInv, PendingInv, Call
<1>6. ResultInv'
  BY <1>1, <1>2 DEF IInv, TypeOK, PendingInv, ResultInv, OwnResult, Call
<1>7. QED
  BY <1>3, <1>4, <1>5, <1>6 DEF IInv

\* What is posted is the result of the call that waits for it.
LEMMA CallbackPostIInv ==
  ASSUME IInv, CallbackPost
  PROVE  IInv'
<1> USE DEF CallbackPost, callerVars
<1>1. cb \in Msgs /\ cb \in Pending /\ Pending' = inFlight
  BY DEF IInv, TypeOK, Pending
<1>2. cb.tag \in Addrs /\ \A m \in inFlight : m \in Pending /\ m # cb
  BY <1>1 DEF IInv, TypeOK, Msgs, Pending
<1>3. TypeOK'
  BY <1>2 DEF IInv, TypeOK
<1>4. OwnersInv' /\ LeakInv'
  BY DEF IInv, OwnersInv, LeakInv
<1>5. \A m \in inFlight : m.tag # cb.tag
  BY <1>1, <1>2 DEF IInv, PendingInv
<1>6. PendingInv'
  BY <1>1, <1>2, <1>5 DEF IInv, TypeOK, PendingInv, Call
<1>7. ResultInv'
  BY <1>1, <1>2 DEF IInv, TypeOK, PendingInv, ResultInv, OwnResult, Call
<1>8. QED
  BY <1>3, <1>4, <1>6, <1>7 DEF IInv

LEMMA StutterIInv ==
  ASSUME IInv, UNCHANGED vars
  PROVE  IInv'
BY DEF vars, cookieVars, callerVars, IInv, TypeOK, OwnersInv, LeakInv, PendingInv,
       Pending, ResultInv, OwnResult, Call

\* Every step of a caller or of the poller preserves the invariant.
LEMMA NextIInv ==
  ASSUME IInv, [Next]_vars
  PROVE  IInv'
<1>1. CASE UNCHANGED vars
  BY <1>1, StutterIInv
<1>2. ASSUME NEW c \in Callers, CallStep(c)
      PROVE  IInv'
  BY <1>2, SendIInv, SendFailIInv, WakeIInv, TimeoutIInv, DestroyIInv DEF CallStep
<1>3. ASSUME NEW c \in Callers, NEW a \in Addrs, Create(c, a)
      PROVE  IInv'
  BY <1>3, CreateIInv
<1>4. ASSUME NEW m \in inFlight, CallbackBegin(m)
      PROVE  IInv'
  BY <1>4, CallbackBeginIInv
<1>5. QED
  BY <1>1, <1>2, <1>3, <1>4, CallbackWriteIInv, CallbackPostIInv DEF Next

\* The inductive invariant holds in every state a caller or the poller reaches.
THEOREM Invariance == Spec => []IInv
<1>1. Init => IInv
  BY InitIInv
<1>2. IInv /\ [Next]_vars => IInv'
  BY NextIInv
<1>3. QED
  BY <1>1, <1>2, PTL DEF Spec

\* A callback never touches a freed cookie (the guard of
\* LacSync_DestroySyncCookie), and only the cookie of a caller that timed out
\* stays allocated without a caller.
THEOREM CookiesLive == Spec => []CookieLifetime
<1>1. IInv => CookieLifetime
  BY DEF IInv, LeakInv, PendingInv, Pending, CookieLifetime
<1>2. QED
  BY <1>1, Invariance, PTL

\* A caller that LacSync_WaitForCallback wakes reads the result of its own call.
THEOREM ResultsMatch == Spec => []OwnResult
<1>1. IInv => OwnResult
  BY DEF IInv, ResultInv
<1>2. QED
  BY <1>1, Invariance, PTL
=============================================================================
