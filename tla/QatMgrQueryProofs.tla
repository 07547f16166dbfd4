------------------------- MODULE QatMgrQueryProofs -------------------------
(***************************************************************************)
(* Proofs about QatMgrQuery: for any number of threads, devices and        *)
(* instances, and however often the process restarts, a parameter that is  *)
(* returned is the one that was asked for.                                 *)
(***************************************************************************)
EXTENDS QatMgrQuery, TLAPS

TypeOK ==
    /\ pc \in [Threads -> {"idle", "lock", "read"}]
    /\ mutex \in Threads \cup {NoInst}
    /\ DOMAIN asked = Threads /\ DOMAIN rsp = Threads /\ DOMAIN value = Threads
    /\ DOMAIN c_accelId = Threads /\ DOMAIN c_serv = Threads
    /\ \A t \in Threads : pc[t] # "idle" => asked[t] \in Questions

\* The mutex belongs to the thread that reads, and what is on the socket is
\* that thread's question or the answer to it.
FlowInv ==
    /\ \A t \in Threads : pc[t] = "read" <=> mutex = t
    /\ mutex = NoInst => requests = <<>> /\ answers = <<>>
    /\ \A t \in Threads : mutex = t =>
           \/ requests = <<asked[t]>> /\ answers = <<>>
           \/ requests = <<>> /\ answers = <<Answer(asked[t], section)>>

\* What a thread takes its last answer to be about is what it is about.
KeptInv ==
    \A t \in Threads :
        rsp[t].type \notin {"none", "BAD"} =>
            /\ rsp[t].about \in Questions
            /\ rsp[t].type = rsp[t].about.type
            /\ c_accelId[t] = rsp[t].about.dev
            /\ rsp[t].type # "DEVICE_INFO" => c_serv[t] = rsp[t].about.inst

\* After an interrupted read the socket may hold an answer nobody waits for:
\* only the types of the messages can be relied on.
IInv ==
    /\ TypeOK
    /\ ~interrupted => FlowInv /\ KeptInv
    /\ ValueIsAsked

-----------------------------------------------------------------------------

\* An answer that is not BAD says what it is about.
LEMMA AnswerAbout ==
    ASSUME NEW q \in Questions, NEW s
    PROVE  \/ Answer(q, s).type = "BAD"
           \/ Answer(q, s).type = q.type /\ Answer(q, s).about = q
BY DEF Answer

\* The fields of a question.
LEMMA QuestionFields ==
    ASSUME NEW q \in Questions
    PROVE  /\ q.type \in {"DEVICE_INFO", "INSTANCE_INFO", "INSTANCE_NAME"}
           /\ q.type = "DEVICE_INFO" => q.inst = NoInst
BY DEF Questions

\* Questions that agree in what adf_io_cfgGetParamValue compares are the same.
LEMMA SameQuestion ==
    ASSUME NEW q \in Questions, NEW r \in Questions,
           q.type = r.type, q.dev = r.dev,
           q.type # "DEVICE_INFO" => q.inst = r.inst
    PROVE  q = r
BY DEF Questions

LEMMA InitIInv == Init => IInv
BY QueryAssumption DEF Init, IInv, TypeOK, FlowInv, KeptInv, ValueIsAsked, Zero, None

LEMMA GetParamValueIInv ==
    ASSUME IInv, NEW t \in Threads, NEW q \in Questions, GetParamValue(t, q)
    PROVE  IInv'
<1> USE DEF GetParamValue
<1>1. TypeOK'
  BY DEF IInv, TypeOK
<1>2. ASSUME ~interrupted'
      PROVE  FlowInv' /\ KeptInv'
  <2>1. FlowInv /\ KeptInv /\ mutex # t
    BY <1>2, QueryAssumption DEF IInv, FlowInv
  <2>2. FlowInv'
    BY <2>1 DEF IInv, TypeOK, FlowInv
  <2>3. KeptInv'
    BY <2>1 DEF KeptInv
  <2>4. QED
    BY <2>2, <2>3
<1>3. CASE Cached(t, q)
  <2>1. interrupted \/ rsp[t].about = q
    <3>1. CASE ~interrupted
      <4>1. rsp[t].type \notin {"none", "BAD"}
        BY <1>3, QuestionFields DEF Cached
      <4>2. QED
        BY <1>3, <3>1, <4>1, SameQuestion DEF IInv, KeptInv, Cached
    <3>2. QED
      BY <3>1
  <2>2. ValueIsAsked'
    BY <1>3, <2>1 DEF IInv, TypeOK, ValueIsAsked, Cached
  <2>3. QED
    BY <1>1, <1>2, <2>2 DEF IInv
<1>4. CASE ~Cached(t, q)
  <2>1. ValueIsAsked'
    BY <1>4 DEF IInv, TypeOK, ValueIsAsked
  <2>2. QED
    BY <1>1, <1>2, <2>1 DEF IInv
<1>5. QED
  BY <1>3, <1>4

LEMMA SendIInv ==
    ASSUME IInv, NEW t \in Threads, Send(t)
    PROVE  IInv'
<1> USE DEF Send
<1>1. TypeOK'
  BY DEF IInv, TypeOK
<1>2. ASSUME ~interrupted'
      PROVE  FlowInv' /\ KeptInv'
  <2>1. FlowInv /\ KeptInv
    BY <1>2 DEF IInv
  <2>2. requests' = <<asked[t]>> /\ answers' = <<>>
    BY <2>1 DEF FlowInv
  <2>3. FlowInv'
    BY <2>1, <2>2, QueryAssumption DEF IInv, TypeOK, FlowInv
  <2>4. KeptInv'
    BY <2>1 DEF KeptInv
  <2>5. QED
    BY <2>3, <2>4
<1>3. ValueIsAsked'
  BY DEF IInv, ValueIsAsked
<1>4. QED
  BY <1>1, <1>2, <1>3 DEF IInv

LEMMA DaemonIInv ==
    ASSUME IInv, Daemon
    PROVE  IInv'
<1> USE DEF Daemon
<1>1. TypeOK'
  BY DEF IInv, TypeOK
<1>2. ASSUME ~interrupted'
      PROVE  FlowInv' /\ KeptInv'
  <2>1. FlowInv /\ KeptInv
    BY <1>2 DEF IInv
  <2>2. PICK t \in Threads : mutex = t
    BY <2>1 DEF IInv, TypeOK, FlowInv
  <2>3. requests = <<asked[t]>> /\ answers = <<>>
    BY <2>1, <2>2 DEF FlowInv
  <2>4. requests' = <<>> /\ answers' = <<Answer(asked[t], section)>>
    BY <2>3
  <2>5. FlowInv'
    BY Zenon, <2>1, <2>2, <2>4, QueryAssumption DEF IInv, FlowInv, Answer
  <2>6. KeptInv'
    BY <2>1 DEF KeptInv
  <2>7. QED
    BY <2>5, <2>6
<1>3. ValueIsAsked'
  BY DEF IInv, ValueIsAsked
<1>4. QED
  BY <1>1, <1>2, <1>3 DEF IInv

\* The answer that is read belongs to the question of the thread that reads it.
LEMMA ReceiveIInv ==
    ASSUME IInv, NEW t \in Threads, Receive(t)
    PROVE  IInv'
<1> DEFINE new == Head(answers)
<1> USE DEF Receive, Accepted
<1>1. TypeOK'
  BY DEF IInv, TypeOK
<1>2. asked[t] \in Questions
  BY DEF IInv, TypeOK
<1>3. ASSUME ~interrupted
      PROVE  /\ requests = <<>> /\ answers' = <<>> /\ mutex = t
             /\ \/ new.type = "BAD"
                \/ new.type = asked[t].type /\ new.about = asked[t]
  <2>1. FlowInv /\ mutex = t
    BY <1>3 DEF IInv, FlowInv
  <2>2. requests = <<>> /\ answers = <<Answer(asked[t], section)>>
    BY <2>1 DEF FlowInv
  <2>3. new = Answer(asked[t], section) /\ answers' = <<>>
    BY <2>2
  <2>4. QED
    BY <1>2, <2>1, <2>2, <2>3, AnswerAbout
<1>4. ASSUME ~interrupted'
      PROVE  FlowInv' /\ KeptInv'
  <2>1. FlowInv /\ KeptInv /\ ~interrupted
    BY <1>4 DEF IInv
  <2>2. FlowInv'
    BY <1>3, <2>1, QueryAssumption DEF IInv, TypeOK, FlowInv
  <2>3. KeptInv'
    BY <1>2, <1>3, <2>1, QuestionFields DEF IInv, TypeOK, KeptInv
  <2>4. QED
    BY <2>2, <2>3
<1>5. ValueIsAsked'
  <2>1. ASSUME NEW u \in Threads, value'[u] # None
        PROVE  /\ value'[u].type = asked[u].type
               /\ interrupted \/ value'[u].about = asked[u]
    <3>1. CASE u = t
      <4>1. value'[u] = new /\ new.type = asked[t].type
        BY <2>1, <3>1 DEF IInv, TypeOK
      <4>2. new.type # "BAD"
        BY <1>2, <4>1, QuestionFields
      <4>3. QED
        BY <1>3, <3>1, <4>1, <4>2
    <3>2. CASE u # t
      BY <2>1, <3>2 DEF IInv, TypeOK, ValueIsAsked
    <3>3. QED
      BY <3>1, <3>2
  <2>2. QED
    BY <2>1 DEF ValueIsAsked
<1>6. QED
  BY <1>1, <1>4, <1>5 DEF IInv

\* An old answer is taken for the new one only if its type is the one asked for.
LEMMA ReceiveInterruptedIInv ==
    ASSUME IInv, NEW t \in Threads, ReceiveInterrupted(t)
    PROVE  IInv'
<1> USE DEF ReceiveInterrupted, Accepted
<1>1. TypeOK'
  BY DEF IInv, TypeOK
<1>2. ValueIsAsked'
  BY DEF IInv, TypeOK, ValueIsAsked
<1>3. QED
  BY <1>1, <1>2 DEF IInv

LEMMA RestartIInv ==
    ASSUME IInv, Restart
    PROVE  IInv'
<1> USE DEF Restart
<1>1. TypeOK'
  BY DEF IInv, TypeOK
<1>2. ~interrupted' => FlowInv' /\ KeptInv'
  BY DEF IInv, TypeOK, FlowInv, KeptInv
<1>3. ValueIsAsked'
  BY DEF ValueIsAsked
<1>4. QED
  BY <1>1, <1>2, <1>3 DEF IInv

LEMMA StutterIInv ==
    ASSUME IInv, UNCHANGED vars
    PROVE  IInv'
BY DEF vars, IInv, TypeOK, FlowInv, KeptInv, ValueIsAsked

\* The inductive invariant holds in every state the threads, the daemon and the
\* restarts reach.
THEOREM Invariance == Spec => []IInv
<1>1. Init => IInv
  BY InitIInv
<1>2. IInv /\ [Next]_vars => IInv'
  BY GetParamValueIInv, SendIInv, DaemonIInv, ReceiveIInv, ReceiveInterruptedIInv,
     RestartIInv, StutterIInv DEF Next
<1>3. QED
  BY <1>1, <1>2, PTL DEF Spec

\* A parameter that adf_io_cfgGetParamValue returns is that of the device and
\* instance asked for, unless a read of the socket was interrupted, and never
\* comes from a message of another type.
THEOREM ValuesAsked == Spec => []ValueIsAsked
<1>1. IInv => ValueIsAsked
  BY DEF IInv
<1>2. QED
  BY <1>1, Invariance, PTL
=============================================================================
