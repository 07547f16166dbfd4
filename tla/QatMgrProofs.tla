---------------------------- MODULE QatMgrProofs ----------------------------
(***************************************************************************)
(* Proofs about QatMgr: for any number of processes, sections, connections *)
(* and thread ids that collide, the daemon gives a section to one process  *)
(* at a time, which keeps it until it gives it back or goes.               *)
(***************************************************************************)
EXTENDS QatMgr, TLAPS

Requests ==
    {None, [type |-> "GET"], [type |-> "INFO"]} \cup
    [type : {"PUT"}, name : {0} \cup Sections]

Answers ==
    {None, BAD, [type |-> "PUT"]} \cup
    [type : {"GET", "INFO"}, name : {0} \cup Sections]

ThreadType ==
    [pc : {"none", "poll", "read", "lock", "scan", "mark", "name", "write", "end",
           "closed"},
     tid : Tids \cup {0}, index : {0} \cup Sections, named : BOOLEAN, i : Nat,
     answer : Answers]

SockType == [req : Requests, rsp : Answers, open : BOOLEAN, served : BOOLEAN]

ClientType ==
    [st : {"down", "open", "get", "up", "query", "put"}, conn : {0} \cup Conns,
     section : {0} \cup Sections]

TypeOK ==
    /\ assigned \in [Sections -> Tids \cup {0}]
    /\ mutex \in {0} \cup Conns
    /\ thread \in [Conns -> ThreadType]
    /\ sock \in [Conns -> SockType]
    /\ client \in [Clients -> ClientType]

\* The thread of connection k holds the mutex while it searches the table; the
\* section it has is marked with its tid, and it knows the section's name
\* unless it has no memory for it.
ThreadOK(k) ==
    /\ thread[k].pc \notin {"none", "closed"} => thread[k].tid # 0
    /\ thread[k].pc \in {"none", "closed", "poll", "lock", "scan", "mark"} =>
          thread[k].index = 0
    /\ thread[k].named => thread[k].index # 0
    /\ thread[k].pc = "name" => thread[k].index # 0 /\ ~thread[k].named
    /\ thread[k].index # 0 =>
          /\ assigned[thread[k].index] = thread[k].tid
          /\ \/ thread[k].named
             \/ thread[k].pc = "name"
             \/ thread[k].index \in lost
    /\ thread[k].pc \in {"scan", "mark"} <=> mutex = k
    /\ thread[k].pc = "mark" =>
          thread[k].i \in Sections /\ assigned[thread[k].i] = 0
    /\ thread[k].pc = "none" => sock[k].req = None /\ sock[k].rsp = None

ThreadInv == \A k \in Conns : ThreadOK(k)

\* No two threads have one section, whatever their tids.
IndexInv ==
    \A j, k \in Conns :
        thread[j].index = thread[k].index /\ thread[j].index # 0 => j = k

\* The answer a to SECTION_GET is a refusal or names the section of thread k.
Granted(k, a) ==
    \/ a = BAD
    \/ thread[k].named /\ a = [type |-> "GET", name |-> thread[k].index]

\* What is on connection k and where its thread is, while process p uses it.
ConnOK(p, k) ==
    /\ sock[k].open /\ thread[k].pc # "none"
    /\ client[p].st = "open" =>
          /\ sock[k].req = None /\ sock[k].rsp = None
          /\ thread[k].pc \in {"poll", "end", "closed"}
    /\ client[p].st = "get" =>
          \/ sock[k].rsp = None /\ thread[k].pc \in {"end", "closed"}
          \/ /\ sock[k].rsp = None /\ thread[k].pc = "poll"
             /\ sock[k].req = [type |-> "GET"]
          \/ /\ sock[k].rsp = None /\ thread[k].pc \in {"lock", "scan", "mark", "name"}
             /\ sock[k].req = None
          \/ /\ sock[k].rsp = None /\ thread[k].pc = "write"
             /\ sock[k].req = None /\ Granted(k, thread[k].answer)
          \/ /\ thread[k].pc = "read" /\ sock[k].req = None
             /\ Granted(k, sock[k].rsp)
    /\ client[p].st \in {"up", "query"} =>
          thread[k].named /\ thread[k].index = client[p].section
    /\ client[p].st = "up" =>
          sock[k].req = None /\ sock[k].rsp = None /\ thread[k].pc = "read"
    /\ client[p].st = "query" =>
          \/ /\ sock[k].rsp = None /\ thread[k].pc = "read"
             /\ sock[k].req = [type |-> "INFO"]
          \/ /\ sock[k].rsp = None /\ thread[k].pc = "write"
             /\ sock[k].req = None
          \/ thread[k].pc = "read" /\ sock[k].req = None

On(p, k) == client[p].st # "down" /\ client[p].conn = k

\* Every process that is connected has a connection of its own.
ClientInv ==
    /\ \A p \in Clients : client[p].st # "down" => client[p].conn \in Conns
    /\ \A p \in Clients, k \in Conns : On(p, k) => ConnOK(p, k)
    /\ \A p, q \in Clients, k \in Conns : On(p, k) /\ On(q, k) => p = q

IInv == TypeOK /\ ThreadInv /\ IndexInv /\ ClientInv /\ AssignedHasThread

-----------------------------------------------------------------------------
(* Types and frames.                                                       *)

\* The messages that are sent.
LEMMA MessageTypes ==
    /\ None \in Requests /\ [type |-> "GET"] \in Requests
    /\ [type |-> "INFO"] \in Requests
    /\ \A i \in {0} \cup Sections : [type |-> "PUT", name |-> i] \in Requests
    /\ None \in Answers /\ BAD \in Answers /\ [type |-> "PUT"] \in Answers
    /\ \A i \in {0} \cup Sections :
          /\ [type |-> "GET", name |-> i] \in Answers
          /\ [type |-> "INFO", name |-> i] \in Answers
BY Zenon DEF Requests, Answers

\* A connection that nothing happens to.
LEMMA ConnFrame ==
    ASSUME NEW p \in Clients, NEW k \in Conns, ConnOK(p, k),
           client'[p] = client[p], thread'[k] = thread[k], sock'[k] = sock[k]
    PROVE  ConnOK(p, k)'
BY Zenon DEF ConnOK, Granted

\* A step of the thread of connection k concerns only the process of k.
LEMMA ClientFrame ==
    ASSUME ClientInv, NEW k \in Conns, client' = client,
           \A j \in Conns \ {k} : thread'[j] = thread[j] /\ sock'[j] = sock[j],
           \A p \in Clients : On(p, k) => ConnOK(p, k)'
    PROVE  ClientInv'
<1>1. ASSUME NEW p \in Clients, NEW j \in Conns, On(p, j)'
      PROVE  ConnOK(p, j)'
  BY Zenon, <1>1, ConnFrame DEF ClientInv, On
<1>2. QED
  BY Zenon, <1>1 DEF ClientInv, On

\* A thread that does not move keeps its part of the invariant unless its
\* section, the section it is about to mark or its mutex changes.
LEMMA ThreadFrame ==
    ASSUME NEW j \in Conns, ThreadOK(j), thread'[j] = thread[j],
           thread[j].pc = "none" => sock'[j] = sock[j],
           lost \subseteq lost',
           mutex' = j <=> mutex = j,
           thread[j].index # 0 =>
              assigned'[thread[j].index] = assigned[thread[j].index],
           thread[j].pc = "mark" =>
              assigned'[thread[j].i] = assigned[thread[j].i]
    PROVE  ThreadOK(j)'
BY DEF ThreadOK

\* A step of a process that leaves the daemon as it is.
LEMMA DaemonFrame ==
    ASSUME IInv, UNCHANGED <<assigned, mutex, thread, lost>>,
           \A k \in Conns : thread[k].pc = "none" => sock'[k] = sock[k]
    PROVE  ThreadInv' /\ IndexInv' /\ AssignedHasThread'
<1>1. ThreadInv'
  BY Zenon, ThreadFrame DEF IInv, ThreadInv
<1>2. QED
  BY Zenon, <1>1 DEF IInv, IndexInv, AssignedHasThread

\* A process on connection k changes its own state and what is on k, or goes.
LEMMA ProcessStep ==
    ASSUME IInv, TypeOK', NEW p \in Clients, NEW k \in Conns, On(p, k),
           UNCHANGED <<assigned, mutex, thread, lost>>,
           \A j \in Conns \ {k} : sock'[j] = sock[j],
           \A q \in Clients \ {p} : client'[q] = client[q],
           client'[p].st = "down" \/ (client'[p].conn = k /\ ConnOK(p, k)')
    PROVE  IInv'
<1>1. thread[k].pc # "none"
  BY Zenon DEF IInv, ClientInv, ConnOK
<1>2. ThreadInv' /\ IndexInv' /\ AssignedHasThread'
  BY Zenon, <1>1, DaemonFrame
<1>3. ASSUME NEW q \in Clients, NEW j \in Conns, On(q, j)'
      PROVE  On(q, j) /\ ConnOK(q, j)'
  <2>1. CASE q = p
    BY Zenon, <1>3, <2>1 DEF On
  <2>2. CASE q # p
    <3>1. On(q, j) /\ j # k
      BY Zenon, <1>3, <2>2 DEF IInv, ClientInv, On
    <3>2. QED
      BY Zenon, <2>2, <3>1, ConnFrame DEF IInv, ClientInv
  <2>3. QED
    BY Zenon, <2>1, <2>2
<1>4. ClientInv'
  <2>1. \A q \in Clients : client'[q].st # "down" => client'[q].conn \in Conns
    BY Zenon DEF IInv, ClientInv
  <2>2. \A q, r \in Clients, j \in Conns : On(q, j)' /\ On(r, j)' => q = r
    BY Zenon, <1>3 DEF IInv, ClientInv
  <2>3. QED
    BY Zenon, <1>3, <2>1, <2>2 DEF ClientInv
<1>5. QED
  BY Zenon, <1>2, <1>4 DEF IInv

\* The thread of connection k moves: what the others rely on stays.
LEMMA ThreadStep ==
    ASSUME IInv, TypeOK', NEW k \in Conns, client' = client, lost \subseteq lost',
           \A j \in Conns \ {k} :
              /\ thread'[j] = thread[j] /\ sock'[j] = sock[j]
              /\ mutex' = j <=> mutex = j
              /\ thread[j].index # 0 =>
                    /\ assigned'[thread[j].index] = assigned[thread[j].index]
                    /\ thread'[k].index # thread[j].index
              /\ thread[j].pc = "mark" =>
                    assigned'[thread[j].i] = assigned[thread[j].i],
           ThreadOK(k)', AssignedHasThread',
           \A p \in Clients : On(p, k) => ConnOK(p, k)'
    PROVE  IInv'
<1>1. ThreadInv'
  <2>1. ASSUME NEW j \in Conns, j # k
        PROVE  ThreadOK(j)'
    BY Zenon, <2>1, ThreadFrame DEF IInv, ThreadInv
  <2>2. QED
    BY Zenon, <2>1 DEF ThreadInv
<1>2. IndexInv'
  BY DEF IInv, IndexInv
<1>3. ClientInv'
  BY Zenon, ClientFrame DEF IInv
<1>4. QED
  BY Zenon, <1>1, <1>2, <1>3 DEF IInv

\* The same, when the thread keeps its section and the table does not change.
LEMMA LocalStep ==
    ASSUME IInv, TypeOK', NEW k \in Conns, client' = client, lost \subseteq lost',
           UNCHANGED <<assigned, mutex>>,
           \A j \in Conns \ {k} : thread'[j] = thread[j] /\ sock'[j] = sock[j],
           thread'[k].index = thread[k].index, thread'[k].pc # "closed",
           ThreadOK(k)',
           \A p \in Clients : On(p, k) => ConnOK(p, k)'
    PROVE  IInv'
<1>1. AssignedHasThread'
  BY DEF IInv, AssignedHasThread
<1>2. \A j \in Conns \ {k} :
        thread[j].index # 0 => thread[k].index # thread[j].index
  BY Zenon DEF IInv, IndexInv
<1>3. QED
  BY Zenon, <1>1, <1>2, ThreadStep

\* Thread record r has what thread k knows of its section.
Same(k, r) ==
    /\ r.tid = thread[k].tid /\ r.index = thread[k].index
    /\ r.named = thread[k].named

\* The thread records that Reply, Lock, Mark and HandleSectionRelease build.
Replied(r, a) == [r EXCEPT !.pc = "write", !.answer = a]
Scanning(r, i) == [r EXCEPT !.pc = "scan", !.i = i]
Marked(r, x, i) == [r EXCEPT !.pc = "name", !.index = x, !.i = i]
Released(r, x) == [r EXCEPT !.named = FALSE, !.index = x]

LEMMA RepliedFields ==
    ASSUME NEW r \in ThreadType, NEW a \in Answers
    PROVE  LET s == Replied(r, a)
           IN  /\ s \in ThreadType /\ s.pc = "write" /\ s.answer = a
               /\ s.tid = r.tid /\ s.index = r.index /\ s.named = r.named
BY Zenon DEF ThreadType, Replied

LEMMA ScanningFields ==
    ASSUME NEW r \in ThreadType, NEW i \in Nat
    PROVE  LET s == Scanning(r, i)
           IN  /\ s \in ThreadType /\ s.pc = "scan"
               /\ s.tid = r.tid /\ s.index = r.index /\ s.named = r.named
BY Zenon DEF ThreadType, Scanning

LEMMA MarkedFields ==
    ASSUME NEW r \in ThreadType, NEW x \in {0} \cup Sections, NEW i \in Nat
    PROVE  LET s == Marked(r, x, i)
           IN  /\ s \in ThreadType /\ s.pc = "name"
               /\ s.tid = r.tid /\ s.index = x /\ s.named = r.named
BY Zenon DEF ThreadType, Marked

LEMMA ReleasedFields ==
    ASSUME NEW r \in ThreadType, NEW x \in {0} \cup Sections
    PROVE  LET s == Released(r, x)
           IN  /\ s \in ThreadType /\ s.pc = r.pc /\ s.answer = r.answer
               /\ s.tid = r.tid /\ s.index = x /\ ~s.named
BY Zenon DEF ThreadType, Released

\* What is known of a process that uses connection k.
LEMMA OnConn ==
    ASSUME IInv, NEW p \in Clients, NEW k \in Conns, On(p, k)
    PROVE  client[p].st \in {"open", "get", "up", "query", "put"} /\ ConnOK(p, k)
BY Zenon DEF IInv, TypeOK, ClientType, ClientInv, On

LEMMA InitIInv == Init => IInv
<1> SUFFICES ASSUME Init PROVE IInv
  OBVIOUS
<1> USE QatMgrAssumption DEF Init, Thread, Down
<1>1. TypeOK
  BY Zenon, MessageTypes DEF TypeOK, ThreadType, SockType, ClientType
<1>2. ThreadInv
  BY DEF ThreadInv, ThreadOK, Conns
<1>3. IndexInv /\ ClientInv /\ AssignedHasThread
  BY Zenon DEF IndexInv, ClientInv, On, AssignedHasThread
<1>4. QED
  BY Zenon, <1>1, <1>2, <1>3 DEF IInv

-----------------------------------------------------------------------------
(* The process.                                                            *)

\* A connection that was never used gets thread new, which has no section.
LEMMA NewConnection ==
    ASSUME IInv, NEW p \in Clients, NEW k \in Conns, NEW new \in ThreadType,
           new.pc \in {"poll", "closed"}, new.pc = "poll" => new.tid # 0,
           new.index = 0, ~new.named,
           thread[k].pc = "none",
           thread' = [thread EXCEPT ![k] = new],
           sock' = [sock EXCEPT ![k].open = TRUE, ![k].served = TRUE],
           client' = [client EXCEPT ![p].st = "open", ![p].conn = k],
           UNCHANGED <<assigned, mutex, lost>>
    PROVE  IInv'
<1>1. TypeOK'
  <2>1. thread' \in [Conns -> ThreadType]
    BY Zenon DEF IInv, TypeOK
  <2>2. sock' \in [Conns -> SockType]
    BY Zenon DEF IInv, TypeOK, SockType
  <2>3. [client[p] EXCEPT !.st = "open", !.conn = k] \in ClientType
    BY ZenonT(30) DEF IInv, TypeOK, ClientType
  <2>4. client' \in [Clients -> ClientType]
    BY Zenon, <2>3 DEF IInv, TypeOK
  <2>5. QED
    BY Zenon, <2>1, <2>2, <2>4 DEF IInv, TypeOK
<1>2. ThreadInv'
  <2>1. ThreadOK(k)'
    BY Zenon DEF IInv, TypeOK, ThreadInv, ThreadOK, SockType
  <2>2. ASSUME NEW j \in Conns, j # k PROVE ThreadOK(j)'
    BY Zenon, <2>2, ThreadFrame DEF IInv, TypeOK, ThreadInv
  <2>3. QED
    BY Zenon, <2>1, <2>2 DEF ThreadInv
<1>3. IndexInv'
  BY Zenon DEF IInv, TypeOK, IndexInv
<1>4. ClientInv'
  <2>1. \A q \in Clients : ~On(q, k)
    BY Zenon DEF IInv, ClientInv, ConnOK
  <2>2. ConnOK(p, k)'
    BY DEF IInv, TypeOK, ThreadInv, ThreadOK, ConnOK, SockType, ClientType
  <2>3. ASSUME NEW q \in Clients, NEW j \in Conns, On(q, j)', q # p
        PROVE  On(q, j) /\ j # k /\ ConnOK(q, j)'
    BY Zenon, <2>1, <2>3, ConnFrame DEF IInv, TypeOK, ClientInv, On
  <2>4. On(p, k)' /\ \A j \in Conns : On(p, j)' => j = k
    BY Zenon DEF IInv, TypeOK, On, ClientType
  <2>5. \A q \in Clients : client'[q].st # "down" => client'[q].conn \in Conns
    BY DEF IInv, TypeOK, ClientInv, ClientType
  <2>6. \A q \in Clients, j \in Conns : On(q, j)' => ConnOK(q, j)'
    BY Zenon, <2>2, <2>3, <2>4
  <2>7. \A q, r \in Clients, j \in Conns : On(q, j)' /\ On(r, j)' => q = r
    BY <2>3, <2>4 DEF IInv, ClientInv
  <2>8. QED
    BY Zenon, <2>5, <2>6, <2>7 DEF ClientInv
<1>5. AssignedHasThread'
  BY DEF IInv, TypeOK, ThreadInv, ThreadOK, AssignedHasThread, Sections
<1>6. QED
  BY Zenon, <1>1, <1>2, <1>3, <1>4, <1>5 DEF IInv

LEMMA ConnectIInv ==
    ASSUME IInv, NEW p \in Clients, Connect(p)
    PROVE  IInv'
<1>1. PICK k \in Conns, t \in Tids :
        /\ thread[k].pc = "none"
        /\ thread' = [thread EXCEPT ![k] = Thread("poll", t)]
        /\ sock' = [sock EXCEPT ![k].open = TRUE, ![k].served = TRUE]
        /\ client' = [client EXCEPT ![p].st = "open", ![p].conn = k]
  BY Zenon DEF Connect
<1> DEFINE new == Thread("poll", t)
<1>2. /\ new \in ThreadType /\ new.pc = "poll" /\ new.tid # 0
      /\ new.index = 0 /\ ~new.named
  BY Zenon, MessageTypes, QatMgrAssumption DEF ThreadType, Thread
<1> HIDE DEF new
<1>3. thread' = [thread EXCEPT ![k] = new] /\ UNCHANGED <<assigned, mutex, lost>>
  BY Zenon, <1>1 DEF Connect, new
<1>4. QED
  BY Zenon, <1>1, <1>2, <1>3, NewConnection

LEMMA ConnectUnservedIInv ==
    ASSUME IInv, NEW p \in Clients, ConnectUnserved(p)
    PROVE  IInv'
<1>1. PICK k \in Conns :
        /\ thread[k].pc = "none"
        /\ thread' = [thread EXCEPT ![k] = Thread("closed", 0)]
        /\ sock' = [sock EXCEPT ![k].open = TRUE, ![k].served = TRUE]
        /\ client' = [client EXCEPT ![p].st = "open", ![p].conn = k]
  BY Zenon DEF ConnectUnserved
<1> DEFINE new == Thread("closed", 0)
<1>2. new \in ThreadType /\ new.pc = "closed" /\ new.index = 0 /\ ~new.named
  BY Zenon, MessageTypes DEF ThreadType, Thread
<1> HIDE DEF new
<1>3. thread' = [thread EXCEPT ![k] = new] /\ UNCHANGED <<assigned, mutex, lost>>
  BY Zenon, <1>1 DEF ConnectUnserved, new
<1>4. QED
  BY Zenon, <1>1, <1>2, <1>3, NewConnection

\* A process asks only when nothing is under way on its connection.
LEMMA AskSectionIInv ==
    ASSUME IInv, NEW p \in Clients, AskSection(p)
    PROVE  IInv'
<1>1. PICK k \in Conns : k = client[p].conn /\ On(p, k) /\ ConnOK(p, k)
  BY Zenon DEF IInv, ClientInv, On, AskSection, Ask
<1>2. /\ sock' = [sock EXCEPT ![k].req = [type |-> "GET"]]
      /\ client[p].st = "open" /\ client' = [client EXCEPT ![p].st = "get"]
      /\ UNCHANGED <<assigned, mutex, thread, lost>>
  BY Zenon, <1>1 DEF AskSection, Ask
<1>3. TypeOK'
  BY <1>1, <1>2, MessageTypes DEF IInv, TypeOK, SockType, ClientType
<1>4. ConnOK(p, k)'
  BY <1>1, <1>2 DEF IInv, TypeOK, SockType, ClientType, ConnOK
<1>5. client'[p].conn = k
  BY Zenon, <1>1, <1>2 DEF IInv, TypeOK, ClientType
<1>6. QED
  BY Zenon, <1>1, <1>2, <1>3, <1>4, <1>5, ProcessStep DEF IInv, TypeOK

LEMMA AskInfoIInv ==
    ASSUME IInv, NEW p \in Clients, AskInfo(p)
    PROVE  IInv'
<1>1. PICK k \in Conns : k = client[p].conn /\ On(p, k) /\ ConnOK(p, k)
  BY Zenon DEF IInv, ClientInv, On, AskInfo, Ask
<1>2. /\ sock' = [sock EXCEPT ![k].req = [type |-> "INFO"]]
      /\ client[p].st = "up" /\ client' = [client EXCEPT ![p].st = "query"]
      /\ UNCHANGED <<assigned, mutex, thread, lost>>
  BY Zenon, <1>1 DEF AskInfo, Ask
<1>3. TypeOK'
  BY SMTT(30), <1>1, <1>2, MessageTypes DEF IInv, TypeOK, SockType, ClientType
<1>4. ConnOK(p, k)'
  BY <1>1, <1>2 DEF IInv, TypeOK, SockType, ClientType, ConnOK
<1>5. client'[p].conn = k
  BY Zenon, <1>1, <1>2 DEF IInv, TypeOK, ClientType
<1>6. QED
  BY Zenon, <1>1, <1>2, <1>3, <1>4, <1>5, ProcessStep DEF IInv, TypeOK

LEMMA PutSectionIInv ==
    ASSUME IInv, NEW p \in Clients, PutSection(p)
    PROVE  IInv'
<1>1. PICK k \in Conns : k = client[p].conn /\ On(p, k) /\ ConnOK(p, k)
  BY Zenon DEF IInv, ClientInv, On, PutSection, Ask
<1>2. PICK r \in Requests : sock' = [sock EXCEPT ![k].req = r]
  BY Zenon, <1>1, MessageTypes DEF IInv, TypeOK, ClientType, PutSection, Ask
<1>3. /\ client[p].st = "up" /\ client' = [client EXCEPT ![p].st = "put"]
      /\ UNCHANGED <<assigned, mutex, thread, lost>>
  BY Zenon DEF PutSection, Ask
<1>4. TypeOK'
  BY SMTT(30), <1>1, <1>2, <1>3 DEF IInv, TypeOK, SockType, ClientType
<1>5. ConnOK(p, k)'
  BY Zenon, <1>1, <1>2, <1>3 DEF IInv, TypeOK, SockType, ClientType, ConnOK
<1>6. client'[p].conn = k
  BY Zenon, <1>1, <1>3 DEF IInv, TypeOK, ClientType
<1>7. QED
  BY Zenon, <1>1, <1>2, <1>3, <1>4, <1>5, <1>6, ProcessStep DEF IInv, TypeOK

\* A process that closes its socket, or whose socket the kernel closes.
LEMMA LeaveIInv ==
    ASSUME IInv, NEW p \in Clients, NEW k \in Conns, On(p, k), NEW rsp \in Answers,
           sock' = [sock EXCEPT ![k].rsp = rsp, ![k].open = FALSE],
           client' = [client EXCEPT ![p] = Down],
           UNCHANGED <<assigned, mutex, thread, lost>>
    PROVE  IInv'
<1>1. TypeOK'
  <2>1. Down \in ClientType
    BY Zenon DEF ClientType, Down
  <2>2. sock' \in [Conns -> SockType]
    BY Zenon DEF IInv, TypeOK, SockType
  <2>3. QED
    BY Zenon, <2>1, <2>2 DEF IInv, TypeOK
<1>2. client'[p].st = "down"
  BY Zenon DEF IInv, TypeOK, Down
<1>3. /\ \A j \in Conns \ {k} : sock'[j] = sock[j]
      /\ \A q \in Clients \ {p} : client'[q] = client[q]
  BY Zenon DEF IInv, TypeOK
<1>4. QED
  BY Zenon, <1>1, <1>2, <1>3, ProcessStep

LEMMA RefusedIInv ==
    ASSUME IInv, NEW p \in Clients, Refused(p) \/ Crash(p)
    PROVE  IInv'
<1>1. PICK k \in Conns : k = client[p].conn /\ On(p, k)
  BY Zenon DEF IInv, ClientInv, On, Refused, Crash
<1>2. sock' = [sock EXCEPT ![k].rsp = sock[k].rsp, ![k].open = FALSE]
  BY Zenon, <1>1 DEF IInv, TypeOK, SockType, Refused, Crash
<1>3. sock[k].rsp \in Answers
  BY Zenon DEF IInv, TypeOK, SockType
<1>4. /\ client' = [client EXCEPT ![p] = Down]
      /\ UNCHANGED <<assigned, mutex, thread, lost>>
  BY Zenon DEF Refused, Crash
<1>5. QED
  BY Zenon, <1>1, <1>2, <1>3, <1>4, LeaveIInv

\* An answer to SECTION_GET that names a section makes the process its owner.
LEMMA AnsweredIInv ==
    ASSUME IInv, NEW p \in Clients, Answered(p)
    PROVE  IInv'
<1>1. PICK k \in Conns : k = client[p].conn /\ On(p, k) /\ ConnOK(p, k)
  BY Zenon DEF IInv, ClientInv, On, Answered
<1> DEFINE leaves == \/ client[p].st = "put"
                     \/ client[p].st = "get" /\ sock[k].rsp = BAD
<1>2. /\ client[p].st \in {"get", "query", "put"} /\ sock[k].rsp # None
      /\ sock' = [sock EXCEPT ![k].rsp = None, ![k].open = ~leaves]
      /\ client' = [client EXCEPT ![p] =
                 IF leaves THEN Down
                 ELSE [@ EXCEPT !.st = "up",
                                !.section = IF client[p].st = "get"
                                            THEN sock[k].rsp.name
                                            ELSE client[p].section]]
      /\ UNCHANGED <<assigned, mutex, thread, lost>>
  BY Zenon, <1>1 DEF Answered
<1>3. CASE leaves
  BY Zenon, <1>1, <1>2, <1>3, MessageTypes, LeaveIInv
<1>4. CASE ~leaves
  <2>1. client[p].st = "get" =>
          thread[k].named /\ sock[k].rsp = [type |-> "GET", name |-> thread[k].index]
    BY Zenon, <1>1, <1>2, <1>4 DEF ConnOK, Granted
  <2>2. PICK i \in {0} \cup Sections : thread[k].index = i
    BY Zenon DEF IInv, TypeOK, ThreadType
  <2>3. thread[k].named /\ thread[k].pc = "read" /\ sock[k].req = None
    BY Zenon, <1>1, <1>2, <1>4, <2>1 DEF ConnOK, Granted
  <2>4. client' = [client EXCEPT ![p] = [client[p] EXCEPT !.st = "up", !.section = i]]
    <3> DEFINE name == IF client[p].st = "get" THEN sock[k].rsp.name
                       ELSE client[p].section
    <3>1. name = i
      BY <1>1, <1>2, <1>4, <2>1, <2>2 DEF ConnOK
    <3>2. client' = [client EXCEPT ![p] = [client[p] EXCEPT !.st = "up", !.section = name]]
      BY Zenon, <1>2, <1>4
    <3> HIDE DEF name
    <3>3. QED
      BY ZenonT(30), <3>1, <3>2
  <2>5. [client[p] EXCEPT !.st = "up", !.section = i] \in ClientType
    BY Zenon DEF IInv, TypeOK, ClientType
  <2>6. sock' \in [Conns -> SockType]
    BY ZenonT(30), <1>2, <1>4, MessageTypes DEF IInv, TypeOK, SockType
  <2>7. TypeOK'
    BY <1>2, <2>4, <2>5, <2>6 DEF IInv, TypeOK
  <2>8. client'[p].st = "up" /\ client'[p].conn = k /\ client'[p].section = i
    BY Zenon, <1>1, <2>4 DEF IInv, TypeOK, ClientType
  <2>9. sock'[k].open /\ sock'[k].rsp = None /\ sock'[k].req = None
    BY <1>2, <1>4, <2>3 DEF IInv, TypeOK, SockType
  <2>10. ConnOK(p, k)'
    BY Zenon, <1>2, <2>2, <2>3, <2>8, <2>9 DEF ConnOK
  <2>11. QED
    BY Zenon, <1>1, <1>2, <2>4, <2>7, <2>8, <2>10, ProcessStep DEF IInv, TypeOK
<1>5. QED
  BY Zenon, <1>3, <1>4
-----------------------------------------------------------------------------
(* The daemon's thread.                                                    *)

\* A thread whose first request does not come has no section.
LEMMA PollTimeoutIInv ==
    ASSUME IInv, NEW k \in Conns, PollTimeout(k)
    PROVE  IInv'
<1> USE DEF PollTimeout
<1>1. TypeOK'
  BY DEF IInv, TypeOK, ThreadType
<1>2. /\ thread[k] \in ThreadType /\ thread'[k] = [thread[k] EXCEPT !.pc = "end"]
      /\ \A j \in Conns \ {k} : thread'[j] = thread[j] /\ sock'[j] = sock[j]
  BY Zenon DEF IInv, TypeOK
<1>3. ThreadOK(k)'
  BY <1>2 DEF IInv, ThreadInv, ThreadOK, ThreadType
<1>4. ASSUME NEW p \in Clients, On(p, k)
      PROVE  ConnOK(p, k)'
  BY <1>2, <1>4 DEF IInv, ClientInv, ConnOK, ThreadType, None
<1>5. QED
  BY <1>1, <1>2, <1>3, <1>4, LocalStep DEF ThreadType

LEMMA EndOfFileIInv ==
    ASSUME IInv, NEW k \in Conns, EndOfFile(k)
    PROVE  IInv'
<1> USE DEF EndOfFile
<1>1. TypeOK'
  BY DEF IInv, TypeOK, ThreadType
<1>2. /\ thread[k] \in ThreadType /\ thread'[k] = [thread[k] EXCEPT !.pc = "end"]
      /\ \A j \in Conns \ {k} : thread'[j] = thread[j] /\ sock'[j] = sock[j]
  BY Zenon DEF IInv, TypeOK
<1>3. ThreadOK(k)'
  BY <1>2 DEF IInv, ThreadInv, ThreadOK, ThreadType
<1>4. \A p \in Clients : ~On(p, k)
  BY Zenon DEF IInv, ClientInv, ConnOK
<1>5. QED
  BY <1>1, <1>2, <1>3, <1>4, LocalStep DEF ThreadType

LEMMA HandleInfoIInv ==
    ASSUME IInv, NEW k \in Conns, HandleInfo(k)
    PROVE  IInv'
<1>1. thread[k] \in ThreadType /\ sock[k] \in SockType /\ ThreadOK(k)
  BY Zenon DEF IInv, TypeOK, ThreadInv
<1>2. PICK a \in Answers :
        thread' = [thread EXCEPT ![k] = Replied(thread[k], a)]
  BY Zenon, <1>1, MessageTypes DEF HandleInfo, Reply, Replied, ThreadType
<1>3. /\ thread[k].pc \in {"poll", "read"} /\ sock[k].req.type = "INFO"
      /\ sock' = [sock EXCEPT ![k].req = None]
      /\ UNCHANGED <<assigned, mutex, client, lost>>
  BY Zenon DEF HandleInfo, Reads
<1>4. /\ thread'[k] = Replied(thread[k], a)
      /\ sock'[k] = [sock[k] EXCEPT !.req = None]
      /\ \A j \in Conns \ {k} : thread'[j] = thread[j] /\ sock'[j] = sock[j]
  BY Zenon, <1>2, <1>3 DEF IInv, TypeOK
<1>5. /\ thread'[k] \in ThreadType /\ thread'[k].pc = "write"
      /\ Same(k, thread'[k])
  BY <1>1, <1>4, RepliedFields DEF Same
<1>6. /\ sock'[k] \in SockType /\ sock'[k].req = None
      /\ sock'[k].rsp = sock[k].rsp /\ sock'[k].open = sock[k].open
  BY Zenon, <1>1, <1>4, MessageTypes DEF SockType
<1>7. TypeOK'
  BY Zenon, <1>2, <1>3, <1>5, <1>6 DEF IInv, TypeOK
<1>8. ThreadOK(k)'
  BY Zenon, <1>1, <1>3, <1>5, <1>6 DEF ThreadOK, Same
<1>9. ASSUME NEW p \in Clients, On(p, k)
      PROVE  ConnOK(p, k)'
  <2>1. sock[k].req # None /\ sock[k].req # [type |-> "GET"]
    BY <1>3 DEF None
  <2>2. client[p].st \in {"query", "put"} /\ ConnOK(p, k)
    BY Zenon, <1>3, <1>9, <2>1, OnConn DEF ConnOK
  <2>3. QED
    BY Zenon, <1>3, <1>5, <1>6, <2>1, <2>2 DEF ConnOK, Same
<1>10. QED
  BY Zenon, <1>3, <1>4, <1>5, <1>7, <1>8, <1>9, LocalStep DEF Same

\* A thread that has a section, or its name, is refused a second one.
LEMMA HandleSectionRequestIInv ==
    ASSUME IInv, NEW k \in Conns, HandleSectionRequest(k)
    PROVE  IInv'
<1> DEFINE has == thread[k].named \/ thread[k].index # 0
<1>1. thread[k] \in ThreadType /\ sock[k] \in SockType /\ ThreadOK(k)
  BY DEF IInv, TypeOK, ThreadInv
<1>2. /\ thread[k].pc \in {"poll", "read"} /\ sock[k].req.type = "GET"
      /\ sock' = [sock EXCEPT ![k].req = None]
      /\ UNCHANGED <<assigned, mutex, client, lost>>
  BY Zenon DEF HandleSectionRequest, Reads
<1>3. /\ has => thread' = [thread EXCEPT ![k] = Replied(thread[k], BAD)]
      /\ ~has => thread' = [thread EXCEPT ![k] = [thread[k] EXCEPT !.pc = "lock"]]
  BY Zenon DEF HandleSectionRequest, Reply, Replied
<1>4. /\ has => thread'[k] = Replied(thread[k], BAD)
      /\ ~has => thread'[k] = [thread[k] EXCEPT !.pc = "lock"]
      /\ sock'[k] = [sock[k] EXCEPT !.req = None]
      /\ \A j \in Conns \ {k} : thread'[j] = thread[j] /\ sock'[j] = sock[j]
  BY Zenon, <1>2, <1>3 DEF IInv, TypeOK
<1>5. /\ thread'[k] \in ThreadType /\ Same(k, thread'[k])
      /\ has => thread'[k].pc = "write" /\ thread'[k].answer = BAD
      /\ ~has => thread'[k].pc = "lock"
  <2>1. CASE has
    BY <1>1, <1>4, <2>1, MessageTypes, RepliedFields DEF Same
  <2>2. CASE ~has
    BY Zenon, <1>1, <1>4, <2>2 DEF ThreadType, Same
  <2>3. QED
    BY Zenon, <2>1, <2>2
<1>6. /\ sock'[k] \in SockType /\ sock'[k].req = None
      /\ sock'[k].rsp = sock[k].rsp /\ sock'[k].open = sock[k].open
  BY Zenon, <1>1, <1>4, MessageTypes DEF SockType
<1>7. TypeOK'
  BY Zenon, <1>2, <1>3, <1>5, <1>6 DEF IInv, TypeOK
<1>8. ThreadOK(k)'
  BY Zenon, <1>1, <1>2, <1>5, <1>6 DEF ThreadOK, Same
<1>9. ASSUME NEW p \in Clients, On(p, k)
      PROVE  ConnOK(p, k)'
  <2>1. sock[k].req # None /\ sock[k].req # [type |-> "INFO"]
    BY <1>2 DEF None
  <2>2. client[p].st \in {"get", "put"} /\ ConnOK(p, k)
    BY Zenon, <1>2, <1>9, <2>1, OnConn DEF ConnOK
  <2>3. QED
    BY Zenon, <1>2, <1>5, <1>6, <2>1, <2>2 DEF ConnOK, Granted
<1>10. QED
  BY Zenon, <1>2, <1>4, <1>5, <1>7, <1>8, <1>9, LocalStep DEF Same

LEMMA LockIInv ==
    ASSUME IInv, NEW k \in Conns, Lock(k)
    PROVE  IInv'
<1>1. thread[k] \in ThreadType /\ ThreadOK(k)
  BY Zenon DEF IInv, TypeOK, ThreadInv
<1>2. /\ thread[k].pc = "lock" /\ mutex = 0 /\ mutex' = k
      /\ UNCHANGED <<assigned, sock, client, lost>>
      /\ thread' = [thread EXCEPT ![k] = thread'[k]]
      /\ thread'[k] = Scanning(thread[k], 1)
      /\ \A j \in Conns \ {k} : thread'[j] = thread[j] /\ sock'[j] = sock[j]
  BY Zenon DEF IInv, TypeOK, Lock, Scanning
<1>3. thread'[k] \in ThreadType /\ thread'[k].pc = "scan" /\ Same(k, thread'[k])
  BY <1>1, <1>2, ScanningFields DEF Same
<1>4. TypeOK'
  BY Zenon, <1>2, <1>3 DEF IInv, TypeOK
<1>5. ThreadOK(k)'
  BY Zenon, <1>1, <1>2, <1>3 DEF ThreadOK, Same
<1>6. ASSUME NEW p \in Clients, On(p, k)
      PROVE  ConnOK(p, k)'
  BY Zenon, <1>2, <1>3, <1>6, OnConn DEF ConnOK, Same
<1>7. AssignedHasThread'
  <2>1. \A j \in Conns : thread[j].pc # "closed" =>
          thread'[j].pc # "closed" /\ thread'[j].index = thread[j].index
    BY Zenon, <1>2, <1>3 DEF Same
  <2>2. QED
    BY <1>2, <2>1 DEF IInv, AssignedHasThread
<1>8. ASSUME NEW j \in Conns, j # k
      PROVE  /\ mutex' = j <=> mutex = j
             /\ thread[j].index # 0 => thread'[k].index # thread[j].index
  BY <1>2, <1>3, <1>8 DEF IInv, IndexInv, Same, Conns
<1>9. QED
  BY Zenon, <1>2, <1>4, <1>5, <1>6, <1>7, <1>8, ThreadStep

LEMMA ScanIInv ==
    ASSUME IInv, NEW k \in Conns, ScanTaken(k) \/ ScanFree(k)
    PROVE  IInv'
<1> USE DEF ScanTaken, ScanFree
<1>1. thread[k] \in ThreadType /\ ThreadOK(k) /\ thread[k].pc = "scan"
  BY Zenon DEF IInv, TypeOK, ThreadInv
<1>2. /\ \/ thread'[k] = [thread[k] EXCEPT !.i = thread[k].i + 1]
         \/ /\ thread'[k] = [thread[k] EXCEPT !.pc = "mark"]
            /\ thread[k].i \in Sections /\ assigned[thread[k].i] = 0
      /\ \A j \in Conns \ {k} : thread'[j] = thread[j] /\ sock'[j] = sock[j]
  BY Zenon DEF IInv, TypeOK
<1>3. /\ thread'[k] \in ThreadType /\ Same(k, thread'[k])
      /\ \/ thread'[k].pc = "scan"
         \/ /\ thread'[k].pc = "mark" /\ thread'[k].i \in Sections
            /\ assigned[thread'[k].i] = 0
  BY <1>1, <1>2 DEF ThreadType, Same
<1>4. TypeOK'
  BY Zenon, <1>2, <1>3 DEF IInv, TypeOK
<1>5. ThreadOK(k)'
  BY Zenon, <1>1, <1>2, <1>3 DEF ThreadOK, Same
<1>6. ASSUME NEW p \in Clients, On(p, k)
      PROVE  ConnOK(p, k)'
  BY <1>1, <1>3, <1>6, OnConn DEF ConnOK, Same
<1>7. QED
  BY Zenon, <1>2, <1>3, <1>4, <1>5, <1>6, LocalStep DEF Same

\* The section that is marked was free all the time since it was seen free: only
\* the holder of the mutex marks sections.
LEMMA MarkIInv ==
    ASSUME IInv, NEW k \in Conns, Mark(k)
    PROVE  IInv'
<1>1. thread[k] \in ThreadType /\ ThreadOK(k)
  BY DEF IInv, TypeOK, ThreadInv
<1>2. PICK i \in Sections : i = thread[k].i /\ assigned[i] = 0 /\ i # 0
  BY <1>1 DEF Mark, ThreadOK, Sections
<1>3. /\ thread[k].pc = "mark" /\ mutex' = 0 /\ UNCHANGED <<client, lost>>
      /\ thread' = [thread EXCEPT ![k] = thread'[k]] /\ sock' = sock
      /\ thread'[k] = Marked(thread[k], i, 1)
      /\ assigned' = [assigned EXCEPT ![i] = thread[k].tid]
      /\ \A j \in Conns \ {k} : thread'[j] = thread[j] /\ sock'[j] = sock[j]
  BY Zenon, <1>2 DEF IInv, TypeOK, Mark, Marked
<1>4. /\ thread'[k] \in ThreadType /\ thread'[k].pc = "name"
      /\ thread'[k].index = i /\ thread'[k].tid = thread[k].tid
      /\ thread'[k].named = thread[k].named
  <2>1. i \in {0} \cup Sections /\ 1 \in Nat
    OBVIOUS
  <2> DEFINE s == Marked(thread[k], i, 1)
  <2>2. /\ s \in ThreadType /\ s.pc = "name"
        /\ s.tid = thread[k].tid /\ s.index = i /\ s.named = thread[k].named
    BY Zenon, <1>1, <2>1, MarkedFields
  <2>3. QED
    BY Zenon, <1>3, <2>2
<1>5. TypeOK'
  BY <1>1, <1>3, <1>4 DEF IInv, TypeOK, ThreadType
<1>6. thread[k].tid # 0 /\ ~thread[k].named /\ mutex = k
  BY Zenon, <1>1, <1>3 DEF ThreadOK
<1>7. ThreadOK(k)'
  BY <1>1, <1>2, <1>3, <1>4, <1>6 DEF IInv, TypeOK, ThreadOK, Conns
<1>8. ASSUME NEW p \in Clients, On(p, k)
      PROVE  ConnOK(p, k)'
  BY Zenon, <1>3, <1>4, <1>6, <1>8, OnConn DEF ConnOK
<1>9. ASSUME NEW j \in Conns, j # k
      PROVE  /\ mutex' = j <=> mutex = j
             /\ thread[j].index # 0 =>
                   /\ assigned'[thread[j].index] = assigned[thread[j].index]
                   /\ thread'[k].index # thread[j].index
             /\ thread[j].pc # "mark"
  <2>1. thread[j] \in ThreadType /\ ThreadOK(j)
    BY Zenon DEF IInv, TypeOK, ThreadInv
  <2>2. mutex # j /\ mutex' # j
    BY <1>3, <1>6, <1>9 DEF Conns
  <2>3. thread[j].pc \notin {"scan", "mark"}
    BY Zenon, <2>1, <2>2 DEF ThreadOK
  <2>4. thread[j].index # 0 => thread[j].index \in Sections /\ thread[j].index # i
    BY Zenon, <1>2, <2>1, QatMgrAssumption DEF ThreadOK, ThreadType
  <2>5. QED
    BY Zenon, <1>3, <1>4, <2>2, <2>3, <2>4 DEF IInv, TypeOK
<1>10. AssignedHasThread'
  <2>1. \A l \in Sections \ {i} : assigned'[l] = assigned[l]
    BY Zenon, <1>3 DEF IInv, TypeOK
  <2>2. thread[k].index = 0
    BY Zenon, <1>1, <1>3 DEF ThreadOK
  <2>3. \A j \in Conns, l \in Sections :
          thread[j].pc # "closed" /\ thread[j].index = l => thread'[j] = thread[j]
    BY <1>3, <2>2 DEF Sections
  <2>4. QED
    BY <1>3, <1>4, <2>1, <2>3 DEF IInv, AssignedHasThread
<1>11. QED
  BY Zenon, <1>3, <1>5, <1>7, <1>8, <1>9, <1>10, ThreadStep

LEMMA ScanNoneIInv ==
    ASSUME IInv, NEW k \in Conns, ScanNone(k)
    PROVE  IInv'
<1>1. thread[k] \in ThreadType /\ ThreadOK(k) /\ thread[k].pc = "scan"
  BY Zenon DEF IInv, TypeOK, ThreadInv, ScanNone
<1>2. /\ mutex' = 0 /\ UNCHANGED <<assigned, sock, client, lost>>
      /\ thread' = [thread EXCEPT ![k] = thread'[k]]
      /\ thread'[k] = [Replied(thread[k], BAD) EXCEPT !.i = 1]
      /\ \A j \in Conns \ {k} : thread'[j] = thread[j] /\ sock'[j] = sock[j]
  BY Zenon DEF IInv, TypeOK, ScanNone, Reply, Replied
<1>3. /\ thread'[k] \in ThreadType /\ Same(k, thread'[k])
      /\ thread'[k].pc = "write" /\ thread'[k].answer = BAD
  <2>1. PICK r \in ThreadType : r = Replied(thread[k], BAD) /\ Same(k, r)
                                /\ r.pc = "write" /\ r.answer = BAD
    BY Zenon, <1>1, MessageTypes, RepliedFields DEF Same
  <2>2. QED
    BY <1>2, <2>1 DEF ThreadType, Same
<1>4. TypeOK'
  BY Zenon, <1>2, <1>3 DEF IInv, TypeOK
<1>5. mutex = k /\ 0 \notin Conns
  BY <1>1 DEF ThreadOK, Conns
<1>6. ThreadOK(k)'
  BY Zenon, <1>1, <1>2, <1>3, <1>5 DEF ThreadOK, Same
<1>7. ASSUME NEW p \in Clients, On(p, k)
      PROVE  ConnOK(p, k)'
  BY Zenon, <1>1, <1>2, <1>3, <1>7, OnConn DEF ConnOK, Granted, Same
<1>8. AssignedHasThread'
  <2>1. \A j \in Conns : thread[j].pc # "closed" =>
          thread'[j].pc # "closed" /\ thread'[j].index = thread[j].index
    BY Zenon, <1>2, <1>3 DEF Same
  <2>2. QED
    BY <1>2, <2>1 DEF IInv, AssignedHasThread
<1>9. ASSUME NEW j \in Conns, j # k
      PROVE  /\ mutex' = j <=> mutex = j
             /\ thread[j].index # 0 => thread'[k].index # thread[j].index
  BY <1>2, <1>3, <1>5, <1>9 DEF IInv, IndexInv, Same
<1>10. QED
  BY Zenon, <1>2, <1>4, <1>6, <1>7, <1>8, <1>9, ThreadStep

\* Without memory for the name the section counts as lost.
LEMMA KeepNameIInv ==
    ASSUME IInv, NEW k \in Conns, KeepName(k)
    PROVE  IInv'
<1>1. thread[k] \in ThreadType /\ ThreadOK(k) /\ thread[k].pc = "name"
  BY Zenon DEF IInv, TypeOK, ThreadInv, KeepName
<1>2. PICK x \in {0} \cup Sections : x = thread[k].index
  BY Zenon, <1>1 DEF ThreadType
<1> DEFINE got == [type |-> "GET", name |-> x]
<1>3. /\ UNCHANGED <<assigned, mutex, sock, client>>
      /\ thread' = [thread EXCEPT ![k] = thread'[k]]
      /\ \A j \in Conns \ {k} : thread'[j] = thread[j] /\ sock'[j] = sock[j]
      /\ \/ /\ thread'[k] = [Replied(thread[k], got) EXCEPT !.named = TRUE]
            /\ lost' = lost
         \/ thread'[k] = Replied(thread[k], BAD) /\ lost' = lost \cup {x}
  BY Zenon, <1>2 DEF IInv, TypeOK, KeepName, Reply, Replied
<1>4. /\ thread'[k] \in ThreadType /\ thread'[k].pc = "write"
      /\ thread'[k].tid = thread[k].tid /\ thread'[k].index = x
      /\ \/ thread'[k].named /\ thread'[k].answer = got
         \/ thread'[k].answer = BAD /\ x \in lost' /\ ~thread'[k].named
  <2>1. CASE thread'[k] = [Replied(thread[k], got) EXCEPT !.named = TRUE]
    <3>1. got \in Answers
      BY Zenon, MessageTypes
    <3> HIDE DEF got
    <3>2. PICK r \in ThreadType : r = Replied(thread[k], got) /\ Same(k, r)
                                  /\ r.pc = "write" /\ r.answer = got
      BY Zenon, <1>1, <3>1, RepliedFields DEF Same
    <3>3. QED
      BY Zenon, <1>2, <2>1, <3>2 DEF ThreadType, Same
  <2>2. CASE thread'[k] = Replied(thread[k], BAD) /\ lost' = lost \cup {x}
    <3>1. ~thread[k].named
      BY Zenon, <1>1 DEF ThreadOK
    <3>2. QED
      BY SMTT(30), <1>1, <1>2, <2>2, <3>1, MessageTypes, RepliedFields
  <2>3. QED
    BY Zenon, <1>3, <2>1, <2>2
<1>5. TypeOK'
  BY Zenon, <1>3, <1>4 DEF IInv, TypeOK
<1>6. ThreadOK(k)'
  BY Zenon, <1>1, <1>2, <1>3, <1>4 DEF ThreadOK
<1>7. ASSUME NEW p \in Clients, On(p, k)
      PROVE  ConnOK(p, k)'
  <2>1. client[p].st \in {"get", "put"} /\ ConnOK(p, k)
    BY Zenon, <1>1, <1>7, OnConn DEF ConnOK
  <2>2. Granted(k, thread[k].answer)'
    BY Zenon, <1>4 DEF Granted
  <2>3. QED
    BY Zenon, <1>1, <1>3, <1>4, <2>1, <2>2 DEF ConnOK
<1>8. lost \subseteq lost'
  BY Zenon, <1>3
<1>9. QED
  BY Zenon, <1>2, <1>3, <1>4, <1>5, <1>6, <1>7, <1>8, LocalStep

LEMMA WriteIInv ==
    ASSUME IInv, NEW k \in Conns, Write(k)
    PROVE  IInv'
<1>1. /\ thread[k] \in ThreadType /\ ThreadOK(k) /\ thread[k].pc = "write"
      /\ sock[k] \in SockType
  BY Zenon DEF IInv, TypeOK, ThreadInv, Write
<1>2. PICK to \in {"read", "end"} :
        /\ to = IF sock[k].open THEN "read" ELSE "end"
        /\ thread' = [thread EXCEPT ![k].pc = to, ![k].answer = None]
  BY Zenon DEF Write
<1>3. PICK a \in Answers :
        /\ sock[k].open => a = thread[k].answer
        /\ sock' = [sock EXCEPT ![k].rsp = a]
  BY Zenon, <1>1 DEF Write, ThreadType, SockType
<1>4. UNCHANGED <<assigned, mutex, client, lost>>
  BY Zenon DEF Write
<1>5. /\ thread'[k] = [thread[k] EXCEPT !.pc = to, !.answer = None]
      /\ sock'[k] = [sock[k] EXCEPT !.rsp = a]
      /\ \A j \in Conns \ {k} : thread'[j] = thread[j] /\ sock'[j] = sock[j]
  BY Zenon, <1>2, <1>3 DEF IInv, TypeOK
<1>6. thread'[k].pc = to /\ Same(k, thread'[k])
  BY Zenon, <1>1, <1>5 DEF ThreadType, Same
<1>7. thread'[k] \in ThreadType
  <2>1. None \in Answers
    BY Zenon, MessageTypes
  <2>2. to \in {"none", "poll", "read", "lock", "scan", "mark", "name", "write", "end",
                "closed"}
    OBVIOUS
  <2>3. QED
    BY Zenon, <1>1, <1>5, <2>1, <2>2 DEF ThreadType
<1>8. /\ sock'[k] \in SockType /\ sock'[k].rsp = a
      /\ sock'[k].req = sock[k].req /\ sock'[k].open = sock[k].open
  BY Zenon, <1>1, <1>5 DEF SockType
<1>9. TypeOK'
  BY Zenon, <1>2, <1>3, <1>4, <1>7, <1>8 DEF IInv, TypeOK
<1>10. ThreadOK(k)'
  BY Zenon, <1>1, <1>4, <1>6 DEF ThreadOK, Same
<1>11. ASSUME NEW p \in Clients, On(p, k)
       PROVE  ConnOK(p, k)'
  <2>1. client[p].st \in {"get", "query", "put"} /\ ConnOK(p, k) /\ sock[k].open
    BY Zenon, <1>1, <1>11, OnConn DEF ConnOK
  <2>2. to = "read" /\ a = thread[k].answer
    BY Zenon, <1>2, <1>3, <2>1
  <2>3. client[p].st = "get" => Granted(k, sock[k].rsp)'
    BY Zenon, <1>1, <1>6, <1>8, <2>1, <2>2 DEF ConnOK, Granted, Same
  <2>4. QED
    BY Zenon, <1>1, <1>4, <1>6, <1>8, <2>1, <2>2, <2>3 DEF ConnOK, Same
<1>12. QED
  BY Zenon, <1>4, <1>5, <1>6, <1>9, <1>10, <1>11, LocalStep DEF Same

\* A thread that leaves its section unmarks it, or the section is lost; that of
\* another thread stays marked, whatever its tid, and one seen free stays free.
LEMMA GiveUp ==
    ASSUME IInv, TypeOK', NEW k \in Conns, UNCHANGED <<mutex, client, lost>>,
           thread[k].pc \notin {"scan", "mark", "name"}, thread'[k].index = 0,
           \A j \in Conns \ {k} : thread'[j] = thread[j] /\ sock'[j] = sock[j],
           assigned' = IF thread[k].named
                       THEN [assigned EXCEPT ![thread[k].index] = 0] ELSE assigned,
           ThreadOK(k)', \A p \in Clients : On(p, k) => ConnOK(p, k)'
    PROVE  IInv'
<1>1. ThreadOK(k) /\ 0 \notin Sections
  BY DEF IInv, ThreadInv, Sections
<1>2. \A l \in Sections :
        assigned'[l] = IF thread[k].named /\ l = thread[k].index THEN 0 ELSE assigned[l]
  BY Zenon DEF IInv, TypeOK
<1>3. AssignedHasThread'
  <2>1. ASSUME NEW l \in Sections \ lost, assigned'[l] # 0
        PROVE  \E j \in Conns : thread'[j].pc # "closed" /\ thread'[j].index = l
    <3>1. PICK j \in Conns : thread[j].pc # "closed" /\ thread[j].index = l
      BY Zenon, <1>2, <2>1 DEF IInv, AssignedHasThread
    <3>2. j # k
      BY Zenon, <1>1, <1>2, <2>1, <3>1 DEF ThreadOK
    <3>3. QED
      BY Zenon, <3>1, <3>2
  <2>2. QED
    BY Zenon, <2>1 DEF AssignedHasThread
<1>4. ASSUME NEW j \in Conns, j # k
      PROVE  /\ thread[j].index # 0 =>
                   /\ assigned'[thread[j].index] = assigned[thread[j].index]
                   /\ thread'[k].index # thread[j].index
             /\ thread[j].pc = "mark" =>
                   assigned'[thread[j].i] = assigned[thread[j].i]
  <2>1. thread[j] \in ThreadType /\ ThreadOK(j)
    BY Zenon DEF IInv, TypeOK, ThreadInv
  <2>2. thread[j].index # 0 =>
          thread[j].index \in Sections /\ thread[j].index # thread[k].index
    BY Zenon, <1>4, <2>1 DEF IInv, IndexInv, ThreadType
  <2>3. thread[j].pc = "mark" => thread[j].i \in Sections /\ assigned[thread[j].i] = 0
    BY Zenon, <2>1 DEF ThreadOK
  <2>4. QED
    BY Zenon, <1>2, <2>2, <2>3
<1>5. QED
  BY Zenon, <1>3, <1>4, ThreadStep

\* A section is released only by the thread that has its name and its index.
LEMMA HandleSectionReleaseIInv ==
    ASSUME IInv, NEW k \in Conns, HandleSectionRelease(k)
    PROVE  IInv'
<1> DEFINE released == thread[k].named /\ MayRelease(k, sock[k].req.name)
           done == [type |-> "PUT"]
<1>1. thread[k] \in ThreadType /\ sock[k] \in SockType /\ ThreadOK(k)
  BY DEF IInv, TypeOK, ThreadInv
<1>2. /\ thread[k].pc \in {"poll", "read"} /\ sock[k].req.type = "PUT"
      /\ sock' = [sock EXCEPT ![k].req = None]
      /\ UNCHANGED <<mutex, client, lost>>
  BY Zenon DEF HandleSectionRelease, Reads
<1>3. /\ released => thread' = [thread EXCEPT ![k] =
                                   Released(Replied(thread[k], done), 0)]
      /\ ~released => thread' = [thread EXCEPT ![k] = Replied(thread[k], BAD)]
      /\ assigned' = IF released THEN [assigned EXCEPT ![thread[k].index] = 0]
                     ELSE assigned
  BY Zenon DEF HandleSectionRelease, Reply, Replied, Released
<1>4. /\ released => thread'[k] = Released(Replied(thread[k], done), 0)
      /\ ~released => thread'[k] = Replied(thread[k], BAD)
      /\ sock'[k] = [sock[k] EXCEPT !.req = None]
      /\ \A j \in Conns \ {k} : thread'[j] = thread[j] /\ sock'[j] = sock[j]
  BY Zenon, <1>2, <1>3 DEF IInv, TypeOK
<1>5. /\ sock'[k] \in SockType /\ sock'[k].req = None
      /\ sock'[k].rsp = sock[k].rsp /\ sock'[k].open = sock[k].open
  BY Zenon, <1>1, <1>4, MessageTypes DEF SockType
<1>6. ASSUME NEW p \in Clients, On(p, k)
      PROVE  client[p].st = "put" /\ ConnOK(p, k)
  <2>1. /\ sock[k].req # None /\ sock[k].req # [type |-> "GET"]
        /\ sock[k].req # [type |-> "INFO"]
    BY <1>2 DEF None
  <2>2. QED
    BY Zenon, <1>2, <1>6, <2>1, OnConn DEF ConnOK
<1>7. CASE released
  <2>1. /\ thread'[k] \in ThreadType /\ thread'[k].pc = "write"
        /\ thread'[k].tid = thread[k].tid
        /\ thread'[k].index = 0 /\ ~thread'[k].named
    <3>1. PICK r \in ThreadType :
            r = Replied(thread[k], done) /\ r.pc = "write" /\ r.tid = thread[k].tid
      BY <1>1, MessageTypes, RepliedFields
    <3>2. thread'[k] = Released(r, 0)
      BY Zenon, <1>4, <1>7, <3>1
    <3>3. QED
      BY <3>1, <3>2, ReleasedFields
  <2>2. assigned' \in [Sections -> Tids \cup {0}]
    BY Zenon, <1>3, <1>7 DEF IInv, TypeOK
  <2>3. TypeOK'
    BY <1>2, <1>3, <1>5, <1>7, <2>1, <2>2 DEF IInv, TypeOK
  <2>4. ThreadOK(k)'
    BY Zenon, <1>1, <1>2, <2>1 DEF ThreadOK
  <2>5. \A p \in Clients : On(p, k) => ConnOK(p, k)'
    BY Zenon, <1>2, <1>5, <1>6, <2>1 DEF ConnOK
  <2>6. assigned' = IF thread[k].named
                    THEN [assigned EXCEPT ![thread[k].index] = 0] ELSE assigned
    BY Zenon, <1>3, <1>7
  <2>7. QED
    BY Zenon, <1>2, <1>4, <2>1, <2>3, <2>4, <2>5, <2>6, GiveUp
<1>8. CASE ~released
  <2>1. /\ thread'[k] \in ThreadType /\ thread'[k].pc = "write"
        /\ Same(k, thread'[k])
    BY <1>1, <1>4, <1>8, MessageTypes, RepliedFields DEF Same
  <2>2. TypeOK'
    BY Zenon, <1>2, <1>3, <1>5, <1>8, <2>1 DEF IInv, TypeOK
  <2>3. ThreadOK(k)'
    BY Zenon, <1>1, <1>2, <1>3, <1>8, <2>1 DEF ThreadOK, Same
  <2>4. \A p \in Clients : On(p, k) => ConnOK(p, k)'
    BY Zenon, <1>2, <1>5, <1>6, <2>1 DEF ConnOK
  <2>5. QED
    BY Zenon, <1>2, <1>3, <1>4, <1>8, <2>1, <2>2, <2>3, <2>4, LocalStep DEF Same
<1>9. QED
  BY Zenon, <1>7, <1>8

\* handle_client releases the section whose name it has, and only that.
LEMMA CloseIInv ==
    ASSUME IInv, NEW k \in Conns, Close(k)
    PROVE  IInv'
<1>1. thread[k] \in ThreadType /\ sock[k] \in SockType /\ ThreadOK(k)
  BY DEF IInv, TypeOK, ThreadInv
<1>2. /\ thread[k].pc = "end" /\ UNCHANGED <<mutex, client, lost>>
      /\ thread' = [thread EXCEPT ![k] = Thread("closed", 0)]
      /\ sock' = [sock EXCEPT ![k].served = FALSE, ![k].req = None]
  BY Zenon DEF Close
<1>3. thread[k].named => MayRelease(k, thread[k].index)
  BY Zenon, <1>1 DEF ThreadOK, ThreadType, MayRelease
<1>4. assigned' = IF thread[k].named
                  THEN [assigned EXCEPT ![thread[k].index] = 0] ELSE assigned
  BY Zenon, <1>3 DEF Close
<1>5. /\ thread'[k] = Thread("closed", 0)
      /\ sock'[k] = [sock[k] EXCEPT !.served = FALSE, !.req = None]
      /\ \A j \in Conns \ {k} : thread'[j] = thread[j] /\ sock'[j] = sock[j]
  BY Zenon, <1>2 DEF IInv, TypeOK
<1>6. /\ thread'[k] \in ThreadType /\ thread'[k].pc = "closed"
      /\ thread'[k].index = 0 /\ ~thread'[k].named
  BY <1>5, MessageTypes DEF ThreadType, Thread
<1>7. /\ sock'[k] \in SockType /\ sock'[k].req = None
      /\ sock'[k].rsp = sock[k].rsp /\ sock'[k].open = sock[k].open
  BY Zenon, <1>1, <1>5, MessageTypes DEF SockType
<1>8. TypeOK'
  BY Zenon, <1>2, <1>4, <1>6, <1>7 DEF IInv, TypeOK
<1>9. ThreadOK(k)'
  BY Zenon, <1>1, <1>2, <1>6 DEF ThreadOK
<1>10. ASSUME NEW p \in Clients, On(p, k)
       PROVE  ConnOK(p, k)'
  BY Zenon, <1>2, <1>6, <1>7, <1>10, OnConn DEF ConnOK
<1>11. QED
  BY Zenon, <1>2, <1>4, <1>5, <1>6, <1>8, <1>9, <1>10, GiveUp

-----------------------------------------------------------------------------

LEMMA StutterIInv ==
    ASSUME IInv, UNCHANGED vars
    PROVE  IInv'
BY SMTT(30) DEF vars, IInv, TypeOK, ThreadInv, ThreadOK, IndexInv, ClientInv, On, ConnOK,
       Granted, AssignedHasThread

\* Every step of a process or of the daemon preserves the invariant.
LEMMA NextIInv ==
    ASSUME IInv, [Next]_vars
    PROVE  IInv'
<1>1. ASSUME NEW p \in Clients,
             \/ Connect(p) \/ ConnectUnserved(p) \/ AskSection(p) \/ AskInfo(p)
             \/ PutSection(p) \/ Answered(p) \/ Refused(p) \/ Crash(p)
      PROVE  IInv'
  BY Zenon, <1>1, ConnectIInv, ConnectUnservedIInv, AskSectionIInv, AskInfoIInv,
     PutSectionIInv, AnsweredIInv, RefusedIInv
<1>2. ASSUME NEW k \in Conns, PollTimeout(k) \/ Serve(k)
      PROVE  IInv'
  BY Zenon, <1>2, PollTimeoutIInv, HandleInfoIInv, HandleSectionRequestIInv,
     HandleSectionReleaseIInv, LockIInv, ScanIInv, MarkIInv, ScanNoneIInv,
     KeepNameIInv, WriteIInv, EndOfFileIInv, CloseIInv DEF Serve
<1>3. CASE UNCHANGED vars
  BY Zenon, <1>3, StutterIInv
<1>4. QED
  BY Zenon, <1>1, <1>2, <1>3 DEF Next

\* The inductive invariant holds in every state the processes and the daemon
\* reach, crashes included.
THEOREM Invariance == Spec => []IInv
<1>1. Init => IInv
  BY Zenon, InitIInv
<1>2. IInv /\ [Next]_vars => IInv'
  BY Zenon, NextIInv
<1>3. QED
  BY <1>1, <1>2, PTL DEF Spec

\* A process that uses a section holds it: the section is marked with the tid of
\* the thread that serves the process, and that thread has its name and index.
THEOREM SectionsHeld == Spec => []HeldWhileUp
<1>1. IInv => HeldWhileUp
  <2> SUFFICES ASSUME IInv, NEW p \in Clients, NEW i \in Sections, Uses(p, i)
                 PROVE  /\ assigned[i] = thread[client[p].conn].tid
                        /\ thread[client[p].conn].index = i
                        /\ thread[client[p].conn].named
    BY Zenon DEF HeldWhileUp
  <2>2. PICK k \in Conns : k = client[p].conn /\ On(p, k) /\ ConnOK(p, k)
    BY Zenon DEF IInv, ClientInv, On, Uses
  <2>3. thread[k].named /\ thread[k].index = i /\ ThreadOK(k)
    BY Zenon, <2>2 DEF IInv, ThreadInv, ConnOK, Uses
  <2>4. QED
    BY Zenon, <2>2, <2>3 DEF ThreadOK
<1>2. QED
  BY <1>1, Invariance, PTL

\* Two processes never use one section, though the tids of the threads that
\* serve them may collide (get_section, release_section).
THEOREM SectionsExclusive == Spec => []SectionExclusive
<1>1. IInv => SectionExclusive
  <2> SUFFICES ASSUME IInv, NEW p \in Clients, NEW q \in Clients,
                        NEW i \in Sections, Uses(p, i), Uses(q, i)
                 PROVE  p = q
    BY Zenon DEF SectionExclusive
  <2>2. PICK j \in Conns : On(p, j) /\ ConnOK(p, j)
    BY Zenon DEF IInv, ClientInv, On, Uses
  <2>3. PICK k \in Conns : On(q, k) /\ ConnOK(q, k)
    BY Zenon DEF IInv, ClientInv, On, Uses
  <2>4. thread[j].index = i /\ thread[k].index = i /\ i # 0
    BY <2>2, <2>3 DEF ConnOK, Uses, Sections
  <2>5. j = k
    BY Zenon, <2>4 DEF IInv, IndexInv
  <2>6. QED
    BY Zenon, <2>2, <2>3, <2>5 DEF IInv, ClientInv
<1>2. QED
  BY <1>1, Invariance, PTL

\* A marked section has a thread that will release it, unless
\* handle_section_request had no memory for its name.
THEOREM MarkedHasThread == Spec => []AssignedHasThread
<1>1. IInv => AssignedHasThread
  BY Zenon DEF IInv
<1>2. QED
  BY <1>1, Invariance, PTL
=============================================================================
