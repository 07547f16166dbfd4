------------------------------- MODULE QatMgr -------------------------------
(***************************************************************************)
(* The qatmgr daemon and the processes that ask it for their               *)
(* configuration section (qat_mgr.c, qat_mgr_lib.c, qat_mgr_client.c).     *)
(* A process connects, gets a section with SECTION_GET, asks for the       *)
(* devices and instances of that section, gives it back with SECTION_PUT   *)
(* and closes.  The daemon serves each connection from a thread of its own *)
(* (handle_client).  Processes may crash at any moment and start again,    *)
(* before the daemon has noticed that the old connection is gone.          *)
(***************************************************************************)
EXTENDS Naturals, FiniteSets

CONSTANTS Clients,         \* processes
          num_section_data,\* sections the daemon built at start-up
          Tids,            \* pthread_self() cut down to a pid_t: two threads
                           \* may well have the same one
          MaxConns         \* bound on the connections of a behaviour

ASSUME QatMgrAssumption ==
    /\ num_section_data \in Nat \ {0}
    /\ MaxConns \in Nat \ {0}
    /\ Tids \subseteq Nat \ {0}

Sections == 1 .. num_section_data
Conns == 1 .. MaxConns

\* A section's name is its number; the requests other than SECTION_GET and
\* SECTION_PUT read what belongs to the section and change nothing ("INFO").
None == [type |-> "none"]
BAD == [type |-> "BAD"]

VARIABLES
    assigned,  \* section_data[i].assigned_tid, 0 when it is free
    mutex,     \* the connection whose thread holds section_data_mutex, or 0
    thread,    \* handle_client of each connection: where it is, its tid, its
               \* index (0 for -1), whether section_name is set, the loop
               \* counter of get_section, and the answer it will write
    sock,      \* each connection: the request and the answer under way, and
               \* which ends are open
    client,    \* each process: what it is doing, its connection and section
    lost       \* history: the sections whose name could not be kept

vars == <<assigned, mutex, thread, sock, client, lost>>

\* The local variables of handle_client as a thread starts.
Thread(pc, tid) == [pc |-> pc, tid |-> tid, index |-> 0, named |-> FALSE,
                    i |-> 1, answer |-> None]

Down == [st |-> "down", conn |-> 0, section |-> 0]

Init ==
    /\ assigned = [i \in Sections |-> 0]
    /\ mutex = 0
    /\ thread = [k \in Conns |-> Thread("none", 0)]
    /\ sock = [k \in Conns |-> [req |-> None, rsp |-> None,
                                open |-> FALSE, served |-> FALSE]]
    /\ client = [p \in Clients |-> Down]
    /\ lost = {}

-----------------------------------------------------------------------------
(* The process *)

\* qatmgr_socket_open: connect; the daemon accepts and starts a thread.
Connect(p) ==
    /\ client[p].st = "down"
    /\ \E k \in Conns, t \in Tids :
          /\ thread[k].pc = "none"
          /\ \A j \in Conns : j < k => thread[j].pc # "none"
          /\ thread' = [thread EXCEPT ![k] = Thread("poll", t)]
          /\ sock' = [sock EXCEPT ![k].open = TRUE, ![k].served = TRUE]
          /\ client' = [client EXCEPT ![p].st = "open", ![p].conn = k]
    /\ UNCHANGED <<assigned, mutex, lost>>

\* The same, and pthread_create fails: the daemon keeps its end of the
\* connection open and nobody reads from it.
ConnectUnserved(p) ==
    /\ client[p].st = "down"
    /\ \E k \in Conns :
          /\ thread[k].pc = "none"
          /\ \A j \in Conns : j < k => thread[j].pc # "none"
          /\ thread' = [thread EXCEPT ![k] = Thread("closed", 0)]
          /\ sock' = [sock EXCEPT ![k].open = TRUE, ![k].served = TRUE]
          /\ client' = [client EXCEPT ![p].st = "open", ![p].conn = k]
    /\ UNCHANGED <<assigned, mutex, lost>>

\* The write of qatmgr_query.
Ask(p, from, st, request) ==
    /\ client[p].st = from
    /\ sock[client[p].conn].served
    /\ sock' = [sock EXCEPT ![client[p].conn].req = request]
    /\ client' = [client EXCEPT ![p].st = st]
    /\ UNCHANGED <<assigned, mutex, thread, lost>>

AskSection(p) == Ask(p, "open", "get", [type |-> "GET"])
AskInfo(p) == Ask(p, "up", "query", [type |-> "INFO"])
PutSection(p) ==
    Ask(p, "up", "put", [type |-> "PUT", name |-> client[p].section])

\* The read of qatmgr_query.  Without a section the process closes the
\* connection, and it closes it whatever the answer to SECTION_PUT was.
Answered(p) ==
    /\ client[p].st \in {"get", "query", "put"}
    /\ LET k == client[p].conn
           rsp == sock[k].rsp
           leaves == \/ client[p].st = "put"
                     \/ client[p].st = "get" /\ rsp = BAD
       IN  /\ rsp # None
           /\ sock' = [sock EXCEPT ![k].rsp = None, ![k].open = ~leaves]
           /\ client' = [client EXCEPT ![p] =
                 IF leaves THEN Down
                 ELSE [@ EXCEPT !.st = "up",
                                !.section = IF client[p].st = "get"
                                            THEN rsp.name
                                            ELSE client[p].section]]
    /\ UNCHANGED <<assigned, mutex, thread, lost>>

\* The daemon has closed its end: write or read fails, and the process
\* closes the socket.
Refused(p) ==
    /\ client[p].st \in {"open", "get"}
    /\ ~sock[client[p].conn].served
    /\ sock[client[p].conn].rsp = None
    /\ sock' = [sock EXCEPT ![client[p].conn].open = FALSE]
    /\ client' = [client EXCEPT ![p] = Down]
    /\ UNCHANGED <<assigned, mutex, thread, lost>>

\* The process dies; the kernel closes its socket.
Crash(p) ==
    /\ client[p].st # "down"
    /\ sock' = [sock EXCEPT ![client[p].conn].open = FALSE]
    /\ client' = [client EXCEPT ![p] = Down]
    /\ UNCHANGED <<assigned, mutex, thread, lost>>

-----------------------------------------------------------------------------
(* The daemon's thread *)

\* Mutant: the timeout applies to every request, not only the first.
PollTimeoutAnyTime(k) ==
    /\ thread[k].pc \in {"poll", "read"}
    /\ sock[k].req = None /\ sock[k].open
    /\ thread' = [thread EXCEPT ![k].pc = "end"]
    /\ UNCHANGED <<assigned, mutex, sock, client, lost>>

\* No request for CLIENT_TIMEOUT_DEFAULT_MS after the connection was made.
PollTimeout(k) ==
    /\ thread[k].pc = "poll"
    /\ sock[k].req = None /\ sock[k].open
    /\ thread' = [thread EXCEPT ![k].pc = "end"]
    /\ UNCHANGED <<assigned, mutex, sock, client, lost>>

\* Leaves the answer for the write that follows.
Reply(k, rsp) == [thread[k] EXCEPT !.pc = "write", !.answer = rsp]

Reads(k, type) ==
    /\ thread[k].pc \in {"poll", "read"}
    /\ sock[k].req.type = type
    /\ sock' = [sock EXCEPT ![k].req = None]

\* handle_get_num_devices and the other read-only handlers
HandleInfo(k) ==
    /\ Reads(k, "INFO")
    /\ thread' = [thread EXCEPT ![k] =
          Reply(k, IF thread[k].index = 0 THEN BAD
                   ELSE [type |-> "INFO", name |-> thread[k].index])]
    /\ UNCHANGED <<assigned, mutex, client, lost>>

\* handle_section_request up to its call of get_section
HandleSectionRequest(k) ==
    /\ Reads(k, "GET")
    /\ thread' = [thread EXCEPT ![k] =
          IF @.named \/ @.index # 0 THEN Reply(k, BAD)
          ELSE [@ EXCEPT !.pc = "lock"]]
    /\ UNCHANGED <<assigned, mutex, client, lost>>

\* Mutant: the table is searched without the mutex.
LockUnguarded(k) ==
    /\ thread[k].pc = "lock"
    /\ thread' = [thread EXCEPT ![k].pc = "scan", ![k].i = 1]
    /\ UNCHANGED <<assigned, mutex, sock, client, lost>>

\* get_section: pthread_mutex_lock(&section_data_mutex)
Lock(k) ==
    /\ thread[k].pc = "lock"
    /\ mutex = 0
    /\ mutex' = k
    /\ thread' = [thread EXCEPT ![k].pc = "scan", ![k].i = 1]
    /\ UNCHANGED <<assigned, sock, client, lost>>

\* One turn of the loop of get_section: sections are released without the
\* mutex, so what an earlier turn saw may be out of date.
ScanTaken(k) ==
    /\ thread[k].pc = "scan"
    /\ thread[k].i \in Sections
    /\ assigned[thread[k].i] # 0
    /\ thread' = [thread EXCEPT ![k].i = @ + 1]
    /\ UNCHANGED <<assigned, mutex, sock, client, lost>>

ScanFree(k) ==
    /\ thread[k].pc = "scan"
    /\ thread[k].i \in Sections
    /\ assigned[thread[k].i] = 0
    /\ thread' = [thread EXCEPT ![k].pc = "mark"]
    /\ UNCHANGED <<assigned, mutex, sock, client, lost>>

\* The section seen free is marked, the mutex is released and the caller
\* keeps the index.
Mark(k) ==
    /\ thread[k].pc = "mark"
    /\ assigned' = [assigned EXCEPT ![thread[k].i] = thread[k].tid]
    /\ mutex' = 0
    /\ thread' = [thread EXCEPT ![k].pc = "name", ![k].index = thread[k].i,
                                ![k].i = 1]
    /\ UNCHANGED <<sock, client, lost>>

\* Mutant: the mutex is kept when no section is free.
ScanNoneLocked(k) ==
    /\ thread[k].pc = "scan"
    /\ thread[k].i \notin Sections
    /\ thread' = [thread EXCEPT ![k] = Reply(k, BAD)]
    /\ UNCHANGED <<assigned, mutex, sock, client, lost>>

\* "No section available"
ScanNone(k) ==
    /\ thread[k].pc = "scan"
    /\ thread[k].i \notin Sections
    /\ mutex' = 0
    /\ thread' = [thread EXCEPT ![k] = [Reply(k, BAD) EXCEPT !.i = 1]]
    /\ UNCHANGED <<assigned, sock, client, lost>>

\* handle_section_request: the section's name is kept for its release
KeepName(k) ==
    /\ thread[k].pc = "name"
    /\ \/ /\ thread' = [thread EXCEPT ![k] =
                 [Reply(k, [type |-> "GET", name |-> @.index])
                     EXCEPT !.named = TRUE]]
          /\ UNCHANGED lost
       \/ /\ thread' = [thread EXCEPT ![k] = Reply(k, BAD)]  \* malloc fails
          /\ lost' = lost \cup {thread[k].index}
    /\ UNCHANGED <<assigned, mutex, sock, client>>

\* release_section: index, name and thread must be those of the section
MayRelease(k, name) ==
    /\ thread[k].index \in Sections
    /\ name = thread[k].index
    /\ assigned[thread[k].index] = thread[k].tid

\* handle_section_release
HandleSectionRelease(k) ==
    /\ Reads(k, "PUT")
    /\ LET released == thread[k].named /\ MayRelease(k, sock[k].req.name)
       IN  /\ assigned' = IF released
                          THEN [assigned EXCEPT ![thread[k].index] = 0]
                          ELSE assigned
           /\ thread' = [thread EXCEPT ![k] =
                 IF released
                 THEN [Reply(k, [type |-> "PUT"])
                          EXCEPT !.named = FALSE, !.index = 0]
                 ELSE Reply(k, BAD)]
    /\ UNCHANGED <<mutex, client, lost>>

\* handle_client writes the answer; a write to a closed socket fails and
\* ends the loop.
Write(k) ==
    /\ thread[k].pc = "write"
    /\ thread' = [thread EXCEPT ![k].pc = IF sock[k].open THEN "read" ELSE "end",
                                ![k].answer = None]
    /\ sock' = [sock EXCEPT ![k].rsp = IF sock[k].open THEN thread[k].answer ELSE @]
    /\ UNCHANGED <<assigned, mutex, client, lost>>

\* The peer has closed: read returns 0 once the last request is read.
EndOfFile(k) ==
    /\ thread[k].pc \in {"poll", "read"}
    /\ sock[k].req = None /\ ~sock[k].open
    /\ thread' = [thread EXCEPT ![k].pc = "end"]
    /\ UNCHANGED <<assigned, mutex, sock, client, lost>>

\* Mutant: the section is not released.
CloseOnly(k) ==
    /\ thread[k].pc = "end"
    /\ thread' = [thread EXCEPT ![k] = Thread("closed", 0)]
    /\ sock' = [sock EXCEPT ![k].served = FALSE, ![k].req = None]
    /\ UNCHANGED <<assigned, mutex, client, lost>>

\* The end of handle_client: "If the socket is closed while a section is
\* still held then release it", then close.
Close(k) ==
    /\ thread[k].pc = "end"
    /\ assigned' = IF thread[k].named /\ MayRelease(k, thread[k].index)
                   THEN [assigned EXCEPT ![thread[k].index] = 0]
                   ELSE assigned
    /\ thread' = [thread EXCEPT ![k] = Thread("closed", 0)]
    /\ sock' = [sock EXCEPT ![k].served = FALSE, ![k].req = None]
    /\ UNCHANGED <<mutex, client, lost>>

-----------------------------------------------------------------------------

Serve(k) ==
    \/ HandleInfo(k) \/ HandleSectionRequest(k) \/ HandleSectionRelease(k)
    \/ Lock(k) \/ ScanTaken(k) \/ ScanFree(k) \/ Mark(k) \/ ScanNone(k)
    \/ KeepName(k) \/ Write(k) \/ EndOfFile(k) \/ Close(k)

Next ==
    \/ \E p \in Clients :
          \/ Connect(p) \/ ConnectUnserved(p) \/ AskSection(p) \/ AskInfo(p) \/ PutSection(p)
          \/ Answered(p) \/ Refused(p) \/ Crash(p)
    \/ \E k \in Conns : PollTimeout(k) \/ Serve(k)

Spec == Init /\ [][Next]_vars

\* The daemon's threads run, and a process reads the answer it waits for.
FairSpec ==
    /\ Spec
    /\ \A k \in Conns : WF_vars(Serve(k))
    /\ \A p \in Clients : WF_vars(Answered(p)) /\ WF_vars(Refused(p))

-----------------------------------------------------------------------------

Uses(p, i) == client[p].st \in {"up", "query"} /\ client[p].section = i

\* The daemon never gives one section, and with it its devices and rings, to
\* two processes, whatever the order of requests, releases and crashes, and
\* though tids may collide (get_section, release_section).
SectionExclusive ==
    \A p, q \in Clients, i \in Sections : Uses(p, i) /\ Uses(q, i) => p = q

\* A process that neither asked for the release of its section nor closed
\* its socket keeps it: the section stays marked with the thread that serves
\* the process, and that thread knows its name and index.
HeldWhileUp ==
    \A p \in Clients, i \in Sections :
        Uses(p, i) =>
            LET t == thread[client[p].conn]
            IN  /\ assigned[i] = t.tid
                /\ t.index = i /\ t.named

\* A section is marked as assigned only as long as the thread that took it
\* is there to release it: "If the socket is closed while a section is still
\* held then release it" (qat_mgr.c, handle_client).  The exception is a
\* section whose name handle_section_request had no memory for: it stays
\* marked although its process was refused.
AssignedHasThread ==
    \A i \in Sections \ lost :
        assigned[i] # 0 =>
            \E k \in Conns : thread[k].pc # "closed" /\ thread[k].index = i

\* The section of a process that is gone comes free, or another process gets
\* it (the forced release of handle_client).
SectionComesFree ==
    \A i \in Sections :
        (assigned[i] # 0 /\ i \notin lost /\ \A p \in Clients : ~Uses(p, i)) ~>
            (assigned[i] = 0 \/ i \in lost \/ \E p \in Clients : Uses(p, i))

\* The daemon accepted the connection and has no thread for it.
Unserved(k) == thread[k].pc = "closed" /\ sock[k].served

\* A process that asks for a section gets an answer, section or not: no
\* thread keeps section_data_mutex.  The exception is a connection for which
\* the daemon could not start a thread: there the process waits for ever.
GetAnswered ==
    \A p \in Clients :
        client[p].st = "get" /\ ~Unserved(client[p].conn) ~> client[p].st # "get"

=============================================================================
