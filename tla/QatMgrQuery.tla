---------------------------- MODULE QatMgrQuery -----------------------------
(***************************************************************************)
(* How a process reads its configuration from qatmgr: the queries of its   *)
(* threads share one socket under qatmgr_mutex (qatmgr_query), and each    *)
(* thread keeps the last answer and reuses it when the next parameter      *)
(* comes from the same message (adf_io_cfgGetParamValue).  A stream socket *)
(* carries no request numbers: an answer belongs to the oldest question.   *)
(***************************************************************************)
EXTENDS Naturals, Sequences

CONSTANTS
    Threads,
    Devices,     \* accelIds of the section
    Instances,   \* instance numbers asked for
    Missing,     \* those the devices do not have: the daemon answers BAD
    MaxReads,    \* bounds on the parameters read and the restarts of the
    MaxSections  \*   process in a behaviour

\* No instance; also no thread.
NoInst == "none"

ASSUME QueryAssumption ==
    /\ Missing \subseteq Instances
    /\ NoInst \notin Threads
    /\ MaxReads \in Nat /\ MaxSections \in Nat

\* What is asked for.  DEVICE_INFO is about a device, the others about an
\* instance of it; the instance stands for service type and number.
Questions ==
    [type : {"DEVICE_INFO"}, dev : Devices, inst : {NoInst}] \cup
    [type : {"INSTANCE_INFO", "INSTANCE_NAME"}, dev : Devices, inst : Instances]

\* The daemon's answer: it depends on the section the process holds.
Answer(q, s) ==
    IF q.inst \in Missing THEN [type |-> "BAD"]
    ELSE [type |-> q.type, about |-> q, section |-> s]

\* "struct qatmgr_msg_rsp rsp = {0}"
Zero == [type |-> "none"]
None == [type |-> "nothing"]

VARIABLES
    section,   \* the section the process holds: a new one after a restart
    mutex,     \* the thread that holds qatmgr_mutex, or NoInst
    requests,  \* questions on their way to the daemon
    answers,   \* answers in the socket
    pc,        \* each thread: idle, waiting for the mutex, for the answer
    asked,     \* the question of each thread
    rsp,       \* the answer each thread keeps,
    c_accelId, \*   and the device and the instance it is taken to be about
    c_serv,
    value,     \* what each thread's last read of a parameter returned
    reads,     \* number of parameters read
    interrupted \* history: a signal interrupted the read of an answer

vars == <<section, mutex, requests, answers, pc, asked, rsp, c_accelId,
          c_serv, value, reads, interrupted>>

NoDevice == "UINT32_MAX"

Init ==
    /\ section = 1 /\ mutex = NoInst
    /\ requests = <<>> /\ answers = <<>>
    /\ pc = [t \in Threads |-> "idle"]
    /\ asked = [t \in Threads |-> None]
    /\ rsp = [t \in Threads |-> Zero]
    /\ c_accelId = [t \in Threads |-> NoDevice]
    /\ c_serv = [t \in Threads |-> NoInst]
    /\ value = [t \in Threads |-> None]
    /\ reads = 0 /\ interrupted = FALSE

-----------------------------------------------------------------------------

\* The test of adf_io_cfgGetParamValue for an answer it can reuse.
Cached(t, q) ==
    /\ rsp[t].type = q.type
    /\ c_accelId[t] = q.dev
    /\ q.type # "DEVICE_INFO" => c_serv[t] = q.inst

\* adf_io_cfgGetParamValue: from the answer kept, or by a query.
GetParamValue(t, q) ==
    /\ pc[t] = "idle" /\ reads < MaxReads
    /\ reads' = reads + 1
    /\ asked' = [asked EXCEPT ![t] = q]
    /\ \/ /\ Cached(t, q)
          /\ value' = [value EXCEPT ![t] = rsp[t]]
          /\ UNCHANGED pc
       \/ /\ ~Cached(t, q)
          /\ pc' = [pc EXCEPT ![t] = "lock"]
          /\ value' = [value EXCEPT ![t] = None]
    /\ UNCHANGED <<section, mutex, requests, answers, rsp, c_accelId, c_serv,
                   interrupted>>

\* Mutant: the request is sent without qatmgr_mutex.
SendUnlocked(t) ==
    /\ pc[t] = "lock"
    /\ requests' = Append(requests, asked[t])
    /\ pc' = [pc EXCEPT ![t] = "read"]
    /\ UNCHANGED <<section, mutex, answers, asked, rsp, c_accelId, c_serv,
                   value, reads, interrupted>>

\* qatmgr_query takes the mutex and writes the request.
Send(t) ==
    /\ pc[t] = "lock" /\ mutex = NoInst
    /\ mutex' = t
    /\ requests' = Append(requests, asked[t])
    /\ pc' = [pc EXCEPT ![t] = "read"]
    /\ UNCHANGED <<section, answers, asked, rsp, c_accelId, c_serv, value,
                   reads, interrupted>>

\* handle_client and handle_message
Daemon ==
    /\ requests # <<>>
    /\ answers' = Append(answers, Answer(Head(requests), section))
    /\ requests' = Tail(requests)
    /\ UNCHANGED <<section, mutex, pc, asked, rsp, c_accelId, c_serv, value,
                   reads, interrupted>>

\* The checks of qatmgr_query on the answer and what adf_io_cfgGetParamValue
\* keeps: the device and the instance, or no device when the query failed.
Accepted(t, new) ==
    LET ok == new.type = asked[t].type
    IN  /\ c_accelId' = [c_accelId EXCEPT ![t] =
                            IF ok THEN asked[t].dev ELSE NoDevice]
        /\ c_serv' = [c_serv EXCEPT ![t] =
                         IF ok /\ asked[t].type # "DEVICE_INFO"
                         THEN asked[t].inst ELSE @]
        /\ value' = [value EXCEPT ![t] = IF ok THEN new ELSE None]

\* The read of qatmgr_query returns the next answer.
Receive(t) ==
    /\ pc[t] = "read" /\ answers # <<>>
    /\ answers' = Tail(answers)
    /\ rsp' = [rsp EXCEPT ![t] = Head(answers)]
    /\ Accepted(t, Head(answers))
    /\ pc' = [pc EXCEPT ![t] = "idle"]
    /\ mutex' = NoInst
    /\ UNCHANGED <<section, requests, asked, reads, interrupted>>

\* The read returns -1 (EINTR).  rsp is as before, and the comparison
\* numchars < sizeof(rsp->hdr) + size_rx is one of unsigned numbers, where
\* -1 is the largest: only version and type of what rsp held before count.
ReceiveInterrupted(t) ==
    /\ pc[t] = "read"
    /\ Accepted(t, rsp[t])
    /\ pc' = [pc EXCEPT ![t] = "idle"]
    /\ mutex' = NoInst
    /\ interrupted' = TRUE
    /\ UNCHANGED <<section, requests, answers, asked, rsp, reads>>

\* icp_sal_userStop and icp_sal_userStart: another connection, another
\* section.  The variables of the threads stay.
Restart ==
    /\ section < MaxSections
    /\ \A t \in Threads : pc[t] = "idle"
    /\ section' = section + 1
    /\ requests' = <<>> /\ answers' = <<>>
    /\ value' = [t \in Threads |-> None]
    /\ UNCHANGED <<mutex, pc, asked, rsp, c_accelId, c_serv, reads,
                   interrupted>>

Next ==
    \/ \E t \in Threads :
          \/ \E q \in Questions : GetParamValue(t, q)
          \/ Send(t) \/ Receive(t) \/ ReceiveInterrupted(t)
    \/ Daemon
    \/ Restart

Spec == Init /\ [][Next]_vars

-----------------------------------------------------------------------------

\* A parameter that is returned as found is that of the device and instance
\* asked for, whichever thread asked before and whatever the thread's last
\* answer was about ("This function is used to determine the value for a
\* given parameter name", icp_adf_cfg.h), as long as no read of the socket was
\* interrupted; and whatever is interrupted or restarted, a value never comes
\* from a message of another type, whose bytes would mean something else.
ValueIsAsked ==
    \A t \in Threads :
        value[t] # None =>
            /\ value[t].type = asked[t].type
            /\ interrupted \/ value[t].about = asked[t]

=============================================================================
