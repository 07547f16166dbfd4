------------------------------ MODULE Services ------------------------------
(***************************************************************************)
(* The service access layer (SAL) of one process over one accelerator     *)
(* device: icp_sal_userStart and icp_sal_userStop, the ADF device table    *)
(* and its event queue, the SAL event handlers that bring the instances    *)
(* up and down, the RAS flow FATAL_ERROR, RESTARTING, RESTARTED, and the   *)
(* dummy responses that complete the requests in flight on a dead device.  *)
(*                                                                         *)
(* The event handlers run in the application thread that calls             *)
(* icp_sal_poll_device_events, one handler at a time; submitters and       *)
(* pollers run beside it.  A handler is therefore a function from the      *)
(* state of the process to its next state and a status, and the steps of   *)
(* submitters and pollers interleave with handlers at the points where     *)
(* they publish state to each other.                                       *)
(***************************************************************************)
EXTENDS Integers, SequencesExt, FiniteSetsExt

CONSTANTS
    Lists,          \* the sal_list_t of each enabled type, in event order
    Kind,           \* "asym", "sym" or "dc" for each instance
    PoolSize,       \* numElementsInPool of the cookie pool of an instance
    Used,           \* instances the application starts and uses
    Submitters,     \* application threads that submit requests
    Pollers,        \* application threads that poll instances
    Earlier,        \* requests each instance has answered before
    MaxReq,         \* bound: requests submitted
    MaxCalls,       \* bound: starts, stops of instances, requests, weighted
    MaxFaults,      \* bound: events raised by the physical function
    MaxOn,          \* bound: instances started at a time
    MaxRef,         \* START_REF_COUNT_MAX
    None

Inst == UNION {ToSet(l) : l \in ToSet(Lists)}
Blocks == 1 .. PoolSize
Req == 1 .. MaxReq
INVALID == -1       \* ICP_ADF_INVALID_SEND_SEQ
Admin == 2          \* bound: a start or a stop takes the place of two requests

ASSUME ServicesAssumption ==
    /\ Lists \in Seq(Seq(Inst)) /\ Kind \in [Inst -> {"asym", "sym", "dc"}]
    /\ PoolSize \in Nat \ {0} /\ Earlier \in Nat /\ MaxReq \in Nat /\ MaxFaults \in Nat
    /\ Used \subseteq Inst /\ MaxCalls \in Nat /\ MaxOn \in Nat
    /\ MaxRef \in Nat \ {0} /\ None \notin Req

VARIABLES
    proc,   \* the library's state in the process (adf_user_device.c, sal_*.c)
    thr,    \* where each submitter and poller is in its call
    ev,     \* where icp_adf_pollDeviceEvents is: "queued" or "proxy"
    pf,     \* the physical function: reset phase and the mailbox to the VF
    ghost   \* what has happened, for the properties

vars == <<proc, thr, ev, pf, ghost>>

-----------------------------------------------------------------------------
(* An instance: its service state, its cookie pool and its ring pair, and  *)
(* what a handler that other threads can overtake has yet to do to it.     *)

Gone == [state |-> "SHUTDOWN", on |-> FALSE, active |-> FALSE, sync |-> 0,
         stack |-> <<>>, opaque |-> [b \in Blocks |-> INVALID],
         owner |-> [b \in Blocks |-> None], seq |-> 0, req |-> <<>>,
         resp |-> <<>>, todo |-> None]

(* SalCtrl_CompressionInit and SalCtrl_CryptoInit: rings, then the pool.   *)
(* The ring's sequence number starts at Earlier for the requests that came *)
(* and went before the ones the model follows.                             *)
Initialized == [Gone EXCEPT !.state = "INITIALIZED", !.active = TRUE,
                            !.sync = 1, !.stack = SetToSeq(Blocks),
                            !.seq = Earlier]

Fresh == [ref |-> 0, tbl |-> FALSE, num |-> 0, initBit |-> FALSE,
          startBit |-> FALSE, failedBit |-> FALSE, err |-> FALSE,
          restarting |-> FALSE, queue |-> <<>>, sal |-> FALSE,
          vfio |-> FALSE, svc |-> [i \in Inst |-> Gone]]

Idle == [pc |-> "idle"]

Init ==
    /\ proc = Fresh
    /\ thr = [t \in Submitters \cup Pollers |-> Idle]
    /\ ev = "queued"
    /\ pf = [phase |-> "up", msg |-> None, faults |-> 0]
    /\ ghost = [calls |-> 0, reqs |-> 0, answers |-> [r \in Req |-> 0],
                raced |-> FALSE, done |-> {}, lost |-> FALSE, order |-> TRUE,
                fatal |-> [i \in Inst |-> 0], short |-> FALSE,
                wiped |-> {}, stale |-> FALSE, broken |-> FALSE,
                miscount |-> FALSE,
                crash |-> FALSE]

SUCCESS == "SUCCESS"
RETRY == "RETRY"
FAIL == "FAIL"
FATAL == "FATAL"
RESOURCE == "RESOURCE"
INVALID_PARAM == "INVALID_PARAM"
Status == {SUCCESS, RETRY, FAIL, FATAL, RESOURCE, INVALID_PARAM}

(* A handler's result: the process, the ghost state and the status.        *)
Result(p, g, st) == [p |-> p, g |-> g, st |-> st]

(* What a loop over a list has come to after one more call, with result b, *)
(* and what it returns: the last status other than SUCCESS.                *)
AfterCall(a, b, go) ==
    [p |-> b.p, g |-> b.g, run |-> b.st \in go,
     st |-> IF b.st = SUCCESS THEN a.st ELSE b.st]
AtEnd(a) == Result(a.p, a.g, a.st)

(* Call F on each element of a list while the status of the last call is   *)
(* in go.  SAL_FOR_EACH is the case go = {SUCCESS, RETRY}.                 *)
Each(F(_, _), r, list, go) ==
    LET Step(a, e) == IF a.run THEN AfterCall(a, F(a, e), go) ELSE a
    IN  AtEnd(FoldLeft(Step, [p |-> r.p, g |-> r.g, st |-> SUCCESS,
                              run |-> TRUE], list))
SAL_FOR_EACH(F(_, _), r, list) == Each(F, r, list, {SUCCESS, RETRY})

SetState(r, i, s) == Result([r.p EXCEPT !.svc[i].state = s], r.g, SUCCESS)
Failed(r, st) == Result(r.p, r.g, st)

-----------------------------------------------------------------------------
(* The functions of one service instance, called by the event handlers.   *)

(* SalCtrl_CompressionStart, SalCtrl_CryptoStart.                          *)
Start(r, i) ==
    IF r.p.svc[i].state # "INITIALIZED" THEN Failed(r, FAIL)
    ELSE SetState(r, i, "RUNNING")

(* SalCtrl_CompressionStop wants a running service; SalCtrl_CryptoStop     *)
(* only logs and goes on.                                                  *)
Stop(r, i) ==
    IF r.p.svc[i].state # "RUNNING" /\ Kind[i] = "dc" THEN Failed(r, FAIL)
    ELSE SetState(r, i, "SHUTTING_DOWN")

(* SalCtrl_CompressionShutdown, SalCtrl_CryptoShutdown.                    *)
Shutdown(r, i) ==
    IF r.p.svc[i].state \notin {"INITIALIZED", "SHUTTING_DOWN", "RESTARTING"}
    THEN Failed(r, FAIL)
    ELSE Result([r.p EXCEPT !.svc[i] = Gone], r.g, SUCCESS)

(* LacSwResp_IncNumPoolsBusy, through the UpdatePoolsBusy of each kind:    *)
(* only the pools dummy responses are made for, of started instances.      *)
PoolBusy(s, i) == s.on /\ Kind[i] # "sym" /\ Len(s.stack) # PoolSize

(* Mutant: the response ring is not looked at.                             *)
ErrorUnchecked(r, i) ==
    Result([r.p EXCEPT !.svc[i].active = FALSE, !.svc[i].todo = "error"],
           r.g, SUCCESS)

(* SalCtrl_CompressionError, SalCtrl_CryptoError: close the pool and look  *)
(* at the response ring; Finish has the store that follows when the ring   *)
(* is empty.                                                               *)
Error(r, i) ==
    LET s == r.p.svc[i]
        off == [r.p EXCEPT !.svc[i].active = FALSE]
    IN  IF s.state = "ERROR" THEN Result(off, r.g, SUCCESS)
        ELSE IF s.resp # <<>> THEN Result(off, r.g, RETRY)
        ELSE Result([off EXCEPT !.svc[i].todo = "error"], r.g, SUCCESS)

(* SalCtrl_CompressionRestarting, SalCtrl_CryptoRestarting: the rings are  *)
(* reset, what they hold is dropped; the pool keeps its blocks in use.     *)
Restarting(r, i) ==
    IF r.p.svc[i].state \notin {"RUNNING", "ERROR"} THEN Failed(r, FAIL)
    ELSE Result([r.p EXCEPT !.svc[i].state = "RESTARTING",
                            !.svc[i].req = <<>>, !.svc[i].resp = <<>>],
                r.g, SUCCESS)


(* Lac_MemPoolEnable.                                                      *)
Enable(s) == [s EXCEPT !.active = TRUE, !.sync = 1]

(* Lac_MemPoolInitAsymCookies, Lac_MemPoolInitDcCookies.                   *)
InitCookies(s) == [s EXCEPT !.opaque = [b \in Blocks |-> INVALID]]

(* SalCtrl_CompressionRestarted, SalCtrl_CryptoRestarted.  bad is the      *)
(* instance whose reinitialisation fails, if any; a crypto service is left *)
(* INITIALIZING, a compression service RESTARTING.  A compression service  *)
(* runs before its cookies are initialised, which Finish does.             *)
Restarted(r, i, bad, st) ==
    LET s == r.p.svc[i]
        up == [Enable(s) EXCEPT !.state = "RUNNING", !.seq = 0]
    IN  IF s.state \notin {"UNINITIALIZED", "RESTARTING"} THEN Failed(r, FAIL)
        ELSE IF i = bad
        THEN [SetState(r, i, IF Kind[i] = "dc" THEN s.state
                             ELSE "INITIALIZING") EXCEPT !.st = st]
        ELSE Result([r.p EXCEPT !.svc[i] =
                        IF Kind[i] = "dc" THEN [up EXCEPT !.todo = "cookies"]
                        ELSE InitCookies(up)],
                    r.g, SUCCESS)

-----------------------------------------------------------------------------
(* The SAL event handlers (sal_ctrl_services.c), over the enabled types.   *)

NoContainer(r) == ~r.p.sal

EventStop(r) ==
    IF NoContainer(r) THEN Failed(r, FATAL)
    ELSE Each(LAMBDA a, l : SAL_FOR_EACH(Stop, a, l), r, Lists, Status)

(* Every list and the container are freed whatever the instances answer.   *)
EventShutdown(r) ==
    IF NoContainer(r) THEN Failed(r, FATAL)
    ELSE [Each(LAMBDA a, l : SAL_FOR_EACH(Shutdown, a, l), r, Lists, Status)
             EXCEPT !.p.sal = FALSE, !.p.svc = [i \in Inst |-> Gone],
                    !.st = IF @ = SUCCESS THEN SUCCESS ELSE FAIL]

(* A failed instance takes down those initialised before it and the        *)
(* container.                                                              *)
EventInit(r, bad) ==
    IF bad # None THEN Failed(r, FAIL)
    ELSE Result([r.p EXCEPT !.sal = TRUE,
                            !.svc = [i \in Inst |-> Initialized]],
                r.g, SUCCESS)

(* A type that does not start stops all of them.                           *)
EventStart(r) ==
    LET Settle(z) == IF z.st = SUCCESS THEN z
                     ELSE [EventStop(z) EXCEPT !.st = z.st]
    IN  IF NoContainer(r) THEN Failed(r, FATAL)
        ELSE Settle(Each(LAMBDA a, l : SAL_FOR_EACH(Start, a, l), r, Lists,
                         {SUCCESS}))

(* SalCtrl_ServiceError: the error function of each instance of the type,  *)
(* then, the first time, a FATAL_ERROR notification to each of them.       *)
ServiceError(r, l) ==
    LET told == IF r.p.err THEN {} ELSE ToSet(l)
    IN  [SAL_FOR_EACH(Error, r, l) EXCEPT !.g.fatal =
            [i \in Inst |-> IF i \in told THEN @[i] + 1 ELSE @[i]]]

(* The first type that is not done ends the handler.                       *)
EventError(r) ==
    LET Settle(z) == IF z.st # SUCCESS THEN [z EXCEPT !.g.short = TRUE]
                     ELSE IF \E i \in Inst : PoolBusy(z.p.svc[i], i)
                     THEN Failed(z, RETRY)
                     ELSE z
    IN  IF NoContainer(r) THEN Failed(r, FATAL)
        ELSE Settle(Each(ServiceError, r, Lists, {SUCCESS}))

EventRestarting(r) ==
    IF NoContainer(r) THEN Failed(r, FATAL)
    ELSE Each(LAMBDA a, l : SAL_FOR_EACH(Restarting, a, l), r, Lists,
              {SUCCESS})

(* Without the capabilities the services are left as they are.  A type     *)
(* that does not restart, or no memory for the version file or for the     *)
(* directory of a type, takes all of them down.                            *)
EventRestarted(r, out) ==
    LET One(a, i) == Restarted(a, i, out.bad, out.st)
        Settle(z) == IF z.st = SUCCESS THEN z
                     ELSE [EventShutdown(EventStop(z)) EXCEPT
                              !.st = z.st, !.g.broken = TRUE]
    IN  IF out.dev = "capabilities"
        THEN [Failed(r, out.st) EXCEPT !.g.broken = TRUE]
        ELSE IF NoContainer(r) THEN [r EXCEPT !.g.crash = TRUE]
        ELSE IF out.dev = "memory" THEN Settle(Failed(r, out.st))
        ELSE Settle(Each(LAMBDA a, l : SAL_FOR_EACH(One, a, l), r, Lists,
                         {SUCCESS}))

-----------------------------------------------------------------------------
(* The ADF layer: subsystem_notify (adf_user_device.c) over the subsystem  *)
(* bits of adf_user_init.c.  The SAL is the one registered subsystem.      *)

World == Result(proc, ghost, SUCCESS)

(* adf_user_subsystemInit and adf_user_subsystemStart, as                  *)
(* adf_proxy_get_dev_events sends them: START follows a failed INIT.       *)
subsystemInitStart(r, bad) ==
    LET Inited(a) == [a EXCEPT !.p.initBit = a.st = SUCCESS,
                               !.p.failedBit = a.st # SUCCESS]
        Started(c) == [c EXCEPT !.p.startBit = c.st = SUCCESS,
                                !.p.failedBit = @ \/ c.st # SUCCESS]
    IN  Started(EventStart(Inited(EventInit(r, bad))))

(* icp_adf_subsystemUnregister: STOP, then do_shutdown, each behind its    *)
(* bit; a handler that fails leaves its bit set.                           *)
subsystemUnregister(r) ==
    LET Stopped(a) ==
            [a EXCEPT !.p.startBit = @ /\ a.st \notin {SUCCESS, RETRY}]
        ShutDown(b) == IF b.p.initBit THEN EventShutdown(b) ELSE b
        Unset(c) == [c EXCEPT !.p.initBit = @ /\ c.st # SUCCESS]
    IN  Unset(ShutDown(Stopped(IF r.p.startBit THEN EventStop(r) ELSE r)))

(* Mutant: a handler to be replayed leaves the device unmarked.            *)
NotifyErrorUnmarked(r) ==
    LET Mark(z) == [z EXCEPT !.p.err = z.st = SUCCESS]
    IN  Mark(IF r.p.startBit THEN EventError(r) ELSE Failed(r, SUCCESS))

(* ADF_EVENT_ERROR: adf_subsystemError, then the device counts as in       *)
(* error, so that a replay notifies no one twice.                          *)
NotifyError(r) ==
    [IF r.p.startBit THEN EventError(r) ELSE Failed(r, SUCCESS)
        EXCEPT !.p.err = TRUE]

(* ADF_EVENT_RESTARTING: adf_subsystemRestarting, adf_clean_device (every  *)
(* ring of the device goes), then the PF is told and the VF is closed.     *)
NotifyRestarting(r) ==
    LET Clean(z) ==
            LET keep == z.st \notin {SUCCESS, RETRY}
            IN  [z EXCEPT !.g.done = {}, !.p.restarting = TRUE,
                    !.p.vfio = FALSE, !.p.startBit = @ /\ keep,
                    !.p.initBit = @ /\ (keep \/ ~r.p.startBit),
                    !.p.svc = [i \in Inst |-> [@[i] EXCEPT !.req = <<>>,
                                                           !.resp = <<>>]]]
    IN  Clean(IF r.p.startBit THEN EventRestarting(r) ELSE Failed(r, SUCCESS))

(* ADF_EVENT_RESTARTED: adf_proxy_restart_device, adf_subsystemRestarted.  *)
(* out is what fails, if anything.  A device that qatmgr does not name is  *)
(* passed over with SUCCESS, its services still RESTARTING.  A device that *)
(* fails in adf_io_reinit_accel or the transport goes, and its count is    *)
(* not taken back.  A SAL that fails keeps the device; only the status     *)
(* FAIL keeps the bits as they were.                                       *)
NotifyRestarted(r, out) ==
    LET up == [r EXCEPT !.p.restarting = FALSE, !.p.err = FALSE,
                        !.g.fatal = [i \in Inst |-> 0], !.g.short = FALSE,
                        !.g.stale = FALSE]
        Bits(z) ==
            [z EXCEPT !.p.startBit = @ \/ z.st # FAIL,
                      !.p.initBit = @ \/ z.st # FAIL,
                      !.p.failedBit = @ /\ z.st = FAIL, !.st = SUCCESS,
                      !.g.raced = @ \/ \E t \in Pollers : thr[t].pc = "gen"]
    IN  IF out.dev = "absent" THEN [up EXCEPT !.g.broken = TRUE]
        ELSE IF out.dev \in {"accel", "transport"}
        THEN [up EXCEPT !.p.tbl = FALSE, !.p.vfio = @ /\ out.dev # "accel",
                        !.p.sal = FALSE, !.p.svc = [i \in Inst |-> Gone],
                        !.g.miscount = TRUE, !.g.broken = TRUE, !.st = FAIL]
        ELSE Bits(EventRestarted(up, out))

(* What may fail in a restart, and the status that stands for it.          *)
Outcomes ==
    [dev : {"ok"}, bad : {None}, st : {SUCCESS}]
    \cup [dev : {"absent", "accel", "transport", "capabilities"},
          bad : {None}, st : {FAIL}]
    \cup [dev : {"memory"}, bad : {None}, st : {RESOURCE}]
    \cup [dev : {"ok"}, bad : Inst, st : {FAIL, RESOURCE}]

subsystem_notify(r, event, out) ==
    IF ~r.p.tbl THEN Failed(r, INVALID_PARAM)
    ELSE CASE event = "ERROR" -> NotifyError(r)
           [] event = "RESTARTING" -> NotifyRestarting(r)
           [] event = "RESTARTED" -> NotifyRestarted(r, out)

-----------------------------------------------------------------------------
(* icp_adf_pollDeviceEvents, called by one application thread.             *)

(* No null pointer was followed; and no dummy responses were made while    *)
(* another thread was submitting to or polling the instance, and the pool  *)
(* was not enabled again while they were made: from there on a block may   *)
(* be in the pool twice, and the model ends.                               *)
Alive == ~ghost.crash /\ ~ghost.raced

Apply(r) == proc' = r.p /\ ghost' = r.g

(* No handler has something left to do.                                    *)
Returned == \A i \in Inst : proc.svc[i].todo = None

InUse(s) == Blocks \ ToSet(s.stack)
InRing(s) == {b \in InUse(s) : s.opaque[b] # INVALID}

(* What is left of a handler, for one instance: SalCtrl_CompressionError   *)
(* and SalCtrl_CryptoError found the response ring empty, whatever the     *)
(* device has written to it since; SalCtrl_CompressionRestarted clears the *)
(* numbers of all blocks, those of requests sent since the service runs    *)
(* included.                                                               *)
Finish(s) ==
    CASE s.todo = "error" -> [s EXCEPT !.state = "ERROR", !.todo = None]
      [] s.todo = "cookies" -> [InitCookies(s) EXCEPT !.todo = None]
      [] s.todo = None -> s

Wiped(s) == IF s.todo # "cookies" THEN {}
            ELSE {s.owner[b] : b \in InRing(s) \cap ToSet(s.req \o s.resp)}

(* The handler returns.  Instances do not touch each other's state, so     *)
(* what is left to do to each of them is one step.                         *)
Return ==
    /\ Alive /\ ~Returned
    /\ proc' = [proc EXCEPT !.svc = [i \in Inst |-> Finish(@[i])]]
    /\ ghost' = [ghost EXCEPT !.wiped = @ \cup
                               UNION {Wiped(proc.svc[i]) : i \in Inst}]
    /\ UNCHANGED <<thr, ev, pf>>

(* Is the head of the event queue done with?                               *)
Done(st, late) == st = SUCCESS \/ late

(* adf_poll_enqueued_events: one turn of the loop.  A status other than    *)
(* SUCCESS and RETRY runs the handler again, until the event times out.    *)
PollQueued ==
    /\ Alive /\ Returned /\ proc.ref > 0 /\ ev = "queued" /\ proc.queue # <<>>
    /\ \E out \in Outcomes :
        LET h == Head(proc.queue)
            Turn(r) ==
                /\ Apply(IF Done(r.st, h.late)
                         THEN [r EXCEPT !.p.queue = Tail(@)] ELSE r)
                /\ ev' = IF ~Done(r.st, h.late) /\ r.st = RETRY THEN "proxy"
                         ELSE ev
        IN  /\ h.event # "RESTARTED" => out.st = SUCCESS
            /\ Turn(subsystem_notify(World, h.event, out))
    /\ UNCHANGED <<thr, pf>>

PollQueueEmpty ==
    /\ Alive /\ Returned /\ proc.ref > 0 /\ ev = "queued" /\ proc.queue = <<>>
    /\ ev' = "proxy"
    /\ UNCHANGED <<proc, thr, pf, ghost>>

(* adf_io_pollProxyEvent: a device that is restarting only tries to reopen *)
(* its VF, and a VF that opens stands for the RESTARTED message.           *)
Reopens == proc.restarting /\ ~proc.vfio /\ pf.phase \in {"back", "up"}
Event == IF ~proc.tbl THEN None
         ELSE IF proc.restarting
              THEN IF Reopens THEN "RESTARTED" ELSE None
              ELSE pf.msg

(* The rest of icp_adf_pollDeviceEvents: an event is handled at once when  *)
(* none is queued, and queued when it has to be retried.                   *)
PollProxy ==
    /\ Alive /\ Returned /\ proc.ref > 0 /\ ev = "proxy" /\ Event # None
    /\ \E out \in Outcomes :
        LET dup == Event = "RESTARTED" /\ ~proc.restarting
            open == [World EXCEPT !.p.vfio = @ \/ Reopens,
                                  !.g.broken = @ \/ dup]
            node == [event |-> Event, late |-> FALSE]
            Requeue(r) == IF r.st = RETRY THEN [r EXCEPT !.p.queue = <<node>>]
                          ELSE r
        IN  /\ Event # "RESTARTED" => out.st = SUCCESS
            /\ IF proc.queue # <<>>
               THEN out.st = SUCCESS
                    /\ Apply([open EXCEPT !.p.queue = Append(@, node)])
               ELSE Apply(Requeue(subsystem_notify(open, Event, out)))
    /\ pf' = [pf EXCEPT !.msg = IF proc.restarting THEN @ ELSE None]
    /\ UNCHANGED <<thr, ev>>

PollProxyEmpty ==
    /\ Alive /\ Returned /\ ev = "proxy" /\ (Event = None \/ proc.ref = 0)
    /\ ev' = "queued"
    /\ UNCHANGED <<proc, thr, pf, ghost>>

(* ADF_DEV_EVENT_TIMEOUT seconds pass.                                     *)
Tick ==
    /\ Alive /\ \E k \in DOMAIN proc.queue : ~proc.queue[k].late
    /\ proc' = [proc EXCEPT !.queue =
                   [k \in DOMAIN @ |-> [@[k] EXCEPT !.late = TRUE]]]
    /\ UNCHANGED <<thr, ev, pf, ghost>>

-----------------------------------------------------------------------------
(* icp_sal_userStart and icp_sal_userStop.                                 *)

Quiet == \A t \in Submitters \cup Pollers : thr[t].pc = "idle"

(* The first start registers the SAL, clears the device table, opens the   *)
(* device if it can (dev), brings the instances up and checks that they    *)
(* started.  Error and restarting flags, the event queue and the count of  *)
(* devices are what the last run of the library left.                      *)
StartFirst(dev, bad) ==
    LET reg == [World EXCEPT !.p.initBit = FALSE, !.p.startBit = FALSE,
                    !.p.failedBit = FALSE, !.p.tbl = dev, !.p.sal = FALSE,
                    !.p.vfio = @ \/ dev, !.p.svc = [i \in Inst |-> Gone],
                    !.g.fatal = [i \in Inst |-> 0], !.g.short = FALSE,
                    !.g.stale = proc.err \/ proc.restarting
                                \/ proc.queue # <<>>,
                    !.g.miscount = @ \/ proc.num # 0, !.g.broken = FALSE]
        Checked(up) == IF up.p.startBit THEN [up EXCEPT !.p.ref = 1]
                       ELSE subsystemUnregister(up)
    IN  IF ~dev THEN reg
        ELSE Checked([subsystemInitStart(reg, bad) EXCEPT !.p.num = @ + 1])

UserStart ==
    /\ Alive /\ Returned /\ Quiet /\ ev = "queued"
    /\ ghost.calls + Admin <= MaxCalls
    /\ \/ /\ proc.ref = 0 /\ pf.phase = "up"
          /\ \E dev \in BOOLEAN, bad \in Inst \cup {None} :
              LET r == StartFirst(dev, bad)
              IN  Apply([r EXCEPT !.g.calls = @ + Admin])
       \/ /\ proc.ref \in 1 .. MaxRef - 1
          /\ proc' = [proc EXCEPT !.ref = @ + 1]
          /\ ghost' = [ghost EXCEPT !.calls = @ + Admin]
    /\ UNCHANGED <<thr, ev, pf>>

(* Mutant: the closed device stays counted.                                *)
LeaveCount(p) == p.num

(* adf_cleanup_devices takes back the count of the device it closes.       *)
CleanCount(p) == IF p.tbl THEN p.num - 1 ELSE p.num

UserStop ==
    /\ Alive /\ Returned /\ Quiet /\ ev = "queued" /\ proc.ref > 0
    /\ IF proc.ref > 1
       THEN proc' = [proc EXCEPT !.ref = @ - 1] /\ UNCHANGED ghost
       ELSE LET r == subsystemUnregister(World)
            IN  Apply([r EXCEPT !.p.ref = 0, !.p.num = CleanCount(r.p),
                          !.p.tbl = FALSE, !.p.sal = FALSE,
                          !.p.vfio = FALSE,
                          !.p.svc = [i \in Inst |-> Gone]])
    /\ UNCHANGED <<thr, ev, pf>>

(* cpaCyStartInstance, cpaDcStartInstance and their Stop counterparts.     *)
StartInstance(i) ==
    /\ Alive /\ proc.ref > 0 /\ proc.sal /\ ~proc.svc[i].on
    /\ Cardinality({j \in Inst : proc.svc[j].on}) < MaxOn
    /\ proc' = [proc EXCEPT !.svc[i].on = TRUE]
    /\ UNCHANGED <<thr, ev, pf, ghost>>

StopInstance(i) ==
    /\ Alive /\ proc.ref > 0 /\ proc.sal /\ proc.svc[i].on
    /\ ghost.calls + Admin <= MaxCalls
    /\ proc' = [proc EXCEPT !.svc[i].on = FALSE]
    /\ ghost' = [ghost EXCEPT !.calls = @ + Admin]
    /\ UNCHANGED <<thr, ev, pf>>

-----------------------------------------------------------------------------
(* Submitting: dcCompDecompData and LacPke_CreateRequest take a block of   *)
(* the pool, SalQatMsg_transPutMsg puts the message, and the sequence      *)
(* number it returned is stored in the block afterwards.                   *)

Inside(i) == {t \in DOMAIN thr : thr[t].pc # "idle" /\ thr[t].inst = i}

Alloc(t, i) ==
    LET s == proc.svc[i]
        b == Head(s.stack)
        n == ghost.reqs + 1
    IN  /\ Alive /\ thr[t].pc = "idle" /\ s.state = "RUNNING" /\ s.on
        /\ s.active /\ s.stack # <<>>
        /\ ghost.reqs < MaxReq /\ ghost.calls < MaxCalls
        /\ proc' = [proc EXCEPT !.svc[i].stack = Tail(@),
                                !.svc[i].owner[b] = n]
        /\ ghost' = [ghost EXCEPT !.reqs = n, !.calls = @ + 1]
        /\ thr' = [thr EXCEPT ![t] = [pc |-> "put", inst |-> i, blk |-> b]]
        /\ UNCHANGED <<ev, pf>>

(* Lac_MemPoolEntryFree: what the block holds is not cleared.              *)
Freed(s, b) == [s EXCEPT !.stack = <<b>> \o @]

(* A message put while the handler resets the rings is lost.               *)
Put(t) ==
    LET i == thr[t].inst
        s == proc.svc[i]
        b == thr[t].blk
        on == s.state \in {"RUNNING", "ERROR"}
    IN  /\ Alive /\ thr[t].pc = "put"
        /\ proc' = [proc EXCEPT !.svc[i].seq = @ + 1,
                       !.svc[i].req = IF on THEN Append(@, b) ELSE @]
        /\ ghost' = [ghost EXCEPT !.raced = @ \/ ~on]
        /\ thr' = [thr EXCEPT ![t] = [pc |-> "store", inst |-> i, blk |-> b,
                                     seq |-> s.seq]]
        /\ UNCHANGED <<ev, pf>>

(* The ring is full: the block goes back with an invalid number.           *)
PutFails(t) ==
    LET i == thr[t].inst
        b == thr[t].blk
    IN  /\ Alive /\ thr[t].pc = "put"
        /\ proc' = [proc EXCEPT !.svc[i] =
                       Freed([@ EXCEPT !.opaque[b] = INVALID], b)]
        /\ thr' = [thr EXCEPT ![t] = Idle]
        /\ UNCHANGED <<ev, pf, ghost>>

(* LAC_MEM_POOL_BLK_SET_OPAQUE, whoever owns the block by now.             *)
StoreOpaque(t) ==
    /\ Alive /\ thr[t].pc = "store"
    /\ proc' = [proc EXCEPT !.svc[thr[t].inst].opaque[thr[t].blk] =
                               thr[t].seq]
    /\ thr' = [thr EXCEPT ![t] = Idle]
    /\ UNCHANGED <<ev, pf, ghost>>

(* The device answers a request, in an order of its own; done are the      *)
(* requests answered before the error handler looks at the ring.           *)
Respond(i) ==
    LET s == proc.svc[i]
    IN  /\ Alive /\ proc.vfio
        /\ \E k \in DOMAIN s.req :
              /\ proc' = [proc EXCEPT !.svc[i].req = RemoveAt(@, k),
                                      !.svc[i].resp = Append(@, s.req[k])]
              /\ ghost' = IF s.state # "RUNNING" \/ s.todo = "error"
                          THEN ghost
                          ELSE [ghost EXCEPT !.done = @ \cup
                                               {s.owner[s.req[k]]}]
        /\ UNCHANGED <<thr, ev, pf>>

-----------------------------------------------------------------------------
(* Polling: icp_sal_DcPollInstance, icp_sal_CyPollInstance.                *)

(* Mutant: the bucket is read from its first place on.                     *)
BucketAtZero(s) ==
    LET n == Cardinality(InUse(s))
        At(k) == {b \in InRing(s) : s.opaque[b] % n = k}
        Entry(k) == IF At(k) = {} THEN None ELSE Max(At(k))
    IN  [k \in 1 .. Cardinality(InRing(s)) |-> Entry((k - 1) % n)]

(* LacSwResp_MemBlkBucketCreate: the blocks of the requests in the ring,   *)
(* each at its sequence number modulo the number of blocks in use, read    *)
(* from the lowest number on.  A later block replaces one in its place.    *)
Bucket(s) ==
    LET n == Cardinality(InUse(s))
        At(k) == {b \in InRing(s) : s.opaque[b] % n = k}
        Entry(k) == IF At(k) = {} THEN None ELSE Max(At(k))
        start == Min({s.opaque[b] : b \in InRing(s)})
    IN  [k \in 1 .. Cardinality(InRing(s)) |-> Entry((start + k - 1) % n)]

(* Mutant: every poller makes dummy responses.                             *)
GetAlways(s) == TRUE

(* Lac_MemPoolTestAndGet: dummy responses are made once per enabling.      *)
TestAndGet(s) == s.sync = 1

(* The numbers of the requests in the ring have no gap.                    *)
Contiguous(s) ==
    LET ops == {s.opaque[b] : b \in InRing(s)}
    IN  Cardinality(ops) = Cardinality(InRing(s))
        /\ \A x, y \in ops : y - x < Cardinality(ops)

Rising(s, list) ==
    \A k \in DOMAIN list : /\ list[k] # None
                           /\ k > 1 => s.opaque[list[k - 1]] < s.opaque[list[k]]

(* LacSwResp_GenResp up to the callbacks: blocks that hold no request in   *)
(* the ring go back to the pool.                                           *)
PollError(t, i) ==
    LET s == proc.svc[i]
        drop == InUse(s) \ InRing(s)
        freed == [s EXCEPT !.sync = 0, !.stack = SetToSeq(drop) \o @]
    IN  /\ Alive /\ proc.sal /\ thr[t].pc = "idle" /\ s.state = "ERROR"
        /\ Kind[i] # "sym" /\ ~s.active /\ TestAndGet(s)
        /\ proc' = [proc EXCEPT !.svc[i] = freed]
        /\ thr' = [thr EXCEPT ![t] = IF InRing(s) = {} THEN Idle
                      ELSE [pc |-> "gen", inst |-> i, list |-> Bucket(s)]]
        /\ ghost' = [ghost EXCEPT
                       !.raced = \E u \in Inside(i) : thr[u].pc # "gen",
                       !.order = @ /\ (Contiguous(s) /\ InRing(s) # {} =>
                                          Rising(s, Bucket(s)))]
        /\ UNCHANGED <<ev, pf>>

Answer(g, r) == [g EXCEPT !.answers[r] = @ + 1, !.done = @ \ {r}]

(* dcCompression_SwRespMsgCallback, LacPke_SwRespMsgCallback: one dummy    *)
(* response.  A place left empty is a null pointer; a block without an     *)
(* owner is one of a pool that was destroyed in between.                   *)
GenResp(t) ==
    LET i == thr[t].inst
        b == Head(thr[t].list)
        rest == Tail(thr[t].list)
    IN  /\ Alive /\ thr[t].pc = "gen"
        /\ IF b = None \/ proc.svc[i].owner[b] = None
           THEN ghost' = [ghost EXCEPT !.crash = TRUE] /\ UNCHANGED proc
           ELSE /\ ghost' = Answer([ghost EXCEPT !.lost = @
                                        \/ proc.svc[i].owner[b] \in ghost.done],
                                   proc.svc[i].owner[b])
                /\ proc' = [proc EXCEPT !.svc[i] = Freed(@, b)]
        /\ thr' = [thr EXCEPT ![t] = IF rest = <<>> THEN Idle
                                    ELSE [@ EXCEPT !.list = rest]]
        /\ UNCHANGED <<ev, pf>>

(* SAL_RUNNING_CHECK passes; icp_adf_pollInstance is still to come.        *)
PollCheck(t, i) ==
    LET s == proc.svc[i]
    IN  /\ Alive /\ proc.sal /\ thr[t].pc = "idle" /\ s.state = "RUNNING"
        /\ s.req # <<>> \/ s.resp # <<>>
        /\ thr' = [thr EXCEPT ![t] = [pc |-> "poll", inst |-> i]]
        /\ UNCHANGED <<proc, ev, pf, ghost>>

(* The response callback of the message at the head of the ring, if any:   *)
(* the asymmetric service also clears the block's number.                  *)
PollRing(t) ==
    LET i == thr[t].inst
        s == proc.svc[i]
        b == Head(s.resp)
        t1 == [s EXCEPT !.resp = Tail(@)]
        t2 == IF Kind[i] = "dc" THEN t1 ELSE [t1 EXCEPT !.opaque[b] = INVALID]
    IN  /\ Alive /\ thr[t].pc = "poll"
        /\ IF s.resp = <<>> THEN UNCHANGED <<proc, ghost>>
           ELSE /\ ghost' = Answer(ghost, s.owner[b])
                /\ proc' = [proc EXCEPT !.svc[i] = Freed(t2, b)]
        /\ thr' = [thr EXCEPT ![t] = Idle]
        /\ UNCHANGED <<ev, pf>>

-----------------------------------------------------------------------------
(* The physical function's driver (external): it may report a fatal error, *)
(* and resets the device: RESTARTING, then, once the VF is closed, the     *)
(* reset, then perhaps a RESTARTED message.  A message not read is lost.   *)

Send(from, to, msg) ==
    /\ pf.phase \in from
    /\ pf' = [pf EXCEPT !.phase = to, !.msg = msg]
    /\ UNCHANGED <<proc, thr, ev, ghost>>

PfError ==
    /\ Alive /\ pf.faults < MaxFaults /\ pf.phase = "up"
    /\ pf' = [pf EXCEPT !.phase = "error", !.msg = "ERROR", !.faults = @ + 1]
    /\ UNCHANGED <<proc, thr, ev, ghost>>

PfRestarting ==
    /\ Alive /\ pf.faults < MaxFaults /\ pf.phase \in {"up", "error"}
    /\ pf' = [phase |-> "restarting", msg |-> "RESTARTING",
              faults |-> pf.faults + 1]
    /\ UNCHANGED <<proc, thr, ev, ghost>>

PfReset == ~proc.vfio /\ Send({"restarting"}, "reset", None)
PfBack == Send({"reset"}, "back", None)
PfRestarted == \E m \in {None, "RESTARTED"} : Send({"back"}, "up", m)

-----------------------------------------------------------------------------
Events == \/ PollQueued \/ PollQueueEmpty \/ PollProxy \/ PollProxyEmpty
          \/ Return
Submit(t) == Put(t) \/ PutFails(t) \/ StoreOpaque(t)
Poll(t) == GenResp(t) \/ PollRing(t)
            \/ \E i \in Used : PollError(t, i) \/ PollCheck(t, i)

Next ==
    \/ Events \/ Tick
    \/ UserStart \/ UserStop
    \/ \E i \in Used : StartInstance(i) \/ StopInstance(i) \/ Respond(i)
    \/ \E t \in Submitters : Submit(t) \/ \E i \in Used : Alloc(t, i)
    \/ \E t \in Pollers : Poll(t)
    \/ PfError \/ PfRestarting \/ PfReset \/ PfBack \/ PfRestarted

Spec == Init /\ [][Next]_vars

-----------------------------------------------------------------------------
(* Properties.                                                             *)

(* A request is answered at most once, by the device or by a dummy         *)
(* response, whichever of two pollers makes it (LacSwResp_GenResp).        *)
AnsweredOnce == \A r \in Req : ghost.answers[r] <= 1

(* "This function creates a bucket with in-order memblks": when the        *)
(* numbers in the ring have no gap, the dummy responses come in the order  *)
(* the requests were sent and no place of the bucket is empty.             *)
DummiesInOrder == ghost.order

(* "the error status is only set after there are no remained responses on  *)
(* the response ring" (SalCtrl_CompressionError, SalCtrl_CryptoError): a   *)
(* request whose answer was written before the handler looked at the       *)
(* response ring is not reported as failed, unless a reset of the rings    *)
(* dropped the answer.  Excepted is an answer written after the look: the  *)
(* handler stores ERROR all the same, and the request is reported as       *)
(* failed by a dummy response.                                             *)
GenuineFirst == ~ghost.lost

(* An error is notified to every instance of the device, and once, however *)
(* often the event is replayed (SalCtrl_ServiceError, subsystem_notify),   *)
(* unless an instance of an earlier type made the handler return early, or *)
(* the flag is left from before the library was last stopped.              *)
FatalToAll ==
    \A i \in Inst :
        /\ ghost.fatal[i] <= 1
        /\ proc.err /\ proc.startBit => \/ ghost.fatal[i] = 1 \/ ghost.short
                                        \/ ghost.stale \/ ghost.broken

(* What ADF believes of the device agrees with what SAL did: devices are   *)
(* counted as the table holds them, and a library that is started and not  *)
(* in a restart has every service running or in error.  Excepted are the   *)
(* aftermath of a restart in which something fails, the device that qatmgr *)
(* does not name included, whose restart is reported as a success; of a    *)
(* RESTARTED event that comes twice; and of a start after a failed one.    *)
LifecycleAgrees ==
    /\ ghost.miscount \/ proc.num = IF proc.tbl THEN 1 ELSE 0
    /\ proc.ref > 0 /\ ~ghost.broken =>
        /\ proc.startBit => proc.sal /\ proc.initBit
        /\ ~proc.restarting =>
              proc.startBit /\ \A i \in Inst :
                                  proc.svc[i].state \in {"RUNNING", "ERROR"}


=============================================================================
