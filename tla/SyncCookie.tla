----------------------------- MODULE SyncCookie -----------------------------
(***************************************************************************)
(* Synchronous calls (lac_sync.h, lac_sync.c): a caller creates a cookie   *)
(* with a semaphore, sends its request with the cookie as callback tag,    *)
(* waits for the callback for a limited time and destroys the cookie; the  *)
(* thread that polls runs the callback, which writes the result into the   *)
(* cookie and posts the semaphore.  The caller that gives up and the late  *)
(* callback meet in the cookie's memory, which malloc may meanwhile have   *)
(* given to another caller.                                                *)
(***************************************************************************)
EXTENDS Integers, FiniteSets

CONSTANTS
  Callers,
  Addrs,           \* addresses malloc can return for a cookie
  MaxCalls,        \* bound: calls each caller makes
  None

ASSUME SyncAssumption ==
  /\ IsFiniteSet(Callers) /\ IsFiniteSet(Addrs)
  /\ MaxCalls \in Nat
  /\ None \notin Addrs

\* A call is named by its caller and its number; it is also the result its
\* callback delivers.
Calls == Callers \X (1 .. MaxCalls)

VARIABLES
  heap,            \* addresses that are allocated
  status, complete, canceled, sem,   \* the cookie at each address
  pc, cookie, calls, result,         \* of each caller
  inFlight,        \* [call, tag] of requests whose response is outstanding
  cbStep, cb       \* the poller: its step and the callback it runs

cookieVars == <<status, complete, canceled, sem>>
callerVars == <<pc, cookie, calls, result>>
vars == <<heap, cookieVars, callerVars, inFlight, cbStep, cb>>

Call(c) == <<c, calls[c]>>

Init ==
  /\ heap = {}
  /\ status = [a \in Addrs |-> None]
  /\ complete = [a \in Addrs |-> FALSE]
  /\ canceled = [a \in Addrs |-> FALSE]
  /\ sem = [a \in Addrs |-> 0]
  /\ pc = [c \in Callers |-> "idle"]
  /\ cookie = [c \in Callers |-> None]
  /\ calls = [c \in Callers |-> 0]
  /\ result = [c \in Callers |-> None]
  /\ inFlight = {}
  /\ cbStep = "poll" /\ cb = None

-----------------------------------------------------------------------------
(* The caller: LacSym_Perform and its like in synchronous mode.            *)

\* LacSync_CreateSyncCookie; status is not initialised.
Create(c, a) ==
  /\ pc[c] = "idle"
  /\ calls[c] < MaxCalls
  /\ a \notin heap
  /\ heap' = heap \cup {a}
  /\ complete' = [complete EXCEPT ![a] = FALSE]
  /\ canceled' = [canceled EXCEPT ![a] = FALSE]
  /\ sem' = [sem EXCEPT ![a] = 0]
  /\ cookie' = [cookie EXCEPT ![c] = a]
  /\ calls' = [calls EXCEPT ![c] = @ + 1]
  /\ result' = [result EXCEPT ![c] = None]
  /\ pc' = [pc EXCEPT ![c] = "send"]
  /\ UNCHANGED <<status, inFlight, cbStep, cb>>

Send(c) ==
  /\ pc[c] = "send"
  /\ inFlight' = inFlight \cup {[call |-> Call(c), tag |-> cookie[c]]}
  /\ pc' = [pc EXCEPT ![c] = "wait"]
  /\ UNCHANGED <<heap, cookieVars, cookie, calls, result, cbStep, cb>>

\* The request was not sent: LacSync_SetSyncCookieComplete.
SendFail(c) ==
  /\ pc[c] = "send"
  /\ complete' = [complete EXCEPT ![cookie[c]] = TRUE]
  /\ pc' = [pc EXCEPT ![c] = "destroy"]
  /\ UNCHANGED <<heap, status, canceled, sem, cookie, calls, result, inFlight,
                 cbStep, cb>>

\* LacSync_WaitForCallback: the semaphore is taken, the result is read.
Wake(c) ==
  LET a == cookie[c] IN
  /\ pc[c] = "wait"
  /\ sem[a] > 0
  /\ sem' = [sem EXCEPT ![a] = @ - 1]
  /\ result' = [result EXCEPT ![c] = status[a]]
  /\ complete' = [complete EXCEPT ![a] = TRUE]
  /\ pc' = [pc EXCEPT ![c] = "destroy"]
  /\ UNCHANGED <<heap, status, canceled, cookie, calls, inFlight, cbStep, cb>>

\* The time is over and the semaphore was not posted.
Timeout(c) ==
  /\ pc[c] = "wait"
  /\ sem[cookie[c]] = 0
  /\ pc' = [pc EXCEPT ![c] = "destroy"]
  /\ UNCHANGED <<heap, cookieVars, cookie, calls, result, inFlight, cbStep, cb>>

\* Mutant: the cookie is freed whether or not its callback came.
DestroyAlways(c) ==
  /\ pc[c] = "destroy"
  /\ heap' = heap \ {cookie[c]}
  /\ cookie' = [cookie EXCEPT ![c] = None]
  /\ pc' = [pc EXCEPT ![c] = "idle"]
  /\ UNCHANGED <<cookieVars, calls, result, inFlight, cbStep, cb>>

\* LacSync_DestroySyncCookie: an incomplete cookie is cancelled and leaks.
Destroy(c) ==
  LET a == cookie[c] IN
  /\ pc[c] = "destroy"
  /\ IF complete[a]
     THEN heap' = heap \ {a} /\ UNCHANGED canceled
     ELSE canceled' = [canceled EXCEPT ![a] = TRUE] /\ UNCHANGED heap
  /\ cookie' = [cookie EXCEPT ![c] = None]
  /\ pc' = [pc EXCEPT ![c] = "idle"]
  /\ UNCHANGED <<status, complete, sem, calls, result, inFlight, cbStep, cb>>

-----------------------------------------------------------------------------
(* The poller: LacSync_GenVerifyWakeupSyncCaller.                          *)

\* A response: its callback looks whether the call was cancelled.
CallbackBegin(m) ==
  /\ cbStep = "poll"
  /\ m \in inFlight
  /\ inFlight' = inFlight \ {m}
  /\ cb' = m
  /\ cbStep' = IF canceled[m.tag] THEN "poll" ELSE "write"
  /\ UNCHANGED <<heap, cookieVars, callerVars>>

CallbackWrite ==
  /\ cbStep = "write"
  /\ status' = [status EXCEPT ![cb.tag] = cb.call]
  /\ cbStep' = "post"
  /\ UNCHANGED <<heap, complete, canceled, sem, callerVars, inFlight, cb>>

CallbackPost ==
  /\ cbStep = "post"
  /\ sem' = [sem EXCEPT ![cb.tag] = @ + 1]
  /\ cbStep' = "poll"
  /\ UNCHANGED <<heap, status, complete, canceled, callerVars, inFlight, cb>>

-----------------------------------------------------------------------------
CallStep(c) == Send(c) \/ SendFail(c) \/ Wake(c) \/ Timeout(c) \/ Destroy(c)

Next ==
  \/ \E c \in Callers : CallStep(c) \/ \E a \in Addrs : Create(c, a)
  \/ (\E m \in inFlight : CallbackBegin(m)) \/ CallbackWrite \/ CallbackPost

Spec == Init /\ [][Next]_vars

-----------------------------------------------------------------------------
(* Properties.                                                             *)

\* A callback never touches a cookie that was freed, however late it comes and
\* however the caller left: "Otherwise, the callback might panic" (lac_sync.h);
\* and a cookie that stays allocated without a caller is one whose caller timed
\* out.
CookieLifetime ==
  /\ \A m \in inFlight : m.tag \in heap
  /\ cbStep # "poll" => cb.tag \in heap
  /\ \A a \in heap :
       (\A c \in Callers : cookie[c] # a) => canceled[a] /\ ~complete[a]

\* A caller that is woken reads the result of its own call, not that of an
\* earlier call whose callback was late.
OwnResult == \A c \in Callers : result[c] # None => result[c] = Call(c)

=============================================================================
