------------------------------ MODULE MemPool ------------------------------
(***************************************************************************)
(* A memory pool of SAL (lac_mem_pools.c): blocks on a lock-free stack     *)
(* (lac_lock_free_stack.h) that threads take as cookies of requests and    *)
(* give back, often from the thread that handles the response.  Each read, *)
(* write and compare-and-swap of shared memory is a step.                  *)
(***************************************************************************)
EXTENDS Integers, FiniteSets

CONSTANTS
  Blocks,          \* the blocks of the pool: numElementsInPool of them
  Threads,
  NULL,
  MaxCtr,          \* bound: the counter of the stack's top (64 bits) stops here
  W                \* availBlks is an unsigned integer of W bits

numElementsInPool == Cardinality(Blocks)

ASSUME PoolAssumption ==
  /\ IsFiniteSet(Blocks) /\ NULL \notin Blocks
  /\ IsFiniteSet(Threads)
  /\ MaxCtr \in Nat /\ W \in Nat /\ 2 ^ W \in Nat
  /\ numElementsInPool < 2 ^ W

VARIABLES
  top,             \* [ctr, ptr], swapped as one word
  pNext, isInUse,  \* of each block
  availBlks, active,
  cookies,         \* the blocks that callers hold
  pc, old, next, blk  \* of each thread; blk is the block it takes or gives back

vars == <<top, pNext, isInUse, availBlks, active, cookies, pc, old, next, blk>>

-----------------------------------------------------------------------------
\* The k-th block from the top of the stack, NULL past its end.
Nth(k) ==
  LET f[n \in 0 .. k] ==
        IF n = 0 THEN top.ptr ELSE IF f[n - 1] = NULL THEN NULL ELSE pNext[f[n - 1]]
  IN  f[k]

Chained == {Nth(k) : k \in 0 .. numElementsInPool - 1} \ {NULL}

\* Lac_MemPoolCreate pushes every block, in some order.
Init ==
  /\ top \in [ctr : {0}, ptr : Blocks]
  /\ pNext \in [Blocks -> Blocks \cup {NULL}]
  /\ Nth(numElementsInPool) = NULL /\ Chained = Blocks
  /\ isInUse = [b \in Blocks |-> FALSE]
  /\ availBlks = numElementsInPool
  /\ active = TRUE
  /\ cookies = {}
  /\ pc = [t \in Threads |-> "idle"]
  /\ old = [t \in Threads |-> top]
  /\ next = [t \in Threads |-> NULL]
  /\ blk = [t \in Threads |-> NULL]

-----------------------------------------------------------------------------
(* Lac_MemPoolEntryAlloc.                                                  *)

AllocBegin(t) ==
  /\ pc[t] = "idle"
  /\ active
  /\ pc' = [pc EXCEPT ![t] = "popTop"]
  /\ UNCHANGED <<top, pNext, isInUse, availBlks, active, cookies, old, next, blk>>

\* The top is loaded in two halves, in an order that is up to the compiler: the
\* load, unlike the swap, is not atomic.
Load(t, half, from, to) ==
  /\ pc[t] = from
  /\ old' = [old EXCEPT ![t][half] = top[half]]
  /\ pc' = [pc EXCEPT ![t] = to]
  /\ UNCHANGED <<top, pNext, isInUse, availBlks, active, cookies, next, blk>>

\* pop: load the top.
PopTop(t) ==
  \/ Load(t, "ctr", "popTop", "popPtr") \/ Load(t, "ptr", "popPtr", "popNext")
  \/ Load(t, "ptr", "popTop", "popCtr") \/ Load(t, "ctr", "popCtr", "popNext")

\* The stack is empty: CPA_STATUS_RETRY.
PopEmpty(t) ==
  /\ pc[t] = "popNext"
  /\ old[t].ptr = NULL
  /\ pc' = [pc EXCEPT ![t] = "idle"]
  /\ UNCHANGED <<top, pNext, isInUse, availBlks, active, cookies, old, next, blk>>

PopNext(t) ==
  /\ pc[t] = "popNext"
  /\ old[t].ptr # NULL
  /\ next' = [next EXCEPT ![t] = pNext[old[t].ptr]]
  /\ pc' = [pc EXCEPT ![t] = "popCas"]
  /\ UNCHANGED <<top, pNext, isInUse, availBlks, active, cookies, old, blk>>

\* Mutant: the counter is not part of what is compared.
SameTopPtr(t) == top.ptr = old[t].ptr

\* __sync_bool_compare_and_swap compares counter and pointer.
SameTop(t) == top = old[t]

PopCas(t) ==
  /\ pc[t] = "popCas"
  /\ IF SameTop(t)
     THEN /\ top.ctr < MaxCtr
          /\ top' = [ctr |-> old[t].ctr + 1, ptr |-> next[t]]
          /\ blk' = [blk EXCEPT ![t] = old[t].ptr]
          /\ pc' = [pc EXCEPT ![t] = "count"]
     ELSE /\ pc' = [pc EXCEPT ![t] = "popTop"]
          /\ UNCHANGED <<top, blk>>
  /\ UNCHANGED <<pNext, isInUse, availBlks, active, cookies, old, next>>

AllocCount(t) ==
  /\ pc[t] = "count"
  /\ availBlks' = (availBlks - 1) % 2 ^ W
  /\ pc' = [pc EXCEPT ![t] = "mark"]
  /\ UNCHANGED <<top, pNext, isInUse, active, cookies, old, next, blk>>

AllocEnd(t) ==
  /\ pc[t] = "mark"
  /\ isInUse' = [isInUse EXCEPT ![blk[t]] = TRUE]
  /\ cookies' = cookies \cup {blk[t]}
  /\ blk' = [blk EXCEPT ![t] = NULL]
  /\ pc' = [pc EXCEPT ![t] = "idle"]
  /\ UNCHANGED <<top, pNext, availBlks, active, old, next>>

-----------------------------------------------------------------------------
(* Lac_MemPoolEntryFree, by any thread: the callback's, often.             *)

FreeBegin(t, b) ==
  /\ pc[t] = "idle"
  /\ b \in cookies
  /\ cookies' = cookies \ {b}
  /\ isInUse' = [isInUse EXCEPT ![b] = FALSE]
  /\ blk' = [blk EXCEPT ![t] = b]
  /\ pc' = [pc EXCEPT ![t] = "pushTop"]
  /\ UNCHANGED <<top, pNext, availBlks, active, old, next>>

\* push: load the top.
PushTop(t) ==
  \/ Load(t, "ctr", "pushTop", "pushPtr") \/ Load(t, "ptr", "pushPtr", "pushNext")
  \/ Load(t, "ptr", "pushTop", "pushCtr") \/ Load(t, "ctr", "pushCtr", "pushNext")

PushNext(t) ==
  /\ pc[t] = "pushNext"
  /\ pNext' = [pNext EXCEPT ![blk[t]] = old[t].ptr]
  /\ pc' = [pc EXCEPT ![t] = "pushCas"]
  /\ UNCHANGED <<top, isInUse, availBlks, active, cookies, old, next, blk>>

PushCas(t) ==
  /\ pc[t] = "pushCas"
  /\ IF SameTop(t)
     THEN /\ top.ctr < MaxCtr
          /\ top' = [ctr |-> old[t].ctr + 1, ptr |-> blk[t]]
          /\ blk' = [blk EXCEPT ![t] = NULL]
          /\ pc' = [pc EXCEPT ![t] = "add"]
     ELSE /\ pc' = [pc EXCEPT ![t] = "pushTop"]
          /\ UNCHANGED <<top, blk>>
  /\ UNCHANGED <<pNext, isInUse, availBlks, active, cookies, old, next>>

FreeEnd(t) ==
  /\ pc[t] = "add"
  /\ availBlks' = (availBlks + 1) % 2 ^ W
  /\ pc' = [pc EXCEPT ![t] = "idle"]
  /\ UNCHANGED <<top, pNext, isInUse, active, cookies, old, next, blk>>

-----------------------------------------------------------------------------
\* Lac_MemPoolDisable and Lac_MemPoolEnable, around a device error.
Disable ==
  /\ active
  /\ active' = FALSE
  /\ UNCHANGED <<top, pNext, isInUse, availBlks, cookies, pc, old, next, blk>>

Enable ==
  /\ ~active
  /\ active' = TRUE
  /\ UNCHANGED <<top, pNext, isInUse, availBlks, cookies, pc, old, next, blk>>

Alloc(t) ==
  \/ PopTop(t) \/ PopEmpty(t) \/ PopNext(t) \/ PopCas(t)
  \/ AllocCount(t) \/ AllocEnd(t)

Free(t) == PushTop(t) \/ PushNext(t) \/ PushCas(t) \/ FreeEnd(t)

Next ==
  \/ \E t \in Threads :
       \/ AllocBegin(t) \/ Alloc(t)
       \/ (\E b \in Blocks : FreeBegin(t, b)) \/ Free(t)
  \/ Disable \/ Enable

Spec == Init /\ [][Next]_vars

-----------------------------------------------------------------------------
(* Properties.                                                             *)

\* No interleaving of pops and pushes, with blocks that return to the top in
\* between, loses a block or gives one to two owners: the stack ends, and every
\* block is on it, with one thread that takes it or gives it back, or with a
\* caller, and nowhere else.  A caller's block is marked in use and one on the
\* stack is not, as LacSwResp_MemBlkBucketCreate expects; and availBlks counts,
\* modulo 2^W, the blocks on the stack, those just taken and not yet those
\* just given back.
BlocksConserved ==
  /\ Nth(numElementsInPool) = NULL
  /\ \A b \in Blocks :
       Cardinality({t \in Threads : blk[t] = b})
         + (IF b \in Chained THEN 1 ELSE 0) + (IF b \in cookies THEN 1 ELSE 0) = 1
  /\ \A b \in cookies : isInUse[b]
  /\ \A b \in Chained : ~isInUse[b]
  /\ availBlks = (Cardinality(Chained)
                  + Cardinality({t \in Threads : pc[t] = "count"})
                  - Cardinality({t \in Threads : pc[t] = "add"})) % 2 ^ W

=============================================================================
