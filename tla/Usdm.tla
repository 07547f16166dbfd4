-------------------------------- MODULE Usdm --------------------------------
(***************************************************************************)
(* libusdm: memory a device can reach.  Slabs of units are cut into        *)
(* blocks by a bitmap (__qae_mem_alloc), slabs without blocks are cached,  *)
(* larger requests get a slab of their own; each slab has a range of I/O   *)
(* virtual addresses (IOVA) and is mapped into the VFIO container once     *)
(* that is registered.  Allocation and release run under one mutex,        *)
(* qaeRegisterDevice and qaeUnregisterDevice do not, and a child process   *)
(* inherits everything but the memory.                                     *)
(***************************************************************************)
EXTENDS Integers, SequencesExt

CONSTANTS
    Parent, Child,   \* two processes: Child is forked from Parent
    Mem,             \* address ranges that mmap may return in a process
    QwordWidth,      \* QWORD_WIDTH: bits of a word of the bitmap
    BitmapLen,       \* BITMAP_LEN: words of the bitmap
    Reserved,        \* units at the start of a slab for its block_ctrl_t
    MaxLookup,       \* g_max_lookup_num
    MaxCache,        \* g_max_cache, in slabs
    NumIova,         \* NUM_IOVA_SLABS
    HashSize,        \* number of lists of g_slab_list
    Hole,            \* IOVA slabs the IOMMU cannot map (interrupt window)
    Requests,        \* what each process asks for: sizes and alignments in
                     \*   units, alignment 0 when it is less than a unit
    MaxCalls,        \* bounds on the calls (see Call), and on the devices a
    MaxDevices,      \*   process registers
    None

Procs == {Parent, Child}
Units == BitmapLen * QwordWidth
MaxIova == NumIova - 1

ASSUME UsdmAssumption ==
    /\ QwordWidth \in Nat \ {0} /\ BitmapLen \in Nat \ {0}
    /\ Reserved \in 1 .. Units /\ NumIova \in Nat /\ NumIova > 1
    /\ Hole \subseteq 1 .. MaxIova
    /\ \A p \in Procs : \A r \in Requests[p] :
          r.size \in Nat \ {0} /\ r.align \in Nat

RoundUp(n, a) == ((n + a - 1) \div a) * a

VARIABLES
    proc,      \* what the mutex of each process guards, a record:
               \*   known  - check_pid has seen this process
               \*   slab   - the slab at each address range, or None
               \*   mem, large, cache - the lists, first element first
               \*   table  - page table: IOVA of each address range, 0 if none
               \*   used, next - iova_used and next_iova
    fd,        \* vfio_container_fd: the container's owner, or None
    ref,       \* vfio_container_ref
    vfio_pid,
    alloc,     \* the new slab a process is about to link, or None
    reg,       \* next list of a registration in progress, or None
    ret,       \* what the registration in progress will return
    forked,    \* whether Child exists
    calls,     \* number of calls of qaeMemAllocNUMA, qaeMemDestroy and
               \*   qaeRegisterDevice
    iommu,     \* each container: what each IOVA slab is mapped to
    live,      \* history: the blocks callers hold
    suspect,   \* history: per container, IOVA slabs that were mapped by
               \*   another process, left by a failed registration, or given
               \*   to a slab while a registration walked the lists
    spoiled    \* history: processes whose iova_used is not exact: they ran out
               \*   of IOVA for a large slab, or lost the mark of a slab to a
               \*   registration that marked the hole

vars == <<proc, fd, ref, vfio_pid, alloc, reg, ret, forked, calls, iommu, live,
          suspect, spoiled>>

NoSlabs == [m \in Mem |-> None]
Unmapped == [i \in 0 .. MaxIova |-> None]

\* __qae_ResetControl and the rest of qaeInitProcess
Fresh(known) ==
    [known |-> known, slab |-> NoSlabs, mem |-> <<>>, large |-> <<>>,
     cache |-> <<>>, table |-> [m \in Mem |-> 0], used |-> {}, next |-> 1]

Init ==
    /\ proc = [p \in Procs |-> Fresh(FALSE)]
    /\ fd = [p \in Procs |-> None]
    /\ ref = [p \in Procs |-> 0]
    /\ vfio_pid = [p \in Procs |-> None]
    /\ alloc = [p \in Procs |-> None]
    /\ reg = [p \in Procs |-> None]
    /\ ret = [p \in Procs |-> 0]
    /\ forked = FALSE /\ calls = 0
    /\ iommu = [c \in Procs |-> Unmapped]
    /\ live = {}
    /\ suspect = [c \in Procs |-> {}]
    /\ spoiled = {}

Running(p) == p = Parent \/ forked

-----------------------------------------------------------------------------
(* The bitmap of a slab: the set of its bits that are one. *)

\* bitmap_read: the word that starts at pos; the barrier behind the last
\* word and what lies beyond read as ones.
bitmap_read(bits, pos) ==
    {i \in 0 .. QwordWidth - 1 : pos + i \in bits \/ pos + i >= Units}

\* mem_ctzll
mem_ctzll(word) == IF word = {} THEN QwordWidth ELSE Min(word)

\* The ones of the word from bit "from" on.  The shift that drops the zeros
\* before them brings in zeros at the other end.
Ones(word, from) ==
    Min(((from .. QwordWidth - 1) \ word) \cup {QwordWidth}) - from

\* Mutant: the position is not aligned again behind the ones.
NoAlign(pos, align) == pos

Align(pos, align) == IF align > 0 THEN RoundUp(pos, align) ELSE pos

\* The search of __qae_mem_alloc: the first unit of the block, or None.
Search(bits, size, align) ==
    LET Step[pos \in Nat, first \in Nat, found \in Nat] ==
            LET word == bitmap_read(bits, pos)
                width == mem_ctzll(word)
                behind == Align(pos + width + Ones(word, width), align)
            IN  IF found + width >= size
                THEN IF first + size > Units THEN None ELSE first
                ELSE IF word # {}
                THEN IF behind < Units THEN Step[behind, behind, 0] ELSE None
                ELSE IF pos + width < Units
                     THEN Step[pos + width, first, found + width] ELSE None
    IN  Step[0, 0, 0]

Block(first, size) == first .. first + size - 1

\* What is done with the unit found: sizes and bitmap of the slab.
Take(slab, first, size) ==
    [slab EXCEPT !.bits = @ \cup Block(first, size), !.sizes[first] = size]

\* Mutant: one unit less is cleared.
GiveShort(slab, first) ==
    [slab EXCEPT !.bits = @ \ Block(first, slab.sizes[first] - 1),
                 !.sizes[first] = 0]

\* __qae_mem_free
Give(slab, first) ==
    [slab EXCEPT !.bits = @ \ Block(first, slab.sizes[first]),
                 !.sizes[first] = 0]

-----------------------------------------------------------------------------
(* I/O virtual addresses, counted in slabs. *)

Span(iova, n) == iova .. iova + n - 1

\* iova_reserve: whether the range can be reserved
Reservable(used, iova, n) ==
    iova + n - 1 <= MaxIova /\ Span(iova, n) \cap used = {}

\* Mutant: the search goes on from the first address only.
AllocateOnce(used, next, n, a) ==
    LET iova == RoundUp(next, a)
    IN  IF Reservable(used, iova, n) THEN iova ELSE 0

\* allocate_iova: a range of n slabs aligned to a, from next_iova on and
\* around, or 0.
allocate_iova(used, next, n, a) ==
    LET Try[count \in Nat, iova \in Nat] ==
            IF count >= MaxIova \div a THEN 0
            ELSE IF Reservable(used, iova, n) THEN iova
            ELSE Try[count + 1, IF iova + a > MaxIova THEN RoundUp(1, a)
                                                      ELSE iova + a]
    IN  Try[0, RoundUp(next, a)]

NextIova(iova, n) == IF iova + n > MaxIova THEN 1 ELSE iova + n

\* dma_map_slab: an address in use stays as it is (EEXIST counts as
\* success), an address of the hole cannot be mapped.
Map(map, p, m, iova, n) ==
    [i \in 0 .. MaxIova |->
        IF i \in Span(iova, n) /\ \A j \in Span(iova, n) : map[j] = None
        THEN <<p, m>> ELSE map[i]]

\* dma_unmap_slab.  VFIO unmaps for the process that mapped.
Unmap(map, p, iova, n) ==
    [i \in 0 .. MaxIova |->
        IF i \in Span(iova, n) /\ map[i] # None /\ map[i][1] = p
        THEN None ELSE map[i]]

MapFails(iova, n) == Span(iova, n) \cap Hole # {}

Covers(s, m) == Span(s.slab[m].iova, s.slab[m].n)
Owned(s) == {m \in Mem : s.slab[m] # None}
SmallSlabs(s) == {m \in Owned(s) : s.slab[m].type = "SMALL"}

-----------------------------------------------------------------------------
(* Slabs. *)

IsLarge(r) == r.size + Reserved > Units \/ r.align >= Units
Slabs(r) == IF IsLarge(r) THEN RoundUp(Max({r.size, r.align}), Units) \div Units
                          ELSE 1
IovaAlign(r) == Max({1, RoundUp(r.align, Units) \div Units})

\* The slab __qae_alloc_slab returns; a small one has its control block in
\* front.  "allocs" is the field allocations.
NewSlab(r, iova) ==
    [type |-> IF IsLarge(r) THEN "LARGE" ELSE "SMALL", iova |-> iova,
     n |-> Slabs(r), bits |-> 0 .. Reserved - 1,
     sizes |-> [u \in 0 .. Units - 1 |-> 0], allocs |-> 0]

\* Mutant: the IOVA of a freed slab stay marked.
FreeSlabKeepsIova(s, m) == [s EXCEPT !.slab[m] = None]

\* __qae_free_slab: the slab leaves the hash table, its IOVA are released
\* and, with a container, unmapped.  The page table is left alone.
FreeSlab(s, m) == [s EXCEPT !.slab[m] = None, !.used = @ \ Covers(s, m)]

UnmapSlab(map, p, s, m) ==
    IF fd[p] = None THEN map
    ELSE [map EXCEPT ![fd[p]] = Unmap(@, p, s.slab[m].iova, s.slab[m].n)]

\* __qae_open: the first call in a process starts from nothing.
Open(p) == IF proc[p].known THEN proc[p] ELSE Fresh(TRUE)

\* find_slab_in_hash: the key of the page table's entry (get_key) selects the
\* list that is searched for the address.
Key(iova) == iova % HashSize
Found(s, m) == s.slab[m] # None /\ Key(s.table[m]) = Key(s.slab[m].iova)

\* __qae_userMemLookupBySize: the first slabs of the list with room
Candidates(s, r) ==
    {i \in 1 .. Min({Len(s.mem), MaxLookup}) :
        Search(s.slab[s.mem[i]].bits, r.size, r.align) # None}

Held(p, m, first, r) ==
    [proc |-> p, mem |-> m, first |-> first, size |-> r.size, align |-> r.align]

Locked(p) == Running(p) /\ alloc[p] = None
Call == calls < MaxCalls /\ calls' = calls + 1

-----------------------------------------------------------------------------
(* qaeMemAllocNUMA *)

\* A slab in use has room.
AllocFromList(p, r) ==
    /\ Locked(p) /\ Call /\ ~IsLarge(r)
    /\ LET s == Open(p)
           m == s.mem[Min(Candidates(s, r))]
           first == Search(s.slab[m].bits, r.size, r.align)
       IN  /\ Candidates(s, r) # {}
           /\ proc' = [proc EXCEPT ![p] = [s EXCEPT !.slab[m] =
                          [Take(@, first, r.size) EXCEPT !.allocs = @ + 1]]]
           /\ live' = live \cup {Held(p, m, first, r)}
    /\ UNCHANGED <<fd, ref, vfio_pid, alloc, reg, ret, forked, iommu, suspect,
                   spoiled>>

\* pop_slab and init_slab_and_alloc: a cached slab serves the request.
AllocFromCache(p, r) ==
    /\ Locked(p) /\ Call /\ ~IsLarge(r)
    /\ LET s == Open(p)
           m == Head(s.cache)
           first == Search(s.slab[m].bits, r.size, r.align)
       IN  /\ Candidates(s, r) = {} /\ s.cache # <<>> /\ first # None
           /\ proc' = [proc EXCEPT ![p] =
                 [s EXCEPT !.cache = Tail(@), !.mem = Cons(m, @),
                           !.slab[m] = [Take(@, first, r.size)
                                           EXCEPT !.allocs = @ + 1]]]
           /\ live' = live \cup {Held(p, m, first, r)}
           /\ suspect' = [suspect EXCEPT ![p] =
                             IF reg[p] # None THEN @ \cup Covers(s, m) ELSE @]
    /\ UNCHANGED <<fd, ref, vfio_pid, alloc, reg, ret, forked, iommu, spoiled>>

\* "Defer IOMMU map until container is registered."
MapNew(p, m, iova, n, map) ==
    IF fd[p] = None THEN map
    ELSE [map EXCEPT ![fd[p]] = Map(@, p, m, iova, n)]

\* __qae_alloc_slab (ioctl_alloc_slab) and what its failure leaves: without
\* an IOVA, iova_release is called with address 0; without a mapping, the
\* range is released and next_iova stays ahead.
NewSlabAt(p, r, m, s, map) ==
    LET n == Slabs(r)
        iova == allocate_iova(s.used, s.next, n, IovaAlign(r))
        ahead == [s EXCEPT !.next = NextIova(iova, n)]
    IN  \/ /\ iova = 0
           /\ proc' = [proc EXCEPT ![p] = [s EXCEPT !.used = @ \ Span(0, n)]]
           /\ spoiled' = IF n > 1 THEN spoiled \cup {p} ELSE spoiled
           /\ iommu' = map
           /\ UNCHANGED <<alloc, suspect>>
        \/ /\ iova # 0 /\ fd[p] # None /\ MapFails(iova, n)
           /\ proc' = [proc EXCEPT ![p] = ahead]
           /\ iommu' = map
           /\ UNCHANGED <<alloc, suspect, spoiled>>
        \/ /\ iova # 0 /\ (fd[p] = None \/ ~MapFails(iova, n))
           /\ proc' = [proc EXCEPT ![p] =
                 [ahead EXCEPT !.used = @ \cup Span(iova, n),
                               !.slab[m] = NewSlab(r, iova)]]
           /\ iommu' = MapNew(p, m, iova, n, map)
           /\ alloc' = [alloc EXCEPT ![p] = [mem |-> m, req |-> r]]
           /\ suspect' = [c \in Procs |->
                 IF (c = fd[p] /\ c # p) \/ (c = p /\ reg[p] # None)
                 THEN suspect[c] \cup Span(iova, n) ELSE suspect[c]]
           /\ UNCHANGED spoiled

\* No slab has room, and a cached slab that cannot hold the request even when
\* empty is freed (__qae_find_slab): a new slab is made.
AllocSlab(p, r, m) ==
    /\ Locked(p) /\ Call
    /\ LET s == Open(p)
           unfit == ~IsLarge(r) /\ s.cache # <<>>
           old == Head(s.cache)
       IN  /\ ~IsLarge(r) => Candidates(s, r) = {}
           /\ unfit => Search(s.slab[old].bits, r.size, r.align) = None
           /\ s.slab[m] = None
           /\ NewSlabAt(p, r, m,
                 IF unfit THEN [FreeSlab(s, old) EXCEPT !.cache = Tail(@)]
                          ELSE s,
                 IF unfit THEN UnmapSlab(iommu, p, s, old) ELSE iommu)
    /\ UNCHANGED <<fd, ref, vfio_pid, reg, ret, forked, live>>

\* Mutant: a large slab does not enter the page table.
StoreSmall(s, m) ==
    IF s.slab[m].type = "LARGE" THEN s
    ELSE [s EXCEPT !.table[m] = s.slab[m].iova]

\* store_mmap_range
Store(s, m) == [s EXCEPT !.table[m] = s.slab[m].iova]

\* The rest of __qae_alloc_addr: page table, list, and the block.
AllocLink(p) ==
    /\ alloc[p] # None
    /\ LET m == alloc[p].mem
           r == alloc[p].req
           s == Store(proc[p], m)
           first == Search(s.slab[m].bits, r.size, r.align)
       IN  \/ /\ IsLarge(r)
              /\ proc' = [proc EXCEPT ![p] =
                    [s EXCEPT !.large = Cons(m, @), !.slab[m].allocs = 1]]
              /\ live' = live \cup {Held(p, m, 0, r)}
              /\ UNCHANGED iommu
           \/ /\ ~IsLarge(r) /\ first # None
              /\ proc' = [proc EXCEPT ![p] =
                    [s EXCEPT !.mem = Cons(m, @),
                              !.slab[m] = [Take(@, first, r.size)
                                              EXCEPT !.allocs = 1]]]
              /\ live' = live \cup {Held(p, m, first, r)}
              /\ UNCHANGED iommu
           \/ /\ ~IsLarge(r) /\ first = None
              /\ proc' = [proc EXCEPT ![p] = FreeSlab(s, m)]
              /\ iommu' = UnmapSlab(iommu, p, s, m)
              /\ UNCHANGED live
    /\ alloc' = [alloc EXCEPT ![p] = None]
    /\ UNCHANGED <<calls, fd, ref, vfio_pid, reg, ret, forked, suspect,
                   spoiled>>

-----------------------------------------------------------------------------
(* qaeMemFreeNUMA, qaeMemDestroy *)

\* A slab without blocks goes to the cache (push_slab) or is freed.
Retire(p, s, m) ==
    IF Len(s.cache) + 1 <= MaxCache
    THEN /\ proc' = [proc EXCEPT ![p] = [s EXCEPT !.mem = Remove(@, m),
                                                  !.cache = Cons(m, @)]]
         /\ UNCHANGED iommu
    ELSE /\ proc' = [proc EXCEPT ![p] =
                       [FreeSlab(s, m) EXCEPT !.mem = Remove(@, m)]]
         /\ iommu' = UnmapSlab(iommu, p, s, m)

\* __qae_free_addr.  A block whose slab is not found stays, with a message.
Free(p, b) ==
    /\ Locked(p) /\ b.proc = p
    /\ LET s == Open(p)
           m == b.mem
           s1 == [s EXCEPT !.slab[m] =
                     [Give(@, b.first) EXCEPT !.allocs = @ - 1]]
       IN  /\ Found(s, m)
           /\ IF s.slab[m].type = "SMALL"
              THEN /\ s.slab[m].sizes[b.first] # 0
                   /\ IF s1.slab[m].allocs > 0
                      THEN /\ proc' = [proc EXCEPT ![p] = s1]
                           /\ UNCHANGED iommu
                      ELSE Retire(p, s1, m)
              ELSE /\ proc' = [proc EXCEPT ![p] =
                         [FreeSlab(s, m) EXCEPT !.large = Remove(@, m)]]
                   /\ iommu' = UnmapSlab(iommu, p, s, m)
    /\ live' = live \ {b}
    /\ UNCHANGED <<fd, ref, vfio_pid, alloc, reg, ret, forked, calls, suspect,
                   spoiled>>

\* qaeMemDestroy frees every slab, with the blocks that are left; it does not
\* ask whether the process is new.  A new child that has inherited a small slab
\* does not get through: the slab's control block is not in its memory.
Destroy(p) ==
    /\ Locked(p) /\ Call
    /\ LET s == proc[p]
           held == UNION {Covers(s, m) : m \in Owned(s)}
       IN  /\ ~s.known => SmallSlabs(s) = {}
           /\ proc' = [proc EXCEPT ![p] =
                 [Fresh(s.known) EXCEPT !.used = s.used \ held,
                                        !.next = s.next]]
           /\ iommu' = [c \in Procs |-> [i \in 0 .. MaxIova |->
                 IF /\ c = fd[p] /\ i \in held
                    /\ iommu[c][i] # None /\ iommu[c][i][1] = p
                 THEN None ELSE iommu[c][i]]]
    /\ live' = {b \in live : b.proc # p}
    /\ UNCHANGED <<fd, ref, vfio_pid, alloc, reg, ret, forked, suspect,
                   spoiled>>

-----------------------------------------------------------------------------
(* qaeRegisterDevice, qaeUnregisterDevice, fork *)

\* "if (pid != vfio_pid)" forgets an inherited container.
OwnFd(p) == IF vfio_pid[p] = p THEN fd[p] ELSE None

Devices(p) == IF vfio_pid[p] = p THEN ref[p] ELSE 0

\* filter_dma_ranges marks the hole in iova_used without the mutex, each bit
\* by a read and a write of its word (set_bit).  While another thread makes a
\* slab its iova_reserve may do the same: the bits of the slab that the hole's
\* writes undo are lost, or those of the hole are.  (An iova_release at the
\* same time is not modelled; it could leave bits of a freed slab.)
Marked(p) ==
    LET used == proc[p].used
        slab == Covers(proc[p], alloc[p].mem)
    IN  IF alloc[p] = None THEN {used \cup Hole}
        ELSE {used} \cup {(used \ lost) \cup Hole : lost \in SUBSET slab}

\* qaeInitProcess, which comes next, forgets the marks when this is the
\* process's first call.  The first device of a container starts the walk over
\* the lists, the others are counted, and a container other than the
\* registered one is refused.  (When the container does not tell its ranges,
\* filter_dma_ranges fails and nothing has changed.)
Register(p) ==
    /\ Running(p) /\ Call /\ reg[p] = None /\ Devices(p) < MaxDevices
    /\ IF proc[p].known
       THEN \E used \in Marked(p) :
              /\ proc' = [proc EXCEPT ![p].used = used]
              /\ spoiled' = IF proc[p].used \subseteq used THEN spoiled
                            ELSE spoiled \cup {p}
       ELSE proc' = [proc EXCEPT ![p] = Open(p)] /\ UNCHANGED spoiled
    /\ vfio_pid' = [vfio_pid EXCEPT ![p] = p]
    /\ \/ /\ OwnFd(p) = None
          /\ fd' = [fd EXCEPT ![p] = p]
          /\ reg' = [reg EXCEPT ![p] = "mem"]
          /\ ref' = [ref EXCEPT ![p] = Devices(p)]
          /\ suspect' = [suspect EXCEPT ![p] =
                IF alloc[p] # None
                THEN @ \cup Covers(proc[p], alloc[p].mem) ELSE @]
       \/ /\ OwnFd(p) # None
          /\ ref' = [ref EXCEPT ![p] = Devices(p) + 1]
          /\ UNCHANGED <<fd, reg, suspect>>
       \/ /\ OwnFd(p) # None
          /\ UNCHANGED <<fd, ref, reg, suspect>>
    /\ ret' = [ret EXCEPT ![p] = 0]
    /\ UNCHANGED <<alloc, forked, iommu, live>>

\* dma_map_slabs maps the slabs of a list up to the first that cannot be.
MapList(map, p, s, list) ==
    LET bad == {i \in DOMAIN list :
                   MapFails(s.slab[list[i]].iova, s.slab[list[i]].n)}
        upto == Min({i - 1 : i \in bad} \cup {Len(list)})
        One(mp, m) == Map(mp, p, m, s.slab[m].iova, s.slab[m].n)
    IN  [map |-> FoldLeft(One, map, SubSeq(list, 1, upto)),
         ret |-> IF bad = {} THEN 0 ELSE 1]

\* Mutant: the cached slabs are not mapped.
ListAfterNoCache(l) == IF l = "mem" THEN "large" ELSE None

ListAfter(l) == CASE l = "mem" -> "large" [] l = "large" -> "cache"
                  [] l = "cache" -> None

\* One list of the walk; a failure of any forgets the container.
RegisterMap(p) ==
    /\ reg[p] # None
    /\ LET walk == MapList(iommu[p], p, proc[p], proc[p][reg[p]])
           bad == IF ret[p] = 1 THEN 1 ELSE walk.ret
           done == ListAfter(reg[p]) = None
       IN  /\ iommu' = [iommu EXCEPT ![p] = walk.map]
           /\ ret' = [ret EXCEPT ![p] = bad]
           /\ reg' = [reg EXCEPT ![p] = ListAfter(reg[p])]
           /\ fd' = [fd EXCEPT ![p] = IF done /\ bad = 1 THEN None ELSE @]
           /\ ref' = [ref EXCEPT ![p] = IF done /\ bad = 0 THEN @ + 1 ELSE @]
           /\ suspect' = [suspect EXCEPT ![p] =
                 IF done /\ bad = 1
                 THEN @ \cup {i \in 0 .. MaxIova : walk.map[i] # None} ELSE @]
    /\ UNCHANGED <<calls, proc, vfio_pid, alloc, forked, live, spoiled>>

\* The last device gone, the slabs are unmapped and the caller closes the
\* container (close_vfio_dev).
Unregister(p) ==
    /\ Running(p) /\ reg[p] = None
    /\ ref[p] > 0 /\ fd[p] = p /\ vfio_pid[p] = p
    /\ ref' = [ref EXCEPT ![p] = @ - 1]
    /\ IF ref[p] = 1
       THEN /\ fd' = [fd EXCEPT ![p] = None]
            /\ iommu' = [iommu EXCEPT ![p] = Unmapped]
            /\ suspect' = [suspect EXCEPT ![p] = {}]
       ELSE UNCHANGED <<fd, iommu, suspect>>
    /\ UNCHANGED <<calls, proc, vfio_pid, alloc, reg, ret, forked, live,
                   spoiled>>

\* fork, while no thread of the parent is in the library.  The slabs are
\* MADV_DONTFORK: the child has the lists and not the memory.
Fork ==
    /\ ~forked /\ alloc[Parent] = None /\ reg[Parent] = None
    /\ forked' = TRUE
    /\ proc' = [proc EXCEPT ![Child] = [proc[Parent] EXCEPT !.known = FALSE]]
    /\ fd' = [fd EXCEPT ![Child] = fd[Parent]]
    /\ ref' = [ref EXCEPT ![Child] = ref[Parent]]
    /\ vfio_pid' = [vfio_pid EXCEPT ![Child] = vfio_pid[Parent]]
    /\ UNCHANGED <<calls, alloc, reg, ret, iommu, live, suspect, spoiled>>

Next ==
    \/ \E p \in Procs :
          \/ \E r \in Requests[p] :
                \/ AllocFromList(p, r)
                \/ AllocFromCache(p, r)
                \/ \E m \in Mem : AllocSlab(p, r, m)
          \/ AllocLink(p)
          \/ \E b \in live : Free(p, b)
          \/ Destroy(p)
          \/ Register(p) \/ RegisterMap(p) \/ Unregister(p)
    \/ Fork

Spec == Init /\ [][Next]_vars

-----------------------------------------------------------------------------

\* The blocks callers hold in a slab are disjoint, lie behind the control
\* block, start where they were asked to be aligned, and are all that the
\* bitmap shows: a unit is never handed out twice (__qae_mem_alloc) and
\* nothing is lost when blocks are released (__qae_mem_free).
BlocksDisjoint ==
    \A p \in Procs : proc[p].known => \A m \in SmallSlabs(proc[p]) :
        LET mine == {b \in live : b.proc = p /\ b.mem = m}
            slab == proc[p].slab[m]
        IN  /\ \A b, c \in mine : b # c =>
                  Block(b.first, b.size) \cap Block(c.first, c.size) = {}
            /\ \A b \in mine : b.align > 0 => b.first % b.align = 0
            /\ slab.bits = (0 .. Reserved - 1) \cup
                              UNION {Block(b.first, b.size) : b \in mine}
            /\ slab.allocs = Cardinality(mine)

\* The reference: the first aligned run of free units that is long enough.
FirstFit(bits, size, align) ==
    LET fits == {b \in 0 .. Units - size :
                    /\ Block(b, size) \cap bits = {}
                    /\ align > 0 => b % align = 0}
    IN  IF fits = {} THEN None ELSE Min(fits)

\* The bitmaps of a slab, its control block taken, in which the search finds
\* the first fit for every size and every alignment (a power of two).
Bitmaps == {(0 .. Reserved - 1) \cup b : b \in SUBSET (Reserved .. Units - 1)}
FirstFitBitmaps ==
    {bits \in Bitmaps :
        \A size \in 1 .. Units, align \in {0, 1, 2, 4} :
            Search(bits, size, align) = FirstFit(bits, size, align)}

\* The word-wise search of __qae_mem_alloc finds the first fit in every
\* bitmap that allocations and releases produce, for every size and every
\* alignment.
SearchFirstFit ==
    \A p \in Procs : \A m \in SmallSlabs(proc[p]) :
        proc[p].slab[m].bits \in FirstFitBitmaps

\* The slabs of a process have disjoint ranges of IOVA, and iova_used marks
\* them and nothing else but the hole ("The iova_used bitmap identifies the
\* IOVA slabs that have been used").  Excepted is a process in which a large
\* slab failed for lack of IOVA, which releases the ranges at the bottom,
\* whoever has them, or in which a registration that marked the hole undid the
\* mark of a slab.  A child's copy of its parent's map counts for nothing
\* until its first call.
IovaExact ==
    \A p \in Procs \ spoiled : proc[p].known =>
        LET s == proc[p]
        IN  /\ \A m, n \in Owned(s) :
                  m # n => Covers(s, m) \cap Covers(s, n) = {}
            /\ s.used \ Hole = (UNION {Covers(s, m) : m \in Owned(s)}) \ Hole

\* The states of the address map, iova_used and next_iova, in which
\* allocate_iova finds a range for a request exactly when there is one.
IovaMaps ==
    {<<used, next>> : used \in SUBSET (1 .. MaxIova), next \in 1 .. MaxIova}
FoundIn(used, next, n, a) ==
    allocate_iova(used, next, n, a) # 0 <=>
        \E i \in 1 .. MaxIova : i % a = 0 /\ Reservable(used, i, n)
FindingMaps ==
    {map \in IovaMaps : \A r \in UNION {Requests[p] : p \in Procs} :
        RoundUp(map[2], IovaAlign(r)) <= MaxIova =>
            FoundIn(map[1], map[2], Slabs(r), IovaAlign(r))}

\* allocate_iova finds a range if there is one, except when rounding
\* next_iova up to a large alignment leaves the address space: that attempt
\* counts, and the last range is not tried.
IovaFound == \A p \in Procs : <<proc[p].used, proc[p].next>> \in FindingMaps

\* While a process has a container registered, the IOMMU translates the IOVA
\* of its slabs to those slabs, and no other: a device reaches all the memory
\* the process handed out, and none that was freed.  Excepted are ranges that
\* another process mapped (a child that allocates before it registers), that
\* a failed registration left mapped, and that were given to a slab during a
\* registration, which walks the lists without the mutex; and a process whose
\* iova_used is not exact (see IovaExact), where two slabs may share a range.
MappedExact ==
    \A p \in Procs : fd[p] = p /\ reg[p] = None /\ p \notin spoiled =>
        LET s == proc[p]
        IN  /\ \A m \in Owned(s) : Covers(s, m) \cap suspect[p] = {} =>
                  \A i \in Covers(s, m) : iommu[p][i] = <<p, m>>
            /\ \A i \in (1 .. MaxIova) \ suspect[p] : iommu[p][i] # None =>
                  \E m \in Owned(s) :
                     i \in Covers(s, m) /\ iommu[p][i] = <<p, m>>

\* qaeVirtToPhysNUMA and qaePhysToVirtNUMA, in units
VirtToPhys(s, m, off) == s.table[m] * Units + off
PhysToVirt(s, phys) ==
    LET in(m) == phys - s.slab[m].iova * Units \in 0 .. s.slab[m].n * Units - 1
        i == SelectInSeq(s.mem, in)
    IN  IF i = 0 THEN None
        ELSE <<s.mem[i], phys - s.slab[s.mem[i]].iova * Units>>

\* A block that is held translates to the address its slab is mapped at, and
\* can be freed, though the page table keeps entries of freed slabs and mmap
\* returns their addresses again; a block of a small slab translates back,
\* where no two slabs share a range.
Translated ==
    \A b \in live :
        LET s == proc[b.proc]
            phys == VirtToPhys(s, b.mem, b.first)
        IN  /\ Found(s, b.mem)
            /\ phys = s.slab[b.mem].iova * Units + b.first
            /\ s.slab[b.mem].type = "SMALL" /\ b.proc \notin spoiled =>
                  PhysToVirt(s, phys) = <<b.mem, b.first>>

=============================================================================
