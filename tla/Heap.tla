-------------------------------- MODULE Heap --------------------------------
(***************************************************************************)
(* The kernel heap: kernel/memory/malloc.c over the globals of mem.c, set  *)
(* up by the memory-map loop of init.c.  Memory is a function from         *)
(* addresses to cells; a block is a header (mem_control_blk, HdrSize cells *)
(* of which the first holds the record) followed by its payload.           *)
(*                                                                         *)
(* The code keeps no upper bound on the heap.  AddrMax is the model's: the *)
(* guards called Fits keep every cell the code touches at or below it.     *)
(***************************************************************************)
EXTENDS Integers, Sequences

CONSTANTS
    HdrSize,      \* sizeof(mem_control_blk)
    AddrMax,      \* bound: the last address of the modelled memory
    MemMap,       \* the boot loader's memory map, entries [base, usable]
    Sizes,        \* the sizes callers ask for
    Data,         \* what callers store
    Junk          \* what memory holds before anything is stored

ASSUME HdrSizeAssumption == HdrSize \in Nat \ {0}
ASSUME AddrMaxAssumption == AddrMax \in Nat
ASSUME MemMapAssumption  == MemMap \in Seq([base : Nat, usable : BOOLEAN])
ASSUME SizesAssumption   == Sizes \subseteq Nat

VARIABLES
    entry,        \* init.c: index of the loop over the memory map
    heapSpace,    \* kernieHeap_space
    setUp,        \* kernieHeap_is_set_up
    lastValid,    \* last_valid_address
    mem,          \* the memory
    given         \* history: every pointer malloc ever returned

vars == <<entry, heapSpace, setUp, lastValid, mem, given>>

NULL == 0
Addr == 0 .. AddrMax
Hdr  == [free : BOOLEAN, size : Nat]
Cell == Hdr \cup Data \cup {Junk}

\* The control block that free and realloc find in front of a pointer.
mcb(p) == mem[p - HdrSize]

\* One past the last cell of p's block.
End(p) == p - HdrSize + mcb(p).size

IsLive(p) == ~ mcb(p).free

Live == {p \in given : IsLive(p)}

-----------------------------------------------------------------------------
(* Boot: init.c walks the map; the last usable entry wins.                  *)

Booted == entry > Len(MemMap)

MEM_Init(addr) == heapSpace' = addr

MapEntry ==
    /\ ~ Booted
    /\ entry' = entry + 1
    /\ IF MemMap[entry].usable
         THEN MEM_Init(MemMap[entry].base)
         ELSE UNCHANGED heapSpace
    /\ UNCHANGED <<setUp, lastValid, mem, given>>

-----------------------------------------------------------------------------
(* malloc(n) as a function of the current state.                           *)

\* Mutant of have_allocated: the first malloc sets it.
have_allocated_Set == TRUE

\* mem.c: never assigned anywhere, so the search below is dead code.
have_allocated == FALSE

\* The search re-tests the first header on every turn of its loop (mcb is
\* never advanced), so the first block is the only one it can ever take.
FirstBlockReusable(top, total) ==
    /\ have_allocated
    /\ heapSpace # top
    /\ mem[heapSpace].free
    /\ mem[heapSpace].size >= total

Top == IF setUp THEN lastValid ELSE heapSpace

\* Mutants of malloc: the location without the header added (malloc.c:56);
\* the heap's end without the header (malloc.c:30).
malloc_RawPointer(n) ==
    LET total == n + HdrSize
    IN  [ptr |-> Top, last |-> Top + total,
         mem |-> [mem EXCEPT ![Top] = [free |-> FALSE, size |-> total]]]

malloc_NoHeader(n) ==
    [ptr |-> Top + HdrSize, last |-> Top + n,
     mem |-> [mem EXCEPT ![Top] = [free |-> FALSE, size |-> n]]]

malloc(n) ==
    LET total == n + HdrSize
    IN  IF FirstBlockReusable(Top, total)
          THEN [ptr  |-> heapSpace + HdrSize,
                last |-> Top,
                mem  |-> [mem EXCEPT ![heapSpace].free = FALSE]]
          ELSE [ptr  |-> Top + HdrSize,
                last |-> Top + total,
                mem  |-> [mem EXCEPT ![Top] = [free |-> FALSE, size |-> total]]]

\* Mutant of memcpy: from the block's control block on, not its payload.
memcpy_FromHeader(m, dst, src, n) ==
    [a \in Addr |-> IF a \in dst .. (dst + n - 1)
                      THEN m[src - HdrSize + (a - dst)] ELSE m[a]]

\* memcpy's loop runs upwards; where src < dst overlap, a cell it already
\* wrote is read again.
memcpy(m, dst, src, n) ==
    [a \in Addr |->
        IF a \notin dst .. (dst + n - 1) THEN m[a]
        ELSE IF dst - src \in 1 .. (n - 1)
               THEN m[src + ((a - dst) % (dst - src))]
               ELSE m[src + (a - dst)]]

\* free(p): a second free, or a free of NULL, changes nothing.
free(m, p) ==
    IF p = NULL \/ m[p - HdrSize].size = 0 THEN m
    ELSE [m EXCEPT ![p - HdrSize].free = TRUE]

-----------------------------------------------------------------------------
(* The calls.                                                              *)

Fits(n) == Top + HdrSize + n - 1 \in Addr

Malloc(n) ==
    LET r == malloc(n)
    IN  /\ Booted
        /\ Fits(n)
        /\ setUp' = TRUE
        /\ lastValid' = r.last
        /\ mem' = r.mem
        /\ given' = given \cup {r.ptr}
        /\ UNCHANGED <<entry, heapSpace>>

\* free(p) of any pointer malloc returned, freed before or not, or of NULL.
Free(p) ==
    /\ p \in given \cup {NULL}
    /\ mem' = free(mem, p)
    /\ UNCHANGED <<entry, heapSpace, setUp, lastValid, given>>

\* realloc(p, n) of a live block: allocate, copy mcb->size cells (the header's
\* share included, so HdrSize cells too many), free the old block.
ReallocMove(p, n) ==
    LET r    == malloc(n)
        size == mcb(p).size
    IN  /\ p \in Live
        /\ n # 0
        /\ Fits(n)
        /\ r.ptr + size - 1 \in Addr
        /\ setUp' = TRUE
        /\ lastValid' = r.last
        /\ mem' = free(memcpy(r.mem, r.ptr, p, size), p)
        /\ given' = given \cup {r.ptr}
        /\ UNCHANGED <<entry, heapSpace>>

Realloc(p, n) ==
    \/ p = NULL /\ Malloc(n)
    \/ p \in Live /\ n = 0 /\ Free(p)
    \/ ReallocMove(p, n)

\* A caller stores to its own live block.
Store(p, i, d) ==
    /\ p \in Live
    /\ i < mcb(p).size - HdrSize
    /\ mem' = [mem EXCEPT ![p + i] = d]
    /\ UNCHANGED <<entry, heapSpace, setUp, lastValid, given>>

Init ==
    /\ entry = 1
    /\ heapSpace = NULL
    /\ setUp = FALSE
    /\ lastValid = NULL
    /\ mem = [a \in Addr |-> Junk]
    /\ given = {}

Next ==
    \/ MapEntry
    \/ \E n \in Sizes : Malloc(n)
    \/ \E p \in given \cup {NULL} : Free(p)
    \/ \E p \in given \cup {NULL}, n \in Sizes : Realloc(p, n)
    \/ \E p \in given, i \in Addr, d \in Data : Store(p, i, d)

Spec == Init /\ [][Next]_vars

-----------------------------------------------------------------------------
(* Properties.                                                             *)

\* Every variable has its type, and every pointer malloc returned lies behind
\* a whole header: it is what free and realloc subtract from it.
TypeOK ==
    /\ entry \in 1 .. (Len(MemMap) + 1)
    /\ heapSpace \in Nat
    /\ setUp \in BOOLEAN
    /\ lastValid \in Nat
    /\ mem \in [Addr -> Cell]
    /\ given \subseteq (heapSpace + HdrSize) .. (AddrMax + 1)

\* Every block ever returned still has its header, and lies in the heap.
HeadersIntact ==
    \A p \in given :
        /\ p - HdrSize \in Addr
        /\ mcb(p) \in Hdr
        /\ mcb(p).size >= HdrSize
        /\ End(p) <= lastValid

\* No two blocks share a cell, header or payload.
BlocksDisjoint ==
    \A p, q \in given :
        p # q => End(p) <= q - HdrSize \/ End(q) <= p - HdrSize

\* The headers tile the heap: the first block starts it and each ends where
\* the next one starts or the heap does.
BlocksTile ==
    /\ \A p \in given : End(p) = lastValid \/ End(p) + HdrSize \in given
    /\ setUp => heapSpace + HdrSize \in given

\* The heap stays walkable and its blocks apart, through stores, double frees
\* and realloc's copy of HdrSize cells too many (malloc.c:75).
HeapWellFormed == HeadersIntact /\ BlocksDisjoint /\ BlocksTile

\* A freed block is never handed out again, so that a stale pointer, freed
\* twice or not, never names another caller's block (malloc.c:33-45 is dead).
NeverRecycled ==
    [][\A p \in given : mcb(p).free => mcb(p)'.free]_vars

\* The callers' view of the heap: the payload of every live block.
Payload == [p \in Live |-> [i \in 0 .. (mcb(p).size - HdrSize - 1) |-> mem[p + i]]]

\* malloc, realloc and free keep the promise of Allocator: nothing but a
\* caller's own stores changes a live block, and realloc carries it over.
Contract == INSTANCE Allocator WITH Ptr <- Addr \cup {AddrMax + 1}, live <- Payload

AllocatorContract == Contract!Spec
=============================================================================
