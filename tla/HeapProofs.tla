----------------------------- MODULE HeapProofs -----------------------------
(***************************************************************************)
(* Theorems about Heap, for every memory map, header size, set of request  *)
(* sizes and bound.                                                        *)
(***************************************************************************)
EXTENDS Heap, SequenceTheorems, TLAPS

\* The strengthening: the heap is empty until its first call, which comes after
\* the memory-map loop has fixed where it starts (before that call
\* last_valid_address means nothing), and then spans heapSpace .. lastValid-1.
HeapSpan ==
    /\ ~ setUp => given = {}
    /\ ~ Booted => ~ setUp
    /\ setUp => heapSpace <= lastValid /\ lastValid <= AddrMax + 1

\* The inductive invariant.
HeapInv == TypeOK /\ HeapSpan /\ HeadersIntact /\ BlocksDisjoint /\ BlocksTile

\* Two spans of which one ends before the other starts have no cell in common.
LEMMA ApartMeansDistinct ==
    \A p, q, m, n, h \in Nat :
        \A i \in 0 .. (m - h - 1), j \in 0 .. (n - h - 1) :
            (p - h + m <= q - h \/ q - h + n <= p - h) => p + i # q + j
OBVIOUS

\* Used on every step: what a request size and an entry of the map are.
USE HdrSizeAssumption, AddrMaxAssumption, MemMapAssumption, SizesAssumption

\* Nothing is handed out before the heap is set up: malloc's bump path starts
\* at a header cell above every block (malloc.c:22-25, 47-54).
LEMMA TopAbove ==
    ASSUME HeapInv
    PROVE  /\ Top \in Nat
           /\ heapSpace <= Top
           /\ \A p \in given : /\ p \in Nat
                               /\ p - HdrSize \in Addr
                               /\ mcb(p) \in Hdr
                               /\ End(p) \in Nat
                               /\ mcb(p).size \in Nat
                               /\ p <= End(p)
                               /\ End(p) <= Top
BY DEF HeapInv, TypeOK, HeapSpan, HeadersIntact, Top, End, mcb, Addr, Hdr

\* What a call of malloc does (malloc.c:21-59): the search never takes a
\* block, so the header goes at the top.
LEMMA MallocBumps ==
    ASSUME NEW n
    PROVE  malloc(n) = [ptr  |-> Top + HdrSize,
                        last |-> Top + (n + HdrSize),
                        mem  |-> [mem EXCEPT ![Top] =
                                    [free |-> FALSE, size |-> n + HdrSize]]]
BY DEF malloc, FirstBlockReusable, have_allocated

\* realloc's copy (malloc.c:75, mem.c:29-39) reads the old payload and the
\* HdrSize cells behind it, and writes only above the new header: the two
\* never overlap, so the byte loop never reads what it wrote.
LEMMA ReallocNoOverlap ==
    ASSUME HeapInv, NEW p \in given
    PROVE  Top + HdrSize - p \notin 1 .. (mcb(p).size - 1)
<1>1. /\ Top \in Nat /\ mcb(p).size \in Nat /\ p \in Nat
      /\ p - HdrSize + mcb(p).size <= Top
  BY TopAbove DEF End
<1>2. QED
  BY <1>1

\* No block has been handed out when the memory map is about to be read
\* (init.c:22), so the invariant starts out with nothing to say.
LEMMA InitInv == Init => HeapInv
<1> SUFFICES ASSUME Init PROVE HeapInv
  OBVIOUS
<1>1. Len(MemMap) \in Nat
  OBVIOUS
<1>2. TypeOK
  <2>1. mem \in [Addr -> Cell]
    BY DEF Init, Cell
  <2>2. entry \in 1 .. (Len(MemMap) + 1)
    BY <1>1 DEF Init
  <2>3. QED
    BY <2>1, <2>2 DEF Init, TypeOK, NULL
<1>3. HeapSpan
  BY <1>1 DEF Init, HeapSpan, Booted
<1>4. HeadersIntact /\ BlocksDisjoint /\ BlocksTile
  BY DEF Init, HeadersIntact, BlocksDisjoint, BlocksTile
<1>5. QED
  BY <1>2, <1>3, <1>4 DEF HeapInv

-----------------------------------------------------------------------------
(* The invariant only looks at where the blocks are and how long each one   *)
(* is: two lemmas say which steps keep it.                                  *)

SizesKept ==
    \A q \in given : mcb(q)' \in Hdr /\ mcb(q)'.size = mcb(q).size

\* A step that hands out nothing and keeps every header's size keeps it.
LEMMA SameBlocks ==
    ASSUME HeapInv,
           UNCHANGED <<entry, heapSpace, setUp, lastValid, given>>,
           mem' \in [Addr -> Cell],
           SizesKept
    PROVE  HeapInv'
<1>1. \A q \in given : End(q)' = End(q)
  BY DEF SizesKept, End, mcb
<1>2. TypeOK' /\ HeapSpan'
  BY DEF HeapInv, TypeOK, HeapSpan, Booted
<1>3. HeadersIntact'
  BY <1>1 DEF HeapInv, HeadersIntact, SizesKept
<1>4. BlocksDisjoint'
  BY <1>1 DEF HeapInv, BlocksDisjoint
<1>5. BlocksTile'
  BY <1>1 DEF HeapInv, BlocksTile
<1>6. QED
  BY <1>2, <1>3, <1>4, <1>5 DEF HeapInv

\* A step that writes a header at the top, moves the top behind the new block
\* and keeps the old headers keeps it.
LEMMA NewBlock ==
    ASSUME HeapInv, Booted, NEW n \in Nat, Fits(n),
           NEW new, new = Top + HdrSize,
           UNCHANGED <<entry, heapSpace>>,
           setUp' = TRUE,
           lastValid' = Top + (n + HdrSize),
           given' = given \cup {new},
           mem' \in [Addr -> Cell],
           mcb(new)' = [free |-> FALSE, size |-> n + HdrSize],
           SizesKept
    PROVE  HeapInv'
<1>0. /\ Top \in Nat /\ heapSpace \in Nat /\ heapSpace <= Top
      /\ \A q \in given : q \in Nat /\ End(q) \in Nat /\ q <= End(q) /\ End(q) <= Top
  BY TopAbove DEF HeapInv, TypeOK
<1>1. \A q \in given : End(q)' = End(q)
  BY DEF SizesKept, End, mcb
<1>2. /\ new \in Nat
      /\ new - HdrSize = Top
      /\ mcb(new)' \in Hdr
      /\ mcb(new)'.size = n + HdrSize
      /\ End(new)' = lastValid'
      /\ lastValid' \in Nat
      /\ Top + HdrSize <= lastValid'
      /\ Top \in Addr
      /\ new <= AddrMax + 1
  <2>1. new \in Nat /\ new - HdrSize = Top /\ lastValid' \in Nat
        /\ Top + HdrSize <= lastValid'
    BY <1>0
  <2>2. [free |-> FALSE, size |-> n + HdrSize] \in Hdr
    BY DEF Hdr
  <2>3. mcb(new)' \in Hdr /\ mcb(new)'.size = n + HdrSize
    BY <2>2 DEF mcb
  <2>4. End(new)' = lastValid'
    BY <2>1, <2>3, <1>0 DEF End
  <2>5. Top \in Addr /\ new <= AddrMax + 1
    BY <1>0 DEF Fits, Addr
  <2>6. QED
    BY <2>1, <2>3, <2>4, <2>5
<1>3. new \notin given
  BY <1>0, <1>2
<1>4. TypeOK'
  <2>1. given' \subseteq (heapSpace' + HdrSize) .. (AddrMax + 1)
    BY <1>0, <1>2 DEF HeapInv, TypeOK
  <2>2. QED
    BY <2>1, <1>2 DEF HeapInv, TypeOK
<1>5. HeapSpan'
  <2>1. lastValid' <= AddrMax + 1
    BY <1>0 DEF Fits, Addr
  <2>2. QED
    BY <2>1, <1>0, <1>2 DEF Booted, HeapSpan
<1>6. HeadersIntact'
  <2>1. ASSUME NEW q \in given
        PROVE  /\ q - HdrSize \in Addr
               /\ mcb(q)' \in Hdr
               /\ mcb(q)'.size >= HdrSize
               /\ End(q)' <= lastValid'
    <3>1. q - HdrSize \in Addr /\ mcb(q).size >= HdrSize
      BY DEF HeapInv, HeadersIntact
    <3>2. mcb(q)' \in Hdr /\ mcb(q)'.size >= HdrSize
      BY <3>1 DEF SizesKept
    <3>3. End(q)' <= lastValid'
      BY <1>0, <1>1, <1>2
    <3>4. QED
      BY <3>1, <3>2, <3>3
  <2>2. /\ new - HdrSize \in Addr
        /\ mcb(new)' \in Hdr
        /\ mcb(new)'.size >= HdrSize
        /\ End(new)' <= lastValid'
    BY <1>2, <1>0
  <2>3. QED
    BY <2>1, <2>2, Zenon DEF HeadersIntact
<1>7. BlocksDisjoint'
  <2>1. \A q \in given : End(q)' <= new - HdrSize
    BY <1>0, <1>1, <1>2
  <2>2. QED
    BY <2>1, <1>1 DEF HeapInv, BlocksDisjoint
<1>8. BlocksTile'
  <2>1. CASE setUp
    <3>1. Top = lastValid /\ heapSpace + HdrSize \in given
      BY <2>1 DEF Top, HeapInv, BlocksTile
    <3>2. \A q \in given : End(q)' = Top \/ End(q)' + HdrSize \in given
      BY <3>1, <1>1 DEF HeapInv, BlocksTile
    <3>3. \A q \in given' : End(q)' = lastValid' \/ End(q)' + HdrSize \in given'
      BY <3>2, <1>2
    <3>4. (heapSpace + HdrSize \in given)'
      BY <3>1
    <3>5. QED
      BY <3>3, <3>4 DEF BlocksTile
  <2>2. CASE ~ setUp
    <3>1. given = {} /\ Top = heapSpace
      BY <2>2 DEF Top, HeapInv, HeapSpan
    <3>2. given' = {new} /\ heapSpace' + HdrSize = new
      BY <3>1
    <3>3. QED
      BY <3>2, <1>2 DEF BlocksTile
  <2>3. QED
    BY <2>1, <2>2 DEF HeapInv, TypeOK
<1>9. QED
  BY <1>4, <1>5, <1>6, <1>7, <1>8 DEF HeapInv

-----------------------------------------------------------------------------
(* The actions, one lemma for each.                                         *)

\* Reading an entry of the memory map (init.c:22-27) hands out nothing; it may
\* only move the top of a heap that has no block yet.
LEMMA MapEntryInv == HeapInv /\ MapEntry => HeapInv'
<1> SUFFICES ASSUME HeapInv, MapEntry PROVE HeapInv'
  OBVIOUS
<1>1. given = {} /\ given' = {} /\ ~ setUp /\ ~ setUp'
  BY DEF HeapInv, HeapSpan, MapEntry
<1>2. Len(MemMap) \in Nat /\ entry \in 1 .. Len(MemMap)
  BY DEF HeapInv, TypeOK, MapEntry, Booted
<1>3. MemMap[entry].base \in Nat
  <2>1. MemMap[entry] \in [base : Nat, usable : BOOLEAN]
    BY <1>2, ElementOfSeq
  <2>2. QED
    BY <2>1
<1>4. heapSpace' \in Nat
  BY <1>3 DEF HeapInv, TypeOK, MapEntry, MEM_Init
<1>5. TypeOK'
  BY <1>1, <1>2, <1>4 DEF HeapInv, TypeOK, MapEntry
<1>6. HeapSpan'
  BY <1>1 DEF HeapSpan
<1>7. HeadersIntact' /\ BlocksDisjoint' /\ BlocksTile'
  BY <1>1 DEF HeadersIntact, BlocksDisjoint, BlocksTile
<1>8. QED
  BY <1>5, <1>6, <1>7 DEF HeapInv

\* A header cell lies in no block but its own, so a header at the top is a
\* header no block has.
LEMMA TopIsFresh ==
    ASSUME HeapInv
    PROVE  \A q \in given : q - HdrSize # Top
BY TopAbove DEF HeapInv, HeadersIntact, End

\* A malloc that fits (malloc.c:21-59) keeps the invariant: its block begins
\* where the last one ended.
LEMMA MallocInv ==
    ASSUME HeapInv, NEW n \in Nat, Malloc(n)
    PROVE  HeapInv'
<1>1. Top \in Addr
  BY TopAbove DEF Malloc, Fits, Addr
<1>2. PICK h \in Hdr : h = [free |-> FALSE, size |-> n + HdrSize]
  <2>1. [free |-> FALSE, size |-> n + HdrSize] \in Hdr
    BY DEF Hdr
  <2>2. QED
    BY <2>1
<1>3. /\ mem' = [mem EXCEPT ![Top] = h]
      /\ lastValid' = Top + (n + HdrSize)
      /\ given' = given \cup {Top + HdrSize}
      /\ setUp' = TRUE
      /\ Booted /\ Fits(n)
      /\ UNCHANGED <<entry, heapSpace>>
  BY MallocBumps, <1>2 DEF Malloc
<1>4. mem \in [Addr -> Cell] /\ Top \in Nat
  BY TopAbove DEF HeapInv, TypeOK
<1>5. mem' \in [Addr -> Cell] /\ mem'[Top] = h
  BY <1>1, <1>2, <1>3, <1>4 DEF Cell
<1>6. SizesKept
  BY <1>3, <1>4, TopAbove, TopIsFresh DEF SizesKept, mcb
<1>7. PICK new : new = Top + HdrSize
  OBVIOUS
<1>8. mcb(new)' = [free |-> FALSE, size |-> n + HdrSize]
  BY <1>2, <1>4, <1>5, <1>7 DEF mcb
<1>9. QED
  BY <1>3, <1>5, <1>6, <1>7, <1>8, NewBlock

\* free marks one header of the heap and nothing else (malloc.c:81-88): the
\* test for size 0 never holds, every block being at least its header.
LEMMA FreeMarks ==
    ASSUME HeapInv, NEW p \in given, NEW m, m[p - HdrSize] = mcb(p)
    PROVE  free(m, p) = [m EXCEPT ![p - HdrSize].free = TRUE]
<1>1. p # NULL /\ m[p - HdrSize].size # 0
  BY DEF HeapInv, HeadersIntact, TypeOK, NULL, Hdr, Addr
<1>2. QED
  BY <1>1 DEF free

\* free (malloc.c:81-88) keeps the invariant: it changes no size.
LEMMA FreeInv ==
    ASSUME HeapInv, NEW p, Free(p)
    PROVE  HeapInv'
<1>1. CASE p \in given
  <2>1. mem' = [mem EXCEPT ![p - HdrSize].free = TRUE]
    BY <1>1, FreeMarks DEF Free, mcb
  <2>2. PICK h \in Hdr : h = [mcb(p) EXCEPT !.free = TRUE]
    <3>1. [mcb(p) EXCEPT !.free = TRUE] \in Hdr
      BY <1>1 DEF HeapInv, HeadersIntact, Hdr
    <3>2. QED
      BY <3>1
  <2>3. h.size = mcb(p).size
    BY <2>2, <1>1 DEF HeapInv, HeadersIntact, Hdr
  <2>4. mem' = [mem EXCEPT ![p - HdrSize] = h] /\ p - HdrSize \in Addr
    BY <2>1, <2>2, <1>1 DEF mcb, HeapInv, HeadersIntact
  <2>5. mem' \in [Addr -> Cell]
    BY <2>4 DEF HeapInv, TypeOK, Cell
  <2>6. SizesKept
    <3> SUFFICES ASSUME NEW q \in given
                 PROVE  mcb(q)' \in Hdr /\ mcb(q)'.size = mcb(q).size
      BY DEF SizesKept
    <3>1. q - HdrSize \in Addr /\ mcb(q) \in Hdr
      BY DEF HeapInv, HeadersIntact
    <3>2. mcb(q)' = IF q - HdrSize = p - HdrSize THEN h ELSE mcb(q)
      BY <3>1, <2>4 DEF mcb, HeapInv, TypeOK
    <3>3. QED
      BY <3>1, <3>2, <2>3 DEF mcb
  <2>7. QED
    BY <2>5, <2>6, SameBlocks DEF Free
<1>2. CASE p \notin given
  <2>1. UNCHANGED vars
    BY <1>2 DEF Free, free, vars
  <2>2. SizesKept
    BY <2>1 DEF SizesKept, mcb, vars, HeapInv, HeadersIntact
  <2>3. QED
    BY <2>1, <2>2, SameBlocks DEF vars, HeapInv, TypeOK
<1>3. QED
  BY <1>1, <1>2

\* A payload cell is no block's header cell.
LEMMA PayloadIsNoHeader ==
    ASSUME HeapInv, NEW p \in given, NEW i \in Nat, i < mcb(p).size - HdrSize,
           NEW q \in given
    PROVE  p + i # q - HdrSize
<1>1. /\ p \in Nat /\ q \in Nat /\ End(p) \in Nat /\ End(q) \in Nat
      /\ mcb(p).size \in Nat /\ q <= End(q) /\ End(p) = p - HdrSize + mcb(p).size
  BY TopAbove DEF End
<1>2. CASE p = q
  BY <1>1, <1>2
<1>3. CASE p # q
  BY SMTT(30), <1>1, <1>3 DEF HeapInv, BlocksDisjoint
<1>4. QED
  BY <1>2, <1>3

\* A caller that writes inside its block changes no header (the blocks
\* malloc.c:21-59 returns begin behind their headers).
LEMMA StoreInv ==
    ASSUME HeapInv, NEW p, NEW i \in Addr, NEW d \in Data, Store(p, i, d)
    PROVE  HeapInv'
<1>1. p \in given /\ i \in Nat /\ i < mcb(p).size - HdrSize
  BY DEF Store, Live, Addr
<1>2. mem' = [mem EXCEPT ![p + i] = d] /\ mem \in [Addr -> Cell]
  BY DEF Store, HeapInv, TypeOK
<1>3. mem' \in [Addr -> Cell]
  BY <1>2 DEF Cell
<1>4. SizesKept
  BY <1>1, <1>2, PayloadIsNoHeader DEF SizesKept, mcb, HeapInv, HeadersIntact
<1>5. QED
  BY <1>3, <1>4, SameBlocks DEF Store

\* realloc of a live block leaves three things behind (malloc.c:71-78): the
\* old header marked free, a new header at the top, and above it a copy of the
\* old payload (the last HdrSize cells of the copy are not payload).
LEMMA ReallocMemory ==
    ASSUME HeapInv, NEW p, NEW n \in Nat, ReallocMove(p, n),
           NEW h, h = [free |-> FALSE, size |-> n + HdrSize],
           NEW dst, dst = Top + HdrSize,
           NEW k, k = mcb(p).size
    PROVE  mem' = [a \in Addr |->
                     IF a = p - HdrSize THEN [mcb(p) EXCEPT !.free = TRUE]
                     ELSE IF a \in dst .. (dst + k - 1)
                            THEN [mem EXCEPT ![Top] = h][p + (a - dst)]
                     ELSE IF a = Top THEN h ELSE mem[a]]
<1> DEFINE m1 == [mem EXCEPT ![Top] = h]
           m2 == memcpy(m1, dst, p, k)
<1>1. /\ p \in given /\ p \in Nat /\ k \in Nat /\ Top \in Nat
      /\ p - HdrSize \in Addr /\ p - HdrSize # Top
      /\ mem \in [Addr -> Cell] /\ End(p) <= Top
      /\ p - HdrSize < Top
  BY SMTT(30), TopAbove, TopIsFresh DEF ReallocMove, Live, HeapInv, TypeOK
<1>2. m2 = [a \in Addr |-> IF a \notin dst .. (dst + k - 1) THEN m1[a]
                           ELSE m1[p + (a - dst)]]
  BY <1>1, ReallocNoOverlap DEF memcpy
<1>3. mem' = free(m2, p)
  <2>1. malloc(n).ptr = dst /\ malloc(n).mem = m1
    BY MallocBumps
  <2>2. QED
    BY <2>1 DEF ReallocMove
<1>4. m2[p - HdrSize] = mcb(p)
  BY SMTT(30), <1>1, <1>2 DEF mcb
<1>5. mem' = [m2 EXCEPT ![p - HdrSize].free = TRUE]
  BY <1>1, <1>3, <1>4, FreeMarks
<1>6. mem' = [a \in Addr |-> IF a = p - HdrSize
                             THEN [mcb(p) EXCEPT !.free = TRUE] ELSE m2[a]]
  <2> HIDE DEF m2
  <2>1. \E f : m2 = [a \in Addr |-> f[a]]
    <3>1. m2 = [a \in Addr |-> [b \in Addr |-> m2[b]][a]]
      BY <1>2
    <3>2. QED
      BY <3>1
  <2>2. QED
    BY <2>1, <1>1, <1>4, <1>5
<1>7. \A a \in Addr : m2[a] = IF a \in dst .. (dst + k - 1)
                              THEN m1[p + (a - dst)]
                              ELSE IF a = Top THEN h ELSE mem[a]
  BY <1>1, <1>2
<1>8. QED
  BY <1>6, <1>7

\* A realloc that moves the block (malloc.c:71-78) keeps the invariant: malloc,
\* the copy and free in one step, of which only malloc's part adds a block.
LEMMA ReallocMoveInv ==
    ASSUME HeapInv, NEW p, NEW n \in Nat, ReallocMove(p, n)
    PROVE  HeapInv'
<1>1. PICK h \in Hdr : h = [free |-> FALSE, size |-> n + HdrSize]
  <2>1. [free |-> FALSE, size |-> n + HdrSize] \in Hdr
    BY DEF Hdr
  <2>2. QED
    BY <2>1
<1>2. PICK dst : dst = Top + HdrSize
  OBVIOUS
<1>3. PICK k : k = mcb(p).size
  OBVIOUS
<1>4. PICK old : old = [mcb(p) EXCEPT !.free = TRUE]
  OBVIOUS
<1>5. /\ p \in given /\ p \in Nat /\ k \in Nat /\ Top \in Nat /\ Top \in Addr
      /\ p - HdrSize # Top /\ p - HdrSize + k <= Top
      /\ mem \in [Addr -> Cell] /\ dst + k - 1 \in Addr
      /\ mcb(p) \in Hdr
  <2>1. malloc(n).ptr = dst
    BY MallocBumps, <1>2
  <2>2. p \in given /\ dst + k - 1 \in Addr /\ Fits(n)
    BY <1>3, <2>1 DEF ReallocMove, Live
  <2>3. /\ p \in Nat /\ k \in Nat /\ Top \in Nat
        /\ p - HdrSize # Top /\ p - HdrSize + k <= Top
        /\ mcb(p) \in Hdr
    BY <1>3, <2>2, TopAbove, TopIsFresh DEF End
  <2>4. Top \in Addr
    BY <2>2, <2>3 DEF Fits, Addr
  <2>5. QED
    BY <2>2, <2>3, <2>4 DEF HeapInv, TypeOK
<1>6. old \in Hdr /\ old.size = mcb(p).size
  BY <1>4, <1>5 DEF Hdr
<1>7. mem' = [a \in Addr |->
                IF a = p - HdrSize THEN old
                ELSE IF a \in dst .. (dst + k - 1)
                       THEN [mem EXCEPT ![Top] = h][p + (a - dst)]
                ELSE IF a = Top THEN h ELSE mem[a]]
  BY <1>1, <1>2, <1>3, <1>4, ReallocMemory
<1>8. mem' \in [Addr -> Cell]
  <2>1. ASSUME NEW a \in dst .. (dst + k - 1)
        PROVE  [mem EXCEPT ![Top] = h][p + (a - dst)] \in Cell
    <3>1. p + (a - dst) \in Addr
      BY <1>2, <1>5 DEF Addr
    <3>2. QED
      BY <3>1, <1>5 DEF Cell
  <2>2. old \in Cell /\ h \in Cell
    BY <1>6 DEF Cell
  <2>3. QED
    BY <1>5, <1>7, <2>1, <2>2
<1>9. SizesKept
  <2> SUFFICES ASSUME NEW q \in given
               PROVE  mcb(q)' \in Hdr /\ mcb(q)'.size = mcb(q).size
    BY DEF SizesKept
  <2>1. /\ q \in Nat /\ q - HdrSize \in Addr /\ mcb(q) \in Hdr
        /\ q - HdrSize < Top
    BY TopAbove, TopIsFresh
  <2>2. mcb(q)' = IF q = p THEN old ELSE mcb(q)
    BY <1>2, <1>5, <1>7, <2>1 DEF mcb
  <2>3. QED
    BY <2>1, <2>2, <1>6
<1>10. mcb(dst)' = [free |-> FALSE, size |-> n + HdrSize]
  <2>1. dst - HdrSize = Top /\ Top \notin dst .. (dst + k - 1)
    BY <1>2, <1>5
  <2>2. mem'[Top] = h
    BY <2>1, <1>5, <1>7
  <2>3. QED
    BY <2>1, <2>2, <1>1 DEF mcb
<1>11. /\ lastValid' = Top + (n + HdrSize)
       /\ given' = given \cup {dst}
       /\ setUp' = TRUE /\ Fits(n) /\ UNCHANGED <<entry, heapSpace>>
  BY MallocBumps, <1>2 DEF ReallocMove
<1>12. Booted
  BY <1>5 DEF HeapInv, HeapSpan
<1>13. QED
  BY <1>2, <1>8, <1>9, <1>10, <1>11, <1>12, NewBlock

\* Every step of the heap keeps the invariant, one case for each action.
LEMMA NextInv == HeapInv /\ [Next]_vars => HeapInv'
<1> SUFFICES ASSUME HeapInv, [Next]_vars PROVE HeapInv'
  OBVIOUS
<1>1. CASE MapEntry
  BY <1>1, MapEntryInv
<1>2. ASSUME NEW n \in Sizes, Malloc(n) PROVE HeapInv'
  BY <1>2, MallocInv
<1>3. ASSUME NEW p \in given \cup {NULL}, Free(p) PROVE HeapInv'
  BY <1>3, FreeInv
<1>4. ASSUME NEW p \in given \cup {NULL}, NEW n \in Sizes, Realloc(p, n)
      PROVE  HeapInv'
  BY <1>4, MallocInv, FreeInv, ReallocMoveInv DEF Realloc
<1>5. ASSUME NEW p \in given, NEW i \in Addr, NEW d \in Data, Store(p, i, d)
      PROVE  HeapInv'
  BY <1>5, StoreInv
<1>6. CASE UNCHANGED vars
  <2>1. SizesKept
    BY <1>6 DEF SizesKept, mcb, vars, HeapInv, HeadersIntact
  <2>2. QED
    BY <1>6, <2>1, SameBlocks DEF vars, HeapInv, TypeOK
<1>7. QED
  BY <1>1, <1>2, <1>3, <1>4, <1>5, <1>6 DEF Next

\* The inductive invariant holds in every state the kernel's heap can reach.
LEMMA Invariance == Spec => []HeapInv
BY InitInv, NextInv, PTL DEF Spec

\* The type invariant, for every memory map and every bound.
THEOREM TypeCorrect == Spec => []TypeOK
<1>1. HeapInv => TypeOK
  BY DEF HeapInv
<1>2. QED
  BY Invariance, <1>1, PTL

\* malloc, realloc and free never let two blocks touch, never damage a header
\* and always leave a heap that can be walked from its first block to its end
\* (malloc.c:33-45 relies on it, free and realloc trust every header).
THEOREM HeapStaysWellFormed == Spec => []HeapWellFormed
<1>1. HeapInv => HeapWellFormed
  BY DEF HeapInv, HeapWellFormed
<1>2. QED
  BY Invariance, <1>1, PTL

-----------------------------------------------------------------------------
(* The heap implements Allocator.                                           *)

\* What a step must leave alone for block q's payload to be what it was.
CellsKept(q) ==
    /\ mcb(q)'.size = mcb(q).size
    /\ \A i \in 0 .. (mcb(q).size - HdrSize - 1) : mem'[q + i] = mem[q + i]

\* A block that stays live and whose cells stay as they are keeps its contents
\* in the view of malloc.h's caller.
LEMMA PayloadKept ==
    ASSUME NEW q \in Live, q \in Live', CellsKept(q)
    PROVE  Payload'[q] = Payload[q]
BY DEF Payload, CellsKept

\* A payload cell lies below the top of the heap.
LEMMA PayloadBelowTop ==
    ASSUME HeapInv, NEW q \in given, NEW i \in 0 .. (mcb(q).size - HdrSize - 1)
    PROVE  q + i < Top /\ q + i \in Addr /\ i \in Nat
<1>1. /\ Top \in Nat /\ q \in Nat /\ mcb(q).size \in Nat
      /\ q - HdrSize + mcb(q).size <= Top
  BY TopAbove DEF End
<1>2. Top <= AddrMax + 1
  BY DEF HeapInv, HeapSpan, Top
<1>3. QED
  BY <1>1, <1>2 DEF Addr

\* Two blocks have no payload cell in common.
LEMMA PayloadsDisjoint ==
    ASSUME HeapInv, NEW p \in given, NEW q \in given, p # q,
           NEW i \in 0 .. (mcb(p).size - HdrSize - 1),
           NEW j \in 0 .. (mcb(q).size - HdrSize - 1)
    PROVE  p + i # q + j
<1>1. /\ p \in Nat /\ q \in Nat /\ mcb(p).size \in Nat /\ mcb(q).size \in Nat
      /\ End(p) = p - HdrSize + mcb(p).size
      /\ End(q) = q - HdrSize + mcb(q).size
  BY TopAbove DEF End
<1>2. End(p) <= q - HdrSize \/ End(q) <= p - HdrSize
  BY DEF HeapInv, BlocksDisjoint
<1>3. HdrSize \in Nat
  OBVIOUS
<1>4. i \in 0 .. (mcb(p).size - HdrSize - 1) /\ j \in 0 .. (mcb(q).size - HdrSize - 1)
  OBVIOUS
<1>5. QED
  BY SMTT(30), <1>1, <1>2, <1>3, <1>4, ApartMeansDistinct

\* malloc (malloc.c:21-59) does what malloc.h promises: a fresh block of the
\* size asked for, and nobody else's contents touched.
LEMMA MallocRefines ==
    ASSUME HeapInv, NEW n \in Nat, Malloc(n)
    PROVE  Contract!Alloc
<1>1. PICK new : new = Top + HdrSize
  OBVIOUS
<1>2. /\ Top \in Addr /\ new \in Addr \cup {AddrMax + 1}
  BY SMTT(30), <1>1, TopAbove DEF Malloc, Fits, Addr
<1>3. /\ mem' = [mem EXCEPT ![Top] = [free |-> FALSE, size |-> n + HdrSize]]
      /\ given' = given \cup {new}
  BY <1>1, MallocBumps DEF Malloc
<1>4. mem \in [Addr -> Cell] /\ Top \in Nat
  BY TopAbove DEF HeapInv, TypeOK
<1>5. new \notin given
  BY <1>1, <1>4, TopAbove DEF End
<1>6. \A q \in given : mcb(q)' = mcb(q) /\ CellsKept(q)
  BY <1>3, <1>4, TopAbove, TopIsFresh, PayloadBelowTop DEF mcb, CellsKept
<1>7. mcb(new)' = [free |-> FALSE, size |-> n + HdrSize]
  <2>1. new - HdrSize = Top
    BY <1>1, <1>4
  <2>2. QED
    BY <2>1, <1>2, <1>3, <1>4 DEF mcb
<1>8. Live' = Live \cup {new}
  <2>1. ~ mcb(new)'.free
    BY <1>7
  <2>2. QED
    BY <2>1, <1>3, <1>6 DEF Live, IsLive
<1>9. /\ DOMAIN Payload = Live
      /\ DOMAIN Payload' = Live'
  BY DEF Payload
<1>10. new \notin Live /\ Live \subseteq given
  BY <1>5 DEF Live
<1>11. \A q \in Live : Payload'[q] = Payload[q]
  BY <1>6, <1>8, <1>10, PayloadKept
<1>12. QED
  BY <1>2, <1>8, <1>9, <1>10, <1>11 DEF Contract!Alloc, Contract!OthersKept

\* free (malloc.c:81-88) takes one block away, or does nothing when the block
\* was free already or the pointer is NULL.
LEMMA FreeRefines ==
    ASSUME HeapInv, NEW p, Free(p)
    PROVE  Contract!Release \/ UNCHANGED Payload
<1>1. CASE p \in given
  <2>1. mem' = [mem EXCEPT ![p - HdrSize].free = TRUE]
    BY <1>1, FreeMarks DEF Free, mcb
  <2>2. PICK h \in Hdr : h = [mcb(p) EXCEPT !.free = TRUE]
    <3>1. [mcb(p) EXCEPT !.free = TRUE] \in Hdr
      BY <1>1 DEF HeapInv, HeadersIntact, Hdr
    <3>2. QED
      BY <3>1
  <2>3. h.size = mcb(p).size /\ h.free
    BY <2>2, <1>1 DEF HeapInv, HeadersIntact, Hdr
  <2>4. /\ mem' = [mem EXCEPT ![p - HdrSize] = h]
        /\ p - HdrSize \in Addr
        /\ mem \in [Addr -> Cell]
        /\ given' = given
    BY <2>1, <2>2, <1>1 DEF mcb, HeapInv, HeadersIntact, TypeOK, Free
  <2>5. \A q \in given : mcb(q)' = IF q = p THEN h ELSE mcb(q)
    BY <2>4, <1>1, TopAbove DEF mcb
  <2>6. \A q \in given : CellsKept(q)
    <3> SUFFICES ASSUME NEW q \in given PROVE CellsKept(q)
      OBVIOUS
    <3>1. mcb(q)'.size = mcb(q).size
      BY <2>3, <2>5
    <3>2. \A i \in 0 .. (mcb(q).size - HdrSize - 1) : mem'[q + i] = mem[q + i]
      <4> SUFFICES ASSUME NEW i \in 0 .. (mcb(q).size - HdrSize - 1)
                   PROVE  mem'[q + i] = mem[q + i]
        OBVIOUS
      <4>1. i \in Nat /\ i < mcb(q).size - HdrSize /\ q + i \in Addr
        BY PayloadBelowTop, TopAbove
      <4>2. q + i # p - HdrSize
        BY <4>1, <1>1, PayloadIsNoHeader
      <4>3. QED
        BY <4>1, <4>2, <2>4
    <3>3. QED
      BY <3>1, <3>2 DEF CellsKept
  <2>7. Live' = Live \ {p}
    BY <2>3, <2>4, <2>5 DEF Live, IsLive
  <2>8. /\ DOMAIN Payload = Live
        /\ DOMAIN Payload' = Live'
    BY DEF Payload
  <2>9. \A q \in Live \ {p} : Payload'[q] = Payload[q]
    <3>1. Live \subseteq given
      BY DEF Live
    <3>2. QED
      BY <3>1, <2>6, <2>7, PayloadKept
  <2>10. CASE p \in Live
    BY <2>7, <2>8, <2>9, <2>10 DEF Contract!Release, Contract!OthersKept
  <2>11. CASE p \notin Live
    <3>1. Live' = Live
      BY <2>7, <2>11
    <3>2. /\ Payload = [q \in Live |-> Payload[q]]
          /\ Payload' = [q \in Live |-> Payload'[q]]
      BY <3>1 DEF Payload
    <3>3. QED
      BY <3>2, <2>9, <2>11
  <2>12. QED
    BY <2>10, <2>11
<1>2. CASE p \notin given
  BY <1>2 DEF Free, free, Payload, Live, IsLive, mcb
<1>3. QED
  BY <1>1, <1>2

\* A write of a caller inside its block changes that block alone.
LEMMA StoreRefines ==
    ASSUME HeapInv, NEW p, NEW i \in Addr, NEW d \in Data, Store(p, i, d)
    PROVE  Contract!Write
<1>1. /\ p \in Live /\ p \in given /\ Live \subseteq given
      /\ p \in Nat /\ mcb(p).size \in Nat
      /\ i \in 0 .. (mcb(p).size - HdrSize - 1)
      /\ i \in Nat /\ i < mcb(p).size - HdrSize
  BY TopAbove DEF Store, Live, Addr
<1>2. mem' = [mem EXCEPT ![p + i] = d] /\ mem \in [Addr -> Cell] /\ given' = given
  BY DEF Store, HeapInv, TypeOK
<1>3. \A q \in given : mcb(q)' = mcb(q)
  BY <1>1, <1>2, TopAbove, PayloadIsNoHeader DEF mcb
<1>4. Live' = Live
  BY <1>2, <1>3 DEF Live, IsLive
<1>5. /\ DOMAIN Payload = Live
      /\ DOMAIN Payload' = Live'
  BY DEF Payload
<1>6. \A q \in Live \ {p} : Payload'[q] = Payload[q]
  <2> SUFFICES ASSUME NEW q \in Live \ {p} PROVE CellsKept(q)
    BY <1>4, PayloadKept
  <2>1. \A j \in 0 .. (mcb(q).size - HdrSize - 1) : q + j \in Addr /\ q + j # p + i
    BY <1>1, PayloadBelowTop, PayloadsDisjoint
  <2>2. QED
    BY <2>1, <1>1, <1>2, <1>3 DEF CellsKept
<1>7. /\ DOMAIN Payload[p] = 0 .. (mcb(p).size - HdrSize - 1)
      /\ DOMAIN Payload'[p] = DOMAIN Payload[p]
      /\ \A j \in DOMAIN Payload[p] : /\ Payload[p][j] = mem[p + j]
                                      /\ Payload'[p][j] = mem'[p + j]
  BY <1>1, <1>3, <1>4 DEF Payload
<1>8. \A j \in DOMAIN Payload[p] \ {i} : Payload'[p][j] = Payload[p][j]
  <2> SUFFICES ASSUME NEW j \in DOMAIN Payload[p] \ {i}
               PROVE  Payload'[p][j] = Payload[p][j]
    OBVIOUS
  <2>1. p + j \in Addr /\ p + j # p + i
    BY <1>1, <1>7, PayloadBelowTop
  <2>2. QED
    BY <2>1, <1>2, <1>7
<1>9. QED
  BY <1>1, <1>4, <1>5, <1>6, <1>7, <1>8 DEF Contract!Write, Contract!OthersKept

\* A realloc that moves (malloc.c:71-78) takes the old block away and gives a
\* new one with the common part of the contents carried over by the byte loop
\* of mem.c:29-39.
LEMMA ReallocMoveRefines ==
    ASSUME HeapInv, NEW p, NEW n \in Nat, ReallocMove(p, n)
    PROVE  Contract!Resize
<1>1. PICK h : h = [free |-> FALSE, size |-> n + HdrSize]
  OBVIOUS
<1>2. PICK dst : dst = Top + HdrSize
  OBVIOUS
<1>3. PICK k : k = mcb(p).size
  OBVIOUS
<1>4. PICK old : old = [mcb(p) EXCEPT !.free = TRUE]
  OBVIOUS
<1>5. /\ p \in Live /\ p \in given /\ Live \subseteq given /\ p \in Nat
      /\ k \in Nat /\ Top \in Nat /\ Top \in Addr
      /\ p - HdrSize # Top /\ p - HdrSize + k <= Top
      /\ mcb(p) \in Hdr
      /\ given' = given \cup {dst} /\ dst \in Addr \cup {AddrMax + 1}
      /\ dst + n - 1 \in Addr
  <2>1. p \in given /\ p \in Live /\ Fits(n) /\ given' = given \cup {dst}
    BY <1>2, MallocBumps DEF ReallocMove, Live
  <2>2. /\ p \in Nat /\ k \in Nat /\ Top \in Nat
        /\ p - HdrSize # Top /\ p - HdrSize + k <= Top
        /\ mcb(p) \in Hdr
    BY <1>3, <2>1, TopAbove, TopIsFresh DEF End
  <2>3. /\ Top \in Addr /\ dst \in Addr \cup {AddrMax + 1}
        /\ dst + n - 1 \in Addr
    BY <1>2, <2>1, <2>2 DEF Fits, Addr
  <2>4. QED
    BY <2>1, <2>2, <2>3 DEF Live
<1>6. old.size = k /\ old.free
  BY <1>3, <1>4, <1>5 DEF Hdr
<1>7. mem' = [a \in Addr |->
                IF a = p - HdrSize THEN old
                ELSE IF a \in dst .. (dst + k - 1)
                       THEN [mem EXCEPT ![Top] = h][p + (a - dst)]
                ELSE IF a = Top THEN h ELSE mem[a]]
  BY <1>1, <1>2, <1>3, <1>4, ReallocMemory
<1>8. \A q \in given : mcb(q)' = IF q = p THEN old ELSE mcb(q)
  <2> SUFFICES ASSUME NEW q \in given
               PROVE  mcb(q)' = IF q = p THEN old ELSE mcb(q)
    OBVIOUS
  <2>1. /\ q \in Nat /\ q - HdrSize \in Addr /\ q - HdrSize < Top
    BY TopAbove, TopIsFresh
  <2>2. QED
    BY <2>1, <1>2, <1>5, <1>7 DEF mcb
<1>9. mcb(dst)' = h
  <2>1. dst - HdrSize = Top /\ Top \notin dst .. (dst + k - 1)
    BY <1>2, <1>5
  <2>2. QED
    BY <2>1, <1>5, <1>7 DEF mcb
<1>10. dst \notin given
  BY <1>2, <1>5, TopAbove
<1>11. Live' = (Live \ {p}) \cup {dst}
  <2>1. ~ mcb(dst)'.free
    BY <1>1, <1>9
  <2>2. QED
    BY <2>1, <1>5, <1>6, <1>8, <1>10 DEF Live, IsLive
<1>12. /\ DOMAIN Payload = Live
       /\ DOMAIN Payload' = Live'
  BY DEF Payload
<1>13. \A q \in Live \ {p} : Payload'[q] = Payload[q]
  <2> SUFFICES ASSUME NEW q \in Live \ {p} PROVE CellsKept(q)
    BY <1>11, PayloadKept
  <2>1. ASSUME NEW j \in 0 .. (mcb(q).size - HdrSize - 1)
        PROVE  q + j \in Addr /\ q + j < Top /\ q + j # p - HdrSize /\ q + j \in Nat
    <3>1. q \in given /\ q \in Nat /\ mcb(q).size \in Nat
      BY <1>5, TopAbove
    <3>2. j \in Nat /\ j < mcb(q).size - HdrSize
      BY <3>1
    <3>3. q + j \in Addr /\ q + j < Top
      BY <3>1, PayloadBelowTop
    <3>4. q + j # p - HdrSize
      BY <3>1, <3>2, <1>5, PayloadIsNoHeader
    <3>5. QED
      BY <3>1, <3>2, <3>3, <3>4
  <2>2. QED
    BY <2>1, <1>2, <1>5, <1>7, <1>8 DEF CellsKept
<1>14. /\ DOMAIN Payload[p] = 0 .. (k - HdrSize - 1)
       /\ DOMAIN Payload'[dst] = 0 .. (n - 1)
       /\ \A i \in DOMAIN Payload[p] : Payload[p][i] = mem[p + i]
       /\ \A i \in DOMAIN Payload'[dst] : Payload'[dst][i] = mem'[dst + i]
  <2>1. h.size - HdrSize - 1 = n - 1
    BY <1>1
  <2>2. QED
    BY <1>3, <1>5, <1>9, <1>11, <2>1 DEF Payload
<1>15. \A i \in DOMAIN Payload[p] \cap DOMAIN Payload'[dst] :
           Payload'[dst][i] = Payload[p][i]
  <2> SUFFICES ASSUME NEW i \in 0 .. (k - HdrSize - 1), i \in 0 .. (n - 1)
               PROVE  mem'[dst + i] = mem[p + i]
    BY <1>14
  <2>1. PICK a \in Int : a = dst + i
    BY <1>2, <1>5
  <2>2. PICK m1 : m1 = [mem EXCEPT ![Top] = h]
    OBVIOUS
  <2>3. /\ a \in Addr /\ a \in dst .. (dst + k - 1) /\ a # p - HdrSize
        /\ p + (a - dst) = p + i
        /\ p + i # Top /\ p + i \in Addr
    BY SMTT(30), <2>1, <1>2, <1>3, <1>5, PayloadBelowTop DEF Addr
  <2>4. mem' = [c \in Addr |->
                  IF c = p - HdrSize THEN old
                  ELSE IF c \in dst .. (dst + k - 1) THEN m1[p + (c - dst)]
                  ELSE IF c = Top THEN h ELSE mem[c]]
    BY <1>7, <2>2
  <2>5. mem'[a] = m1[p + i]
    BY <2>3, <2>4
  <2>6. m1[p + i] = mem[p + i]
    BY <2>2, <2>3 DEF HeapInv, TypeOK
  <2>7. QED
    BY <2>1, <2>5, <2>6
<1>16. dst \notin Live
  BY <1>5, <1>10
<1>17. Contract!OthersKept({p})
  BY <1>12, <1>13 DEF Contract!OthersKept
<1>18. p \in DOMAIN Payload /\ dst \in (Addr \cup {AddrMax + 1}) \ DOMAIN Payload
  BY <1>5, <1>12, <1>16
<1>19. DOMAIN Payload' = (DOMAIN Payload \ {p}) \cup {dst}
  BY <1>11, <1>12
<1>20. QED
  BY <1>15, <1>17, <1>18, <1>19 DEF Contract!Resize

\* Every step of the heap is a step of malloc.h's contract, or leaves the
\* callers' view as it is.
LEMMA StepRefines == HeapInv /\ [Next]_vars => [Contract!Next]_Payload
<1> SUFFICES ASSUME HeapInv, [Next]_vars
             PROVE  Contract!Next \/ UNCHANGED Payload
  BY DEF Contract!Next
<1>1. CASE MapEntry \/ UNCHANGED vars
  BY <1>1 DEF MapEntry, vars, Payload, Live, IsLive, mcb
<1>2. ASSUME NEW n \in Sizes, Malloc(n) PROVE Contract!Next
  BY <1>2, MallocRefines DEF Contract!Next
<1>3. ASSUME NEW p \in given \cup {NULL}, Free(p)
      PROVE  Contract!Next \/ UNCHANGED Payload
  BY <1>3, FreeRefines DEF Contract!Next
<1>4. ASSUME NEW p \in given \cup {NULL}, NEW n \in Sizes, Realloc(p, n)
      PROVE  Contract!Next \/ UNCHANGED Payload
  BY <1>4, MallocRefines, FreeRefines, ReallocMoveRefines
  DEF Realloc, Contract!Next
<1>5. ASSUME NEW p \in given, NEW i \in Addr, NEW d \in Data, Store(p, i, d)
      PROVE  Contract!Next
  BY <1>5, StoreRefines DEF Contract!Next
<1>6. QED
  BY <1>1, <1>2, <1>3, <1>4, <1>5 DEF Next

\* The heap implements the contract its callers rely on: blocks are
\* independent, realloc carries the common part over, and no call ever changes
\* a cell of somebody else's live block (malloc.c:21-88).
THEOREM HeapImplementsAllocator == Spec => AllocatorContract
<1>1. Init => Contract!Init
  BY DEF Init, Contract!Init, Payload, Live
<1>2. QED
  BY <1>1, Invariance, StepRefines, PTL
  DEF Spec, AllocatorContract, Contract!Spec

\* The one header a call of malloc writes is not one of the blocks'.
LEMMA MallocKeepsFreed ==
    ASSUME HeapInv, NEW n \in Nat, Malloc(n), NEW q \in given
    PROVE  mcb(q)' = mcb(q)
<1>1. mem' = [mem EXCEPT ![Top] = [free |-> FALSE, size |-> n + HdrSize]]
  BY MallocBumps DEF Malloc
<1>2. QED
  BY <1>1, TopAbove, TopIsFresh DEF mcb, HeapInv, TypeOK

\* free (malloc.c:81-88) only ever sets the mark.
LEMMA FreeKeepsFreed ==
    ASSUME HeapInv, NEW p, Free(p), NEW q \in given, mcb(q).free
    PROVE  mcb(q)'.free
<1>1. CASE p \in given
  <2>1. mem' = [mem EXCEPT ![p - HdrSize].free = TRUE]
    BY <1>1, FreeMarks DEF Free, mcb
  <2>2. /\ p - HdrSize \in Addr /\ q - HdrSize \in Addr
        /\ mem[p - HdrSize] \in Hdr /\ mem \in [Addr -> Cell]
    BY <1>1 DEF HeapInv, HeadersIntact, TypeOK, mcb
  <2>3. QED
    BY <2>1, <2>2 DEF mcb, Hdr
<1>2. CASE p \notin given
  BY <1>2 DEF Free, free, mcb
<1>3. QED
  BY <1>1, <1>2

\* realloc marks the block it moves from and no other (malloc.c:71-78).
LEMMA ReallocMoveKeepsFreed ==
    ASSUME HeapInv, NEW p, NEW n \in Nat, ReallocMove(p, n),
           NEW q \in given, mcb(q).free
    PROVE  mcb(q)' = mcb(q)
<1>1. PICK dst, h, k :
          /\ dst = Top + HdrSize
          /\ h = [free |-> FALSE, size |-> n + HdrSize]
          /\ k = mcb(p).size
  OBVIOUS
<1>2. /\ p \in given /\ ~ mcb(p).free /\ p \in Nat
      /\ q \in Nat /\ q - HdrSize \in Addr /\ q - HdrSize < Top /\ Top \in Nat
  BY TopAbove, TopIsFresh DEF ReallocMove, Live, IsLive
<1>3. q # p /\ q - HdrSize # p - HdrSize
  BY <1>2
<1>4. q - HdrSize \notin dst .. (dst + k - 1) /\ q - HdrSize # Top
  BY <1>1, <1>2
<1>5. mem' = [a \in Addr |->
                IF a = p - HdrSize THEN [mcb(p) EXCEPT !.free = TRUE]
                ELSE IF a \in dst .. (dst + k - 1)
                       THEN [mem EXCEPT ![Top] = h][p + (a - dst)]
                ELSE IF a = Top THEN h ELSE mem[a]]
  BY <1>1, ReallocMemory
<1>6. QED
  BY <1>2, <1>3, <1>4, <1>5 DEF mcb

\* A caller that stays inside its block writes on no header.
LEMMA StoreKeepsHeaders ==
    ASSUME HeapInv, NEW p, NEW i \in Addr, NEW d \in Data, Store(p, i, d),
           NEW q \in given
    PROVE  mcb(q)' = mcb(q)
<1>1. p \in given /\ i \in Nat /\ i < mcb(p).size - HdrSize
  BY DEF Store, Live, Addr
<1>2. q - HdrSize \in Addr /\ p + i # q - HdrSize
  BY <1>1, TopAbove, PayloadIsNoHeader
<1>3. mem' = [mem EXCEPT ![p + i] = d] /\ mem \in [Addr -> Cell]
  BY DEF Store, HeapInv, TypeOK
<1>4. QED
  BY <1>2, <1>3 DEF mcb

\* A freed block stays freed, so a stale pointer names nobody else's block
\* (malloc.c:81-88; the reuse in malloc.c:33-45 is never reached).
THEOREM FreedForever == Spec => NeverRecycled
<1>1. HeapInv /\ [Next]_vars => [\A p \in given : mcb(p).free => mcb(p)'.free]_vars
  <2> SUFFICES ASSUME HeapInv, Next, NEW q \in given, mcb(q).free
               PROVE  mcb(q)'.free
    OBVIOUS
  <2>1. CASE MapEntry
    BY <2>1 DEF MapEntry, mcb
  <2>2. ASSUME NEW n \in Sizes, Malloc(n) PROVE mcb(q)'.free
    BY <2>2, MallocKeepsFreed
  <2>3. ASSUME NEW p \in given \cup {NULL}, Free(p) PROVE mcb(q)'.free
    BY <2>3, FreeKeepsFreed
  <2>4. ASSUME NEW p \in given \cup {NULL}, NEW n \in Sizes, Realloc(p, n)
        PROVE  mcb(q)'.free
    BY <2>4, MallocKeepsFreed, FreeKeepsFreed, ReallocMoveKeepsFreed DEF Realloc
  <2>5. ASSUME NEW p \in given, NEW i \in Addr, NEW d \in Data, Store(p, i, d)
        PROVE  mcb(q)'.free
    BY <2>5, StoreKeepsHeaders
  <2>6. QED
    BY <2>1, <2>2, <2>3, <2>4, <2>5 DEF Next
<1>2. QED
  BY <1>1, Invariance, PTL DEF Spec, NeverRecycled
=============================================================================
