------------------------------ MODULE UserHeap ------------------------------
(***************************************************************************)
(* malloc(), free() and realloc() of the programs in Ring 3                *)
(* (RAD_RING3_290626_v2/system/malloc.c): a list of blocks with headers,   *)
(* the first that fits, cut when enough is left over, joined with its free *)
(* neighbours when freed, and extended by SYS_SBRK.                        *)
(*                                                                         *)
(* A program has one thread and a heap of its own.  Addresses count the    *)
(* 16 bytes to which sizes are aligned, from the heap's first byte.  The   *)
(* list is in the order of addresses (UserListTiles), which is how the     *)
(* first block that fits is found here.                                    *)
(***************************************************************************)
EXTENDS Integers, FiniteSetsExt

CONSTANTS
  HEADER_SIZE,
  MIN_SPLIT,
  CHUNK_SIZE,
  HeapLimit,    \* bound: where the kernel has no more frames to give
  Sizes         \* the sizes in bytes that programs ask for

ASSUME UserHeapAssumption ==
  /\ HEADER_SIZE \in Nat \ {0} /\ MIN_SPLIT \in Nat /\ CHUNK_SIZE \in Nat \ {0}
  /\ HeapLimit \in Nat /\ Sizes \subseteq Nat \ {0}

VARIABLES
  heap,         \* heap_start, heap_end and the headers by address
  programBreak, \* the break of the process, in the same units
  asked         \* history: what the program has asked for, per block it holds

heapVars == <<heap, programBreak, asked>>

NoBlock == -1

ALIGN16(n) == (n + 15) \div 16

\* What follows a has a as its predecessor, or a is the last block.
LinkBack(h, a) ==
  LET z == h.block[a].next
  IN IF z = NoBlock THEN [h EXCEPT !.end = a]
     ELSE [h EXCEPT !.block[z].prev = a]

-----------------------------------------------------------------------------
split_block(h, a, n) ==
  LET b == h.block[a]
      f == a + HEADER_SIZE + n
  IN IF b.size < n + HEADER_SIZE + MIN_SPLIT THEN h
     ELSE LinkBack([h EXCEPT !.block = [w \in DOMAIN @ \cup {f} |->
            IF w = f THEN [size |-> b.size - n - HEADER_SIZE, is_free |-> TRUE,
                           next |-> b.next, prev |-> a]
            ELSE IF w = a THEN [b EXCEPT !.size = n, !.next = f]
            ELSE @[w]]], f)

\* Block a and the one after it become one.
Absorb(h, a) ==
  LET z == h.block[a].next
      b == [h.block[a] EXCEPT !.size = @ + HEADER_SIZE + h.block[z].size,
                              !.next = h.block[z].next]
  IN LinkBack([h EXCEPT !.block =
       [w \in DOMAIN @ \ {z} |-> IF w = a THEN b ELSE @[w]]], a)

NextIsFree(h, a) == h.block[a].next # NoBlock /\ h.block[h.block[a].next].is_free

\* Mutant: the previous block is taken in without a look at whether it is free.
Mut_coalesce(h, a) ==
  LET g == IF NextIsFree(h, a) THEN Absorb(h, a) ELSE h
      p == g.block[a].prev
  IN IF p # NoBlock THEN Absorb(g, p) ELSE g

coalesce(h, a) ==
  LET g == IF NextIsFree(h, a) THEN Absorb(h, a) ELSE h
      p == g.block[a].prev
  IN IF p # NoBlock /\ g.block[p].is_free THEN Absorb(g, p) ELSE g

\* free(), of the block at a.
Released(h, a) == coalesce([h EXCEPT !.block[a].is_free = TRUE], a)

-----------------------------------------------------------------------------
\* What is asked of SYS_SBRK for n units and their header: whole pages.
Asked(n) ==
  ((n + HEADER_SIZE + CHUNK_SIZE - 1) \div CHUNK_SIZE) * CHUNK_SIZE

\* The block made of what SYS_SBRK gave, at the end of the list: it is not
\* joined with a free block before it.
Extended(h, a, room) ==
  LET b == [size |-> room - HEADER_SIZE, is_free |-> FALSE,
            next |-> NoBlock, prev |-> h.end]
  IN [start |-> IF h.start = NoBlock THEN a ELSE h.start,
      end |-> a,
      block |-> [w \in DOMAIN h.block \cup {a} |->
                  IF w = a THEN b
                  ELSE IF w = h.end THEN [h.block[w] EXCEPT !.next = a]
                  ELSE h.block[w]]]

\* The ways in which malloc() of n units may end: the heap, the break, and the
\* block given, if any.
malloc(h, brk, n) ==
  LET fits == {a \in DOMAIN h.block : h.block[a].is_free /\ h.block[a].size >= n}
      a == Min(fits)
      g == split_block(h, a, n)
  IN IF fits # {}
     THEN {[heap |-> [g EXCEPT !.block[a].is_free = FALSE], brk |-> brk, at |-> a]}
     ELSE {[heap |-> h, brk |-> brk, at |-> NoBlock]}
            \cup (IF brk + Asked(n) > HeapLimit THEN {}
                  ELSE {[heap |-> split_block(Extended(h, brk, Asked(n)), brk, n),
                         brk |-> brk + Asked(n), at |-> brk]})

\* Mutant: the next block's header is counted as well as its own.
Mut_realloc(h, brk, a, n) ==
  LET b == h.block[a]
  IN IF b.size >= n
     THEN {[heap |-> split_block(h, a, n), brk |-> brk, at |-> a]}
     ELSE IF NextIsFree(h, a) /\ b.size + 2 * HEADER_SIZE + h.block[b.next].size >= n
     THEN {[heap |-> split_block(Absorb(h, a), a, n), brk |-> brk, at |-> a]}
     ELSE {IF o.at = NoBlock THEN o ELSE [o EXCEPT !.heap = Released(@, a)] :
             o \in malloc(h, brk, n)}

\* The same of realloc() of the block at a: cut, grown into the free block
\* after it, or copied to a new one and freed.
realloc(h, brk, a, n) ==
  LET b == h.block[a]
  IN IF b.size >= n
     THEN {[heap |-> split_block(h, a, n), brk |-> brk, at |-> a]}
     ELSE IF NextIsFree(h, a) /\ b.size + HEADER_SIZE + h.block[b.next].size >= n
     THEN {[heap |-> split_block(Absorb(h, a), a, n), brk |-> brk, at |-> a]}
     ELSE {IF o.at = NoBlock THEN o ELSE [o EXCEPT !.heap = Released(@, a)] :
             o \in malloc(h, brk, n)}

-----------------------------------------------------------------------------
InUse == {a \in DOMAIN heap.block : ~heap.block[a].is_free}

Without(a) == [b \in DOMAIN asked \ {a} |-> asked[b]]

\* A call that hands out a block of n units, maybe for the one at old.
Hands(o, old, n) ==
  /\ heap' = o.heap
  /\ programBreak' = o.brk
  /\ asked' = IF o.at = NoBlock THEN asked
              ELSE [b \in (DOMAIN asked \ {old}) \cup {o.at} |->
                      IF b = o.at THEN n ELSE asked[b]]

Malloc(n) ==
  \E o \in malloc(heap, programBreak, ALIGN16(n)) :
    Hands(o, NoBlock, ALIGN16(n))

FreeBlock(a) ==
  heap' = Released(heap, a) /\ asked' = Without(a) /\ UNCHANGED programBreak

Realloc(a, n) ==
  \E o \in realloc(heap, programBreak, a, ALIGN16(n)) :
    Hands(o, a, ALIGN16(n))

HeapInit ==
  /\ heap = [start |-> NoBlock, end |-> NoBlock, block |-> [a \in {} |-> 0]]
  /\ programBreak = 0
  /\ asked = [a \in {} |-> 0]

HeapNext ==
  \/ \E n \in Sizes : Malloc(n)
  \/ \E a \in InUse : FreeBlock(a) \/ \E n \in Sizes : Realloc(a, n)

HeapSpec == HeapInit /\ [][HeapNext]_heapVars

-----------------------------------------------------------------------------
\* The list covers the heap without gap or overlap, forwards and backwards,
\* with heap_start and heap_end at its ends, although four operations write
\* the links: joining two blocks counts on their being neighbours in memory.
\* And the blocks that programs hold, which are those not free, have the length
\* that was asked for, also where growing took in what was free next to them.
UserListTiles ==
  LET B == DOMAIN heap.block
      end(a) == a + HEADER_SIZE + heap.block[a].size
  IN /\ B = {} => heap.start = NoBlock /\ heap.end = NoBlock /\ programBreak = 0
     /\ B # {} =>
          /\ heap.start = 0 /\ heap.start \in B /\ heap.block[0].prev = NoBlock
          /\ heap.end \in B /\ end(heap.end) = programBreak
          /\ heap.block[heap.end].next = NoBlock
          /\ \A a \in B \ {heap.end} :
               /\ heap.block[a].next = end(a) /\ end(a) \in B
               /\ heap.block[end(a)].prev = a
     /\ InUse = DOMAIN asked
     /\ \A a \in InUse : heap.block[a].size >= asked[a]

\* What programs hold: regions without their headers.
Regions == {[base |-> a + HEADER_SIZE, len |-> heap.block[a].size] :
               a \in InUse}

ApartFrom(r, s) == r.base + r.len <= s.base \/ s.base + s.len <= r.base

\* What an allocator promises, whatever was cut, joined or moved: a call takes
\* at most one region back and hands at most one out.  The one handed out
\* overlaps nothing in use; when it replaces another, realloc() copies, and the
\* two begin together or are apart.  All other regions keep place and length.
RegionsKept ==
  [][LET given == Regions' \ Regions
         back == Regions \ Regions'
     IN /\ Cardinality(given) <= 1 /\ Cardinality(back) <= 1
        /\ \A r \in given :
             /\ \A t \in Regions \ back : ApartFrom(r, t)
             /\ \A g \in back : r.base = g.base \/ ApartFrom(r, g)]_heapVars
=============================================================================
