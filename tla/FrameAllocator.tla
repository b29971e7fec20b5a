--------------------------- MODULE FrameAllocator ---------------------------
(***************************************************************************)
(* The physical memory manager: a bitmap of page frames, read and written  *)
(* a word at a time, and the word at which the next search begins          *)
(* (mem/pmm.c).                                                            *)
(*                                                                         *)
(* Nothing guards the bitmap.  The ELF loader and the FAT32 driver call    *)
(* with interrupts on and can lose the processor between any two accesses  *)
(* to memory; kmalloc() and SYS_SBRK call with interrupts off.  Each load  *)
(* and store of a shared variable is a step of its own, so that "|=" and   *)
(* "&=" are a load and a store with any number of steps of others between: *)
(* none, for a compiler that emits one instruction, or all since the word  *)
(* was examined, for one that reuses the register that holds it.           *)
(***************************************************************************)
EXTENDS Integers, FiniteSets

CONSTANTS
  Tasks,        \* the contexts that call
  Masked,       \* those among them that call with interrupts off
  WordBits,     \* the 32 bits of a uint32_t
  Words,        \* bitmap_size
  total_blocks,
  Reserved      \* frames that detect_memory_from_e820() never frees

Word == 0 .. Words - 1
Bit == 0 .. WordBits - 1
Frame == Word \X Bit      \* a frame is the place of its bit
block_id(f) == f[1] * WordBits + f[2]

\* A frame in Reserved is below 8 MB, which has that of address 0 (NULL) in it,
\* is not RAM, or is a bit past the last block.
ASSUME FrameAssumption ==
  /\ Masked \subseteq Tasks
  /\ WordBits \in Nat \ {0} /\ Words \in Nat \ {0}
  /\ total_blocks \in Nat /\ total_blocks <= Words * WordBits
  /\ Reserved \subseteq Frame
  /\ \A f \in Frame : block_id(f) >= total_blocks => f \in Reserved

VARIABLES
  bitmap,          \* by word, the set of bits that are 1: frames not free
  last_bit_index,
  call,            \* by task, the call it is in and its local variables
  held,            \* by task, the frames it was given and has not freed
  overlapped       \* some call began while another was under way

vars == <<bitmap, last_bit_index, call, held, overlapped>>

Marked == {f \in Frame : f[2] \in bitmap[f[1]]}

Idle == [pc |-> "idle", i |-> 0, index |-> 0, bit |-> 0, word |-> {}]

Call == [pc : {"idle", "look", "read", "load", "store", "return",
               "clear", "lower", "hint"},
         i : Word, index : Word, bit : Bit, word : SUBSET Bit]

Busy(t) == call[t].pc # "idle"
Target(t) == <<call[t].index, call[t].bit>>

TypeOK ==
  /\ bitmap \in [Word -> SUBSET Bit]
  /\ last_bit_index \in Word
  /\ call \in [Tasks -> Call]
  /\ held \in [Tasks -> SUBSET Frame]
  /\ overlapped \in BOOLEAN

\* A task that calls with interrupts off is not preempted.
HasCpu(t) == \A u \in Masked \ {t} : ~Busy(u)

-----------------------------------------------------------------------------
\* Mutants: no wrap; the last word is not searched; "=" for "|="; "&=" clears
\* the neighbour, or nothing; a free leaves the hint alone.
Mut_SearchIndexNoWrap(i) == last_bit_index + i
Mut_ExhaustedEarly(i) == i + 2 >= Words
Mut_WithBitOnly(word, b) == {b}
Mut_WithoutNextBit(word, b) == word \ {(b + 1) % WordBits}
Mut_WithoutNothing(word, b) == word
Mut_BelowHintNever(w) == FALSE

SearchIndex(i) == (last_bit_index + i) % Words
Exhausted(i) == i + 1 = Words
WithBit(word, b) == word \cup {b}
WithoutBit(word, b) == word \ {b}

\* bsf of the complement: the lowest 0 of the word, if there is one.
LowestFree(word) == {b \in Bit \ word : \A c \in Bit \ word : b <= c}

BelowHint(w) == w < last_bit_index

Begin(t) == overlapped' = (overlapped \/ \E u \in Tasks \ {t} : Busy(u))

-----------------------------------------------------------------------------
\* pmm_alloc_block()

Alloc(t) ==
  /\ ~Busy(t)
  /\ Begin(t)
  /\ call' = [call EXCEPT ![t] = [Idle EXCEPT !.pc = "read",
                                              !.index = SearchIndex(0)]]
  /\ UNCHANGED <<bitmap, last_bit_index, held>>

\* The next round of the loop reads last_bit_index again.
Look(t) ==
  /\ call[t].pc = "look"
  /\ call' = [call EXCEPT ![t].pc = "read",
                          ![t].index = SearchIndex(call[t].i)]
  /\ UNCHANGED <<bitmap, last_bit_index, held, overlapped>>

Chosen(t) == {b \in LowestFree(bitmap[call[t].index]) :
                block_id(<<call[t].index, b>>) < total_blocks}

Read(t) ==
  /\ call[t].pc = "read"
  /\ \/ \E b \in Chosen(t) :
          call' = [call EXCEPT ![t].pc = "load", ![t].bit = b]
     \/ /\ Chosen(t) = {}
        /\ ~Exhausted(call[t].i)
        /\ call' = [call EXCEPT ![t].pc = "look", ![t].i = @ + 1]
  /\ UNCHANGED <<bitmap, last_bit_index, held, overlapped>>

\* Every word was full: the call returns NULL.
ReturnNull(t) ==
  /\ call[t].pc = "read" /\ Chosen(t) = {} /\ Exhausted(call[t].i)
  /\ call' = [call EXCEPT ![t] = Idle]
  /\ UNCHANGED <<bitmap, last_bit_index, held, overlapped>>

Load(t) ==
  /\ call[t].pc = "load"
  /\ call' = [call EXCEPT ![t].pc = "store",
                          ![t].word = bitmap[call[t].index]]
  /\ UNCHANGED <<bitmap, last_bit_index, held, overlapped>>

Store(t) ==
  /\ call[t].pc = "store"
  /\ bitmap' = [bitmap EXCEPT ![call[t].index] =
                  WithBit(call[t].word, call[t].bit)]
  /\ call' = [call EXCEPT ![t].pc = "return", ![t].word = {}]
  /\ UNCHANGED <<last_bit_index, held, overlapped>>

Return(t) ==
  /\ call[t].pc = "return"
  /\ last_bit_index' = call[t].index
  /\ held' = [held EXCEPT ![t] = @ \cup {Target(t)}]
  /\ call' = [call EXCEPT ![t] = Idle]
  /\ UNCHANGED <<bitmap, overlapped>>

-----------------------------------------------------------------------------
\* pmm_free_block(): callers free frames that they were given.  Past the range
\* check, the word is loaded, stored without the bit, and the hint looked at and
\* lowered.

Free(t) ==
  /\ ~Busy(t)
  /\ Begin(t)
  /\ \E f \in held[t] :
       /\ block_id(f) < total_blocks
       /\ held' = [held EXCEPT ![t] = @ \ {f}]
       /\ call' = [call EXCEPT ![t] =
                     [Idle EXCEPT !.pc = "clear", !.index = f[1], !.bit = f[2],
                                  !.word = bitmap[f[1]]]]
  /\ UNCHANGED <<bitmap, last_bit_index>>

Clear(t) ==
  /\ call[t].pc = "clear"
  /\ bitmap' = [bitmap EXCEPT ![call[t].index] =
                  WithoutBit(call[t].word, call[t].bit)]
  /\ call' = [call EXCEPT ![t].pc = "lower", ![t].word = {}]
  /\ UNCHANGED <<last_bit_index, held, overlapped>>

Lower(t) ==
  /\ call[t].pc = "lower"
  /\ call' = [call EXCEPT ![t] = IF BelowHint(@.index)
                                 THEN [@ EXCEPT !.pc = "hint"] ELSE Idle]
  /\ UNCHANGED <<bitmap, last_bit_index, held, overlapped>>

SetHint(t) ==
  /\ call[t].pc = "hint"
  /\ last_bit_index' = call[t].index
  /\ call' = [call EXCEPT ![t] = Idle]
  /\ UNCHANGED <<bitmap, held, overlapped>>

-----------------------------------------------------------------------------
\* pmm_init() marks every frame, detect_memory_from_e820() frees the RAM above
\* 8 MB from the lowest address up.
Init ==
  /\ bitmap = [w \in Word |-> {b \in Bit : <<w, b>> \in Reserved}]
  /\ last_bit_index = 0
  /\ call = [t \in Tasks |-> Idle]
  /\ held = [t \in Tasks |-> {}]
  /\ overlapped = FALSE

Step(t) ==
  \/ Alloc(t) \/ Look(t) \/ Read(t) \/ ReturnNull(t) \/ Load(t) \/ Store(t)
  \/ Return(t) \/ Free(t) \/ Clear(t) \/ Lower(t) \/ SetHint(t)

Next == \E t \in Tasks : HasCpu(t) /\ Step(t)

Spec == Init /\ [][Next]_vars
-----------------------------------------------------------------------------
\* Whatever the interleaving, memory the loader or the firmware reserved is
\* never handed out, and never becomes free.
ReservedStay ==
  /\ Reserved \subseteq Marked
  /\ \A t \in Tasks : held[t] \cap Reserved = {}

\* Until two calls overlap, no frame has two owners: what is held is held
\* once, and what a call is about to return nobody holds.
NoSharing ==
  ~overlapped =>
    \A t \in Tasks :
      /\ \A u \in Tasks \ {t} : held[t] \cap held[u] = {}
      /\ call[t].pc = "return" => \A u \in Tasks : Target(t) \notin held[u]

\* Until two calls overlap, no frame is lost: one that is marked is reserved,
\* held, or on its way from or to the bitmap.
NoLoss ==
  ~overlapped =>
    \A f \in Marked \ Reserved :
      \E t \in Tasks : \/ f \in held[t]
                       \/ call[t].pc \in {"return", "clear"} /\ f = Target(t)

\* Until two calls overlap, NULL is returned only when no frame is free.
NullOnlyWhenFull ==
  [][~overlapped => \A t \in Tasks : ReturnNull(t) => Marked = Frame]_vars

\* Until two calls overlap, the search begins no higher than the lowest free
\* frame, except while a call is about to lower the hint: as the comment in
\* pmm_free_block() has it, holes low in memory are used first.
HolesFirst ==
  ~overlapped =>
    \A w \in Word, b \in Bit :
      /\ b \notin bitmap[w]
      /\ w < last_bit_index
      => \E t \in Tasks : call[t].pc \in {"lower", "hint"} /\ call[t].index = w

\* What the bitmap and its hint keep: the memory that is not the allocator's at
\* all times, owners and holes until two calls overlap.
FramesSound == TypeOK /\ ReservedStay /\ NoSharing /\ NoLoss /\ HolesFirst
=============================================================================
