------------------------- MODULE KernelMemoryProofs -------------------------
(***************************************************************************)
(* Proofs about the kernel's memory: FrameAllocator and KernelHeap.        *)
(*                                                                         *)
(* Frames, for any number of tasks and any size of memory.  The part of    *)
(* FramesInv about reserved frames holds under every interleaving; the     *)
(* others hold until two calls overlap, and rest on there being then one   *)
(* busy task: what it has loaded is what is there, and the words that its  *)
(* search has left behind are full.                                        *)
(*                                                                         *)
(* The heap, for any sizes of header, page and heap, and any requests.     *)
(* HeapInv says of the list what makes cutting, appending and joining      *)
(* right: it covers the heap address by address, links agree with          *)
(* addresses in both directions, and lengths and headers add up to its     *)
(* end.  One lemma per operation on the list says what the operation       *)
(* leaves and changes, one per action that it keeps HeapInv and what       *)
(* becomes of the blocks in use; HeapSound and the refinement of Allocator *)
(* follow.  kmalloc_stats() is modelled by sums over sets, which Folds     *)
(* defines by recursion over subsets: what such sums are is proved by      *)
(* induction over a set of numbers.                                        *)
(***************************************************************************)
EXTENDS FrameAllocator, KernelHeap, FiniteSetTheorems, WellFoundedInduction, TLAPS

-----------------------------------------------------------------------------
\* Natural numbers

\* A set of natural numbers has a least one, and one closed under successor
\* that holds 0 holds them all.
LEMMA NatLeast == ASSUME NEW T, T \subseteq Nat, T # {} PROVE \E n \in T : \A m \in T : n <= m
  <1> DEFINE R == {ss \in Nat \X Nat : ss[1] < ss[2]}
  <1>1. IsWellFoundedOn(R, Nat)
    BY NatLessThanWellFounded DEF OpToRel
  <1>2. \E x \in T : \A y \in T : ~ (<<y, x>> \in R)
    <2> HIDE DEF R
    <2> QED BY <1>1, WFMin
  <1>3. \A x, y \in Nat : x < y => <<x, y>> \in R
    OBVIOUS
  <1>4. PICK x \in T : \A y \in T : ~ (<<y, x>> \in R)
    BY <1>2
  <1>5. \A m \in T : ~ (m < x)
    <2> HIDE DEF R
    <2> QED BY <1>3, <1>4
  <1> QED BY <1>5

LEMMA NatSet == ASSUME NEW P, 0 \in P, \A n \in Nat : n \in P => n + 1 \in P
  PROVE Nat \subseteq P
  <1> SUFFICES ASSUME Nat \ P # {} PROVE FALSE OBVIOUS
  <1>1. PICK n \in Nat \ P : \A m \in Nat \ P : n <= m BY NatLeast
  <1>2. n # 0 /\ n - 1 \in Nat BY <1>1
  <1>3. n - 1 \in P BY <1>1, <1>2
  <1>4. n - 1 + 1 \in P BY <1>2, <1>3
  <1> QED BY <1>4, <1>1

-----------------------------------------------------------------------------
\* FrameAllocator

Full(w) == bitmap[w] = Bit

Alone == \A t, u \in Tasks : Busy(t) /\ Busy(u) => t = u

\* Reserved frames are marked in the bitmap and in every copy of a word that
\* will be stored; no call is about one of them.
ReservedKept ==
  /\ \A f \in Reserved : f[2] \in bitmap[f[1]]
  /\ \A t \in Tasks :
       /\ held[t] \cap Reserved = {}
       /\ call[t].pc \in {"load", "store", "return", "clear", "lower", "hint"}
            => Target(t) \notin Reserved
       /\ call[t].pc \in {"store", "clear"}
            => \A f \in Reserved : f[1] = call[t].index => f[2] \in call[t].word

\* The bitmap, the frames held and the one call under way agree.
Agree ==
  \A t \in Tasks :
    /\ \A f \in held[t] : f[2] \in bitmap[f[1]]
    /\ \A u \in Tasks \ {t} : held[t] \cap held[u] = {}
    /\ call[t].pc \in {"store", "clear"} => call[t].word = bitmap[call[t].index]
    /\ call[t].pc \in {"load", "store", "lower", "hint"}
         => call[t].bit \notin bitmap[call[t].index]
    /\ call[t].pc \in {"return", "clear"}
         => /\ call[t].bit \in bitmap[call[t].index]
            /\ \A u \in Tasks : Target(t) \notin held[u]

\* Every frame that is marked is accounted for.
Accounted ==
  \A f \in Frame : f[2] \in bitmap[f[1]] =>
    \/ f \in Reserved
    \/ \E t \in Tasks : f \in held[t]
    \/ \E t \in Tasks : call[t].pc \in {"return", "clear"} /\ f = Target(t)

\* Words below the hint are full, but for one whose frame is being freed.
FullBelowHint ==
  \A w \in Word : w < last_bit_index =>
    Full(w) \/ \E t \in Tasks : call[t].pc \in {"lower", "hint"} /\ call[t].index = w

\* Words that the search under way has passed are full.
FullBehind ==
  \A t \in Tasks :
    /\ call[t].pc \in {"look", "read"} =>
         \A w \in Word : w < last_bit_index + call[t].i => Full(w)
    /\ call[t].pc = "read" => call[t].index = SearchIndex(call[t].i)
    /\ call[t].pc \in {"load", "store", "return"} =>
         \A w \in Word : w < call[t].index => Full(w)
    /\ call[t].pc = "hint" => call[t].index <= last_bit_index

Sequential ==
  ~overlapped => Alone /\ Agree /\ Accounted /\ FullBelowHint /\ FullBehind

FramesInv == TypeOK /\ ReservedKept /\ Sequential

\* The search finds a bit in every word that has a 0: bsf of a word that is not
\* full has a result.
LEMMA LowestFreeExists ==
  ASSUME NEW word, word \subseteq Bit, LowestFree(word) = {}
  PROVE  word = Bit
<1> SUFFICES ASSUME Bit \ word # {} PROVE FALSE
  OBVIOUS
<1>1. Bit \ word \subseteq Nat
  BY DEF Bit
<1>2. PICK b \in Bit \ word : \A c \in Bit \ word : b <= c
  BY <1>1, NatLeast
<1> QED BY <1>2 DEF LowestFree

\* (last_bit_index + i) % bitmap_size wraps once at most.
LEMMA Wraps ==
  ASSUME NEW n \in Nat \ {0}, NEW h \in 0 .. n - 1, NEW i \in 0 .. n - 1
  PROVE  (h + i) % n = IF h + i < n THEN h + i ELSE h + i - n
<1>1. CASE h + i < n
  BY <1>1
<1>2. CASE h + i >= n
  BY <1>2
<1> QED BY <1>1, <1>2

\* The word searched is one of the bitmap, at the hint plus i or, past the end,
\* below the hint.
LEMMA SearchIndexIs ==
  ASSUME TypeOK, NEW i \in Word
  PROVE  /\ SearchIndex(i) \in Word
         /\ \/ SearchIndex(i) = last_bit_index + i
            \/ /\ SearchIndex(i) < last_bit_index
               /\ last_bit_index + i >= Words
<1>1. /\ Words \in Nat \ {0} /\ last_bit_index \in 0 .. Words - 1
      /\ i \in 0 .. Words - 1
  BY FrameAssumption DEF TypeOK, Word
<1>2. SearchIndex(i) = IF last_bit_index + i < Words THEN last_bit_index + i
                       ELSE last_bit_index + i - Words
  BY <1>1, Wraps DEF SearchIndex
<1>3. SearchIndex(i) \in 0 .. Words - 1
  BY <1>1, <1>2
<1>4. last_bit_index + i >= Words => SearchIndex(i) < last_bit_index
  BY <1>1, <1>2
<1> QED BY <1>1, <1>2, <1>3, <1>4 DEF Word

\* A bit that pmm_alloc_block() chooses is 0, and not that of a reserved frame.
LEMMA ChosenIs ==
  ASSUME TypeOK, NEW t \in Tasks, NEW b \in Chosen(t)
  PROVE  b \in Bit \ bitmap[call[t].index]
BY DEF Chosen, LowestFree

\* A word in which pmm_alloc_block() chooses no bit is full: the bits past the
\* last block are 1, so it is not they that were found.
LEMMA PassedIsFull ==
  ASSUME TypeOK, ReservedKept, NEW t \in Tasks, call[t].index \in Word,
         Chosen(t) = {}
  PROVE  Full(call[t].index)
<1> DEFINE w == call[t].index
<1>1. bitmap[w] \subseteq Bit
  BY DEF TypeOK
<1>2. ASSUME NEW b \in LowestFree(bitmap[w]) PROVE FALSE
  <2>1. b \in Bit /\ b \notin bitmap[w]
    BY DEF LowestFree
  <2>2. block_id(<<w, b>>) \in Int
    BY <2>1, FrameAssumption DEF block_id, Word, Bit
  <2>3. block_id(<<w, b>>) >= total_blocks
    BY <1>2, <2>2, FrameAssumption DEF Chosen
  <2>4. <<w, b>> \in Reserved
    BY <2>1, <2>3, FrameAssumption DEF Frame
  <2> QED BY <2>1, <2>4 DEF ReservedKept
<1> QED BY <1>1, <1>2, LowestFreeExists DEF Full

\* Every step keeps the types.
LEMMA TypeStep ==
  ASSUME TypeOK, [Next]_vars
  PROVE  TypeOK'
<1> USE FrameAssumption DEF Word, Bit, Frame
<1>1. CASE UNCHANGED vars
  BY <1>1 DEF vars, TypeOK
<1>2. ASSUME NEW t \in Tasks, Step(t) PROVE TypeOK'
  <2>0. /\ Idle \in Call /\ 0 \in Word /\ 0 \in Bit
        /\ call[t] \in Call /\ call \in [Tasks -> Call]
    BY DEF Idle, Call, TypeOK
  <2>1. CASE Alloc(t)
    <3>1. SearchIndex(0) \in Word
      BY <2>0, SearchIndexIs
    <3>2. [Idle EXCEPT !.pc = "read", !.index = SearchIndex(0)] \in Call
      BY <2>0, <3>1 DEF Call
    <3> QED BY <2>0, <2>1, <3>2 DEF Alloc, Begin, TypeOK
  <2>2. CASE Look(t)
    <3>1. SearchIndex(call[t].i) \in Word
      BY <2>0, SearchIndexIs DEF Call
    <3>2. [call[t] EXCEPT !.pc = "read", !.index = SearchIndex(call[t].i)]
            \in Call
      BY <2>0, <3>1 DEF Call
    <3> QED BY <2>0, <2>2, <3>2 DEF Look, TypeOK
  <2>3. CASE Read(t)
    <3>1. ASSUME NEW b \in Chosen(t)
          PROVE  [call[t] EXCEPT !.pc = "load", !.bit = b] \in Call
      BY <2>0, ChosenIs DEF Call
    <3>2. ~Exhausted(call[t].i) =>
            [call[t] EXCEPT !.pc = "look", !.i = call[t].i + 1] \in Call
      <4>1. call[t].i \in Word
        BY <2>0 DEF Call
      <4>2. ~Exhausted(call[t].i) => call[t].i + 1 \in Word
        BY <4>1 DEF Exhausted
      <4> QED BY <2>0, <4>2 DEF Call
    <3>3. call' \in [Tasks -> Call]
      <4>1. CASE \E b \in Chosen(t) :
                   call' = [call EXCEPT ![t].pc = "load", ![t].bit = b]
        BY <2>0, <3>1, <4>1
      <4>2. CASE /\ ~Exhausted(call[t].i)
                 /\ call' = [call EXCEPT ![t].pc = "look", ![t].i = @ + 1]
        BY <2>0, <3>2, <4>2
      <4> QED BY <2>3, <4>1, <4>2 DEF Read
    <3> QED BY <2>3, <3>3 DEF Read, TypeOK
  <2>4. CASE ReturnNull(t)
    BY <2>0, <2>4 DEF ReturnNull, TypeOK
  <2>5. CASE Load(t)
    <3>1. [call[t] EXCEPT !.pc = "store", !.word = bitmap[call[t].index]]
            \in Call
      BY <2>0 DEF Call, TypeOK
    <3> QED BY <2>0, <2>5, <3>1 DEF Load, TypeOK
  <2>6. CASE Store(t)
    <3>1. [call[t] EXCEPT !.pc = "return", !.word = {}] \in Call
      BY <2>0 DEF Call
    <3>2. bitmap' \in [Word -> SUBSET Bit]
      BY <2>0, <2>6 DEF Store, WithBit, TypeOK, Call
    <3> QED BY <2>0, <2>6, <3>1, <3>2 DEF Store, TypeOK
  <2>7. CASE Return(t)
    BY <2>0, <2>7 DEF Return, Target, TypeOK, Call
  <2>8. CASE Free(t)
    <3>1. ASSUME NEW f \in held[t]
          PROVE  [Idle EXCEPT !.pc = "clear", !.index = f[1], !.bit = f[2],
                              !.word = bitmap[f[1]]] \in Call
      <4>1. f[1] \in Word /\ f[2] \in Bit
        BY DEF TypeOK
      <4>2. bitmap[f[1]] \in SUBSET Bit
        BY <4>1 DEF TypeOK
      <4> QED BY <2>0, <4>1, <4>2 DEF Call
    <3>2. call' \in [Tasks -> Call] /\ held' \in [Tasks -> SUBSET Frame]
      BY <2>0, <2>8, <3>1 DEF Free, TypeOK
    <3>3. overlapped' \in BOOLEAN
      BY <2>8 DEF Free, Begin
    <3> QED BY <2>8, <3>2, <3>3 DEF Free, TypeOK
  <2>9. CASE Clear(t)
    <3>1. [call[t] EXCEPT !.pc = "lower", !.word = {}] \in Call
      BY <2>0 DEF Call
    <3>2. bitmap' \in [Word -> SUBSET Bit]
      BY <2>0, <2>9 DEF Clear, WithoutBit, TypeOK, Call
    <3> QED BY <2>0, <2>9, <3>1, <3>2 DEF Clear, TypeOK
  <2>10. CASE Lower(t)
    <3>1. [call[t] EXCEPT !.pc = "hint"] \in Call
      BY <2>0 DEF Call
    <3> QED BY <2>0, <2>10, <3>1 DEF Lower, TypeOK
  <2>11. CASE SetHint(t)
    BY <2>0, <2>11 DEF SetHint, TypeOK, Call
  <2> QED BY <1>2, <2>1, <2>2, <2>3, <2>4, <2>5, <2>6, <2>7, <2>8, <2>9, <2>10, <2>11
          DEF Step
<1> QED BY <1>1, <1>2 DEF Next

\* Every step keeps the reserved frames marked, whatever calls overlap.
LEMMA ReservedStep ==
  ASSUME TypeOK, ReservedKept, [Next]_vars
  PROVE  ReservedKept'
<1> USE FrameAssumption DEF TypeOK, ReservedKept, Call, Target, Frame
<1>1. CASE UNCHANGED vars
  BY <1>1 DEF vars
<1>2. ASSUME NEW t \in Tasks, Step(t) PROVE ReservedKept'
  <2>1. CASE Alloc(t)
    BY <2>1 DEF Alloc, Idle
  <2>2. CASE Look(t)
    BY <2>2 DEF Look
  <2>3. CASE Read(t)
    <3>1. ASSUME NEW b \in Chosen(t) PROVE <<call[t].index, b>> \notin Reserved
      BY ChosenIs
    <3> QED BY <2>3, <3>1 DEF Read
  <2>4. CASE ReturnNull(t)
    BY <2>4 DEF ReturnNull, Idle
  <2>5. CASE Load(t)
    BY <2>5 DEF Load
  <2>6. CASE Store(t)
    BY <2>6 DEF Store, WithBit
  <2>7. CASE Return(t)
    BY <2>7 DEF Return, Idle
  <2>8. CASE Free(t)
    BY <2>8 DEF Free, Idle
  <2>9. CASE Clear(t)
    BY <2>9 DEF Clear, WithoutBit
  <2>10. CASE Lower(t)
    <3>1. UNCHANGED <<bitmap, held>>
      BY <2>10 DEF Lower
    <3>2. \A u \in Tasks \ {t} : call'[u] = call[u]
      BY <2>10 DEF Lower
    <3>3. \/ call'[t].pc = "hint" /\ call'[t].index = call[t].index
                               /\ call'[t].bit = call[t].bit
          \/ call'[t] = Idle
      BY <1>2, <2>10 DEF Lower
    <3>4. call[t].pc = "lower"
      BY <2>10 DEF Lower
    <3>5. CASE call'[t] = Idle
      <4>1. call'[t].pc = "idle"
        BY <3>5 DEF Idle
      <4> QED BY <1>2, <3>1, <3>2, <4>1
    <3>6. CASE call'[t].pc = "hint" /\ Target(t)' = Target(t)
      BY <1>2, <3>1, <3>2, <3>4, <3>6
    <3> QED BY <3>3, <3>5, <3>6
  <2>11. CASE SetHint(t)
    BY <2>11 DEF SetHint, Idle
  <2> QED BY <1>2, <2>1, <2>2, <2>3, <2>4, <2>5, <2>6, <2>7, <2>8, <2>9, <2>10, <2>11
          DEF Step
<1> QED BY <1>1, <1>2 DEF Next

-----------------------------------------------------------------------------
\* While no two calls have overlapped, a task that steps is the only busy one,
\* and the others keep their calls.
LEMMA OnlyOne ==
  ASSUME TypeOK, Sequential, NEW t \in Tasks, Step(t), ~overlapped'
  PROVE  /\ ~overlapped /\ Alone /\ Agree /\ Accounted
         /\ FullBelowHint /\ FullBehind
         /\ \A u \in Tasks \ {t} : /\ call[u].pc = "idle"
                                   /\ call'[u] = call[u]
<1>1. ~overlapped
  BY DEF Step, Alloc, Look, Read, ReturnNull, Load, Store, Return, Free, Clear,
         Lower, SetHint, Begin
<1>2. \A u \in Tasks \ {t} : ~Busy(u)
  <2>1. CASE Alloc(t) \/ Free(t)
    BY <2>1 DEF Alloc, Free, Begin
  <2>2. CASE Busy(t)
    BY <1>1, <2>2 DEF Sequential, Alone
  <2> QED BY <2>1, <2>2 DEF Step, Look, Read, ReturnNull, Load, Store, Return,
                            Clear, Lower, SetHint, Busy
<1>3. \A u \in Tasks \ {t} : call'[u] = call[u]
  BY DEF TypeOK, Step, Alloc, Look, Read, ReturnNull, Load, Store, Return, Free,
         Clear, Lower, SetHint
<1> QED BY <1>1, <1>2, <1>3 DEF Sequential, Busy

\* Every step keeps the bitmap, the owners and the call in agreement.
LEMMA AgreeStep ==
  ASSUME TypeOK, Sequential, NEW t \in Tasks, Step(t), ~overlapped'
  PROVE  Agree'
<1> USE DEF TypeOK, Call, Agree, Target, Frame
<1>0. /\ \A u \in Tasks \ {t} : call[u].pc = "idle" /\ call'[u] = call[u]
      /\ Agree
  BY OnlyOne
<1>1. CASE Alloc(t)
  BY <1>1, <1>0 DEF Alloc, Idle
<1>2. CASE Look(t)
  BY <1>2, <1>0 DEF Look
<1>3. CASE Read(t)
  <2>1. ASSUME NEW b \in Chosen(t),
               call' = [call EXCEPT ![t].pc = "load", ![t].bit = b]
        PROVE  Agree'
    <3>1. b \notin bitmap[call[t].index]
      BY ChosenIs
    <3>2. /\ call'[t].pc = "load" /\ call'[t].bit = b
          /\ call'[t].index = call[t].index
      BY <2>1
    <3> QED BY <1>0, <1>3, <3>1, <3>2 DEF Read
  <2>2. ASSUME call' = [call EXCEPT ![t].pc = "look", ![t].i = @ + 1]
        PROVE  Agree'
    <3>1. call'[t].pc = "look"
      BY <2>2
    <3> QED BY <1>0, <1>3, <3>1 DEF Read
  <2> QED BY <1>3, <2>1, <2>2 DEF Read
<1>4. CASE ReturnNull(t)
  BY <1>4, <1>0 DEF ReturnNull, Idle
<1>5. CASE Load(t)
  BY <1>5, <1>0 DEF Load
<1>6. CASE Store(t)
  <2>1. /\ call'[t].pc = "return" /\ Target(t)' = Target(t)
        /\ call'[t].bit = call[t].bit /\ call'[t].index = call[t].index
    BY <1>6 DEF Store
  <2>2. /\ bitmap'[call[t].index] = bitmap[call[t].index] \cup {call[t].bit}
        /\ \A w \in Word \ {call[t].index} : bitmap'[w] = bitmap[w]
    BY <1>0, <1>6 DEF Store, WithBit
  <2>3. \A u \in Tasks : Target(t) \notin held[u]
    BY <1>0, <1>6 DEF Store
  <2>4. \A u \in Tasks : \A f \in held[u] : f[2] \in bitmap'[f[1]]
    <3> SUFFICES ASSUME NEW u \in Tasks, NEW f \in held[u]
                 PROVE  f[2] \in bitmap'[f[1]]
      OBVIOUS
    <3>1. f \in Word \X Bit /\ f[2] \in bitmap[f[1]]
      BY <1>0
    <3>2. CASE f[1] = call[t].index
      BY <2>2, <3>1, <3>2
    <3>3. CASE f[1] # call[t].index
      BY <2>2, <3>1, <3>3
    <3> QED BY <3>2, <3>3
  <2>5. held' = held
    BY <1>6 DEF Store
  <2>6. call[t].bit \in bitmap'[call[t].index]
    BY <2>2
  <2> QED BY <1>0, <2>1, <2>3, <2>4, <2>5, <2>6
<1>7. CASE Return(t)
  BY <1>7, <1>0 DEF Return, Idle
<1>8. CASE Free(t)
  BY <1>8, <1>0 DEF Free, Idle
<1>9. CASE Clear(t)
  <2>1. /\ call'[t].pc = "lower" /\ Target(t)' = Target(t)
        /\ call'[t].bit = call[t].bit /\ call'[t].index = call[t].index
    BY <1>9 DEF Clear
  <2>2. /\ bitmap'[call[t].index] = bitmap[call[t].index] \ {call[t].bit}
        /\ \A w \in Word \ {call[t].index} : bitmap'[w] = bitmap[w]
    BY <1>0, <1>9 DEF Clear, WithoutBit
  <2>3. \A u \in Tasks : \A f \in held[u] : f[2] \in bitmap'[f[1]]
    <3> SUFFICES ASSUME NEW u \in Tasks, NEW f \in held[u]
                 PROVE  f[2] \in bitmap'[f[1]]
      OBVIOUS
    <3>1. f \in Word \X Bit /\ f[2] \in bitmap[f[1]]
      BY <1>0
    <3>0. f # Target(t)
      BY <1>0, <1>9 DEF Clear
    <3>2. f = <<f[1], f[2]>>
      BY <3>1
    <3> QED BY <2>2, <3>0, <3>1, <3>2
  <2> QED BY <1>0, <1>9, <2>1, <2>2, <2>3 DEF Clear
<1>10. CASE Lower(t)
  BY <1>10, <1>0 DEF Lower, Idle
<1>11. CASE SetHint(t)
  BY <1>11, <1>0 DEF SetHint, Idle
<1> QED BY <1>1, <1>2, <1>3, <1>4, <1>5, <1>6, <1>7, <1>8, <1>9, <1>10, <1>11 DEF Step

\* Every step accounts for the frames that are marked.
LEMMA AccountedStep ==
  ASSUME TypeOK, Sequential, NEW t \in Tasks, Step(t), ~overlapped'
  PROVE  Accounted'
<1> USE DEF TypeOK, Call, Agree, Accounted, Target, Frame
<1>0. /\ \A u \in Tasks \ {t} : call[u].pc = "idle" /\ call'[u] = call[u]
      /\ Agree /\ Accounted
  BY OnlyOne
<1>1. CASE Alloc(t)
  <2>1. call[t].pc = "idle" /\ held' = held /\ bitmap' = bitmap
    BY <1>1 DEF Alloc, Busy
  <2> QED BY <1>0, <2>1
<1>2. CASE Look(t)
  BY <1>2, <1>0 DEF Look
<1>3. CASE Read(t)
  <2>1. call[t].pc = "read" /\ held' = held /\ bitmap' = bitmap
    BY <1>3 DEF Read
  <2> QED BY <1>0, <2>1
<1>4. CASE ReturnNull(t)
  BY <1>4, <1>0 DEF ReturnNull, Idle
<1>5. CASE Load(t)
  BY <1>5, <1>0 DEF Load
<1>6. CASE Store(t)
  BY <1>6, <1>0 DEF Store, WithBit
<1>7. CASE Return(t)
  <2>1. /\ call[t].pc = "return" /\ bitmap' = bitmap
        /\ held' = [held EXCEPT ![t] = @ \cup {Target(t)}]
    BY <1>7 DEF Return
  <2>2. Target(t) \in held'[t] /\ \A u \in Tasks : held[u] \subseteq held'[u]
    BY <2>1
  <2> QED BY <1>0, <2>1, <2>2
<1>8. CASE Free(t)
  <2>1. /\ call[t].pc = "idle" /\ bitmap' = bitmap
    BY <1>8 DEF Free, Busy
  <2>2. PICK f \in held[t] :
          /\ held' = [held EXCEPT ![t] = @ \ {f}]
          /\ call' = [call EXCEPT ![t] =
                        [Idle EXCEPT !.pc = "clear", !.index = f[1],
                                     !.bit = f[2], !.word = bitmap[f[1]]]]
    BY <1>8 DEF Free
  <2>3. f = Target(t)' /\ call'[t].pc = "clear"
    BY <2>2 DEF Idle
  <2>4. \A g \in Frame : \A u \in Tasks : g \in held[u] /\ g # f => g \in held'[u]
    BY <2>2
  <2> QED BY <1>0, <2>1, <2>3, <2>4
<1>9. CASE Clear(t)
  BY <1>9, <1>0 DEF Clear, WithoutBit
<1>10. CASE Lower(t)
  BY <1>10, <1>0 DEF Lower, Idle
<1>11. CASE SetHint(t)
  BY <1>11, <1>0 DEF SetHint, Idle
<1> QED BY <1>1, <1>2, <1>3, <1>4, <1>5, <1>6, <1>7, <1>8, <1>9, <1>10, <1>11 DEF Step

\* Every step keeps the words below the hint, and those the search has passed,
\* full.
LEMMA FullStep ==
  ASSUME TypeOK, ReservedKept, Sequential, NEW t \in Tasks, Step(t),
         ~overlapped'
  PROVE  (FullBelowHint /\ FullBehind)'
<1> USE DEF TypeOK, Call, FullBelowHint, FullBehind, Full
<1>w. Words \in Nat /\ \A n \in Word : n \in Nat /\ n < Words
  BY FrameAssumption DEF Word
<1>0. /\ \A u \in Tasks \ {t} : call[u].pc = "idle" /\ call'[u] = call[u]
      /\ Agree /\ FullBelowHint /\ FullBehind
  BY OnlyOne
<1>1. CASE Alloc(t)
  <2>1. /\ call[t].pc = "idle" /\ call'[t].pc = "read" /\ call'[t].i = 0
        /\ call'[t].index = SearchIndex(0)
        /\ last_bit_index' = last_bit_index /\ bitmap' = bitmap
    BY <1>1 DEF Alloc, Busy, Idle
  <2>2. \A w \in Word : w < last_bit_index => Full(w)
    BY <1>0, <2>1
  <2> QED BY <1>0, <1>w, <2>1, <2>2 DEF SearchIndex
<1>2. CASE Look(t)
  <2>1. /\ call[t].pc = "look" /\ call'[t].pc = "read"
        /\ call'[t].i = call[t].i /\ call'[t].index = SearchIndex(call[t].i)
        /\ last_bit_index' = last_bit_index /\ bitmap' = bitmap
    BY <1>2 DEF Look
  <2>2. \A w \in Word : w < last_bit_index => Full(w)
    BY <1>0, <2>1
  <2> QED BY <1>0, <2>1, <2>2 DEF SearchIndex
<1>3. CASE Read(t)
  <2>0. /\ call[t].pc = "read" /\ last_bit_index' = last_bit_index
        /\ bitmap' = bitmap
    BY <1>3 DEF Read
  <2>1. /\ \A w \in Word : w < last_bit_index + call[t].i => Full(w)
        /\ call[t].index = SearchIndex(call[t].i)
        /\ \A w \in Word : w < last_bit_index => Full(w)
    BY <1>0, <2>0
  <2>2. /\ call[t].index \in Word
        /\ \/ call[t].index = last_bit_index + call[t].i
           \/ /\ call[t].index < last_bit_index
              /\ last_bit_index + call[t].i >= Words
    BY <2>1, SearchIndexIs
  <2>3. ASSUME NEW b \in Chosen(t),
               call' = [call EXCEPT ![t].pc = "load", ![t].bit = b]
        PROVE  (FullBelowHint /\ FullBehind)'
    <3>1. ~Full(call[t].index)
      BY ChosenIs
    <3>2. call[t].index = last_bit_index + call[t].i
      BY <2>1, <2>2, <3>1
    <3>3. call'[t].pc = "load" /\ call'[t].index = call[t].index
      BY <2>3
    <3> QED BY <1>0, <2>0, <2>1, <3>2, <3>3
  <2>4. ASSUME Chosen(t) = {},
               call' = [call EXCEPT ![t].pc = "look", ![t].i = @ + 1]
        PROVE  (FullBelowHint /\ FullBehind)'
    <3>1. Full(call[t].index)
      BY <2>2, <2>4, PassedIsFull
    <3>2. call'[t].pc = "look" /\ call'[t].i = call[t].i + 1
      BY <2>4
    <3>3. \A w \in Word : w < last_bit_index + call[t].i + 1 => Full(w)
      <4> SUFFICES ASSUME NEW w \in Word, w < last_bit_index + call[t].i + 1
                   PROVE  Full(w)
        OBVIOUS
      <4>1. w \in Int /\ last_bit_index \in Int /\ call[t].i \in Int
        BY <1>w DEF Word
      <4>2. CASE w < last_bit_index + call[t].i
        BY <2>1, <4>2
      <4>3. CASE w = last_bit_index + call[t].i
        <5>1. w = call[t].index
          BY <1>w, <2>2, <4>1, <4>3
        <5> QED BY <3>1, <5>1
      <4>4. w < last_bit_index + call[t].i \/ w = last_bit_index + call[t].i
        BY <4>1
      <4> QED BY ONLY <4>2, <4>3, <4>4
    <3>4. last_bit_index' + call'[t].i = last_bit_index + call[t].i + 1
      BY <1>w, <2>0, <3>2 DEF Word
    <3>5. \A w \in Word : w < last_bit_index' + call'[t].i => bitmap'[w] = Bit
      BY <2>0, <3>3, <3>4
    <3> QED BY <1>0, <2>0, <2>1, <3>2, <3>5
  <2> QED BY <1>3, <2>3, <2>4 DEF Read
<1>4. CASE ReturnNull(t)
  BY <1>4, <1>0 DEF ReturnNull, Idle
<1>5. CASE Load(t)
  BY <1>5, <1>0 DEF Load
<1>6. CASE Store(t)
  <2>1. /\ call[t].pc = "store" /\ call'[t].pc = "return"
        /\ call'[t].index = call[t].index /\ last_bit_index' = last_bit_index
    BY <1>6 DEF Store
  <2>2. \A w \in Word \ {call[t].index} : bitmap'[w] = bitmap[w]
    BY <1>6 DEF Store
  <2>3. ~Full(call[t].index)
    BY <1>0, <2>1 DEF Agree
  <2>4. \A w \in Word : Full(w) => bitmap'[w] = Bit
    BY <2>2, <2>3
  <2> QED BY <1>0, <2>1, <2>4
<1>7. CASE Return(t)
  BY <1>7, <1>0 DEF Return, Idle
<1>8. CASE Free(t)
  <2>1. /\ call[t].pc = "idle" /\ call'[t].pc = "clear"
        /\ last_bit_index' = last_bit_index /\ bitmap' = bitmap
    BY <1>8 DEF Free, Busy, Idle
  <2> QED BY <1>0, <2>1
<1>9. CASE Clear(t)
  <2>1. /\ call[t].pc = "clear" /\ call'[t].pc = "lower"
        /\ call'[t].index = call[t].index /\ last_bit_index' = last_bit_index
    BY <1>9 DEF Clear
  <2>2. \A w \in Word \ {call[t].index} : bitmap'[w] = bitmap[w]
    BY <1>9 DEF Clear
  <2>3. \A w \in Word : w < last_bit_index => Full(w)
    BY <1>0, <2>1
  <2>4. \A w \in Word : w < last_bit_index' =>
          bitmap'[w] = Bit \/ w = call'[t].index
    BY <2>1, <2>2, <2>3
  <2>5. \A u \in Tasks : call'[u].pc \in {"idle", "lower"}
    BY <1>0, <2>1
  <2> QED BY <2>1, <2>4, <2>5
<1>10. CASE Lower(t)
  <2>1. call[t].pc = "lower" /\ bitmap' = bitmap /\ last_bit_index' = last_bit_index
    BY <1>10 DEF Lower
  <2>2. \A w \in Word : w < last_bit_index => Full(w) \/ w = call[t].index
    BY <1>0, <2>1
  <2>3. CASE call[t].index < last_bit_index
    <3>1. call'[t].pc = "hint" /\ call'[t].index = call[t].index
      BY <1>10, <2>3 DEF Lower, BelowHint
    <3>2. call'[t].index <= last_bit_index'
      BY <1>w, <2>1, <2>3, <3>1
    <3> QED BY <1>0, <2>1, <2>2, <3>1, <3>2
  <2>4. CASE ~(call[t].index < last_bit_index)
    <3>1. call'[t].pc = "idle"
      BY <1>10, <2>4 DEF Lower, BelowHint, Idle
    <3>2. \A w \in Word : w < last_bit_index => Full(w)
      BY <1>w, <2>2, <2>4
    <3> QED BY <1>0, <2>1, <3>1, <3>2
  <2> QED BY <2>3, <2>4
<1>11. CASE SetHint(t)
  <2>1. /\ call[t].pc = "hint" /\ call'[t].pc = "idle" /\ bitmap' = bitmap
        /\ last_bit_index' = call[t].index /\ call[t].index <= last_bit_index
    BY <1>11, <1>0 DEF SetHint, Idle
  <2>2. \A w \in Word : w < last_bit_index => Full(w) \/ w = call[t].index
    BY <1>0, <2>1
  <2>3. \A w \in Word : w < call[t].index => Full(w)
    BY <1>w, <2>1, <2>2
  <2> QED BY <1>0, <2>1, <2>3
<1> QED BY <1>1, <1>2, <1>3, <1>4, <1>5, <1>6, <1>7, <1>8, <1>9, <1>10, <1>11 DEF Step

\* Every step keeps what holds until two calls overlap.
LEMMA SequentialStep ==
  ASSUME FramesInv, [Next]_vars
  PROVE  Sequential'
<1> USE DEF FramesInv
<1>1. CASE UNCHANGED vars
  BY <1>1 DEF vars, Sequential, Alone, Agree, Accounted, FullBelowHint,
              FullBehind, Full, Busy, Target, SearchIndex
<1>2. ASSUME NEW t \in Tasks, Step(t), ~overlapped'
      PROVE  (Alone /\ Agree /\ Accounted /\ FullBelowHint /\ FullBehind)'
  <2>1. Alone'
    BY <1>2, OnlyOne DEF Alone, Busy
  <2> QED BY <1>2, <2>1, AgreeStep, AccountedStep, FullStep
<1> QED BY <1>1, <1>2 DEF Next, Sequential

\* FramesInv holds at first and is kept by every step.
THEOREM FramesInvariant == Spec => []FramesInv
<1>1. Init => FramesInv
  <2> SUFFICES ASSUME Init PROVE FramesInv
    OBVIOUS
  <2> USE FrameAssumption DEF Init
  <2>0. Idle \in Call /\ 0 \in Word /\ Idle.pc = "idle"
    BY DEF Idle, Call, Word, Bit
  <2>1. TypeOK
    BY <2>0 DEF TypeOK
  <2>2. ReservedKept
    BY <2>0 DEF ReservedKept, Frame
  <2>3. Alone /\ Agree /\ FullBehind
    BY <2>0 DEF Alone, Agree, FullBehind, Busy
  <2>4. Accounted
    BY DEF Accounted, Frame
  <2>5. FullBelowHint
    BY DEF FullBelowHint, Word
  <2> QED BY <2>1, <2>2, <2>3, <2>4, <2>5 DEF FramesInv, Sequential
<1>2. FramesInv /\ [Next]_vars => FramesInv'
  BY TypeStep, ReservedStep, SequentialStep DEF FramesInv
<1> QED BY <1>1, <1>2, PTL DEF Spec

\* Type correctness.
THEOREM TypeCorrect == Spec => []TypeOK
<1>1. FramesInv => TypeOK
  BY DEF FramesInv
<1> QED BY <1>1, FramesInvariant, PTL

\* Whatever calls overlap, pmm_alloc_block() never hands out memory that
\* detect_memory_from_e820() did not free.
THEOREM ReservedSafe == Spec => []ReservedStay
<1>1. FramesInv => ReservedStay
  <2> SUFFICES ASSUME FramesInv PROVE ReservedStay
    OBVIOUS
  <2> QED BY FrameAssumption
          DEF FramesInv, TypeOK, ReservedKept, ReservedStay, Marked, Frame
<1> QED BY <1>1, FramesInvariant, PTL

\* Until two calls overlap, a frame has one owner, and the one that
\* pmm_alloc_block() is about to return has none.
THEOREM FramesNotShared == Spec => []NoSharing
<1>1. FramesInv => NoSharing
  BY DEF FramesInv, Sequential, Agree, NoSharing
<1> QED BY <1>1, FramesInvariant, PTL

\* Until two calls overlap, no frame is lost.
THEOREM FramesNotLost == Spec => []NoLoss
<1>1. FramesInv => NoLoss
  BY DEF FramesInv, Sequential, Accounted, NoLoss, Marked
<1> QED BY <1>1, FramesInvariant, PTL

\* Until two calls overlap, the hint is never above a hole for longer than the
\* call that makes the hole lasts.
THEOREM LowestHoleFirst == Spec => []HolesFirst
<1>1. FramesInv => HolesFirst
  BY DEF FramesInv, Sequential, FullBelowHint, HolesFirst, Full
<1> QED BY <1>1, FramesInvariant, PTL

\* Together: the allocator's invariant.
THEOREM FramesStaySound == Spec => []FramesSound
<1>1. TypeOK /\ ReservedStay /\ NoSharing /\ NoLoss /\ HolesFirst
        => FramesSound
  BY DEF FramesSound
<1> QED
  BY <1>1, TypeCorrect, ReservedSafe, FramesNotShared, FramesNotLost,
     LowestHoleFirst, PTL

\* Until two calls overlap, pmm_alloc_block() returns NULL only when memory is
\* full.
THEOREM NullIsHonest == Spec => NullOnlyWhenFull
<1>1. ASSUME FramesInv, ~overlapped, NEW t \in Tasks, ReturnNull(t)
      PROVE  Marked = Frame
  <2> USE DEF FramesInv
  <2>1. /\ call[t].pc = "read" /\ Chosen(t) = {} /\ call[t].i + 1 = Words
        /\ call[t].i \in Word /\ last_bit_index \in Word
    BY <1>1 DEF ReturnNull, Exhausted, TypeOK, Call
  <2>2. /\ \A w \in Word : w < last_bit_index + call[t].i => Full(w)
        /\ call[t].index = SearchIndex(call[t].i)
    BY <1>1, <2>1 DEF Sequential, FullBehind
  <2>3. /\ call[t].index \in Word
        /\ \/ call[t].index = last_bit_index + call[t].i
           \/ /\ call[t].index < last_bit_index
              /\ last_bit_index + call[t].i >= Words
    BY <1>1, <2>1, <2>2, SearchIndexIs
  <2>4. Full(call[t].index)
    BY <1>1, <2>1, <2>3, PassedIsFull
  <2>5. \A w \in Word : Full(w)
    <3> SUFFICES ASSUME NEW w \in Word PROVE Full(w)
      OBVIOUS
    <3>1. /\ Words \in Int /\ w \in Int /\ w < Words
          /\ last_bit_index \in Int /\ last_bit_index >= 0
          /\ call[t].i \in Int
      BY <2>1, FrameAssumption DEF Word
    <3>2. CASE w < last_bit_index + call[t].i
      BY <2>2, <3>2
    <3>3. CASE w >= last_bit_index + call[t].i
      <4>1. w = call[t].index
        BY <2>1, <2>3, <3>1, <3>3
      <4> QED BY <2>4, <4>1
    <3> QED BY <3>1, <3>2, <3>3
  <2> QED BY <2>5 DEF Marked, Frame, Full
<1>2. FramesInv /\ [Next]_vars
        => [~overlapped => \A t \in Tasks : ReturnNull(t) => Marked = Frame]_vars
  BY <1>1
<1> QED BY <1>2, FramesInvariant, PTL DEF Spec, NullOnlyWhenFull

-----------------------------------------------------------------------------
\* KernelHeap: sums

\* The function by which Folds defines the sum of f over the subsets of U.
Summing(U, f, g) ==
  g = [s \in SUBSET U |-> IF s = {} THEN 0
         ELSE LET x == CHOOSE x \in s : TRUE IN f[x] + g[s \ {x}]]

LEMMA SumDef ==
  ASSUME NEW U, NEW f, \E g : Summing(U, f, g)
  PROVE  \E g : Summing(U, f, g) /\ SumFunctionOnSet(f, U) = g[U]
  BY DEF Summing, SumFunctionOnSet, FoldFunctionOnSet, MapThenFoldSet

\* The same for the subsets of at most n elements.
Upto(U, n) == {s \in SUBSET U : Cardinality(s) <= n}

SummingUpto(U, f, n, g) ==
  /\ g = [s \in Upto(U, n) |-> g[s]]
  /\ \A s \in Upto(U, n) : g[s] = IF s = {} THEN 0
         ELSE LET x == CHOOSE x \in s : TRUE IN f[x] + g[s \ {x}]

LEMMA SmallSubset ==
  ASSUME NEW U, IsFiniteSet(U), NEW s \in SUBSET U, NEW x \in s
  PROVE  /\ Cardinality(s) \in Nat \ {0}
         /\ Cardinality(s \ {x}) = Cardinality(s) - 1
         /\ IsFiniteSet(s)
  BY FS_Subset, FS_CardinalityType, FS_RemoveElement, FS_EmptySet

\* For a finite set that recursion defines a function: one for the subsets of
\* n elements extends to those of n + 1.
LEMMA SumExists ==
  ASSUME NEW U, IsFiniteSet(U), NEW f
  PROVE  \E g : Summing(U, f, g)
  <1> DEFINE P == {n \in Nat : \E g : SummingUpto(U, f, n, g)}
  <1>1. 0 \in P
    <2> DEFINE g == [s \in Upto(U, 0) |-> 0]
    <2>1. \A s \in Upto(U, 0) : s = {}
      BY FS_Subset, FS_EmptySet, FS_CardinalityType DEF Upto
    <2>2. SummingUpto(U, f, 0, g)
      BY <2>1 DEF SummingUpto
    <2> QED BY <2>2
  <1>2. ASSUME NEW n \in Nat, n \in P PROVE n + 1 \in P
    <2>1. PICK h : SummingUpto(U, f, n, h)
      BY <1>2
    <2> DEFINE g == [s \in Upto(U, n + 1) |-> IF s = {} THEN 0
                      ELSE LET x == CHOOSE x \in s : TRUE IN f[x] + h[s \ {x}]]
    <2>2. \A s \in Upto(U, n) : s \in Upto(U, n + 1) /\ g[s] = h[s]
      <3> TAKE s \in Upto(U, n)
      <3>1. s \in Upto(U, n + 1)
        BY FS_Subset, FS_CardinalityType DEF Upto
      <3> QED BY <2>1, <3>1 DEF SummingUpto
    <2>3. \A s \in Upto(U, n + 1) : \A x \in s : s \ {x} \in Upto(U, n)
      <3> TAKE s \in Upto(U, n + 1)
      <3> TAKE x \in s
      <3>1. s \in SUBSET U /\ Cardinality(s) <= n + 1
        BY DEF Upto
      <3>2. Cardinality(s \ {x}) <= n
        BY SmallSubset, <3>1
      <3> QED BY <3>1, <3>2 DEF Upto
    <2>4. SummingUpto(U, f, n + 1, g)
      <3>1. ASSUME NEW s \in Upto(U, n + 1), s # {}
            PROVE  LET x == CHOOSE x \in s : TRUE IN g[s] = f[x] + g[s \ {x}]
        <4> DEFINE x == CHOOSE x \in s : TRUE
        <4>1. x \in s
          BY <3>1
        <4>2. g[s \ {x}] = h[s \ {x}]
          BY <2>2, <2>3, <4>1
        <4> QED BY <3>1, <4>2
      <3> QED BY <3>1 DEF SummingUpto
    <2> QED BY <2>4
  <1>3. Cardinality(U) \in P
    <2> HIDE DEF P
    <2> QED BY <1>1, <1>2, NatSet, FS_CardinalityType
  <1>4. PICK g : SummingUpto(U, f, Cardinality(U), g)
    BY <1>3
  <1>5. Upto(U, Cardinality(U)) = SUBSET U
    BY FS_Subset DEF Upto
  <1>6. Summing(U, f, g)
    BY <1>4, <1>5 DEF Summing, SummingUpto
  <1> QED BY <1>6

\* It defines one function only, whatever larger set it is defined over.
LEMMA SumUnique ==
  ASSUME NEW U, NEW V, IsFiniteSet(U), V \subseteq U, NEW f, NEW e, NEW g, NEW h,
         \A x \in V : f[x] = e[x],
         Summing(U, f, g), Summing(V, e, h)
  PROVE  \A s \in SUBSET V : g[s] = h[s]
  <1> DEFINE P == {n \in Nat : \A s \in SUBSET V : Cardinality(s) <= n => g[s] = h[s]}
  <1>0. g[{}] = h[{}] /\ IsFiniteSet(V)
    BY FS_Subset DEF Summing
  <1>1. 0 \in P
    <2>1. \A s \in SUBSET V : Cardinality(s) <= 0 => s = {}
      BY FS_Subset, FS_EmptySet, FS_CardinalityType
    <2> QED BY <1>0, <2>1
  <1>2. ASSUME NEW n \in Nat, n \in P PROVE n + 1 \in P
    <2> SUFFICES ASSUME NEW s \in SUBSET V, Cardinality(s) <= n + 1, s # {}
                 PROVE  g[s] = h[s]
      BY <1>0
    <2> DEFINE x == CHOOSE x \in s : TRUE
    <2>1. x \in s /\ x \in V
      OBVIOUS
    <2>2. Cardinality(s \ {x}) <= n /\ s \ {x} \in SUBSET V
      <3> HIDE DEF x
      <3> QED BY <1>0, <2>1, SmallSubset
    <2>3. g[s \ {x}] = h[s \ {x}]
      BY <1>2, <2>2
    <2>4. g[s] = f[x] + g[s \ {x}] /\ h[s] = e[x] + h[s \ {x}]
      BY DEF Summing
    <2> QED BY <2>1, <2>3, <2>4
  <1>3. Nat \subseteq P
    <2> HIDE DEF P
    <2> QED BY <1>1, <1>2, NatSet
  <1> QED BY <1>3, FS_Subset, FS_CardinalityType

\* The sums of functions that agree on a finite set are the same.
LEMMA SumSame ==
  ASSUME NEW S, IsFiniteSet(S), NEW f, NEW e, \A x \in S : f[x] = e[x]
  PROVE  SumFunctionOnSet(f, S) = SumFunctionOnSet(e, S)
  <1>1. PICK g : Summing(S, f, g) /\ SumFunctionOnSet(f, S) = g[S]
    BY SumDef, SumExists
  <1>2. PICK h : Summing(S, e, h) /\ SumFunctionOnSet(e, S) = h[S]
    BY SumDef, SumExists
  <1>3. \A s \in SUBSET S : g[s] = h[s]
    BY <1>1, <1>2, SumUnique
  <1> QED BY <1>1, <1>2, <1>3

LEMMA SumStep ==
  ASSUME NEW U, IsFiniteSet(U), NEW f, NEW g, Summing(U, f, g), NEW S \in SUBSET U
  PROVE  SumFunctionOnSet(f, S) = g[S]
  <1>1. IsFiniteSet(S)
    BY FS_Subset
  <1>2. PICK h : Summing(S, f, h) /\ SumFunctionOnSet(f, S) = h[S]
    BY <1>1, SumDef, SumExists
  <1> QED BY <1>2, SumUnique

LEMMA SumEmpty == ASSUME NEW f PROVE SumFunctionOnSet(f, {}) = 0
  <1>1. PICK g : Summing({}, f, g) /\ SumFunctionOnSet(f, {}) = g[{}]
    BY SumDef, SumExists, FS_EmptySet
  <1> QED BY <1>1 DEF Summing

\* The element that is taken out first makes no difference to the sum.
LEMMA SumRemove ==
  ASSUME NEW U, IsFiniteSet(U), NEW f \in [U -> Int], NEW y \in U
  PROVE  /\ SumFunctionOnSet(f, U) = f[y] + SumFunctionOnSet(f, U \ {y})
         /\ SumFunctionOnSet(f, U) \in Int
         /\ SumFunctionOnSet(f, U \ {y}) \in Int
  <1>1. PICK g : Summing(U, f, g)
    BY SumExists
  <1> DEFINE Good(s) == g[s] \in Int /\ \A x \in s : g[s] = f[x] + g[s \ {x}]
             P == {n \in Nat : \A s \in SUBSET U : Cardinality(s) <= n => Good(s)}
  <1>0. Good({})
    BY <1>1 DEF Summing
  <1>2. 0 \in P
    <2>1. \A s \in SUBSET U : Cardinality(s) <= 0 => s = {}
      BY FS_Subset, FS_EmptySet, FS_CardinalityType
    <2> HIDE DEF Good
    <2> QED BY <1>0, <2>1
  <1>3. ASSUME NEW n \in Nat, n \in P PROVE n + 1 \in P
    <2> SUFFICES ASSUME NEW s \in SUBSET U, Cardinality(s) <= n + 1, s # {}
                 PROVE  Good(s)
      <3> HIDE DEF Good
      <3> QED BY <1>0
    <2> SUFFICES ASSUME NEW x \in s
                 PROVE  g[s] \in Int /\ g[s] = f[x] + g[s \ {x}]
      OBVIOUS
    <2> DEFINE z == CHOOSE z \in s : TRUE
    <2>1. z \in s
      OBVIOUS
    <2>2. \A w \in s : Cardinality(s \ {w}) <= n /\ s \ {w} \in SUBSET U
      BY SmallSubset
    <2>3. \A w \in s : g[s \ {w}] \in Int
      BY <1>3, <2>2
    <2>4. g[s] = f[z] + g[s \ {z}]
      BY <1>1 DEF Summing
    <2>5. CASE x = z
      <3>1. f[z] \in Int /\ g[s \ {z}] \in Int
        BY <2>1, <2>3
      <3> HIDE DEF z
      <3> QED BY <2>4, <2>5, <3>1
    <2>6. CASE x # z
      <3>1. x \in s \ {z} /\ z \in s \ {x} /\ (s \ {z}) \ {x} = (s \ {x}) \ {z}
        BY <2>1, <2>6
      <3>2. g[s \ {z}] = f[x] + g[(s \ {z}) \ {x}]
        BY <1>3, <2>1, <2>2, <3>1
      <3>3. g[s \ {x}] = f[z] + g[(s \ {x}) \ {z}]
        BY <1>3, <2>2, <3>1
      <3>4. g[(s \ {x}) \ {z}] \in Int
        <4>1. Cardinality((s \ {x}) \ {z}) <= n /\ (s \ {x}) \ {z} \in SUBSET U
          BY <2>2, <3>1, SmallSubset
        <4> QED BY <1>3, <4>1
      <3>5. f[x] \in Int /\ f[z] \in Int
        BY <2>1
      <3> DEFINE d == g[(s \ {x}) \ {z}]
                 gz == g[s \ {z}]
                 gx == g[s \ {x}]
      <3>6. gz = f[x] + d /\ gx = f[z] + d /\ g[s] = f[z] + gz
        BY <2>4, <3>1, <3>2, <3>3
      <3> HIDE DEF d, gz, gx, z
      <3>7. d \in Int
        BY <3>4 DEF d
      <3>8. g[s] = f[x] + gx /\ g[s] \in Int
        BY <3>5, <3>6, <3>7
      <3> QED BY <3>8 DEF gx
    <2> QED BY <2>5, <2>6
  <1>4. Cardinality(U) \in P
    <2> HIDE DEF P
    <2> QED BY <1>2, <1>3, NatSet, FS_CardinalityType
  <1>5. g[U] = f[y] + g[U \ {y}] /\ g[U] \in Int
    BY <1>4
  <1>6. Cardinality(U \ {y}) <= Cardinality(U)
    BY SmallSubset
  <1>7. g[U \ {y}] \in Int
    BY <1>4, <1>6
  <1>8. SumFunctionOnSet(f, U) = g[U] /\ SumFunctionOnSet(f, U \ {y}) = g[U \ {y}]
    BY <1>1, SumStep
  <1> QED BY <1>5, <1>7, <1>8

\* A new element adds its value; it does not matter how the others are given.
LEMMA SumInsert ==
  ASSUME NEW U, IsFiniteSet(U), NEW x, x \notin U, NEW f \in [U \cup {x} -> Int],
         NEW e, \A w \in U : f[w] = e[w]
  PROVE  /\ SumFunctionOnSet(f, U \cup {x}) = f[x] + SumFunctionOnSet(e, U)
         /\ SumFunctionOnSet(e, U) \in Int
         /\ SumFunctionOnSet(f, U \cup {x}) \in Int
  <1>1. IsFiniteSet(U \cup {x}) /\ (U \cup {x}) \ {x} = U
    BY FS_AddElement
  <1>2. SumFunctionOnSet(f, U) = SumFunctionOnSet(e, U)
    BY SumSame
  <1>3. /\ SumFunctionOnSet(f, U \cup {x})
             = f[x] + SumFunctionOnSet(f, (U \cup {x}) \ {x})
        /\ SumFunctionOnSet(f, U \cup {x}) \in Int
        /\ SumFunctionOnSet(f, (U \cup {x}) \ {x}) \in Int
    <2>1. x \in U \cup {x}
      OBVIOUS
    <2> QED BY <1>1, <2>1, SumRemove
  <1> QED BY <1>1, <1>2, <1>3

\* Where two functions differ at one element, so do their sums.
LEMMA SumUpdate ==
  ASSUME NEW U, IsFiniteSet(U), NEW x \in U, NEW f \in [U -> Int],
         NEW e \in [U -> Int], \A w \in U \ {x} : f[w] = e[w]
  PROVE  /\ SumFunctionOnSet(f, U) = SumFunctionOnSet(e, U) - e[x] + f[x]
         /\ SumFunctionOnSet(e, U) \in Int /\ SumFunctionOnSet(f, U) \in Int
  <1>1. /\ SumFunctionOnSet(f, U) = f[x] + SumFunctionOnSet(f, U \ {x})
        /\ SumFunctionOnSet(f, U) \in Int
    BY SumRemove
  <1>2. /\ SumFunctionOnSet(e, U) = e[x] + SumFunctionOnSet(e, U \ {x})
        /\ SumFunctionOnSet(e, U) \in Int /\ SumFunctionOnSet(e, U \ {x}) \in Int
    BY SumRemove
  <1>3. SumFunctionOnSet(f, U \ {x}) = SumFunctionOnSet(e, U \ {x})
    BY SumSame, FS_RemoveElement
  <1>4. f[x] \in Int /\ e[x] \in Int
    OBVIOUS
  <1> QED BY <1>1, <1>2, <1>3, <1>4

\* A sum is that of two parts.
LEMMA SumParts ==
  ASSUME NEW U, IsFiniteSet(U), NEW f \in [U -> Int], NEW T \in SUBSET U
  PROVE  /\ SumFunctionOnSet(f, U)
              = SumFunctionOnSet(f, T) + SumFunctionOnSet(f, U \ T)
         /\ SumFunctionOnSet(f, T) \in Int /\ SumFunctionOnSet(f, U \ T) \in Int
  <1> DEFINE S(V) == SumFunctionOnSet(f, V)
             Good(V) == S(U) = S(V) + S(U \ V) /\ S(V) \in Int /\ S(U \ V) \in Int
             P == {n \in Nat : \A V \in SUBSET U : Cardinality(V) <= n => Good(V)}
  <1>1. \A V \in SUBSET U : \A x \in U \ V :
           S(V \cup {x}) = f[x] + S(V) /\ S(V) \in Int /\ S(V \cup {x}) \in Int
    <2> TAKE V \in SUBSET U
    <2> TAKE x \in U \ V
    <2> DEFINE e == [w \in V \cup {x} |-> f[w]]
    <2>1. e \in [V \cup {x} -> Int] /\ e[x] = f[x] /\ x \notin V
          /\ \A w \in V : e[w] = f[w]
      OBVIOUS
    <2>2. IsFiniteSet(V) /\ IsFiniteSet(V \cup {x})
      BY FS_Subset, FS_AddElement
    <2>3. S(V \cup {x}) = SumFunctionOnSet(e, V \cup {x})
      BY <2>2, SumSame
    <2> HIDE DEF e
    <2>4. /\ SumFunctionOnSet(e, V \cup {x}) = e[x] + S(V)
          /\ S(V) \in Int /\ SumFunctionOnSet(e, V \cup {x}) \in Int
      BY <2>1, <2>2, SumInsert
    <2> QED BY <2>1, <2>3, <2>4
  <1>2. S(U) \in Int
    <2>1. CASE U = {}
      BY <2>1, SumEmpty
    <2>2. CASE U # {}
      BY <2>2, SumRemove
    <2> QED BY <2>1, <2>2
  <1>3. Good({})
    <2>1. S({}) = 0 /\ U \ {} = U
      BY SumEmpty
    <2> HIDE DEF S
    <2> QED BY <1>2, <2>1
  <1>4. 0 \in P
    <2>1. \A V \in SUBSET U : Cardinality(V) <= 0 => V = {}
      BY FS_Subset, FS_EmptySet, FS_CardinalityType
    <2> HIDE DEF Good
    <2> QED BY <1>3, <2>1
  <1>5. ASSUME NEW n \in Nat, n \in P PROVE n + 1 \in P
    <2> SUFFICES ASSUME NEW V \in SUBSET U, Cardinality(V) <= n + 1, V # {}
                 PROVE  Good(V)
      <3> HIDE DEF Good
      <3> QED BY <1>3
    <2>1. PICK x \in V : TRUE
      OBVIOUS
    <2> DEFINE W == V \ {x}
    <2>2. Cardinality(W) <= n /\ W \in SUBSET U
      BY SmallSubset
    <2>3. Good(W)
      BY <1>5, <2>2
    <2>4. V = W \cup {x} /\ x \in U \ W /\ U \ W = (U \ V) \cup {x} /\ x \in U \ (U \ V)
      OBVIOUS
    <2>5. S(V) = f[x] + S(W) /\ S(V) \in Int /\ S(W) \in Int
      BY <1>1, <2>2, <2>4
    <2>6. S(U \ W) = f[x] + S(U \ V) /\ S(U \ V) \in Int
      <3>1. U \ V \in SUBSET U
        OBVIOUS
      <3> QED BY <1>1, <2>4, <3>1
    <2>7. f[x] \in Int
      OBVIOUS
    <2> HIDE DEF S, W
    <2> QED BY <2>3, <2>5, <2>6, <2>7
  <1>6. Cardinality(U) \in P
    <2> HIDE DEF P
    <2> QED BY <1>4, <1>5, NatSet, FS_CardinalityType
  <1>7. Good(T)
    BY <1>6, FS_Subset
  <1> QED BY <1>7

\* A constant that each value contains is counted once per element.
LEMMA SumShift ==
  ASSUME NEW U, IsFiniteSet(U), NEW f \in [U -> Int], NEW e \in [U -> Int],
         NEW c \in Int, \A w \in U : f[w] = c + e[w]
  PROVE  SumFunctionOnSet(f, U) = c * Cardinality(U) + SumFunctionOnSet(e, U)
  <1> DEFINE F(V) == SumFunctionOnSet(f, V)
             E(V) == SumFunctionOnSet(e, V)
             Good(V) == F(V) = c * Cardinality(V) + E(V)
             P == {n \in Nat : \A V \in SUBSET U : Cardinality(V) <= n => Good(V)}
  <1>1. \A V \in SUBSET U : F(V) \in Int /\ E(V) \in Int
    BY SumParts
  <1>2. ASSUME NEW V \in SUBSET U, NEW x \in V
        PROVE  F(V) = f[x] + F(V \ {x}) /\ E(V) = e[x] + E(V \ {x})
    <2> DEFINE g == [w \in V |-> f[w]]
               d == [w \in V |-> e[w]]
    <2>1. IsFiniteSet(V) /\ IsFiniteSet(V \ {x})
      BY FS_Subset, FS_RemoveElement
    <2>2. g \in [V -> Int] /\ d \in [V -> Int] /\ g[x] = f[x] /\ d[x] = e[x]
      OBVIOUS
    <2>3. F(V) = SumFunctionOnSet(g, V) /\ E(V) = SumFunctionOnSet(d, V)
      BY <2>1, SumSame
    <2>4. /\ F(V \ {x}) = SumFunctionOnSet(g, V \ {x})
          /\ E(V \ {x}) = SumFunctionOnSet(d, V \ {x})
      BY <2>1, SumSame
    <2> HIDE DEF g, d
    <2>5. /\ SumFunctionOnSet(g, V) = g[x] + SumFunctionOnSet(g, V \ {x})
          /\ SumFunctionOnSet(d, V) = d[x] + SumFunctionOnSet(d, V \ {x})
      BY <2>1, <2>2, SumRemove
    <2> QED BY <2>2, <2>3, <2>4, <2>5
  <1>3. Good({})
    BY SumEmpty, FS_EmptySet
  <1>4. 0 \in P
    <2>1. \A V \in SUBSET U : Cardinality(V) <= 0 => V = {}
      BY FS_Subset, FS_EmptySet, FS_CardinalityType
    <2> HIDE DEF Good
    <2> QED BY <1>3, <2>1
  <1>5. ASSUME NEW n \in Nat, n \in P PROVE n + 1 \in P
    <2> SUFFICES ASSUME NEW V \in SUBSET U, Cardinality(V) <= n + 1, V # {}
                 PROVE  Good(V)
      <3> HIDE DEF Good
      <3> QED BY <1>3
    <2>1. PICK x \in V : TRUE
      OBVIOUS
    <2> DEFINE W == V \ {x}
               k == Cardinality(W)
    <2>2. k <= n /\ W \in SUBSET U /\ k \in Int /\ Cardinality(V) = k + 1
      BY SmallSubset
    <2>3. F(W) = c * k + E(W)
      BY <1>5, <2>2
    <2>4. F(V) = f[x] + F(W) /\ E(V) = e[x] + E(W) /\ f[x] = c + e[x]
          /\ f[x] \in Int /\ e[x] \in Int
      BY <1>2
    <2>5. E(W) \in Int
      BY <1>1
    <2>6. c * (k + 1) = c * k + c /\ c * k \in Int
      BY <2>2
    <2> HIDE DEF F, E, W, k
    <2> QED BY <2>2, <2>3, <2>4, <2>5, <2>6
  <1>6. Cardinality(U) \in P
    <2> HIDE DEF P
    <2> QED BY <1>4, <1>5, NatSet, FS_CardinalityType
  <1>7. Good(U)
    BY <1>6, FS_CardinalityType
  <1> QED BY <1>7

-----------------------------------------------------------------------------
\* The list

EndOf(h, a) == a + Hdr + h[a].tamanho

Weight(h) == [a \in DOMAIN h |-> Hdr + h[a].tamanho]

Node == [tamanho : Nat, esta_livre : BOOLEAN,
         proximo : Nat \cup {NULL}, anterior : Nat \cup {NULL}]

\* The list h, whose last block is at last, covers 0 .. top - 1.
Linked(h, last, top) ==
  /\ DOMAIN h \subseteq Nat /\ h \in [DOMAIN h -> Node]
  /\ 0 \in DOMAIN h /\ h[0].anterior = NULL
  /\ last \in DOMAIN h /\ EndOf(h, last) = top /\ h[last].proximo = NULL
  /\ \A a \in DOMAIN h : a <= last
  /\ \A a \in DOMAIN h \ {last} :
       /\ EndOf(h, a) \in DOMAIN h
       /\ h[a].proximo = EndOf(h, a) /\ h[EndOf(h, a)].anterior = a
  /\ \A a \in DOMAIN h \ {0} :
       h[a].anterior \in DOMAIN h /\ EndOf(h, h[a].anterior) = a
  /\ \A a, b \in DOMAIN h : a < b => EndOf(h, a) <= b

\* No address is lost, also as the lengths add up.
Covered(h, top) ==
  /\ \A x \in 0 .. top - 1 : \E a \in DOMAIN h : a <= x /\ x < EndOf(h, a)
  /\ IsFiniteSet(DOMAIN h)
  /\ SumFunctionOnSet(Weight(h), DOMAIN h) = top

Chain(h, last, top) == Linked(h, last, top) /\ Covered(h, top)

\* No two neighbours of the list are free; or none but a and a neighbour of it.
NoFreePair(h) ==
  \A w \in DOMAIN h :
    h[w].esta_livre /\ h[w].proximo # NULL => ~h[h[w].proximo].esta_livre

NoFreePairBut(h, a) ==
  \A w \in DOMAIN h :
    h[w].esta_livre /\ h[w].proximo # NULL /\ h[h[w].proximo].esta_livre
      => w = a \/ h[w].proximo = a

\* The inductive invariant of kmalloc() and kfree().
HeapInv ==
  /\ heap_atual \in Nat /\ heap_atual <= Limit
  /\ heap_mapeado_fim \in Nat /\ heap_mapeado_fim <= Limit + Page
  /\ IF Blocks = {}
     THEN /\ heap_atual = 0 /\ bloco = [a \in {} |-> 0]
          /\ lista_livre_inicio = NULL /\ lista_livre_fim = NULL
     ELSE /\ Chain(bloco, lista_livre_fim, heap_atual)
          /\ NoFreePair(bloco)
          /\ lista_livre_inicio = 0
          /\ heap_atual < heap_mapeado_fim

\* JOIN

\* What joining x with the block y after it leaves of the list h, and changes.
Joins(h, last, x, y, g) ==
  /\ x # last /\ y = EndOf(h, x) /\ y \in DOMAIN h /\ x < y /\ y # 0
  /\ h[y].anterior = x
  /\ DOMAIN g = DOMAIN h \ {y} /\ g \in [DOMAIN g -> Node] /\ x \in DOMAIN g
  /\ g[x].tamanho = h[x].tamanho + Hdr + h[y].tamanho
  /\ g[x].proximo = h[y].proximo /\ EndOf(g, x) = EndOf(h, y)
  /\ \A w \in DOMAIN g \ {x} :
       /\ g[w].tamanho = h[w].tamanho /\ EndOf(g, w) = EndOf(h, w)
       /\ g[w].proximo = h[w].proximo
  /\ \A w \in DOMAIN g :
       /\ g[w].esta_livre = h[w].esta_livre
       /\ g[w].anterior = IF h[w].anterior = y THEN x ELSE h[w].anterior

\* kfree() finds the neighbour by the link; it is the block that begins where
\* x ends, and its header goes.
LEMMA JoinShape ==
  ASSUME NEW h, NEW last, NEW top, Linked(h, last, top),
         NEW x \in DOMAIN h, h[x].proximo # NULL
  PROVE  Joins(h, last, x, h[x].proximo, Join(h, x))
  <1> DEFINE y == h[x].proximo
             z == h[y].proximo
             g == Join(h, x)
  <1>0. Hdr \in Nat \ {0} /\ DOMAIN h \subseteq Nat /\ h \in [DOMAIN h -> Node]
    BY HeapAssumption DEF Linked
  <1>1. x # last /\ y = EndOf(h, x) /\ y \in DOMAIN h /\ h[y].anterior = x
    BY DEF Linked
  <1>2. x \in Nat /\ h[x].tamanho \in Nat /\ y \in Nat /\ x < y
    BY <1>0, <1>1 DEF Node, EndOf
  <1>3. \/ z = NULL
        \/ z \in DOMAIN h /\ z = EndOf(h, y) /\ y < z /\ h[z].anterior = y
    <2>1. CASE y = last
      BY <2>1 DEF Linked
    <2>2. CASE y # last
      <3>1. z = EndOf(h, y) /\ z \in DOMAIN h /\ h[z].anterior = y
        BY <1>1, <2>2 DEF Linked
      <3> QED BY <3>1, <1>0, <1>1, <1>2 DEF Node, EndOf
    <2> QED BY <2>1, <2>2
  <1>4. g = [w \in DOMAIN h \ {y} |->
        IF w = x THEN [h[x] EXCEPT !.tamanho = @ + Hdr + h[y].tamanho,
                                   !.proximo = z]
        ELSE IF w = z THEN [h[z] EXCEPT !.anterior = x]
        ELSE h[w]]
    BY DEF Join
  <1>5. h[x] \in Node /\ h[y] \in Node /\ (z # NULL => h[z] \in Node /\ z # x)
    BY <1>0, <1>1, <1>2, <1>3
  <1> HIDE DEF g
  <1>6. DOMAIN g = DOMAIN h \ {y} /\ x \in DOMAIN g
    BY <1>2, <1>4
  <1>7. g \in [DOMAIN g -> Node]
    <2>1. [h[x] EXCEPT !.tamanho = @ + Hdr + h[y].tamanho, !.proximo = z] \in Node
      <3>1. z \in Nat \cup {NULL}
        BY <1>0, <1>3
      <3>2. h[x].tamanho + Hdr + h[y].tamanho \in Nat
        BY <1>0, <1>5 DEF Node
      <3>3. \A r \in Node, n \in Nat, p \in Nat \cup {NULL} :
               [r EXCEPT !.tamanho = n, !.proximo = p] \in Node
        BY DEF Node
      <3> QED BY <1>5, <3>1, <3>2, <3>3
    <2>2. z # NULL => [h[z] EXCEPT !.anterior = x] \in Node
      BY <1>2, <1>5 DEF Node
    <2>3. NULL \notin DOMAIN h
      BY <1>0 DEF NULL
    <2> QED BY <1>0, <1>4, <2>1, <2>2, <2>3
  <1>8. /\ g[x].tamanho = h[x].tamanho + Hdr + h[y].tamanho
        /\ g[x].proximo = z
        /\ g[x].esta_livre = h[x].esta_livre /\ g[x].anterior = h[x].anterior
    BY <1>2, <1>4, <1>5 DEF Node
  <1>9. ASSUME NEW w \in DOMAIN g \ {x}
        PROVE  /\ g[w].tamanho = h[w].tamanho /\ g[w].proximo = h[w].proximo
               /\ g[w].esta_livre = h[w].esta_livre
               /\ g[w].anterior = IF w = z THEN x ELSE h[w].anterior
    BY <1>0, <1>4, <1>6 DEF Node
  <1>10. EndOf(g, x) = EndOf(h, y)
    BY <1>0, <1>1, <1>2, <1>5, <1>8 DEF EndOf, Node
  <1>11. \A w \in DOMAIN h : h[w].anterior = y <=> w = z
    <2> TAKE w \in DOMAIN h
    <2>1. w = z => h[w].anterior = y
      BY <1>0, <1>3 DEF NULL
    <2>2. ASSUME h[w].anterior = y PROVE w = z
      <3>1. w # 0
        BY <2>2, <1>2 DEF Linked, NULL
      <3>2. EndOf(h, y) = w
        BY <2>2, <3>1 DEF Linked
      <3>3. CASE y # last
        BY <1>1, <3>2, <3>3 DEF Linked
      <3>4. CASE y = last
        <4>1. y < w
          <5>1. h[y].tamanho \in Nat
            BY <1>5 DEF Node
          <5> HIDE DEF y
          <5> QED BY <1>0, <1>2, <3>2, <5>1 DEF EndOf
        <4>2. w <= y
          BY <3>4 DEF Linked
        <4> QED BY <1>0, <1>2, <4>1, <4>2
      <3> QED BY <3>3, <3>4
    <2> QED BY <2>1, <2>2
  <1>12. \A w \in DOMAIN g \ {x} : EndOf(g, w) = EndOf(h, w)
    BY <1>9 DEF EndOf
  <1>13. y # 0 /\ (h[x].anterior = y <=> x = z)
    BY <1>2, <1>11
  <1>14. x # z
    BY <1>5, <1>0 DEF NULL
  <1>15. \A w \in DOMAIN g :
            /\ g[w].esta_livre = h[w].esta_livre
            /\ g[w].anterior = IF h[w].anterior = y THEN x ELSE h[w].anterior
    BY <1>6, <1>8, <1>9, <1>11, <1>14
  <1> HIDE DEF y, z
  <1> QED BY <1>1, <1>2, <1>6, <1>7, <1>8, <1>9, <1>10, <1>12, <1>13, <1>15 DEF y, z, g, Joins

\* Joining keeps the list linked, also when the last block is absorbed.
LEMMA JoinLinked ==
  ASSUME NEW h, NEW last, NEW top, Linked(h, last, top),
         NEW x \in DOMAIN h, h[x].proximo # NULL
  PROVE  Linked(Join(h, x), JoinedEnd(h, x, last), top)
  <1> DEFINE y == h[x].proximo
             g == Join(h, x)
             end == JoinedEnd(h, x, last)
  <1>0. Joins(h, last, x, y, g)
    BY JoinShape
  <1>1. /\ x # last /\ y = EndOf(h, x) /\ y \in DOMAIN h /\ x < y /\ y # 0
        /\ h[y].anterior = x
        /\ DOMAIN g = DOMAIN h \ {y} /\ g \in [DOMAIN g -> Node] /\ x \in DOMAIN g
        /\ g[x].proximo = h[y].proximo /\ EndOf(g, x) = EndOf(h, y)
    BY <1>0 DEF Joins
  <1>2. \A w \in DOMAIN g \ {x} :
           EndOf(g, w) = EndOf(h, w) /\ g[w].proximo = h[w].proximo
    BY <1>0 DEF Joins
  <1>3. \A w \in DOMAIN g :
           g[w].anterior = IF h[w].anterior = y THEN x ELSE h[w].anterior
    BY <1>0 DEF Joins
  <1>4. end = IF y = last THEN x ELSE last
    <2>1. y = last => h[y].proximo = NULL
      BY DEF Linked
    <2>2. y # last => h[y].proximo # NULL
      BY <1>1 DEF Linked, NULL
    <2> QED BY <2>1, <2>2 DEF JoinedEnd
  <1> HIDE DEF g, y, end
  <1>5. DOMAIN g \subseteq Nat /\ 0 \in DOMAIN g /\ g[0].anterior = NULL
    BY <1>1, <1>3 DEF Linked, NULL
  <1>6. end \in DOMAIN g /\ EndOf(g, end) = top /\ g[end].proximo = NULL
    BY <1>1, <1>2, <1>4 DEF Linked
  <1>7. \A a \in DOMAIN g : a <= end
    <2> TAKE a \in DOMAIN g
    <2>1. a \in DOMAIN h /\ a # y /\ a \in Nat /\ a <= last /\ last \in Nat
      BY <1>1 DEF Linked
    <2>2. CASE y = last /\ x < a
      <3>1. EndOf(h, x) <= a
        BY <2>1, <2>2 DEF Linked
      <3> QED BY <1>1, <2>1, <2>2, <3>1
    <2> QED BY <1>1, <1>4, <1>5, <2>1, <2>2
  <1>8. ASSUME NEW a \in DOMAIN g \ {end}
        PROVE  /\ EndOf(g, a) \in DOMAIN g
               /\ g[a].proximo = EndOf(g, a) /\ g[EndOf(g, a)].anterior = a
    <2>1. CASE a = x
      <3>1. y # last
        BY <1>4, <2>1
      <3>2. EndOf(h, y) \in DOMAIN h /\ h[y].proximo = EndOf(h, y)
            /\ h[EndOf(h, y)].anterior = y
        BY <1>1, <3>1 DEF Linked
      <3>3. EndOf(h, y) # y
        BY <1>1, <3>2
      <3> QED BY <1>1, <1>3, <2>1, <3>2, <3>3
    <2>2. CASE a # x
      <3>1. a # last /\ a \in DOMAIN h /\ a # y
        BY <1>1, <1>4, <2>2
      <3>2. EndOf(h, a) \in DOMAIN h /\ h[a].proximo = EndOf(h, a)
            /\ h[EndOf(h, a)].anterior = a
        BY <3>1 DEF Linked
      <3>3. EndOf(h, a) # y
        BY <1>1, <2>2, <3>2
      <3> QED BY <1>1, <1>2, <1>3, <2>2, <3>1, <3>2, <3>3
    <2> QED BY <2>1, <2>2
  <1>9. ASSUME NEW a \in DOMAIN g \ {0}
        PROVE  g[a].anterior \in DOMAIN g /\ EndOf(g, g[a].anterior) = a
    <2>1. a \in DOMAIN h /\ h[a].anterior \in DOMAIN h /\ EndOf(h, h[a].anterior) = a
      BY <1>1 DEF Linked
    <2>2. CASE h[a].anterior = y
      BY <1>1, <1>3, <2>1, <2>2
    <2>3. CASE h[a].anterior # y
      <3>1. h[a].anterior # x
        BY <1>1, <2>1
      <3> QED BY <1>1, <1>2, <1>3, <2>1, <2>3, <3>1
    <2> QED BY <2>2, <2>3
  <1>10. ASSUME NEW a \in DOMAIN g, NEW b \in DOMAIN g, a < b
         PROVE  EndOf(g, a) <= b
    <2>1. a \in DOMAIN h /\ b \in DOMAIN h /\ b # y /\ EndOf(h, a) <= b
      BY <1>1, <1>10 DEF Linked
    <2>2. CASE a = x
      <3>1. y < b
        <4>1. EndOf(h, x) <= b /\ y \in Nat /\ b \in Nat
          BY <1>1, <2>1, <2>2 DEF Linked
        <4> QED BY <1>1, <2>1, <4>1
      <3>2. EndOf(h, y) <= b
        BY <1>1, <2>1, <3>1 DEF Linked
      <3> QED BY <1>1, <2>2, <3>2
    <2> QED BY <1>2, <2>1, <2>2
  <1> QED BY <1>1, <1>5, <1>6, <1>7, <1>8, <1>9, <1>10 DEF Linked, g, end

\* Joining loses no address: the absorbed header becomes part of the block.
LEMMA JoinCovered ==
  ASSUME NEW h, NEW last, NEW top, Linked(h, last, top), Covered(h, top),
         NEW x \in DOMAIN h, h[x].proximo # NULL
  PROVE  Covered(Join(h, x), top)
  <1> DEFINE y == h[x].proximo
             g == Join(h, x)
  <1>0. Joins(h, last, x, y, g)
    BY JoinShape
  <1>1. /\ y = EndOf(h, x) /\ y \in DOMAIN h /\ x < y
        /\ DOMAIN g = DOMAIN h \ {y} /\ g \in [DOMAIN g -> Node] /\ x \in DOMAIN g
        /\ g[x].tamanho = h[x].tamanho + Hdr + h[y].tamanho
        /\ EndOf(g, x) = EndOf(h, y)
    BY <1>0 DEF Joins
  <1>2. \A w \in DOMAIN g \ {x} :
           EndOf(g, w) = EndOf(h, w) /\ g[w].tamanho = h[w].tamanho
    BY <1>0 DEF Joins
  <1>3. DOMAIN h \subseteq Nat /\ h \in [DOMAIN h -> Node] /\ Hdr \in Nat \ {0}
    BY HeapAssumption DEF Linked
  <1> HIDE DEF g, y
  <1>4. h[x].tamanho \in Nat /\ h[y].tamanho \in Nat /\ x \in Nat /\ y \in Nat
    BY <1>1, <1>3 DEF Node
  <1>5. ASSUME NEW p \in 0 .. top - 1
        PROVE  \E a \in DOMAIN g : a <= p /\ p < EndOf(g, a)
    <2>1. PICK a \in DOMAIN h : a <= p /\ p < EndOf(h, a)
      BY DEF Covered
    <2>2. CASE a = y
      <3>1. x <= p /\ p < EndOf(g, x)
        BY <1>1, <1>4, <2>1, <2>2
      <3> QED BY <1>1, <3>1
    <2>3. CASE a = x
      <3>1. p < EndOf(g, x)
        BY <1>1, <1>3, <1>4, <2>1, <2>3 DEF EndOf
      <3> QED BY <1>1, <2>1, <2>3, <3>1
    <2>4. CASE a # x /\ a # y
      BY <1>1, <1>2, <2>1, <2>4
    <2> QED BY <2>2, <2>3, <2>4
  <1>6. IsFiniteSet(DOMAIN h) /\ IsFiniteSet(DOMAIN g)
    BY <1>1, FS_RemoveElement DEF Covered
  <1>7. SumFunctionOnSet(Weight(g), DOMAIN g) = SumFunctionOnSet(Weight(h), DOMAIN h)
    <2> DEFINE R == DOMAIN h \ {x, y}
               wh == Weight(h)
               wg == Weight(g)
    <2>1. wh \in [DOMAIN h -> Int] /\ wg \in [DOMAIN g -> Int]
      BY <1>1, <1>3 DEF Weight, Node
    <2>2. SumFunctionOnSet(wh, DOMAIN h) = wh[y] + SumFunctionOnSet(wh, DOMAIN h \ {y})
      BY <1>1, <1>6, <2>1, SumRemove
    <2>3. SumFunctionOnSet(wh, DOMAIN g)
            = wh[x] + SumFunctionOnSet(wh, DOMAIN g \ {x})
      <3> DEFINE f == [a \in DOMAIN g |-> wh[a]]
      <3>1. f \in [DOMAIN g -> Int]
        BY <1>1, <2>1
      <3>2. SumFunctionOnSet(f, DOMAIN g) = f[x] + SumFunctionOnSet(f, DOMAIN g \ {x})
        BY <1>1, <1>6, <3>1, SumRemove
      <3>3. SumFunctionOnSet(f, DOMAIN g) = SumFunctionOnSet(wh, DOMAIN g)
        BY <1>6, SumSame
      <3>4. SumFunctionOnSet(f, DOMAIN g \ {x}) = SumFunctionOnSet(wh, DOMAIN g \ {x})
        BY <1>6, SumSame, FS_RemoveElement
      <3> QED BY <1>1, <3>2, <3>3, <3>4
    <2>4. SumFunctionOnSet(wg, DOMAIN g)
            = wg[x] + SumFunctionOnSet(wg, DOMAIN g \ {x})
      BY <1>1, <1>6, <2>1, SumRemove
    <2>5. SumFunctionOnSet(wg, DOMAIN g \ {x}) = SumFunctionOnSet(wh, DOMAIN g \ {x})
      <3>1. \A a \in DOMAIN g \ {x} : wg[a] = wh[a]
        BY <1>1, <1>2 DEF Weight
      <3> QED BY <1>6, <3>1, SumSame, FS_RemoveElement
    <2>6. wg[x] = wh[x] + wh[y] /\ wh[x] \in Int /\ wh[y] \in Int
      BY <1>1, <1>3, <1>4 DEF Weight
    <2>7. SumFunctionOnSet(wg, DOMAIN g \ {x}) \in Int
      BY <1>1, <1>6, <2>1, SumRemove
    <2> HIDE DEF wg, wh
    <2> QED BY <1>1, <2>2, <2>3, <2>4, <2>5, <2>6, <2>7 DEF wg, wh
  <1> QED BY <1>5, <1>6, <1>7 DEF Covered, g

-----------------------------------------------------------------------------
\* Cutting a block

\* What cutting the block at a, after t units, leaves of the list, and changes.
Cuts(h, a, t, b, g) ==
  /\ b = a + Hdr + t /\ b \notin DOMAIN h /\ a < b /\ b < EndOf(h, a)
  /\ DOMAIN g = DOMAIN h \cup {b} /\ g \in [DOMAIN g -> Node]
  /\ g[a].tamanho = t /\ ~g[a].esta_livre /\ g[a].proximo = b
  /\ g[a].anterior = h[a].anterior /\ EndOf(g, a) = b
  /\ g[b].tamanho = h[a].tamanho - t - Hdr /\ g[b].esta_livre
  /\ g[b].proximo = h[a].proximo /\ g[b].anterior = a
  /\ EndOf(g, b) = EndOf(h, a)
  /\ \A w \in DOMAIN h \ {a} :
       /\ g[w].tamanho = h[w].tamanho /\ EndOf(g, w) = EndOf(h, w)
       /\ g[w].esta_livre = h[w].esta_livre /\ g[w].proximo = h[w].proximo
       /\ g[w].anterior = IF h[w].anterior = a THEN b ELSE h[w].anterior

\* kmalloc() cuts a block when a header and 16 bytes remain: the new header
\* falls inside the block, where there was none.
LEMMA SplitShape ==
  ASSUME NEW last, NEW top, Linked(bloco, last, top), NEW a \in Blocks,
         NEW t \in Nat, bloco[a].tamanho >= t + Hdr + 1
  PROVE  Cuts(bloco, a, t, a + Hdr + t, Split(a, t))
  <1> DEFINE h == bloco
             b == a + Hdr + t
             z == h[a].proximo
             g == Split(a, t)
  <1>0. Hdr \in Nat \ {0} /\ DOMAIN h \subseteq Nat /\ h \in [DOMAIN h -> Node]
    BY HeapAssumption DEF Linked
  <1>1. a \in DOMAIN h /\ a \in Nat /\ h[a] \in Node /\ h[a].tamanho \in Nat
    BY <1>0 DEF Blocks, Node
  <1>2. a < b /\ b < EndOf(h, a) /\ b \in Nat
        /\ h[a].tamanho - t - Hdr \in Nat
    BY <1>0, <1>1 DEF EndOf
  <1>3. b \notin DOMAIN h
    <2> SUFFICES ASSUME b \in DOMAIN h PROVE FALSE
      OBVIOUS
    <2>1. EndOf(h, a) <= b
      BY <1>1, <1>2 DEF Linked
    <2> QED BY <1>0, <1>1, <1>2, <2>1 DEF EndOf
  <1>4. z = NULL \/ (z \in DOMAIN h /\ z # a /\ h[z].anterior = a)
    <2>1. CASE a = last
      BY <2>1 DEF Linked
    <2>2. CASE a # last
      <3>1. z = EndOf(h, a) /\ z \in DOMAIN h /\ h[z].anterior = a
        BY <1>1, <2>2 DEF Linked
      <3>2. z # a
        BY <1>0, <1>1, <3>1 DEF EndOf
      <3> QED BY <3>1, <3>2
    <2> QED BY <2>1, <2>2
  <1>5. \A w \in DOMAIN h : h[w].anterior = a <=> w = z
    <2> TAKE w \in DOMAIN h
    <2>1. w = z => h[w].anterior = a
      BY <1>0, <1>4 DEF NULL
    <2>2. ASSUME h[w].anterior = a PROVE w = z
      <3>1. w # 0
        BY <2>2, <1>1 DEF Linked, NULL
      <3>2. EndOf(h, a) = w
        BY <2>2, <3>1 DEF Linked
      <3>3. a < w /\ w \in Nat
        BY <1>0, <1>1, <1>2, <3>2 DEF EndOf
      <3>4. a # last
        BY <1>1, <3>3 DEF Linked
      <3> QED BY <1>1, <3>2, <3>4 DEF Linked
    <2> QED BY <2>1, <2>2
  <1>6. g = [w \in DOMAIN h \cup {b} |->
        IF w = a THEN [h[a] EXCEPT !.tamanho = t, !.esta_livre = FALSE,
                                   !.proximo = b]
        ELSE IF w = b THEN [tamanho |-> h[a].tamanho - t - Hdr,
                            esta_livre |-> TRUE, proximo |-> z, anterior |-> a]
        ELSE IF w = z THEN [h[z] EXCEPT !.anterior = b]
        ELSE h[w]]
    BY DEF Split, Blocks
  <1>7. z \in Nat \cup {NULL} /\ NULL \notin DOMAIN h
    BY <1>0, <1>4 DEF NULL
  <1> HIDE DEF h, b, z, g
  <1>8. DOMAIN g = DOMAIN h \cup {b}
    BY <1>6
  <1>9. g[a] = [h[a] EXCEPT !.tamanho = t, !.esta_livre = FALSE, !.proximo = b]
    BY <1>1, <1>6
  <1>10. g[b] = [tamanho |-> h[a].tamanho - t - Hdr,
                 esta_livre |-> TRUE, proximo |-> z, anterior |-> a]
    BY <1>2, <1>6
  <1>11. \A w \in DOMAIN h \ {a} :
           g[w] = IF w = z THEN [h[w] EXCEPT !.anterior = b] ELSE h[w]
    BY <1>3, <1>6
  <1>12. g \in [DOMAIN g -> Node]
    <2>1. g[a] \in Node
      BY <1>1, <1>2, <1>9 DEF Node
    <2>2. g[b] \in Node
      <3>1. \A n \in Nat : [tamanho |-> n, esta_livre |-> TRUE, proximo |-> z,
                            anterior |-> a] \in Node
        BY <1>1, <1>7 DEF Node
      <3> QED BY <1>2, <1>10, <3>1
    <2>3. \A w \in DOMAIN h \ {a} : g[w] \in Node
      BY <1>0, <1>2, <1>11 DEF Node
    <2>4. g = [w \in DOMAIN g |-> g[w]]
      BY <1>6
    <2> QED BY <1>8, <2>1, <2>2, <2>3, <2>4
  <1>13. /\ g[a].tamanho = t /\ ~g[a].esta_livre /\ g[a].proximo = b
         /\ g[a].anterior = h[a].anterior
    BY <1>1, <1>9 DEF Node
  <1>14. EndOf(g, a) = b
    BY <1>13 DEF EndOf, b
  <1>15. EndOf(g, b) = EndOf(h, a)
    BY <1>0, <1>1, <1>2, <1>10 DEF EndOf, b
  <1>16. ASSUME NEW w \in DOMAIN h \ {a}
         PROVE  /\ g[w].tamanho = h[w].tamanho /\ EndOf(g, w) = EndOf(h, w)
                /\ g[w].esta_livre = h[w].esta_livre /\ g[w].proximo = h[w].proximo
                /\ g[w].anterior = IF h[w].anterior = a THEN b ELSE h[w].anterior
    <2>1. h[w] \in Node
      BY <1>0
    <2>2. /\ g[w].tamanho = h[w].tamanho
          /\ g[w].esta_livre = h[w].esta_livre /\ g[w].proximo = h[w].proximo
          /\ g[w].anterior = IF w = z THEN b ELSE h[w].anterior
      BY <1>11, <2>1 DEF Node
    <2> QED BY <1>5, <2>2 DEF EndOf
  <1>17. /\ b = a + Hdr + t
         /\ g[b].tamanho = h[a].tamanho - t - Hdr /\ g[b].esta_livre
         /\ g[b].proximo = z /\ g[b].anterior = a
    BY <1>10 DEF b
  <1>18. Cuts(h, a, t, b, g)
    BY <1>2, <1>3, <1>8, <1>12, <1>13, <1>14, <1>15, <1>16, <1>17 DEF Cuts, z
  <1> QED BY <1>18 DEF h, b, g

\* Cutting keeps the list linked, also when the last block is cut.
LEMMA CutLinked ==
  ASSUME NEW h, NEW last, NEW top, Linked(h, last, top), NEW a \in DOMAIN h,
         NEW t \in Nat, NEW b, NEW g, Cuts(h, a, t, b, g)
  PROVE  Linked(g, IF h[a].proximo = NULL THEN b ELSE last, top)
  <1> DEFINE end == IF h[a].proximo = NULL THEN b ELSE last
  <1>0. Hdr \in Nat \ {0} /\ DOMAIN h \subseteq Nat /\ h \in [DOMAIN h -> Node]
    BY HeapAssumption DEF Linked
  <1>1. /\ b \notin DOMAIN h /\ a < b /\ b < EndOf(h, a)
        /\ a \in Nat /\ b \in Nat /\ EndOf(h, a) \in Nat
        /\ DOMAIN g = DOMAIN h \cup {b} /\ g \in [DOMAIN g -> Node]
        /\ g[a].proximo = b /\ g[a].anterior = h[a].anterior /\ EndOf(g, a) = b
        /\ g[b].proximo = h[a].proximo /\ g[b].anterior = a
        /\ EndOf(g, b) = EndOf(h, a)
    BY <1>0 DEF Cuts, EndOf, Node
  <1>2. \A w \in DOMAIN h \ {a} :
           /\ EndOf(g, w) = EndOf(h, w) /\ g[w].proximo = h[w].proximo
           /\ g[w].anterior = IF h[w].anterior = a THEN b ELSE h[w].anterior
    BY DEF Cuts
  <1>3. end = IF a = last THEN b ELSE last
    <2>1. a = last => h[a].proximo = NULL
      BY DEF Linked
    <2>2. a # last => h[a].proximo # NULL
      BY <1>0 DEF Linked, NULL
    <2> QED BY <2>1, <2>2
  <1> HIDE DEF end
  <1>4. DOMAIN g \subseteq Nat /\ 0 \in DOMAIN g /\ g[0].anterior = NULL
    BY <1>0, <1>1, <1>2 DEF Linked, NULL
  <1>5. end \in DOMAIN g /\ EndOf(g, end) = top /\ g[end].proximo = NULL
    BY <1>1, <1>2, <1>3 DEF Linked
  <1>6. \A w \in DOMAIN g : w <= end
    <2>1. CASE a = last
      BY <1>0, <1>1, <1>3, <2>1 DEF Linked
    <2>2. CASE a # last
      <3>1. EndOf(h, a) \in DOMAIN h /\ EndOf(h, a) <= last /\ last \in Nat
        BY <1>0, <2>2 DEF Linked
      <3> QED BY <1>1, <1>3, <2>2, <3>1 DEF Linked
    <2> QED BY <2>1, <2>2
  <1>7. ASSUME NEW w \in DOMAIN g \ {end}
        PROVE  /\ EndOf(g, w) \in DOMAIN g
               /\ g[w].proximo = EndOf(g, w) /\ g[EndOf(g, w)].anterior = w
    <2>1. CASE w = a
      BY <1>1, <2>1
    <2>2. CASE w = b
      <3>1. a # last
        BY <1>3, <2>2
      <3>2. EndOf(h, a) \in DOMAIN h /\ h[a].proximo = EndOf(h, a)
            /\ h[EndOf(h, a)].anterior = a /\ EndOf(h, a) # a
        BY <1>1, <3>1 DEF Linked
      <3> QED BY <1>1, <1>2, <2>2, <3>2
    <2>3. CASE w # a /\ w # b
      <3>1. w \in DOMAIN h /\ w # last
        BY <1>1, <1>3, <2>3
      <3>2. EndOf(h, w) \in DOMAIN h /\ h[w].proximo = EndOf(h, w)
            /\ h[EndOf(h, w)].anterior = w
        BY <3>1 DEF Linked
      <3> QED BY <1>1, <1>2, <2>3, <3>1, <3>2
    <2> QED BY <2>1, <2>2, <2>3
  <1>8. ASSUME NEW w \in DOMAIN g \ {0}
        PROVE  g[w].anterior \in DOMAIN g /\ EndOf(g, g[w].anterior) = w
    <2>1. CASE w = b
      BY <1>1, <2>1
    <2>2. CASE w # b
      <3>1. w \in DOMAIN h /\ h[w].anterior \in DOMAIN h
            /\ EndOf(h, h[w].anterior) = w
        BY <1>1, <2>2 DEF Linked
      <3>2. CASE h[w].anterior = a
        <4>1. w # a
          BY <1>1, <3>1, <3>2
        <4> QED BY <1>1, <1>2, <3>1, <3>2, <4>1
      <3>3. CASE h[w].anterior # a
        BY <1>1, <1>2, <3>1, <3>3
      <3> QED BY <3>2, <3>3
    <2> QED BY <2>1, <2>2
  <1>9. ASSUME NEW v \in DOMAIN g, NEW w \in DOMAIN g, v < w
        PROVE  EndOf(g, v) <= w
    <2>1. CASE v = b
      <3>1. w \in DOMAIN h /\ a < w
        BY <1>1, <1>4, <1>9, <2>1
      <3>2. EndOf(h, a) <= w
        BY <3>1 DEF Linked
      <3> QED BY <1>1, <2>1, <3>2
    <2>2. CASE v = a
      <3>1. w = b \/ (w \in DOMAIN h /\ EndOf(h, a) <= w)
        BY <1>1, <1>9, <2>2 DEF Linked
      <3> QED BY <1>1, <1>4, <2>2, <3>1
    <2>3. CASE v # a /\ v # b
      <3>1. v \in DOMAIN h /\ EndOf(g, v) = EndOf(h, v)
        BY <1>1, <1>2, <2>3
      <3>2. CASE w = b
        <4>1. v < a
          <5> SUFFICES ASSUME ~(v < a) PROVE FALSE
            OBVIOUS
          <5>1. a < v
            BY <1>1, <1>4, <2>3
          <5>2. EndOf(h, a) <= v
            BY <3>1, <5>1 DEF Linked
          <5> QED BY <1>1, <1>4, <1>9, <3>2, <5>2
        <4>2. EndOf(h, v) <= a
          BY <3>1, <4>1 DEF Linked
        <4>3. EndOf(h, v) \in Nat
          BY <1>0, <3>1 DEF EndOf, Node
        <4> QED BY <1>1, <3>1, <3>2, <4>2, <4>3
      <3>3. CASE w # b
        BY <1>1, <1>9, <3>1, <3>3 DEF Linked
      <3> QED BY <3>2, <3>3
    <2> QED BY <2>1, <2>2, <2>3
  <1> QED BY <1>1, <1>4, <1>5, <1>6, <1>7, <1>8, <1>9 DEF Linked, end

\* Cutting loses no address.
LEMMA CutCovered ==
  ASSUME NEW h, NEW last, NEW top, Linked(h, last, top), Covered(h, top),
         NEW a \in DOMAIN h, NEW t \in Nat, NEW b, NEW g, Cuts(h, a, t, b, g)
  PROVE  Covered(g, top)
  <1>0. Hdr \in Nat \ {0} /\ DOMAIN h \subseteq Nat /\ h \in [DOMAIN h -> Node]
    BY HeapAssumption DEF Linked
  <1>1. /\ b \notin DOMAIN h /\ b < EndOf(h, a)
        /\ a \in Nat /\ b \in Nat /\ h[a].tamanho \in Nat
        /\ DOMAIN g = DOMAIN h \cup {b} /\ g \in [DOMAIN g -> Node]
        /\ EndOf(g, a) = b /\ EndOf(g, b) = EndOf(h, a)
        /\ g[a].tamanho = t /\ g[b].tamanho = h[a].tamanho - t - Hdr
    BY <1>0 DEF Cuts, Node
  <1>2. \A w \in DOMAIN h \ {a} :
           EndOf(g, w) = EndOf(h, w) /\ g[w].tamanho = h[w].tamanho
    BY DEF Cuts
  <1>3. ASSUME NEW p \in 0 .. top - 1
        PROVE  \E w \in DOMAIN g : w <= p /\ p < EndOf(g, w)
    <2>1. PICK w \in DOMAIN h : w <= p /\ p < EndOf(h, w)
      BY DEF Covered
    <2>2. CASE w = a
      BY <1>1, <2>1, <2>2
    <2>3. CASE w # a
      BY <1>1, <1>2, <2>1, <2>3
    <2> QED BY <2>2, <2>3
  <1>4. IsFiniteSet(DOMAIN h) /\ IsFiniteSet(DOMAIN g)
    BY <1>1, FS_AddElement DEF Covered
  <1>5. SumFunctionOnSet(Weight(g), DOMAIN g) = SumFunctionOnSet(Weight(h), DOMAIN h)
    <2> DEFINE wg == Weight(g)
               wh == Weight(h)
               e == [w \in DOMAIN h |-> wg[w]]
    <2>1. /\ wg \in [DOMAIN h \cup {b} -> Int] /\ wh \in [DOMAIN h -> Int]
          /\ e \in [DOMAIN h -> Int] /\ \A w \in DOMAIN h : wg[w] = e[w]
      BY <1>0, <1>1 DEF Weight, Node
    <2>2. \A w \in DOMAIN h \ {a} : e[w] = wh[w]
      BY <1>1, <1>2 DEF Weight
    <2>3. wg[b] + e[a] = wh[a] /\ wg[b] \in Int /\ e[a] \in Int /\ wh[a] \in Int
      BY <1>0, <1>1 DEF Weight
    <2> HIDE DEF wg, wh, e
    <2>4. SumFunctionOnSet(wg, DOMAIN h \cup {b}) = wg[b] + SumFunctionOnSet(e, DOMAIN h)
      <3>1. b \notin DOMAIN h
        BY <1>1
      <3> QED BY <1>4, <2>1, <3>1, SumInsert
    <2>5. /\ SumFunctionOnSet(e, DOMAIN h) = SumFunctionOnSet(wh, DOMAIN h) - wh[a] + e[a]
          /\ SumFunctionOnSet(wh, DOMAIN h) \in Int
      BY <1>4, <2>1, <2>2, SumUpdate
    <2> QED BY <1>1, <2>3, <2>4, <2>5 DEF wg, wh
  <1> QED BY <1>3, <1>4, <1>5 DEF Covered

-----------------------------------------------------------------------------
\* A block at the end

\* kmalloc() puts what expandir_heap() gave after the last block.
LEMMA AppendChain ==
  ASSUME NEW t \in Nat, Chain(bloco, lista_livre_fim, heap_atual)
  PROVE  /\ Chain(Appended(t), heap_atual, heap_atual + Hdr + t)
         /\ heap_atual \notin Blocks /\ DOMAIN Appended(t) = Blocks \cup {heap_atual}
         /\ heap_atual \in Nat
         /\ Appended(t)[heap_atual].tamanho = t
         /\ ~Appended(t)[heap_atual].esta_livre
         /\ \A w \in Blocks :
              /\ Appended(t)[w].tamanho = bloco[w].tamanho
              /\ Appended(t)[w].esta_livre = bloco[w].esta_livre
              /\ Appended(t)[w].proximo = IF w = lista_livre_fim THEN heap_atual
                                          ELSE bloco[w].proximo
  <1> DEFINE h == bloco
             b == heap_atual
             f == lista_livre_fim
             g == Appended(t)
             top == heap_atual + Hdr + t
  <1>0. Hdr \in Nat \ {0} /\ DOMAIN h \subseteq Nat /\ h \in [DOMAIN h -> Node]
        /\ f \in DOMAIN h /\ EndOf(h, f) = b
    BY HeapAssumption DEF Linked, Chain
  <1>1. f \in Nat /\ b \in Nat /\ f < b
    BY <1>0 DEF EndOf, Node
  <1>2. \A w \in DOMAIN h : w <= f /\ w < b /\ w # NULL
    <2>1. \A w \in DOMAIN h : w <= f
      BY DEF Chain, Linked
    <2> QED BY <1>0, <1>1, <2>1 DEF NULL
  <1>3. g = [w \in DOMAIN h \cup {b} |->
     IF w = b THEN [tamanho |-> t, esta_livre |-> FALSE,
                             proximo |-> NULL, anterior |-> f]
     ELSE IF w = f THEN [h[w] EXCEPT !.proximo = b]
     ELSE h[w]]
    BY DEF Appended, Blocks
  <1> HIDE DEF h, b, f, g
  <1>4. DOMAIN g = DOMAIN h \cup {b} /\ b \notin DOMAIN h
    BY <1>1, <1>2, <1>3
  <1>5. g[b] = [tamanho |-> t, esta_livre |-> FALSE, proximo |-> NULL, anterior |-> f]
    BY <1>3
  <1>6. ASSUME NEW w \in DOMAIN h
        PROVE  /\ g[w] \in Node
               /\ g[w].tamanho = h[w].tamanho /\ EndOf(g, w) = EndOf(h, w)
               /\ g[w].esta_livre = h[w].esta_livre
               /\ g[w].anterior = h[w].anterior
               /\ g[w].proximo = IF w = f THEN b ELSE h[w].proximo
    <2>1. g[w] = IF w = f THEN [h[w] EXCEPT !.proximo = b] ELSE h[w]
      BY <1>3, <1>4
    <2>2. h[w] \in Node
      BY <1>0
    <2>3. /\ g[w] \in Node
          /\ g[w].tamanho = h[w].tamanho
          /\ g[w].esta_livre = h[w].esta_livre
          /\ g[w].anterior = h[w].anterior
          /\ g[w].proximo = IF w = f THEN b ELSE h[w].proximo
      BY <1>1, <2>1, <2>2 DEF Node
    <2> QED BY <2>3 DEF EndOf
  <1>7. /\ g[b].tamanho = t /\ ~g[b].esta_livre /\ g[b].proximo = NULL
        /\ g[b].anterior = f
    BY <1>5
  <1>8. EndOf(g, b) = top
    BY <1>7 DEF EndOf, b
  <1>9. g \in [DOMAIN g -> Node]
    <2>1. g[b] \in Node
      BY <1>1, <1>5 DEF Node
    <2>2. g = [w \in DOMAIN g |-> g[w]]
      BY <1>3
    <2> QED BY <1>4, <1>6, <2>1, <2>2
  <1> HIDE DEF top
  <1>10. Linked(g, b, top)
    <2>0. Linked(h, f, b)
      BY DEF Chain, h, f, b
    <2>1. DOMAIN g \subseteq Nat /\ 0 \in DOMAIN g /\ g[0].anterior = NULL
      BY <1>0, <1>1, <1>4, <1>6, <2>0 DEF Linked
    <2>2. \A a \in DOMAIN g : a <= b
      BY <1>0, <1>1, <1>2, <1>4
    <2>3. ASSUME NEW a \in DOMAIN g \ {b}
          PROVE  /\ EndOf(g, a) \in DOMAIN g
                 /\ g[a].proximo = EndOf(g, a) /\ g[EndOf(g, a)].anterior = a
      <3>1. CASE a = f
        BY <1>0, <1>4, <1>6, <1>7, <3>1
      <3>2. CASE a # f
        <4>1. EndOf(h, a) \in DOMAIN h /\ h[a].proximo = EndOf(h, a)
              /\ h[EndOf(h, a)].anterior = a
          BY <1>4, <2>0, <3>2 DEF Linked
        <4> QED BY <1>4, <1>6, <3>2, <4>1
      <3> QED BY <3>1, <3>2
    <2>4. ASSUME NEW a \in DOMAIN g \ {0}
          PROVE  g[a].anterior \in DOMAIN g /\ EndOf(g, g[a].anterior) = a
      <3>1. CASE a = b
        BY <1>0, <1>4, <1>6, <1>7, <3>1
      <3>2. CASE a # b
        <4>1. h[a].anterior \in DOMAIN h /\ EndOf(h, h[a].anterior) = a
          BY <1>4, <2>0, <3>2 DEF Linked
        <4> QED BY <1>4, <1>6, <3>2, <4>1
      <3> QED BY <3>1, <3>2
    <2>5. ASSUME NEW v \in DOMAIN g, NEW w \in DOMAIN g, v < w
          PROVE  EndOf(g, v) <= w
      <3>1. v # b
        BY <1>1, <2>1, <2>2, <2>5
      <3>2. v \in DOMAIN h /\ EndOf(g, v) = EndOf(h, v)
        BY <1>4, <1>6, <3>1
      <3>3. CASE w = b
        <4>1. CASE v = f
          BY <1>0, <1>1, <3>2, <3>3, <4>1
        <4>2. CASE v # f
          <5>1. v < f /\ EndOf(h, v) <= f /\ EndOf(h, v) \in Nat
            <6>1. v < f
              BY <1>0, <1>1, <1>2, <3>2, <4>2
            <6>2. EndOf(h, v) \in Nat
              BY <1>0, <3>2 DEF EndOf, Node
            <6> QED BY <1>0, <2>0, <3>2, <6>1, <6>2 DEF Linked
          <5> QED BY <1>1, <3>2, <3>3, <5>1
        <4> QED BY <4>1, <4>2
      <3>4. CASE w # b
        BY <1>4, <2>0, <2>5, <3>2, <3>4 DEF Linked
      <3> QED BY <3>3, <3>4
    <2> QED BY <1>4, <1>7, <1>8, <1>9, <2>1, <2>2, <2>3, <2>4, <2>5 DEF Linked
  <1>11. Covered(g, top)
    <2>0. Covered(h, b)
      BY DEF Chain, h, b
    <2>1. ASSUME NEW p \in 0 .. top - 1
          PROVE  \E w \in DOMAIN g : w <= p /\ p < EndOf(g, w)
      <3>1. CASE p < b
        <4>1. p \in 0 .. b - 1
          BY <1>1, <3>1
        <4>2. PICK w \in DOMAIN h : w <= p /\ p < EndOf(h, w)
          BY <2>0, <4>1 DEF Covered
        <4> QED BY <1>4, <1>6, <4>2
      <3>2. CASE ~(p < b)
        <4>1. b <= p /\ p < EndOf(g, b)
          BY <1>0, <1>1, <1>8, <3>2 DEF top, b
        <4> QED BY <1>4, <4>1
      <3> QED BY <3>1, <3>2
    <2>2. IsFiniteSet(DOMAIN h) /\ IsFiniteSet(DOMAIN g)
      BY <1>4, <2>0, FS_AddElement DEF Covered
    <2> DEFINE wg == Weight(g)
               wh == Weight(h)
    <2>3. wg \in [DOMAIN h \cup {b} -> Int] /\ \A w \in DOMAIN h : wg[w] = wh[w]
      BY <1>0, <1>4, <1>6, <1>9 DEF Weight, Node
    <2>4. wg[b] = Hdr + t
      BY <1>4, <1>7 DEF Weight
    <2> HIDE DEF wg, wh
    <2>5. SumFunctionOnSet(wg, DOMAIN h \cup {b}) = wg[b] + SumFunctionOnSet(wh, DOMAIN h)
      BY <1>4, <2>2, <2>3, SumInsert
    <2>6. SumFunctionOnSet(wh, DOMAIN h) = b
      BY <2>0 DEF Covered, wh
    <2>7. SumFunctionOnSet(wg, DOMAIN g) = top
      BY <1>0, <1>1, <1>4, <2>4, <2>5, <2>6 DEF top, b
    <2> QED BY <2>1, <2>2, <2>7 DEF Covered, wg
  <1> QED BY <1>1, <1>4, <1>6, <1>7, <1>10, <1>11 DEF Chain, g, b, top, h, f, Blocks

-----------------------------------------------------------------------------
\* The steps

LEMMA UnitsPositive == ASSUME NEW n \in Requests PROVE Units(n) \in Nat \ {0}
  BY HeapAssumption DEF Units

\* A call hands out a block of at least t units; blocks in use stay as they are.
Grants(t) ==
  \E a \in Blocks' \ Used :
    /\ Used' = Used \cup {a}
    /\ bloco'[a].tamanho >= t /\ bloco'[a].tamanho \in Nat
    /\ a \in Nat /\ End(a)' <= Limit
    /\ \A u \in Used : u \in Blocks' /\ bloco'[u].tamanho = bloco[u].tamanho

\* The block at a is given back; the others in use stay as they are.
GivesBack(a) ==
  /\ Used' = Used \ {a}
  /\ \A u \in Used' : bloco'[u].tamanho = bloco[u].tamanho

\* Every block ends inside the heap, after it begins.
LEMMA ChainEnds ==
  ASSUME NEW h, NEW last, NEW top, Linked(h, last, top), NEW a \in DOMAIN h
  PROVE  EndOf(h, a) <= top /\ EndOf(h, a) \in Nat /\ a < EndOf(h, a) /\ a \in Nat
         /\ h[a].tamanho \in Nat /\ h[a] \in Node /\ top \in Nat
  <1>1. Hdr \in Nat \ {0} /\ DOMAIN h \subseteq Nat /\ h \in [DOMAIN h -> Node]
        /\ last \in DOMAIN h /\ EndOf(h, last) = top /\ a <= last
    BY HeapAssumption DEF Linked
  <1>2. a \in Nat /\ h[a].tamanho \in Nat /\ last \in Nat /\ h[last].tamanho \in Nat
    BY <1>1 DEF Node
  <1>3. EndOf(h, a) \in Nat /\ a < EndOf(h, a) /\ EndOf(h, last) \in Nat
        /\ last < EndOf(h, last)
    BY <1>1, <1>2 DEF EndOf
  <1>4. CASE a = last
    BY <1>1, <1>2, <1>3, <1>4
  <1>5. CASE a # last
    <2>1. EndOf(h, a) <= last
      BY <1>1, <1>2, <1>5 DEF Linked
    <2> QED BY <1>1, <1>2, <1>3, <2>1
  <1> QED BY <1>1, <1>2, <1>3, <1>4, <1>5

\* The block after a, by link, is the one that begins where a ends.
LEMMA NextOf ==
  ASSUME NEW h, NEW last, NEW top, Linked(h, last, top), NEW a \in DOMAIN h,
         h[a].proximo # NULL
  PROVE  /\ a # last /\ h[a].proximo \in DOMAIN h /\ h[a].proximo = EndOf(h, a)
         /\ a < h[a].proximo /\ h[h[a].proximo].anterior = a
  BY ChainEnds DEF Linked

\* Marks do not matter to the shape of the list.
LEMMA SameShape ==
  ASSUME NEW h, NEW last, NEW top, Chain(h, last, top),
         NEW g, DOMAIN g = DOMAIN h, g \in [DOMAIN g -> Node],
         \A w \in DOMAIN h : /\ g[w].tamanho = h[w].tamanho
                             /\ g[w].proximo = h[w].proximo
                             /\ g[w].anterior = h[w].anterior
  PROVE  Chain(g, last, top)
  <1>1. \A w \in DOMAIN h : EndOf(g, w) = EndOf(h, w)
    BY DEF EndOf
  <1>2. Linked(h, last, top) /\ Covered(h, top)
    BY DEF Chain
  <1>3. \A a \in DOMAIN h \ {last} :
          /\ EndOf(g, a) \in DOMAIN g
          /\ g[a].proximo = EndOf(g, a) /\ g[EndOf(g, a)].anterior = a
    <2> TAKE a \in DOMAIN h \ {last}
    <2>1. /\ EndOf(h, a) \in DOMAIN h
          /\ h[a].proximo = EndOf(h, a) /\ h[EndOf(h, a)].anterior = a
      BY <1>2 DEF Linked
    <2> QED BY <1>1, <2>1
  <1>4. \A a \in DOMAIN h \ {0} :
          g[a].anterior \in DOMAIN g /\ EndOf(g, g[a].anterior) = a
    BY <1>1, <1>2 DEF Linked
  <1>5. Linked(g, last, top)
    BY <1>1, <1>2, <1>3, <1>4 DEF Linked
  <1>6. Weight(g) = Weight(h)
    BY DEF Weight
  <1> QED BY <1>1, <1>2, <1>5, <1>6 DEF Chain, Covered

\* heap_init() makes a list of one free block, or none.
LEMMA InitInv == KernelHeapInit => HeapInv
  <1> SUFFICES ASSUME KernelHeapInit PROVE HeapInv
    OBVIOUS
  <1>0. Hdr \in Nat \ {0} /\ Page \in Nat /\ Page > Hdr /\ Limit \in Nat /\ Limit > Page
    BY HeapAssumption
  <1>1. CASE /\ heap_atual = Page /\ heap_mapeado_fim = 2 * Page
             /\ lista_livre_inicio = 0 /\ lista_livre_fim = 0
             /\ bloco = [a \in {0} |-> [tamanho |-> Page - Hdr, esta_livre |-> TRUE,
                                        proximo |-> NULL, anterior |-> NULL]]
    <2>1. /\ DOMAIN bloco = {0} /\ Blocks = {0}
          /\ bloco[0] = [tamanho |-> Page - Hdr, esta_livre |-> TRUE,
                         proximo |-> NULL, anterior |-> NULL]
      BY <1>1 DEF Blocks
    <2>2. /\ bloco[0].tamanho = Page - Hdr /\ bloco[0].proximo = NULL
          /\ bloco[0].anterior = NULL /\ EndOf(bloco, 0) = Page
      BY <1>0, <2>1 DEF EndOf
    <2>3. bloco \in [DOMAIN bloco -> Node]
      BY <1>0, <1>1 DEF Node
    <2>4. Linked(bloco, 0, Page)
      BY <1>0, <2>1, <2>2, <2>3 DEF Linked
    <2>5. Covered(bloco, Page)
      <3>1. SumFunctionOnSet(Weight(bloco), {} \cup {0}) = Page
        <4> DEFINE wh == Weight(bloco)
        <4>1. wh \in [{} \cup {0} -> Int] /\ wh[0] = Page
          BY <1>0, <2>1, <2>2 DEF Weight
        <4> HIDE DEF wh
        <4>2. SumFunctionOnSet(wh, {} \cup {0}) = wh[0] + SumFunctionOnSet(wh, {})
          BY <4>1, SumInsert, FS_EmptySet
        <4> QED BY <1>0, <4>1, <4>2, SumEmpty DEF wh
      <3>2. IsFiniteSet({0}) /\ {} \cup {0} = DOMAIN bloco
        BY <2>1, FS_Singleton
      <3> QED BY <1>0, <2>1, <2>2, <3>1, <3>2 DEF Covered
    <2>6. NoFreePair(bloco)
      BY <2>1, <2>2 DEF NoFreePair
    <2>7. 2 * Page \in Nat /\ Page < 2 * Page /\ 2 * Page <= Limit + Page
      BY <1>0
    <2> QED BY <1>0, <1>1, <2>1, <2>4, <2>5, <2>6, <2>7 DEF HeapInv, Chain
  <1>2. CASE /\ heap_atual = 0 /\ heap_mapeado_fim \in {0, Page}
             /\ lista_livre_inicio = NULL /\ lista_livre_fim = NULL
             /\ bloco = [a \in {} |-> 0]
    BY <1>0, <1>2 DEF HeapInv, Blocks
  <1> QED BY <1>1, <1>2 DEF KernelHeapInit

\* kmalloc() from a free block.
LEMMA TakeFitStep ==
  ASSUME HeapInv, NEW t \in Nat \ {0}, TakeFit(t)
  PROVE  HeapInv' /\ Grants(t)
  <1>1. PICK a \in Fits(t) :
          /\ IF bloco[a].tamanho >= t + Hdr + 1
             THEN /\ bloco' = Split(a, t)
                  /\ lista_livre_fim' = IF bloco[a].proximo = NULL THEN a + Hdr + t
                                        ELSE lista_livre_fim
             ELSE /\ bloco' = [bloco EXCEPT ![a].esta_livre = FALSE]
                  /\ UNCHANGED lista_livre_fim
          /\ UNCHANGED <<heap_atual, heap_mapeado_fim, lista_livre_inicio>>
    BY DEF TakeFit
  <1>2. a \in DOMAIN bloco /\ bloco[a].esta_livre /\ bloco[a].tamanho >= t /\ a \notin Used
    BY DEF Fits, FreeBlocks, Blocks, Used
  <1>3. /\ Linked(bloco, lista_livre_fim, heap_atual) /\ Covered(bloco, heap_atual)
        /\ NoFreePair(bloco) /\ lista_livre_inicio = 0 /\ heap_atual < heap_mapeado_fim
        /\ heap_atual \in Nat /\ heap_atual <= Limit
        /\ heap_mapeado_fim \in Nat /\ heap_mapeado_fim <= Limit + Page
    BY <1>2 DEF HeapInv, Chain, Blocks
  <1>4. Hdr \in Nat \ {0} /\ a \in Nat /\ bloco[a].tamanho \in Nat /\ bloco[a] \in Node
        /\ EndOf(bloco, a) <= heap_atual /\ Limit \in Nat /\ EndOf(bloco, a) \in Nat
        /\ bloco \in [DOMAIN bloco -> Node] /\ DOMAIN bloco \subseteq Nat
    BY <1>2, <1>3, HeapAssumption, ChainEnds DEF Linked
  <1>5. CASE bloco[a].tamanho >= t + Hdr + 1
    <2> DEFINE b == a + Hdr + t
    <2>1. Cuts(bloco, a, t, b, bloco')
      BY <1>1, <1>2, <1>3, <1>5, SplitShape DEF Blocks
    <2> HIDE DEF b
    <2>2. lista_livre_fim' = IF bloco[a].proximo = NULL THEN b ELSE lista_livre_fim
      BY <1>1, <1>5 DEF b
    <2>3. Linked(bloco', lista_livre_fim', heap_atual) /\ Covered(bloco', heap_atual)
      BY <1>2, <1>3, <2>1, <2>2, CutLinked, CutCovered
    <2>4. NoFreePair(bloco')
      <3> SUFFICES ASSUME NEW w \in DOMAIN bloco', bloco'[w].esta_livre,
                          bloco'[w].proximo # NULL, bloco'[bloco'[w].proximo].esta_livre
                   PROVE  FALSE
        BY DEF NoFreePair
      <3>1. w # a
        BY <2>1 DEF Cuts
      <3>2. CASE w = b
        <4>1. bloco[a].proximo # NULL /\ bloco'[w].proximo = bloco[a].proximo
          BY <2>1, <3>2 DEF Cuts
        <4>2. bloco[a].proximo \in DOMAIN bloco \ {a} /\ ~bloco[bloco[a].proximo].esta_livre
          BY <1>2, <1>3, <1>4, <4>1, NextOf DEF NoFreePair
        <4> QED BY <2>1, <4>1, <4>2 DEF Cuts
      <3>3. CASE w # b
        <4>1. /\ w \in DOMAIN bloco \ {a} /\ bloco[w].esta_livre
              /\ bloco[w].proximo = bloco'[w].proximo /\ bloco[w].proximo # NULL
          BY <2>1, <3>1, <3>3 DEF Cuts
        <4>2. bloco[w].proximo \in DOMAIN bloco /\ ~bloco[bloco[w].proximo].esta_livre
          BY <1>3, <4>1, NextOf DEF NoFreePair
        <4> QED BY <1>2, <2>1, <4>1, <4>2 DEF Cuts
      <3> QED BY <3>2, <3>3
    <2>5. Blocks' = Blocks \cup {b} /\ Blocks' # {}
      BY <2>1 DEF Cuts, Blocks
    <2>6. HeapInv'
      BY <1>1, <1>3, <2>3, <2>4, <2>5 DEF HeapInv, Chain
    <2>7. Used' = Used \cup {a}
      <3>1. \A w \in DOMAIN bloco \ {a} : bloco'[w].esta_livre = bloco[w].esta_livre
        BY <2>1 DEF Cuts
      <3>2. bloco'[b].esta_livre /\ ~bloco'[a].esta_livre /\ a \in DOMAIN bloco
            /\ b \notin DOMAIN bloco
        BY <1>2, <2>1 DEF Cuts
      <3> QED BY <2>5, <3>1, <3>2 DEF Used, FreeBlocks, Blocks
    <2>8. bloco'[a].tamanho = t /\ End(a)' <= Limit
      <3>1. bloco'[a].tamanho = t
        BY <2>1 DEF Cuts
      <3>2. End(a)' = a + Hdr + t
        BY <3>1 DEF End
      <3> QED BY <1>3, <1>4, <1>5, <3>1, <3>2 DEF EndOf
    <2>9. \A u \in Used : u \in Blocks' /\ bloco'[u].tamanho = bloco[u].tamanho
      BY <1>2, <2>1, <2>5 DEF Cuts, Used, Blocks
    <2> QED BY <1>2, <1>4, <2>5, <2>6, <2>7, <2>8, <2>9 DEF Grants, Blocks
  <1>6. CASE ~(bloco[a].tamanho >= t + Hdr + 1)
    <2>1. bloco' = [bloco EXCEPT ![a].esta_livre = FALSE] /\ UNCHANGED lista_livre_fim
      BY <1>1, <1>6
    <2>2. /\ DOMAIN bloco' = DOMAIN bloco /\ bloco' \in [DOMAIN bloco' -> Node]
          /\ ~bloco'[a].esta_livre
          /\ \A w \in DOMAIN bloco \ {a} : bloco'[w].esta_livre = bloco[w].esta_livre
          /\ \A w \in DOMAIN bloco :
               /\ bloco'[w].tamanho = bloco[w].tamanho
               /\ bloco'[w].proximo = bloco[w].proximo
               /\ bloco'[w].anterior = bloco[w].anterior
               /\ EndOf(bloco', w) = EndOf(bloco, w)
      BY <1>2, <1>4, <2>1 DEF Node, EndOf
    <2>3. Chain(bloco, lista_livre_fim, heap_atual)
      BY <1>3 DEF Chain
    <2>4. Chain(bloco', lista_livre_fim', heap_atual)
      BY <2>1, <2>2, <2>3, SameShape
    <2>5. NoFreePair(bloco')
      <3>1. \A w \in DOMAIN bloco : bloco[w].proximo # NULL => bloco[w].proximo \in DOMAIN bloco
        BY <1>3, NextOf
      <3> QED BY <1>3, <2>2, <3>1 DEF NoFreePair
    <2>6. Blocks' = Blocks /\ Blocks' # {}
      BY <1>2, <2>2 DEF Blocks
    <2>7. HeapInv'
      BY <1>1, <1>3, <2>3, <2>4, <2>5, <2>6 DEF HeapInv, Chain
    <2>8. Used' = Used \cup {a}
      BY <1>2, <2>2 DEF Used, FreeBlocks, Blocks
    <2>9. End(a)' <= Limit
      BY <1>2, <1>3, <1>4, <2>2 DEF End, EndOf
    <2> QED BY <1>2, <1>4, <2>2, <2>6, <2>7, <2>8, <2>9 DEF Grants, Used, Blocks
  <1> QED BY <1>5, <1>6

\* kmalloc() from new pages, after the last block or in an empty heap.
LEMMA TakeNewStep ==
  ASSUME HeapInv, NEW t \in Nat \ {0}, TakeNew(t)
  PROVE  HeapInv' /\ Grants(t)
  <1>a. PICK b, top : b = heap_atual /\ top = heap_atual + Hdr + t
    OBVIOUS
  <1>0. /\ Hdr \in Nat \ {0} /\ Page \in Nat /\ Limit \in Nat
        /\ heap_atual \in Nat /\ heap_mapeado_fim \in Nat
        /\ heap_mapeado_fim <= Limit + Page
    BY HeapAssumption DEF HeapInv
  <1>1. /\ ExpandsBy(Hdr + t) /\ bloco' = Appended(t)
        /\ lista_livre_inicio' = IF lista_livre_fim = NULL THEN b
                                 ELSE lista_livre_inicio
        /\ lista_livre_fim' = b /\ heap_atual' = top
    BY <1>a DEF TakeNew
  <1>2. /\ top < Limit /\ top < heap_mapeado_fim'
        /\ heap_mapeado_fim' \in Nat /\ heap_mapeado_fim' <= Limit + Page
    <2>1. PICK k \in 0 .. Limit :
            /\ heap_mapeado_fim' = heap_mapeado_fim + k * Page
            /\ heap_atual + (Hdr + t) < heap_mapeado_fim'
            /\ k > 0 => heap_atual + (Hdr + t) >= heap_mapeado_fim' - Page
      BY <1>1 DEF ExpandsBy
    <2>2. k * Page \in Nat /\ (k = 0 => k * Page = 0)
      BY <1>0
    <2>3. heap_atual + (Hdr + t) < Limit
      BY <1>1 DEF ExpandsBy
    <2> QED BY <1>0, <1>a, <2>1, <2>2, <2>3
  <1>3. /\ Chain(bloco', b, top) /\ b \notin Blocks
        /\ Blocks' = Blocks \cup {b}
        /\ bloco'[b].tamanho = t /\ ~bloco'[b].esta_livre
        /\ \A w \in Blocks : /\ bloco'[w].tamanho = bloco[w].tamanho
                             /\ bloco'[w].esta_livre = bloco[w].esta_livre
        /\ lista_livre_inicio' = 0 /\ NoFreePair(bloco')
    <2>1. CASE Blocks # {}
      <3>1. /\ Chain(bloco, lista_livre_fim, heap_atual) /\ NoFreePair(bloco)
            /\ lista_livre_inicio = 0
        BY <2>1 DEF HeapInv
      <3>2. /\ Chain(bloco', b, top) /\ b \notin Blocks
            /\ DOMAIN bloco' = Blocks \cup {b}
            /\ bloco'[b].tamanho = t /\ ~bloco'[b].esta_livre
            /\ \A w \in Blocks :
                 /\ bloco'[w].tamanho = bloco[w].tamanho
                 /\ bloco'[w].esta_livre = bloco[w].esta_livre
                 /\ bloco'[w].proximo = IF w = lista_livre_fim THEN b
                                        ELSE bloco[w].proximo
        <4> DEFINE g == Appended(t)
        <4>1. /\ Chain(g, heap_atual, heap_atual + Hdr + t)
              /\ heap_atual \notin Blocks /\ DOMAIN g = Blocks \cup {heap_atual}
              /\ g[heap_atual].tamanho = t /\ ~g[heap_atual].esta_livre
              /\ \A w \in Blocks :
                   /\ g[w].tamanho = bloco[w].tamanho
                   /\ g[w].esta_livre = bloco[w].esta_livre
                   /\ g[w].proximo = IF w = lista_livre_fim THEN heap_atual
                                     ELSE bloco[w].proximo
          BY <3>1, AppendChain
        <4>2. g = bloco'
          BY <1>1
        <4> HIDE DEF g
        <4> QED BY <1>a, <4>1, <4>2
      <3>3. lista_livre_fim # NULL
        BY <3>1 DEF Chain, Linked, NULL
      <3>4. NoFreePair(bloco')
        <4> SUFFICES ASSUME NEW w \in DOMAIN bloco', bloco'[w].esta_livre,
                            bloco'[w].proximo # NULL,
                            bloco'[bloco'[w].proximo].esta_livre
                     PROVE  FALSE
          BY DEF NoFreePair
        <4>1. w \in Blocks /\ w # lista_livre_fim /\ bloco[w].esta_livre
              /\ bloco'[w].proximo = bloco[w].proximo /\ bloco[w].proximo # NULL
          BY <3>2
        <4>2. bloco[w].proximo \in Blocks /\ ~bloco[bloco[w].proximo].esta_livre
          BY <3>1, <4>1, NextOf DEF Chain, Blocks, NoFreePair
        <4> QED BY <3>2, <4>1, <4>2
      <3> QED BY <1>1, <3>1, <3>2, <3>3, <3>4 DEF Blocks
    <2>2. CASE Blocks = {}
      <3>1. b = 0 /\ lista_livre_fim = NULL
        BY <1>a, <2>2 DEF HeapInv
      <3>2. bloco' = [w \in {0} |-> [tamanho |-> t, esta_livre |-> FALSE,
                                     proximo |-> NULL, anterior |-> NULL]]
        BY <1>a, <1>1, <2>2, <3>1 DEF Appended
      <3>3. /\ DOMAIN bloco' = {0} /\ bloco' \in [DOMAIN bloco' -> Node]
            /\ bloco'[0].tamanho = t /\ ~bloco'[0].esta_livre
            /\ bloco'[0].proximo = NULL /\ bloco'[0].anterior = NULL
            /\ EndOf(bloco', 0) = Hdr + t
        BY <1>0, <3>2 DEF Node, EndOf
      <3>4. top = Hdr + t /\ top \in Nat
        BY <1>a, <1>0, <3>1
      <3>5. Linked(bloco', 0, top)
        BY <3>3, <3>4 DEF Linked
      <3>6. SumFunctionOnSet(Weight(bloco'), {0}) = top
        <4> DEFINE wh == Weight(bloco')
        <4> DEFINE E == {}
        <4>1. wh \in [E \cup {0} -> Int] /\ wh[0] = top /\ E \cup {0} = {0}
          BY <1>0, <3>3, <3>4 DEF Weight
        <4>0. IsFiniteSet(E) /\ 0 \notin E /\ \A w \in E : wh[w] = wh[w]
          BY FS_EmptySet
        <4> HIDE DEF wh, E
        <4>2. SumFunctionOnSet(wh, E \cup {0}) = wh[0] + SumFunctionOnSet(wh, E)
          BY <4>0, <4>1, SumInsert
        <4> QED BY <3>4, <4>1, <4>2, SumEmpty DEF wh, E
      <3>7. Covered(bloco', top)
        <4>1. \A p \in 0 .. top - 1 : 0 <= p /\ p < EndOf(bloco', 0)
          BY <3>3, <3>4
        <4>2. IsFiniteSet({0})
          BY FS_Singleton
        <4> QED BY <3>3, <3>6, <4>1, <4>2 DEF Covered
      <3>8. NoFreePair(bloco')
        BY <3>3 DEF NoFreePair
      <3> QED BY <1>1, <2>2, <3>1, <3>3, <3>5, <3>7, <3>8 DEF Chain, Blocks
    <2> QED BY <2>1, <2>2
  <1>4. HeapInv'
    <2>1. top \in Nat /\ top <= Limit
      BY <1>0, <1>a, <1>2
    <2>2. Blocks' # {}
      BY <1>3
    <2> QED BY <1>1, <1>2, <1>3, <2>1, <2>2 DEF HeapInv
  <1>5. Grants(t)
    <2>1. Used' = Used \cup {b}
      BY <1>3 DEF Used, FreeBlocks
    <2>2. End(b)' <= Limit
      BY <1>0, <1>a, <1>2, <1>3 DEF End
    <2>3. b \in Blocks' \ Used /\ \A u \in Used : u \in Blocks
      BY <1>3 DEF Used
    <2>4. b \in Nat /\ bloco'[b].tamanho \in Nat /\ bloco'[b].tamanho >= t
      BY <1>0, <1>a, <1>3
    <2>5. \A u \in Used : u \in Blocks' /\ bloco'[u].tamanho = bloco[u].tamanho
      BY <1>3, <2>3
    <2> QED BY <2>1, <2>2, <2>3, <2>4, <2>5 DEF Grants
  <1> QED BY <1>4, <1>5

\* kmalloc() that returns NULL, maybe after some pages were mapped.
LEMMA FailsStep ==
  ASSUME HeapInv, NEW n \in Requests, KmallocFails(n)
  PROVE  HeapInv' /\ Used' = Used /\ UNCHANGED bloco
  <1>0. /\ Hdr \in Nat \ {0} /\ Page \in Nat /\ Limit \in Nat
        /\ heap_atual \in Nat /\ heap_mapeado_fim \in Nat
        /\ heap_mapeado_fim <= Limit + Page
    BY HeapAssumption DEF HeapInv
  <1>1. UNCHANGED <<heap_atual, lista_livre_inicio, lista_livre_fim, bloco>>
    BY DEF KmallocFails
  <1>2. Units(n) \in Nat \ {0}
    BY UnitsPositive
  <1>3. /\ heap_mapeado_fim' \in Nat /\ heap_mapeado_fim' <= Limit + Page
        /\ heap_mapeado_fim <= heap_mapeado_fim'
    <2>1. CASE UNCHANGED heap_mapeado_fim
      BY <1>0, <2>1
    <2>2. CASE /\ heap_atual + (Hdr + Units(n)) < Limit
               /\ \E k \in 0 .. Limit :
                    /\ heap_mapeado_fim' = heap_mapeado_fim + k * Page
                    /\ heap_atual + (Hdr + Units(n)) >= heap_mapeado_fim'
      <3>1. PICK k \in 0 .. Limit :
                    /\ heap_mapeado_fim' = heap_mapeado_fim + k * Page
                    /\ heap_atual + (Hdr + Units(n)) >= heap_mapeado_fim'
        BY <2>2
      <3>2. k * Page \in Nat
        BY <1>0
      <3> QED BY <1>0, <1>2, <2>2, <3>1, <3>2
    <2> QED BY <2>1, <2>2 DEF KmallocFails, ExpandFails
  <1>4. Used' = Used /\ Blocks' = Blocks
    BY <1>1 DEF Used, FreeBlocks, Blocks
  <1>5. CASE Blocks = {}
    BY <1>0, <1>1, <1>3, <1>4, <1>5 DEF HeapInv
  <1>6. CASE Blocks # {}
    <2>1. heap_atual < heap_mapeado_fim'
      BY <1>0, <1>3, <1>6 DEF HeapInv
    <2> QED BY <1>0, <1>1, <1>3, <1>4, <1>6, <2>1 DEF HeapInv
  <1> QED BY <1>1, <1>4, <1>5, <1>6

\* kfree(): the block is joined with the one after it, then with the one
\* before; each joining keeps the list, and no pair of free blocks is left.
LEMMA KfreeStep ==
  ASSUME HeapInv, NEW a \in Used, Kfree(a)
  PROVE  HeapInv' /\ GivesBack(a)
  <1> DEFINE h1 == Freed(a)
             y  == h1[a].proximo
             h2 == IF FreeAfter(h1, a) THEN Join(h1, a) ELSE h1
             f2 == IF FreeAfter(h1, a) THEN JoinedEnd(h1, a, lista_livre_fim)
                                       ELSE lista_livre_fim
             p  == bloco[a].anterior
             top == heap_atual
  <1>1. /\ a \in DOMAIN bloco /\ ~bloco[a].esta_livre /\ Blocks # {}
        /\ Chain(bloco, lista_livre_fim, top) /\ NoFreePair(bloco)
        /\ Linked(bloco, lista_livre_fim, top)
        /\ bloco \in [DOMAIN bloco -> Node]
    BY DEF HeapInv, Used, FreeBlocks, Blocks, Chain, Linked
  <1>2. /\ IF FreeBefore(h2, a)
           THEN bloco' = Join(h2, p) /\ lista_livre_fim' = JoinedEnd(h2, p, f2)
           ELSE bloco' = h2 /\ lista_livre_fim' = f2
        /\ UNCHANGED <<heap_atual, heap_mapeado_fim, lista_livre_inicio>>
    BY DEF Kfree
  <1>3. /\ DOMAIN h1 = DOMAIN bloco /\ h1 \in [DOMAIN h1 -> Node]
        /\ h1[a].esta_livre
        /\ \A w \in DOMAIN bloco \ {a} : h1[w].esta_livre = bloco[w].esta_livre
        /\ \A w \in DOMAIN bloco : /\ h1[w].tamanho = bloco[w].tamanho
                                   /\ h1[w].proximo = bloco[w].proximo
                                   /\ h1[w].anterior = bloco[w].anterior
    BY <1>1 DEF Freed, Node
  <1> HIDE DEF h1
  <1>4. Chain(h1, lista_livre_fim, top) /\ Linked(h1, lista_livre_fim, top)
    BY <1>1, <1>3, SameShape DEF Chain
  <1>5. NoFreePairBut(h1, a)
    <2> SUFFICES ASSUME NEW w \in DOMAIN h1, h1[w].esta_livre, h1[w].proximo # NULL,
                        h1[h1[w].proximo].esta_livre, w # a, h1[w].proximo # a
                 PROVE  FALSE
      BY DEF NoFreePairBut
    <2>1. h1[w].proximo \in DOMAIN bloco
      BY <1>3, <1>4, NextOf
    <2> QED BY <1>1, <1>3, <2>1 DEF NoFreePair
  <1>6. /\ Chain(h2, f2, top) /\ Linked(h2, f2, top) /\ a \in DOMAIN h2
        /\ h2[a].anterior = p
        /\ \A w \in DOMAIN h2 :
             h2[w].esta_livre /\ h2[w].proximo # NULL /\ h2[h2[w].proximo].esta_livre
               => h2[w].proximo = a
        /\ DOMAIN h2 \subseteq DOMAIN h1
        /\ \A w \in DOMAIN h1 \ DOMAIN h2 : h1[w].esta_livre
        /\ \A w \in DOMAIN h2 : /\ h2[w].esta_livre = h1[w].esta_livre
                                /\ w # a => h2[w].tamanho = h1[w].tamanho
    <2>1. CASE FreeAfter(h1, a)
      <3>1. y # NULL /\ h1[y].esta_livre /\ h2 = Join(h1, a)
            /\ f2 = JoinedEnd(h1, a, lista_livre_fim)
        BY <2>1 DEF FreeAfter
      <3>2. Joins(h1, lista_livre_fim, a, y, h2)
        BY <1>1, <1>3, <1>4, <3>1, JoinShape
      <3>3. Linked(h2, f2, top) /\ Covered(h2, top)
        BY <1>1, <1>3, <1>4, <3>1, JoinLinked, JoinCovered DEF Chain
      <3> HIDE DEF y, h2
      <3>4. /\ DOMAIN h2 = DOMAIN h1 \ {y} /\ a \in DOMAIN h2 /\ a < y /\ y \in DOMAIN h1
            /\ h2[a].proximo = h1[y].proximo /\ y = EndOf(h1, a)
            /\ \A w \in DOMAIN h2 \ {a} : h2[w].proximo = h1[w].proximo
                                          /\ h2[w].tamanho = h1[w].tamanho
            /\ \A w \in DOMAIN h2 :
                 /\ h2[w].esta_livre = h1[w].esta_livre
                 /\ h2[w].anterior = IF h1[w].anterior = y THEN a ELSE h1[w].anterior
        BY <3>2 DEF Joins
      <3>5. a \in Nat /\ y \in Nat
        BY <1>4, <3>4, ChainEnds
      <3>6. h2[a].anterior = p
        <4>1. h1[a].anterior # y
          <5> SUFFICES ASSUME h1[a].anterior = y PROVE FALSE
            OBVIOUS
          <5>1. a # 0
            BY <1>4, <3>5 DEF Linked, NULL
          <5>2. EndOf(h1, y) = a
            BY <1>3, <1>1, <1>4, <5>1 DEF Linked
          <5> QED BY <1>4, <3>4, <3>5, <5>2, ChainEnds
        <4> QED BY <1>1, <1>3, <3>4, <4>1
      <3>7. ASSUME NEW w \in DOMAIN h2, h2[w].esta_livre, h2[w].proximo # NULL,
                   h2[h2[w].proximo].esta_livre
            PROVE  h2[w].proximo = a
        <4>0. h2[w].proximo \in DOMAIN h2
          BY <3>3, <3>7, NextOf
        <4>1. CASE w = a
          <5>1. h1[y].proximo # NULL /\ h1[h1[y].proximo].esta_livre
            BY <3>4, <3>7, <4>0, <4>1
          <5>2. y = a \/ h1[y].proximo = a
            BY <1>5, <3>1, <3>4, <5>1 DEF NoFreePairBut
          <5>3. y < h1[y].proximo
            BY <1>4, <3>4, <5>1, NextOf
          <5> QED BY <3>4, <3>5, <5>2, <5>3
        <4>2. CASE w # a
          BY <1>5, <3>4, <3>7, <4>0, <4>2 DEF NoFreePairBut
        <4> QED BY <4>1, <4>2
      <3> QED BY <3>1, <3>3, <3>4, <3>6, <3>7 DEF Chain
    <2>2. CASE ~FreeAfter(h1, a)
      <3>1. h2 = h1 /\ f2 = lista_livre_fim
        BY <2>2
      <3>2. y = NULL \/ ~h1[y].esta_livre
        <4>1. y # NULL => y = a + Hdr + h1[a].tamanho
          BY <1>1, <1>3, <1>4, NextOf DEF EndOf
        <4> QED BY <2>2, <4>1 DEF FreeAfter
      <3>3. \A w \in DOMAIN h1 :
             h1[w].esta_livre /\ h1[w].proximo # NULL /\ h1[h1[w].proximo].esta_livre
               => h1[w].proximo = a
        BY <1>5, <3>2 DEF NoFreePairBut
      <3> HIDE DEF h2, f2
      <3> QED BY <1>1, <1>3, <1>4, <3>1, <3>3
    <2> QED BY <2>1, <2>2
  <1> HIDE DEF h2, f2
  <1>7. /\ Chain(bloco', lista_livre_fim', top) /\ NoFreePair(bloco')
        /\ DOMAIN bloco' \subseteq DOMAIN h2
        /\ \A w \in DOMAIN h2 \ DOMAIN bloco' : h2[w].esta_livre
        /\ \A w \in DOMAIN bloco' :
             /\ bloco'[w].esta_livre = h2[w].esta_livre
             /\ ~h2[w].esta_livre => bloco'[w].tamanho = h2[w].tamanho
    <2>1. CASE FreeBefore(h2, a)
      <3>1. /\ p # NULL /\ h2[p].esta_livre /\ h2[p].proximo = a
            /\ p \in DOMAIN h2 /\ h2[a].esta_livre
            /\ bloco' = Join(h2, p) /\ lista_livre_fim' = JoinedEnd(h2, p, f2)
        <4>1. p # NULL /\ h2[p].esta_livre
          BY <1>6, <2>1 DEF FreeBefore
        <4>2. a # 0
          BY <1>6, <4>1 DEF Linked
        <4>3. p \in DOMAIN h2 /\ EndOf(h2, p) = a
          BY <1>6, <4>2 DEF Linked
        <4>4. p # f2
          <5>1. a <= f2 /\ p < a
            BY <1>6, <4>3, ChainEnds DEF Linked
          <5>2. a \in Nat /\ p \in Nat
            BY <1>6, <4>3, ChainEnds
          <5> QED BY <5>1, <5>2
        <4>5. h2[p].proximo = a
          BY <1>6, <4>3, <4>4 DEF Linked
        <4> HIDE DEF p
        <4> QED BY <1>2, <1>3, <1>6, <2>1, <4>1, <4>3, <4>5
      <3> HIDE DEF p
      <3>2. a # NULL
        BY <1>6, ChainEnds DEF NULL
      <3>3. Joins(h2, f2, p, a, bloco')
        BY <1>6, <3>1, <3>2, JoinShape
      <3>4. Linked(bloco', lista_livre_fim', top) /\ Covered(bloco', top)
        BY <1>6, <3>1, <3>2, JoinLinked, JoinCovered DEF Chain
      <3>5. /\ DOMAIN bloco' = DOMAIN h2 \ {a} /\ p \in DOMAIN bloco' /\ p < a
            /\ bloco'[p].proximo = h2[a].proximo
            /\ \A w \in DOMAIN bloco' \ {p} :
                 bloco'[w].proximo = h2[w].proximo /\ bloco'[w].tamanho = h2[w].tamanho
            /\ \A w \in DOMAIN bloco' : bloco'[w].esta_livre = h2[w].esta_livre
        BY <3>3 DEF Joins
      <3>6. NoFreePair(bloco')
        <4> SUFFICES ASSUME NEW w \in DOMAIN bloco', bloco'[w].esta_livre,
                            bloco'[w].proximo # NULL,
                            bloco'[bloco'[w].proximo].esta_livre
                     PROVE  FALSE
          BY DEF NoFreePair
        <4>0. bloco'[w].proximo \in DOMAIN bloco'
          BY <3>4, NextOf
        <4>1. CASE w = p
          <5>1. h2[a].proximo # NULL /\ h2[h2[a].proximo].esta_livre
            BY <3>5, <4>0, <4>1
          <5>2. h2[a].proximo = a
            BY <1>6, <3>1, <5>1
          <5>3. a < h2[a].proximo /\ a \in Nat
            BY <1>6, <5>1, NextOf, ChainEnds
          <5> QED BY <5>2, <5>3
        <4>2. CASE w # p
          <5>1. h2[w].proximo = a
            BY <1>6, <3>5, <4>0, <4>2
          <5> QED BY <3>5, <4>0, <4>2, <5>1
        <4> QED BY <4>1, <4>2
      <3> QED BY <3>1, <3>4, <3>5, <3>6 DEF Chain
    <2>2. CASE ~FreeBefore(h2, a)
      <3>1. bloco' = h2 /\ lista_livre_fim' = f2
        BY <1>2, <2>2
      <3>2. NoFreePair(h2)
        <4> SUFFICES ASSUME NEW w \in DOMAIN h2, h2[w].esta_livre,
                            h2[w].proximo # NULL, h2[h2[w].proximo].esta_livre
                     PROVE  FALSE
          BY DEF NoFreePair
        <4>1. h2[w].proximo = a
          BY <1>6
        <4>2. EndOf(h2, w) = a /\ h2[a].anterior = w
          BY <1>6, <4>1, NextOf
        <4>3. w # NULL
          BY <1>6, ChainEnds DEF NULL
        <4> QED BY <2>2, <4>2, <4>3 DEF FreeBefore, EndOf
      <3> QED BY <1>6, <3>1, <3>2
    <2> QED BY <2>1, <2>2
  <1>8. Blocks' # {}
    BY <1>7 DEF Blocks, Chain, Linked
  <1>9. HeapInv'
    BY <1>1, <1>2, <1>7, <1>8 DEF HeapInv
  <1>10. GivesBack(a)
    <2>1. Used' = {w \in DOMAIN bloco' : ~bloco'[w].esta_livre}
      BY DEF Used, FreeBlocks, Blocks
    <2>2. Used = {w \in DOMAIN bloco : ~bloco[w].esta_livre}
      BY DEF Used, FreeBlocks, Blocks
    <2>3. ASSUME NEW w \in Used'
          PROVE  w \in Used /\ w # a /\ bloco'[w].tamanho = bloco[w].tamanho
      BY <1>3, <1>6, <1>7, <2>1, <2>2
    <2>4. ASSUME NEW w \in Used, w # a PROVE w \in Used'
      BY <1>3, <1>6, <1>7, <2>1, <2>2, <2>4
    <2> QED BY <2>3, <2>4 DEF GivesBack
  <1> QED BY <1>9, <1>10

-----------------------------------------------------------------------------
\* The theorems

\* Every step keeps the inductive invariant.
LEMMA NextInv == HeapInv /\ [KernelHeapNext]_blockVars => HeapInv'
  <1> SUFFICES ASSUME HeapInv, [KernelHeapNext]_blockVars PROVE HeapInv'
    OBVIOUS
  <1>1. ASSUME NEW n \in Requests, Kmalloc(n) PROVE HeapInv'
    BY <1>1, UnitsPositive, TakeFitStep, TakeNewStep DEF Kmalloc
  <1>2. ASSUME NEW n \in Requests, KmallocFails(n) PROVE HeapInv'
    BY <1>2, FailsStep
  <1>3. ASSUME NEW a \in Used, Kfree(a) PROVE HeapInv'
    BY <1>3, KfreeStep
  <1>4. CASE UNCHANGED blockVars
    BY <1>4 DEF HeapInv, blockVars, Blocks, Chain, Linked, Covered, NoFreePair, EndOf, Weight
  <1> QED BY <1>1, <1>2, <1>3, <1>4 DEF KernelHeapNext

\* The list of kmalloc.c covers the heap, links and lengths agreeing, after any
\* sequence of calls, whether or not expandir_heap() found frames.
THEOREM HeapInvariant == KernelHeapSpec => []HeapInv
  BY InitInv, NextInv, PTL DEF KernelHeapSpec

\* The parts of HeapSound.  Types: addresses and lengths stay below the limit
\* of the heap because every block ends below heap_atual.
LEMMA TypesHold == HeapInv => BlockTypes
  <1> SUFFICES ASSUME HeapInv PROVE BlockTypes
    OBVIOUS
  <1>0. Limit \in Nat /\ Page \in Nat /\ Hdr \in Nat \ {0}
    BY HeapAssumption
  <1>1. CASE Blocks = {}
    BY <1>0, <1>1 DEF HeapInv, BlockTypes, Addr, Blocks
  <1>2. CASE Blocks # {}
    <2>1. /\ Linked(bloco, lista_livre_fim, heap_atual) /\ heap_atual <= Limit
          /\ heap_atual \in Nat
          /\ lista_livre_fim \in DOMAIN bloco /\ lista_livre_inicio = 0
          /\ bloco \in [DOMAIN bloco -> Node]
      BY <1>2 DEF HeapInv, Chain, Linked
    <2>2. ASSUME NEW a \in DOMAIN bloco
          PROVE  a \in Addr /\ bloco[a] \in Header
      <3>1. EndOf(bloco, a) <= Limit /\ a \in Nat /\ bloco[a].tamanho \in Nat
            /\ a < EndOf(bloco, a) /\ EndOf(bloco, a) \in Nat
        BY <1>0, <2>1, ChainEnds
      <3>2. a \in Addr /\ bloco[a].tamanho \in Addr
        BY <1>0, <3>1 DEF Addr, EndOf
      <3>3. bloco[a].proximo \in Addr \cup {NULL}
        <4>1. CASE bloco[a].proximo = NULL
          BY <4>1
        <4>2. CASE bloco[a].proximo # NULL
          <5>1. bloco[a].proximo = EndOf(bloco, a)
            BY <2>1, <4>2, NextOf
          <5> QED BY <1>0, <3>1, <5>1 DEF Addr
        <4> QED BY <4>1, <4>2
      <3>4. bloco[a].anterior \in Addr \cup {NULL}
        <4>1. CASE a = 0
          BY <2>1, <4>1 DEF Linked
        <4>2. CASE a # 0
          <5>1. bloco[a].anterior \in DOMAIN bloco
            BY <2>1, <4>2 DEF Linked
          <5>2. /\ bloco[a].anterior \in Nat
                /\ EndOf(bloco, bloco[a].anterior) <= heap_atual
                /\ EndOf(bloco, bloco[a].anterior) \in Nat
                /\ bloco[a].anterior < EndOf(bloco, bloco[a].anterior)
            BY <2>1, <5>1, ChainEnds
          <5> QED BY <1>0, <2>1, <5>2 DEF Addr
        <4> QED BY <4>1, <4>2
      <3>5. bloco[a] \in Node
        BY <2>1
      <3> QED BY <3>2, <3>3, <3>4, <3>5 DEF Header, Node
    <2> QED BY <1>0, <2>1, <2>2 DEF BlockTypes, Blocks, Addr, HeapInv
  <1> QED BY <1>1, <1>2

LEMMA TilesHold == HeapInv => ListTiles
  <1> SUFFICES ASSUME HeapInv PROVE ListTiles
    OBVIOUS
  <1>1. CASE Blocks = {}
    BY <1>1 DEF HeapInv, ListTiles
  <1>2. CASE Blocks # {}
    <2>1. Linked(bloco, lista_livre_fim, heap_atual) /\ lista_livre_inicio = 0
      BY <1>2 DEF HeapInv, Chain
    <2>2. \A a \in Blocks : End(a) = EndOf(bloco, a)
      BY DEF End, EndOf
    <2>3. /\ 0 \in Blocks /\ bloco[0].anterior = NULL /\ lista_livre_fim \in Blocks
          /\ EndOf(bloco, lista_livre_fim) = heap_atual
          /\ bloco[lista_livre_fim].proximo = NULL
      BY <2>1 DEF Linked, Blocks
    <2>4. \A a \in Blocks \ {lista_livre_fim} :
            /\ EndOf(bloco, a) \in Blocks /\ bloco[a].proximo = EndOf(bloco, a)
            /\ bloco[EndOf(bloco, a)].anterior = a
      BY <2>1 DEF Linked, Blocks
    <2>5. \A a, b \in Blocks : a < b => EndOf(bloco, a) <= b
      BY <2>1 DEF Linked, Blocks
    <2> QED BY <1>2, <2>1, <2>2, <2>3, <2>4, <2>5 DEF ListTiles
  <1> QED BY <1>1, <1>2

LEMMA CoalescedHolds == HeapInv => Coalesced
  <1> SUFFICES ASSUME HeapInv, NEW a \in FreeBlocks, bloco[a].proximo \in FreeBlocks
               PROVE  FALSE
    BY DEF Coalesced
  <1>1. a \in DOMAIN bloco /\ bloco[a].proximo \in DOMAIN bloco
    BY DEF FreeBlocks, Blocks
  <1>2. bloco[a].proximo # NULL /\ NoFreePair(bloco)
    BY <1>1 DEF HeapInv, Chain, Linked, NULL, Blocks
  <1> QED BY <1>1, <1>2 DEF NoFreePair, FreeBlocks

\* The block that covers the first unit of a stretch with room is free, since
\* the stretch is clear of blocks in use; the block after it is not, so it
\* begins after the stretch; the free block is then long enough for the request.
LEMMA NoHiddenRoomHolds == HeapInv => NoHiddenRoom
  <1> SUFFICES ASSUME HeapInv, NEW n \in Requests, Fits(Units(n)) = {}, NEW x \in Addr,
                      x + Hdr + Units(n) <= heap_atual,
                      \A a \in Used : End(a) <= x \/ x + Hdr + Units(n) <= a
               PROVE  FALSE
    BY DEF NoHiddenRoom
  <1> DEFINE t == Units(n)
  <1>0. Hdr \in Nat \ {0} /\ t \in Nat \ {0} /\ x \in Nat
    BY HeapAssumption, UnitsPositive DEF Addr
  <1>1. Blocks # {}
    BY <1>0 DEF HeapInv
  <1>2. /\ Linked(bloco, lista_livre_fim, heap_atual) /\ Covered(bloco, heap_atual)
        /\ NoFreePair(bloco) /\ heap_atual \in Nat
    BY <1>1 DEF HeapInv, Chain
  <1> HIDE DEF t
  <1>3. x + Hdr + t <= heap_atual /\ Fits(t) = {}
        /\ \A a \in Used : EndOf(bloco, a) <= x \/ x + Hdr + t <= a
    BY DEF t, End, EndOf
  <1>4. PICK a \in DOMAIN bloco : a <= x /\ x < EndOf(bloco, a)
    <2>1. x \in 0 .. heap_atual - 1
      BY <1>0, <1>2, <1>3
    <2> QED BY <1>2, <2>1 DEF Covered
  <1>5. a \in Nat /\ EndOf(bloco, a) \in Nat /\ bloco[a].tamanho \in Nat
    BY <1>2, ChainEnds
  <1>6. bloco[a].esta_livre
    <2>1. a \notin Used
      BY <1>0, <1>3, <1>4, <1>5
    <2> QED BY <2>1 DEF Used, FreeBlocks, Blocks
  <1>7. x + Hdr + t <= EndOf(bloco, a)
    <2>1. CASE bloco[a].proximo = NULL
      <3>1. a = lista_livre_fim
        BY <1>2, <2>1 DEF Linked, NULL
      <3> QED BY <1>2, <1>3, <3>1 DEF Linked
    <2>2. CASE bloco[a].proximo # NULL
      <3> DEFINE b == bloco[a].proximo
      <3>1. b \in DOMAIN bloco /\ b = EndOf(bloco, a) /\ ~bloco[b].esta_livre
        BY <1>2, <1>6, <2>2, NextOf DEF NoFreePair
      <3>2. b \in Used
        BY <3>1 DEF Used, FreeBlocks, Blocks
      <3>3. b < EndOf(bloco, b) /\ EndOf(bloco, b) \in Nat /\ b \in Nat
        BY <1>2, <3>1, ChainEnds
      <3> HIDE DEF b
      <3> QED BY <1>0, <1>3, <1>4, <3>1, <3>2, <3>3
    <2> QED BY <2>1, <2>2
  <1>8. bloco[a].tamanho >= t
    BY <1>0, <1>4, <1>5, <1>7 DEF EndOf
  <1> QED BY <1>3, <1>6, <1>8 DEF Fits, FreeBlocks, Blocks

\* The sum over all blocks is that over those in use and those free.
LEMMA StatsHold == HeapInv => StatsAddUp
  <1> SUFFICES ASSUME HeapInv PROVE StatsAddUp
    OBVIOUS
  <1> DEFINE full == [a \in Blocks |-> Hdr + bloco[a].tamanho]
             bare == [a \in Blocks |-> bloco[a].tamanho]
  <1>0. Hdr \in Nat \ {0} /\ heap_atual \in Nat /\ heap_mapeado_fim \in Nat
    BY HeapAssumption DEF HeapInv
  <1>1. CASE Blocks = {}
    <2>1. Used = {} /\ FreeBlocks = {} /\ heap_atual = 0
      BY <1>1 DEF Used, FreeBlocks, HeapInv
    <2>2. SumFunctionOnSet(full, {}) = 0 /\ SumFunctionOnSet(bare, {}) = 0
      BY SumEmpty
    <2>3. Cardinality({}) = 0
      BY FS_EmptySet
    <2> HIDE DEF full, bare
    <2> QED BY <1>0, <2>1, <2>2, <2>3 DEF StatsAddUp, Usado, Livre, full, bare
  <1>2. CASE Blocks # {}
    <2>1. /\ bloco \in [Blocks -> Node] /\ IsFiniteSet(Blocks)
          /\ SumFunctionOnSet(Weight(bloco), Blocks) = heap_atual
      BY <1>2 DEF HeapInv, Chain, Linked, Covered, Blocks
    <2>2. full = Weight(bloco) /\ full \in [Blocks -> Int] /\ bare \in [Blocks -> Int]
          /\ \A a \in Blocks : full[a] = Hdr + bare[a]
      BY <1>0, <2>1 DEF Weight, Node, Blocks
    <2>3. Used \in SUBSET Blocks /\ Blocks \ Used = FreeBlocks
          /\ FreeBlocks \in SUBSET Blocks
      BY DEF Used, FreeBlocks
    <2> HIDE DEF full, bare
    <2>4. /\ heap_atual = SumFunctionOnSet(full, Used) + SumFunctionOnSet(full, FreeBlocks)
          /\ SumFunctionOnSet(full, Used) \in Int /\ SumFunctionOnSet(full, FreeBlocks) \in Int
      BY <2>1, <2>2, <2>3, SumParts
    <2>5. /\ SumFunctionOnSet(full, FreeBlocks)
               = Hdr * Cardinality(FreeBlocks) + SumFunctionOnSet(bare, FreeBlocks)
          /\ Cardinality(FreeBlocks) \in Nat
      <3> DEFINE f == [a \in FreeBlocks |-> full[a]]
                 e == [a \in FreeBlocks |-> bare[a]]
      <3>1. IsFiniteSet(FreeBlocks)
        BY <2>1, <2>3, FS_Subset
      <3>2. /\ f \in [FreeBlocks -> Int] /\ e \in [FreeBlocks -> Int]
            /\ \A a \in FreeBlocks : f[a] = Hdr + e[a]
        BY <2>2, <2>3
      <3>3. /\ SumFunctionOnSet(f, FreeBlocks) = SumFunctionOnSet(full, FreeBlocks)
            /\ SumFunctionOnSet(e, FreeBlocks) = SumFunctionOnSet(bare, FreeBlocks)
        BY <3>1, SumSame
      <3> HIDE DEF f, e
      <3>4. SumFunctionOnSet(f, FreeBlocks)
              = Hdr * Cardinality(FreeBlocks) + SumFunctionOnSet(e, FreeBlocks)
        <4>1. Hdr \in Int
          BY <1>0
        <4> QED BY <3>1, <3>2, <4>1, SumShift
      <3> QED BY <3>1, <3>3, <3>4, FS_CardinalityType
    <2>6. SumFunctionOnSet(bare, FreeBlocks) \in Int
      BY <2>1, <2>2, <2>3, SumParts
    <2>7. Hdr * Cardinality(FreeBlocks) \in Int
      BY <1>0, <2>5
    <2>8. /\ Usado = SumFunctionOnSet(full, Used)
          /\ Livre = SumFunctionOnSet(bare, FreeBlocks) + (heap_mapeado_fim - heap_atual)
      BY DEF Usado, Livre, full, bare
    <2> QED BY <1>0, <2>4, <2>5, <2>6, <2>7, <2>8 DEF StatsAddUp
  <1> QED BY <1>1, <1>2

\* Whatever kmalloc() and kfree() are asked for, in any order, with frames
\* running out at any page: the list tiles the heap, nothing is left to join,
\* headers and blocks are in mapped pages, NULL is returned only when there is
\* no room, and what kmalloc_stats() reports adds up.
THEOREM HeapIsSound == KernelHeapSpec => []HeapSound
  <1>1. HeapInv => HeapSound
    BY TypesHold, TilesHold, CoalescedHolds, NoHiddenRoomHolds, StatsHold
       DEF HeapInv, HeapSound, InsideMapped
  <1> QED BY <1>1, HeapInvariant, PTL

\* The regions that callers hold.
Lent == {[base |-> a + Hdr, len |-> bloco[a].tamanho] : a \in Used}

\* The region handed out is new, in the heap and apart from all others, since
\* blocks in use are still blocks of a list without overlap.
LEMMA GrantsAreGrants ==
  ASSUME HeapInv, HeapInv', NEW n \in Requests, Grants(Units(n))
  PROVE  Promised!Grant(n)
  <1>0. Hdr \in Nat \ {0} /\ Limit \in Nat /\ Units(n) \in Nat \ {0}
    BY HeapAssumption, UnitsPositive
  <1>1. PICK a \in Blocks' \ Used :
          /\ Used' = Used \cup {a}
          /\ bloco'[a].tamanho >= Units(n) /\ bloco'[a].tamanho \in Nat
          /\ a \in Nat /\ End(a)' <= Limit
          /\ \A u \in Used : u \in Blocks' /\ bloco'[u].tamanho = bloco[u].tamanho
    BY DEF Grants
  <1> DEFINE r == [base |-> a + Hdr, len |-> bloco'[a].tamanho]
  <1>2. ASSUME NEW u \in Used
        PROVE  /\ u \in Nat /\ bloco[u].tamanho \in Nat
               /\ u # a /\ bloco'[u].tamanho = bloco[u].tamanho
               /\ EndOf(bloco, u) = u + Hdr + bloco[u].tamanho
    <2>1. u \in DOMAIN bloco /\ Linked(bloco, lista_livre_fim, heap_atual)
      BY DEF Used, Blocks, HeapInv, Chain
    <2> QED BY <1>1, <2>1, ChainEnds DEF EndOf
  <1>3. Lent' = Lent \cup {r}
    BY <1>1, <1>2 DEF Lent
  <1>4. r \notin Lent
    <2> SUFFICES ASSUME NEW u \in Used, r.base = u + Hdr PROVE FALSE
      BY DEF Lent
    <2> QED BY <1>0, <1>1, <1>2
  <1>5. r.base = a + Hdr /\ r.len = bloco'[a].tamanho /\ r.base + r.len <= Limit
        /\ r \in Promised!Region
    <2>1. a + Hdr + bloco'[a].tamanho <= Limit
      BY <1>1 DEF End
    <2> QED BY <1>0, <1>1, <2>1 DEF Promised!Region
  <1>6. ASSUME NEW s \in Lent PROVE Promised!Apart(r, s)
    <2>1. PICK u \in Used : s = [base |-> u + Hdr, len |-> bloco[u].tamanho]
      BY DEF Lent
    <2>2. Linked(bloco', lista_livre_fim', heap_atual') /\ a \in DOMAIN bloco'
          /\ u \in DOMAIN bloco'
      <3>1. a \in DOMAIN bloco' /\ u \in DOMAIN bloco'
        BY <1>1 DEF Blocks
      <3>2. Blocks' # {}
        BY <3>1 DEF Blocks
      <3> QED BY <3>1, <3>2 DEF HeapInv, Chain
    <2>3. (a < u => EndOf(bloco', a) <= u) /\ (u < a => EndOf(bloco', u) <= a)
      BY <2>2 DEF Linked
    <2>4. /\ EndOf(bloco', a) = a + Hdr + bloco'[a].tamanho
          /\ EndOf(bloco', u) = u + Hdr + bloco[u].tamanho
      BY <1>2 DEF EndOf
    <2>5. s.base = u + Hdr /\ s.len = bloco[u].tamanho
      BY <2>1
    <2>6. r.base + r.len <= s.base \/ s.base + s.len <= r.base
      <3> HIDE DEF r
      <3> QED BY <1>0, <1>1, <1>2, <1>5, <2>3, <2>4, <2>5
    <2> QED BY <2>6 DEF Promised!Apart
  <1> QED BY <1>0, <1>1, <1>3, <1>4, <1>5, <1>6 DEF Promised!Grant, Lent

\* kfree() takes back one region; joining moves no other.
LEMMA GivesBackIsRelease ==
  ASSUME HeapInv, NEW a \in Used, GivesBack(a)
  PROVE  Promised!Release
  <1> DEFINE r == [base |-> a + Hdr, len |-> bloco[a].tamanho]
  <1>1. r \in Lent
    BY DEF Lent
  <1>2. \A u \in Used : u \in Nat
    BY DEF Used, Blocks, HeapInv, Chain, Linked
  <1>3. ASSUME NEW u \in Used, u # a
        PROVE  [base |-> u + Hdr, len |-> bloco[u].tamanho] # r
    <2>1. Hdr \in Nat /\ u \in Nat /\ a \in Nat
      BY <1>2, HeapAssumption
    <2>2. u + Hdr # a + Hdr
      BY <1>3, <2>1
    <2> QED BY <2>2
  <1>4. Lent' = Lent \ {r}
    <2>1. Lent' = {[base |-> u + Hdr, len |-> bloco'[u].tamanho] : u \in Used \ {a}}
      BY DEF Lent, GivesBack
    <2>2. \A u \in Used \ {a} : bloco'[u].tamanho = bloco[u].tamanho
      BY DEF GivesBack
    <2>3. Lent' = {[base |-> u + Hdr, len |-> bloco[u].tamanho] : u \in Used \ {a}}
      BY <2>1, <2>2
    <2> HIDE DEF r
    <2> QED BY <1>3, <2>3 DEF Lent, r
  <1> QED BY <1>1, <1>4 DEF Promised!Release, Lent

\* kmalloc() and kfree() implement Allocator: each call that succeeds adds or
\* takes away one region, which overlaps no other and is left alone until it is
\* freed; a call that fails changes none.
THEOREM HeapIsAllocator == KernelHeapSpec => AllocatorSpec
  <1>1. KernelHeapInit => Promised!Init
    <2>1. KernelHeapInit => Used = {}
      BY DEF KernelHeapInit, Used, FreeBlocks, Blocks
    <2> QED BY <2>1 DEF Promised!Init
  <1>2. HeapInv /\ HeapInv' /\ [KernelHeapNext]_blockVars => [Promised!Next]_Lent
    <2> SUFFICES ASSUME HeapInv, HeapInv', [KernelHeapNext]_blockVars
                 PROVE  Promised!Next \/ UNCHANGED Lent
      OBVIOUS
    <2>1. ASSUME NEW n \in Requests, Kmalloc(n) PROVE Promised!Next
      <3>1. Grants(Units(n))
        BY <2>1, UnitsPositive, TakeFitStep, TakeNewStep DEF Kmalloc
      <3> QED BY <3>1, GrantsAreGrants DEF Promised!Next
    <2>2. ASSUME NEW n \in Requests, KmallocFails(n) PROVE UNCHANGED Lent
      BY <2>2, FailsStep DEF Lent
    <2>3. ASSUME NEW a \in Used, Kfree(a) PROVE Promised!Next
      BY <2>3, KfreeStep, GivesBackIsRelease DEF Promised!Next
    <2>4. CASE UNCHANGED blockVars
      BY <2>4 DEF blockVars, Lent, Used, FreeBlocks, Blocks
    <2> QED BY <2>1, <2>2, <2>3, <2>4 DEF KernelHeapNext
  <1> QED BY <1>1, <1>2, HeapInvariant, PTL DEF KernelHeapSpec, AllocatorSpec, Promised!Spec, Lent

=============================================================================
