------------------------------ MODULE MCMemory ------------------------------
(***************************************************************************)
(* Model checking of memory: the frames, the kernel's heap, the address    *)
(* spaces of programs, and the heap inside each of those.  The modules     *)
(* share no variable (KernelHeap and AddressSpace take pmm_alloc_block()   *)
(* to give a frame or none, UserHeap takes sbrk() to grow or not), so each *)
(* is checked in the behaviours that leave the others alone.               *)
(***************************************************************************)
EXTENDS FrameAllocator, KernelHeap, AddressSpace, UserHeap, TLC

VARIABLE layer     \* the one that the behaviour is about

memoryVars == <<vars, blockVars, spaceVars, heapVars, layer>>

\* Of the ways to begin, one is enough for the layers that are left alone.
MemoryInit ==
    /\ Init /\ KernelHeapInit /\ SpaceInit /\ HeapInit
    /\ \/ layer \in {"pmm", "elf", "malloc"} /\ heap_mapeado_fim = 0
       \/ layer = "kmalloc"

MemoryNext ==
    /\ UNCHANGED layer
    /\ \/ /\ layer = "pmm" /\ Next
          /\ UNCHANGED <<blockVars, spaceVars, heapVars>>
       \/ /\ layer = "kmalloc" /\ KernelHeapNext
          /\ UNCHANGED <<vars, spaceVars, heapVars>>
       \/ /\ layer = "elf" /\ SpaceNext
          /\ UNCHANGED <<vars, blockVars, heapVars>>
       \/ /\ layer = "malloc" /\ HeapNext
          /\ UNCHANGED <<vars, blockVars, spaceVars>>

MemorySpec == MemoryInit /\ [][MemoryNext]_memoryVars

\* The kernel's image, and a word that is a hole in the memory map
ImageAndHole == {<<0, 0>>, <<1, 0>>, <<1, 1>>}

\* Data and bss that share a page, then bss alone in a part of a page
Headers == <<[vaddr |-> 2, filesz |-> 1, memsz |-> 3],
             [vaddr |-> 6, filesz |-> 0, memsz |-> 1]>>

\* What is not the kernel's
Above1MB == 1 .. 60

Changes == {-2, 1, 3}

\* The first program from one end of memory, the second from the other
ByProgram(S, p) == IF p = 1 THEN CHOOSE f \in S : \A g \in S : f <= g
                            ELSE CHOOSE f \in S : \A g \in S : f >= g

EitherLoader == Permutations(Loaders)
=============================================================================
