---------------------------- MODULE AddressSpace ----------------------------
(***************************************************************************)
(* The memory of a program: the address space that create_elf_process()    *)
(* builds for it and that elf_load_file() fills (include/elf.c,            *)
(* mem/vmm.c), and the heap that SYS_SBRK extends (drivers/syscall.c).     *)
(*                                                                         *)
(* Two kernel tasks load programs, the shell and the one that serves       *)
(* SYS_EXEC, with interrupts on: a load is a sequence of steps between     *)
(* which the other task loads and programs extend their heaps.  SYS_SBRK   *)
(* runs with interrupts off: it takes a step for every page, and nobody    *)
(* else takes one meanwhile.                                               *)
(*                                                                         *)
(* A load can lose the processor inside a call of the page allocator too:  *)
(* it enters the call in one step and gets its frame in another.  If       *)
(* another call begins between the two, both may get one frame, which      *)
(* FrameAllocator shows; the behaviour is followed up to that point only.  *)
(* Which frame a call gets makes no difference here and is a parameter.    *)
(*                                                                         *)
(* Addresses count half pages, and pages are numbered.  Frame 0 is the     *)
(* NULL of an allocation that failed, which several callers do not check.  *)
(***************************************************************************)
EXTENDS Integers, Sequences, FiniteSets

CONSTANTS
  Loaders,      \* the tasks that call create_elf_process()
  Frames,       \* the frames of memory, positive numbers
  Programs,     \* the programs that may be started, numbers
  Segments,     \* the PT_LOAD headers: records of vaddr, filesz and memsz
  OwnPages,     \* the pages under entries 2 to 15 of the page directory
  StackPages,   \* the pages below USER_STACK_VADDR
  HeapBase,     \* the address 0x0000700000000000
  Increments,   \* the arguments of SYS_SBRK
  MaxBreak,     \* bound: heaps stay below this address
  Pick(_, _)    \* the frame of a set that pmm_alloc_block() gives a program

HeapPage(v) == 2 * v >= HeapBase

\* Pages

PagesOf(from, to) == from \div 2 .. (to + 1) \div 2 - 1

SegmentPages(i) ==
  PagesOf(Segments[i].vaddr, Segments[i].vaddr + Segments[i].memsz)
FilePages(i) ==
  IF Segments[i].filesz = 0 THEN {}
  ELSE PagesOf(Segments[i].vaddr, Segments[i].vaddr + Segments[i].filesz)
ZeroPages(i) ==
  PagesOf(Segments[i].vaddr + Segments[i].filesz,
          Segments[i].vaddr + Segments[i].memsz)

\* Segments have pages of their own, apart from the stack and, as that, in the
\* part of the first gigabyte that is not the kernel's: the linker scripts of
\* the programs arrange it, so that no page is below 1 MB and left out.
ASSUME SpaceAssumption ==
  /\ Programs \subseteq Nat /\ Frames \subseteq Nat \ {0} /\ IsFiniteSet(Frames)
  /\ \A S \in SUBSET Frames : \A p \in Programs : S # {} => Pick(S, p) \in S
  /\ Segments \in Seq([vaddr : Nat, filesz : Nat, memsz : Nat])
  /\ OwnPages \subseteq Nat /\ \A v \in OwnPages : ~HeapPage(v)
  /\ StackPages \subseteq OwnPages
  /\ \A i \in DOMAIN Segments :
       /\ SegmentPages(i) \subseteq OwnPages \ StackPages
       /\ \A j \in DOMAIN Segments : j # i => SegmentPages(i) \cap SegmentPages(j) = {}
  /\ HeapBase \in Nat /\ HeapBase % 2 = 0 /\ MaxBreak \in Nat
  /\ Increments \subseteq Int

VARIABLES
  free,      \* the frames that pmm.c has not given out
  space,     \* per program, its tables, pages and break
  job,       \* per loader, where it is in create_elf_process()
  sbrk,      \* the call of SYS_SBRK under way
  inside,    \* the loader that is in a call of the page allocator, if any
  collided,  \* history: another call has begun meanwhile
  kernelHit, \* history: a load has written to the kernel's identity map
  short,     \* history: an allocation has found no frame
  shrunk,    \* history: a program has lowered its break
  stopped    \* a fault in the kernel, or tables or headers at address 0

spaceVars == <<free, space, job, sbrk, inside, collided, kernelHit, short,
               shrunk, stopped>>

NoFrame == 0
Empty == <<>>

NoSpace == [state |-> "none", table |-> Empty, page |-> Empty, filled |-> {},
            brk |-> HeapBase, flawed |-> FALSE]

\* cr3 is the address space in which the loader runs, hand the frame it holds,
\* todo the pages still to be mapped or written; flawed notes a failure that
\* the load has passed over.
IdleJob == [pc |-> "idle", prog |-> 0, hand |-> NoFrame, todo |-> {},
            seg |-> 1, cr3 |-> "kernel", ints |-> TRUE, good |-> TRUE,
            flawed |-> FALSE]

\* Nobody is in SYS_SBRK; somebody is, with the pages that are still to come
\* and the break that is to be set then.
NoCall == [prog |-> 0, on |-> FALSE, todo |-> {}, to |-> HeapBase]

\* Pages are gone through in ascending order.
First(v, todo) == v \in todo /\ \A w \in todo : v <= w

\* What a walk through the tables of p works on.
Memory(p) == [prog |-> p, free |-> free, table |-> space[p].table,
              page |-> space[p].page, ok |-> TRUE]

\* The function g with f at x.
With(g, x, f) == [y \in DOMAIN g \cup {x} |-> IF y = x THEN f ELSE g[y]]

-----------------------------------------------------------------------------
\* Mutant: the stack is forgotten.
Mut_AreaNoStack(i) == IF i <= Len(Segments) THEN SegmentPages(i) ELSE {}

\* What is mapped for a program: its segments, one by one, then its stack.
Area(i) == IF i <= Len(Segments) THEN SegmentPages(i) ELSE StackPages

\* get_next_table(), or a level of vmm_map_user(), over a record m of free
\* frames and tables: a table that is missing is made if there is a frame.
NextTable(m, t) ==
  IF t \in DOMAIN m.table THEN m
  ELSE IF m.free = {} \/ ~m.ok THEN [m EXCEPT !.ok = FALSE]
  ELSE LET f == Pick(m.free, m.prog)
       IN [m EXCEPT !.free = @ \ {f}, !.table = With(@, t, f)]

\* The table that a page of the first gigabyte is in.
TableName(v) == IF v \in StackPages THEN "stack_pt" ELSE "code_pt"

\* Down the walk to a page: the tables below the PML4 and the first gigabyte.
Descend(m, v) ==
  IF HeapPage(v)
  THEN NextTable(NextTable(NextTable(m, "heap_pdpt"), "heap_pd"), "heap_pt")
  ELSE NextTable(m, TableName(v))

-----------------------------------------------------------------------------
\* Calls of the page allocator

At(l, pc) == job[l].pc = pc
Goto(l, pc) == job' = [job EXCEPT ![l].pc = pc]

Unused == {p \in Programs : space[p].state = "none"}
Lacks(l, v) == TableName(v) \notin DOMAIN space[job[l].prog].table

\* The places where a load calls it: for the topmost tables, a page, the table
\* that a page needs, and to give back what it has.
Calls(l) ==
  \/ At(l, "idle") /\ Unused # {}
  \/ At(l, "page") /\ job[l].todo # {}
  \/ At(l, "put") /\ \E v \in job[l].todo : First(v, job[l].todo) /\ Lacks(l, v)
  \/ job[l].pc \in {"pdpt", "pd", "unload"}

Enter(l) ==
  /\ Calls(l) /\ inside = {}
  /\ inside' = {l}
  /\ UNCHANGED <<free, space, job, sbrk, collided, kernelHit, short, shrunk, stopped>>

\* The call of l gives its result.
Returns(l) == l \in inside /\ inside' = {}

\* Another call begins: the other load's, one that SYS_SBRK makes, or one that
\* kmalloc() makes for anybody to extend the kernel's heap.
Overlap ==
  /\ inside # {}
  /\ collided' = TRUE
  /\ UNCHANGED <<free, space, job, sbrk, inside, kernelHit, short, shrunk, stopped>>

-----------------------------------------------------------------------------
\* create_elf_process()

\* The PML4; without a frame the call returns 0 at once.
BeginLoad(l) ==
  /\ At(l, "idle")
  /\ Returns(l)
  /\ \/ /\ free = {} /\ short' = TRUE
        /\ UNCHANGED <<free, space, job>>
     \/ /\ free # {} /\ UNCHANGED short
        /\ \E p \in Unused :
             /\ First(p, Unused)
             /\ free' = free \ {Pick(free, p)}
             /\ space' = [space EXCEPT ![p] =
                  [NoSpace EXCEPT !.state = "loading",
                                  !.table = With(Empty, "pml4", Pick(free, p))]]
             /\ job' = [job EXCEPT ![l] =
                  [IdleJob EXCEPT !.pc = "pdpt", !.prog = p]]
  /\ UNCHANGED <<sbrk, collided, kernelHit, shrunk, stopped>>

\* The tables of the first gigabyte, whose results are not looked at: without
\* a frame they end up at address 0, where this module does not follow them.
OwnTable(l, t, next) ==
  /\ At(l, t) /\ Returns(l)
  /\ Goto(l, next)
  /\ LET f == Pick(free, job[l].prog)
     IN IF free = {}
        THEN /\ stopped' = TRUE /\ short' = TRUE
             /\ UNCHANGED <<free, space>>
        ELSE /\ free' = free \ {f}
             /\ space' = [space EXCEPT ![job[l].prog].table = With(@, t, f)]
             /\ UNCHANGED <<stopped, short>>
  /\ UNCHANGED <<sbrk, collided, kernelHit, shrunk>>

FirstGigabyte(l) == OwnTable(l, "pdpt", "pd") \/ OwnTable(l, "pd", "header")

\* Mutant: the pages are freed and their tables are not.
Mut_UnloadedKeepsTables(p) ==
  LET s == space[p]
      low == {v \in DOMAIN s.page : ~HeapPage(v)}
  IN {s.page[v] : v \in low}
       \cup {s.table[t] : t \in DOMAIN s.table \cap {"pd", "pdpt", "pml4"}}

\* The frames that elf_unload_failed_pml4() gives back: what hangs under
\* entries 2 to 15 of the first gigabyte, and the topmost tables.
Unloaded(p) ==
  LET s == space[p]
      low == {v \in DOMAIN s.page : ~HeapPage(v)}
  IN {s.page[v] : v \in low}
       \cup {s.table[t] : t \in DOMAIN s.table \ {"heap_pd", "heap_pt"}}

elf_unload_failed_pml4(l) ==
  /\ At(l, "unload") /\ Returns(l)
  /\ free' = free \cup (Unloaded(job[l].prog) \ {NoFrame})
  /\ space' = [space EXCEPT ![job[l].prog] = [NoSpace EXCEPT !.state = "refused"]]
  /\ job' = [job EXCEPT ![l] = IdleJob]
  /\ UNCHANGED <<sbrk, collided, kernelHit, short, shrunk, stopped>>

-----------------------------------------------------------------------------
\* elf_load_file()

\* The header is read, and is or is not that of a program.  The program headers
\* after it are read without a look at the result, and into what kmalloc()
\* gives, be it NULL: what such a load does then is not followed.
ReadHeader(l) ==
  /\ At(l, "header")
  /\ \/ /\ job' = [job EXCEPT ![l].pc = "page", ![l].todo = Area(1)]
        /\ UNCHANGED stopped
     \/ Goto(l, "unload") /\ UNCHANGED stopped
     \/ Goto(l, "page") /\ stopped' = TRUE
  /\ UNCHANGED <<free, space, sbrk, inside, collided, kernelHit, short, shrunk>>

\* A frame for the next page, or NULL.
AllocPage(l) ==
  /\ At(l, "page") /\ Returns(l)
  /\ job[l].todo # {}
  /\ LET f == IF free = {} THEN NoFrame ELSE Pick(free, job[l].prog)
     IN /\ free' = free \ {f}
        /\ short' = (short \/ free = {})
        /\ job' = [job EXCEPT ![l].pc = "put", ![l].hand = f,
             ![l].flawed = @ \/ free = {}]
  /\ UNCHANGED <<space, sbrk, collided, kernelHit, shrunk, stopped>>

\* Mutant: the frame that is mapped goes back to the allocator.
Mut_Put(l) ==
  /\ At(l, "put")
  /\ \E v \in job[l].todo :
       LET p == job[l].prog
           m == Descend(Memory(p), v)
       IN /\ First(v, job[l].todo)
          /\ Lacks(l, v) => l \in inside
          /\ free' = m.free \cup {job[l].hand}
          /\ short' = (short \/ ~m.ok)
          /\ space' = [space EXCEPT ![p].table = m.table,
               ![p].page = IF m.ok THEN With(@, v, job[l].hand) ELSE @]
          /\ job' = [job EXCEPT ![l].pc = "page", ![l].hand = NoFrame,
               ![l].todo = @ \ {v}, ![l].flawed = @ \/ ~m.ok]
  /\ inside' = inside \ {l}
  /\ UNCHANGED <<sbrk, collided, kernelHit, shrunk, stopped>>

\* vmm_map_page_to_pml4() returns without a word when a table cannot be made:
\* the page stays unmapped and its frame is no longer known to anybody.
Put(l) ==
  /\ At(l, "put")
  /\ \E v \in job[l].todo :
       LET p == job[l].prog
           m == Descend(Memory(p), v)
       IN /\ First(v, job[l].todo)
          /\ Lacks(l, v) => l \in inside
          /\ free' = m.free
          /\ short' = (short \/ ~m.ok)
          /\ space' = [space EXCEPT ![p].table = m.table,
               ![p].page = IF m.ok THEN With(@, v, job[l].hand) ELSE @]
          /\ job' = [job EXCEPT ![l].pc = "page", ![l].hand = NoFrame,
               ![l].todo = @ \ {v}, ![l].flawed = @ \/ ~m.ok]
  /\ inside' = inside \ {l}
  /\ UNCHANGED <<sbrk, collided, kernelHit, shrunk, stopped>>

\* The next segment, or the stack.
NextArea(l) ==
  /\ At(l, "page")
  /\ job[l].todo = {} /\ job[l].seg <= Len(Segments)
  /\ job' = [job EXCEPT ![l].seg = @ + 1, ![l].todo = Area(job[l].seg + 1)]
  /\ UNCHANGED <<free, space, sbrk, inside, collided, kernelHit, short, shrunk, stopped>>

\* Everything is mapped: cli.
Mapped(l) ==
  /\ At(l, "page")
  /\ job[l].todo = {} /\ job[l].seg > Len(Segments)
  /\ job' = [job EXCEPT ![l].pc = "segment", ![l].seg = 1, ![l].ints = FALSE]
  /\ UNCHANGED <<free, space, sbrk, inside, collided, kernelHit, short, shrunk, stopped>>

\* The buffer for the part of a segment that is in the file.  kmalloc() turns
\* interrupts on, whether or not it has memory, and without a buffer the part
\* is left out; the result of reading the file into it is not looked at.
Buffer(l) ==
  LET i == job[l].seg
  IN /\ At(l, "segment")
     /\ i <= Len(Segments)
     /\ IF Segments[i].filesz = 0 THEN Goto(l, "bss")
        ELSE \/ \E read \in BOOLEAN :
                  job' = [job EXCEPT ![l].pc = "copy", ![l].ints = TRUE,
                    ![l].cr3 = "new", ![l].good = read,
                    ![l].todo = FilePages(i),
                    ![l].flawed = @ \/ ~read]
             \/ job' = [job EXCEPT ![l].pc = "bss", ![l].ints = TRUE,
                          ![l].flawed = TRUE]
     /\ UNCHANGED <<free, space, sbrk, inside, collided, kernelHit, short, shrunk, stopped>>

\* elf_clear_bss(), when there is something to clear.
Bss(l) ==
  LET i == job[l].seg
  IN /\ At(l, "bss")
     /\ job' = IF Segments[i].memsz > Segments[i].filesz
               THEN [job EXCEPT ![l].pc = "clear", ![l].cr3 = "new",
                       ![l].todo = ZeroPages(i)]
               ELSE [job EXCEPT ![l].pc = "segment", ![l].seg = @ + 1]
     /\ UNCHANGED <<free, space, sbrk, inside, collided, kernelHit, short, shrunk, stopped>>

\* memcpy() and memset() page by page, to whatever is mapped there: the
\* program's page, the kernel's memory, or nothing.
Write(l) ==
  /\ job[l].pc \in {"copy", "clear"}
  /\ \E v \in job[l].todo :
     LET p == job[l].prog
         own == job[l].cr3 = "new"
     IN /\ First(v, job[l].todo)
        /\ stopped' = (own /\ v \notin DOMAIN space[p].page)
        /\ kernelHit' = (kernelHit \/ ~own)
        /\ space' = IF own /\ job[l].good /\ At(l, "copy")
                    THEN [space EXCEPT ![p].filled = @ \cup {v}] ELSE space
        /\ job' = [job EXCEPT ![l].todo = @ \ {v}]
  /\ UNCHANGED <<free, sbrk, inside, collided, short, shrunk>>

\* write_cr3(old_cr3)
Back(l) ==
  /\ job[l].pc \in {"copy", "clear"}
  /\ job[l].todo = {}
  /\ job' = [job EXCEPT ![l].cr3 = "kernel",
       ![l].pc = IF At(l, "copy") THEN "bss" ELSE "segment",
       ![l].seg = IF At(l, "copy") THEN @ ELSE @ + 1]
  /\ UNCHANGED <<free, space, sbrk, inside, collided, kernelHit, short, shrunk, stopped>>

\* The scheduler takes the loader off the processor and, when its turn comes,
\* loads the cr3 of its process, which is the kernel's.
Preempted(l) ==
  /\ job[l].pc \in {"copy", "clear"}
  /\ job[l].ints
  /\ job[l].cr3 = "new"
  /\ job' = [job EXCEPT ![l].cr3 = "kernel", ![l].flawed = TRUE]
  /\ UNCHANGED <<free, space, sbrk, inside, collided, kernelHit, short, shrunk, stopped>>

\* The entry point decides: create_process(), or the way back.  If there is no
\* memory for the process, create_process() gives back nothing of the address
\* space, and neither does its caller: it is an orphan's.
Finish(l) ==
  /\ At(l, "segment")
  /\ job[l].seg > Len(Segments)
  /\ \/ /\ \E s \in {"live", "orphan"} :
             space' = [space EXCEPT ![job[l].prog].state = s,
                                    ![job[l].prog].flawed = job[l].flawed]
        /\ job' = [job EXCEPT ![l] = IdleJob]
     \/ Goto(l, "unload") /\ UNCHANGED space
  /\ UNCHANGED <<free, sbrk, inside, collided, kernelHit, short, shrunk, stopped>>

-----------------------------------------------------------------------------
\* A running program

\* Mutant: growth starts with the page that the break is in.
Mut_NewPagesFromBreak(old, new) == old \div 2 .. (new + 1) \div 2 - 1
\* Mutant: the page that the new break is in is left for the next call.
Mut_NewPagesShort(old, new) == (old + 1) \div 2 .. new \div 2 - 1

\* The pages between two breaks.
NewPages(old, new) == (old + 1) \div 2 .. (new + 1) \div 2 - 1

\* SYS_SBRK: a lower break unmaps nothing.
Sbrk(p, inc) ==
  LET old == space[p].brk
      new == old + inc
  IN /\ space[p].state = "live"
     /\ new \in HeapBase .. MaxBreak
     /\ IF inc > 0
        THEN /\ sbrk' = [prog |-> p, on |-> TRUE, todo |-> NewPages(old, new), to |-> new]
             /\ UNCHANGED space
        ELSE /\ space' = [space EXCEPT ![p].brk = new]
             /\ UNCHANGED sbrk
     /\ shrunk' = (shrunk \/ inc < 0)
     /\ UNCHANGED <<free, job, inside, collided, kernelHit, short, stopped>>

\* One turn of its loop: a frame, then vmm_map_user(), whose failure gives the
\* frame back and keeps the tables made so far.  A growth that fails keeps the
\* pages that it has mapped above the break, which stays.
GrowByPage ==
  /\ sbrk.on /\ inside = {}
  /\ \E v \in sbrk.todo :
       LET p == sbrk.prog
           f == Pick(free, p)
           m == Descend([Memory(p) EXCEPT !.free = @ \ {f}], v)
       IN /\ First(v, sbrk.todo)
          /\ \/ /\ free = {}
                /\ sbrk' = NoCall /\ short' = TRUE
                /\ UNCHANGED <<free, space>>
             \/ /\ free # {} /\ m.ok
                /\ free' = m.free
                /\ space' = [space EXCEPT ![p].table = m.table,
                                          ![p].page = With(@, v, f)]
                /\ sbrk' = [sbrk EXCEPT !.todo = @ \ {v}]
                /\ UNCHANGED short
             \/ /\ free # {} /\ ~m.ok
                /\ free' = m.free \cup {f}
                /\ space' = [space EXCEPT ![p].table = m.table]
                /\ sbrk' = NoCall /\ short' = TRUE
  /\ UNCHANGED <<job, inside, collided, kernelHit, shrunk, stopped>>

\* The break is set.
Grown ==
  /\ sbrk.on /\ sbrk.todo = {}
  /\ space' = [space EXCEPT ![sbrk.prog].brk = sbrk.to]
  /\ sbrk' = NoCall
  /\ UNCHANGED <<free, job, inside, collided, kernelHit, short, shrunk, stopped>>

\* SYS_EXIT and SYS_KILL leave the address space as it is.
Dies(p) ==
  /\ space[p].state = "live"
  /\ space' = [space EXCEPT ![p].state = "dead"]
  /\ UNCHANGED <<free, job, sbrk, inside, collided, kernelHit, short, shrunk, stopped>>

SpaceInit ==
  /\ free = Frames
  /\ space = [p \in Programs |-> NoSpace]
  /\ job = [l \in Loaders |-> IdleJob]
  /\ sbrk = NoCall
  /\ inside = {} /\ collided = FALSE
  /\ kernelHit = FALSE
  /\ short = FALSE /\ shrunk = FALSE /\ stopped = FALSE

LoadStep(l) ==
  \/ Enter(l) \/ BeginLoad(l) \/ FirstGigabyte(l) \/ ReadHeader(l)
  \/ AllocPage(l) \/ Put(l) \/ NextArea(l) \/ Mapped(l) \/ Buffer(l) \/ Bss(l)
  \/ Write(l) \/ Back(l) \/ Preempted(l) \/ Finish(l) \/ elf_unload_failed_pml4(l)

SpaceNext ==
  /\ ~stopped /\ ~collided
  /\ \/ /\ ~sbrk.on
        /\ \/ \E l \in Loaders : LoadStep(l)
           \/ \E p \in Programs :
                Dies(p) \/ \E inc \in Increments : Sbrk(p, inc)
     \/ GrowByPage
     \/ Grown
     \/ Overlap

SpaceSpec == SpaceInit /\ [][SpaceNext]_spaceVars

-----------------------------------------------------------------------------
\* Every place where a frame is noted, as pairs of the place and the frame.
Places ==
  (UNION {{<<p, "table", t>> : t \in DOMAIN space[p].table}
            \cup {<<p, "page", v>> : v \in DOMAIN space[p].page} : p \in Programs})
    \cup {<<l, "hand">> : l \in Loaders}

Noted(x) ==
  IF x[2] = "hand" THEN job[x[1]].hand
  ELSE IF x[2] = "page" THEN space[x[1]].page[x[3]]
  ELSE space[x[1]].table[x[3]]

\* An address space in which nobody will run: its program has ended, or has not
\* come to be.  Nothing gives its frames back.
Left(x) == x[2] # "hand" /\ space[x[1]].state \in {"dead", "orphan"}

Owned == {Noted(x) : x \in {y \in Places : ~Left(y)}} \ {NoFrame}
Stranded == {Noted(x) : x \in {y \in Places : Left(y)}} \ {NoFrame}

\* No frame is in two places: not in two programs, not twice in one, not a
\* table and a page at once, and none in use is free.  The loads, the failed
\* loads' unloading and the heaps' growth all move frames at the same time.
OneOwner ==
  /\ free \cap (Owned \cup Stranded) = {}
  /\ Cardinality(Owned \cup Stranded)
       = Cardinality({x \in Places : Noted(x) # NoFrame})

\* A program that starts has all its pages, stack included, and all that its
\* file holds, unless its load met one of the failures that elf.c passes over:
\* no frame, no buffer, an unreadable file, or the loss of the processor while
\* it was writing.
StartsWhole ==
  \A p \in Programs : space[p].state = "live" /\ ~space[p].flawed =>
    /\ StackPages \cup UNION {SegmentPages(i) : i \in DOMAIN Segments}
         \subseteq DOMAIN space[p].page
    /\ space[p].filled = UNION {FilePages(i) : i \in DOMAIN Segments}
    /\ NoFrame \notin {space[p].page[v] : v \in DOMAIN space[p].page}

\* Below a program's break every byte of its heap is mapped, whatever calls
\* have failed on the way.
BreakBacked ==
  \A p \in Programs :
    PagesOf(HeapBase, space[p].brk) \subseteq DOMAIN space[p].page

\* As long as memory has not run out and no break has been lowered, every frame
\* is free, used by a load or a program, or left behind with the address space
\* of one that has ended or whose create_process() has failed: a load that is
\* refused gives back all that it took.
NothingForgotten == Frames = free \cup Owned \cup Stranded \/ short \/ shrunk

\* The frames of programs: each is somewhere, and in one place only, until two
\* calls of the page allocator overlap.
FramesAccounted == collided \/ (OneOwner /\ NothingForgotten)

\* The pages of programs: all that the file asks for, and all of the heap.
ProgramsBacked == StartsWhole /\ BreakBacked

\* A growing heap leaves the pages under the old break alone: what a program
\* has stored there, also in the page that the break is in, stays.
KeepsHeap ==
  [][\A p \in Programs : space[p].state = "live" =>
       \A v \in PagesOf(HeapBase, space[p].brk) :
         space'[p].page[v] = space[p].page[v]]_spaceVars

\* "Desativamos interrupcoes para que o scheduler nao interrompa a troca de CR3"
\* (include/elf.c, line 107): while a program's pages are written its address
\* space stays selected, so that a load writes nothing to the kernel's.
CopyUninterrupted == ~kernelHit
=============================================================================
