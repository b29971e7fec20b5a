------------------------ MODULE ProgramMemoryProofs -------------------------
(***************************************************************************)
(* Proofs about the memory of programs.                                    *)
(*                                                                         *)
(* First their address spaces, for any loaders, programs, frames, segments *)
(* and calls of SYS_SBRK: SpaceInv says where the frames are, how far each *)
(* load has come and what is mapped below each break.  FramesAccounted,    *)
(* ProgramsBacked and KeepsHeap follow.                                    *)
(*                                                                         *)
(* Then the heap that malloc() keeps inside one of them, for any sizes of  *)
(* header, remainder, chunk and heap, and any requests.  Linked says what  *)
(* makes cutting, absorbing and extending right; Outcome says what a call  *)
(* does to the blocks that the program holds.  UserListTiles and           *)
(* RegionsKept follow from the two.                                        *)
(***************************************************************************)
EXTENDS AddressSpace, UserHeap, FiniteSetTheorems, WellFoundedInduction, TLAPS

-----------------------------------------------------------------------------
\* The invariant: types

Names == {"pml4", "pdpt", "pd", "code_pt", "stack_pt", "heap_pdpt", "heap_pd", "heap_pt"}
HeapNames == {"heap_pdpt", "heap_pd", "heap_pt"}
Tables == UNION {[D -> Frames] : D \in SUBSET Names}
Pages == UNION {[D -> Frames \cup {NoFrame}] : D \in SUBSET Nat}

Space == [state : {"none", "loading", "live", "dead", "refused", "orphan"},
          table : Tables, page : Pages, filled : SUBSET Nat, brk : Nat, flawed : BOOLEAN]
Job == [pc : {"idle", "pdpt", "pd", "header", "page", "put", "segment", "copy", "bss", "clear",
              "unload"},
        prog : Programs \cup {0}, hand : Frames \cup {NoFrame}, todo : SUBSET Nat,
        seg : Nat, cr3 : {"kernel", "new"}, ints : BOOLEAN, good : BOOLEAN,
        flawed : BOOLEAN]
Call == [prog : Programs \cup {0}, on : BOOLEAN, todo : SUBSET Nat, to : Nat]

SpaceTypes ==
  /\ free \subseteq Frames
  /\ space \in [Programs -> Space] /\ job \in [Loaders -> Job] /\ sbrk \in Call
  /\ short \in BOOLEAN /\ shrunk \in BOOLEAN

-----------------------------------------------------------------------------
\* The invariant: frames

\* The frames of an address space.
Own(s) == {s.table[t] : t \in DOMAIN s.table}
            \cup ({s.page[v] : v \in DOMAIN s.page} \ {NoFrame})

\* None of them is in two of its places.
Once(s) ==
  /\ \A t, u \in DOMAIN s.table : s.table[t] = s.table[u] => t = u
  /\ \A v, w \in DOMAIN s.page : s.page[v] = s.page[w] /\ s.page[v] # NoFrame => v = w
  /\ \A t \in DOMAIN s.table : \A v \in DOMAIN s.page : s.table[t] # s.page[v]

\* None is in two address spaces, or in one and in a loader's hand, or free.
FramesApart ==
  /\ \A p \in Programs : Once(space[p]) /\ Own(space[p]) \cap free = {}
  /\ \A p, q \in Programs : p # q => Own(space[p]) \cap Own(space[q]) = {}
  /\ \A l \in Loaders : job[l].hand \notin free
  /\ \A l \in Loaders : \A p \in Programs : job[l].hand \notin Own(space[p])
  /\ \A k, l \in Loaders : job[k].hand = job[l].hand /\ job[k].hand # NoFrame => k = l

\* None is forgotten, until memory has run out or a break has been lowered.
Found(f) == \/ f \in free
            \/ \E p \in Programs : f \in Own(space[p])
            \/ \E l \in Loaders : job[l].hand = f
AllFound == short \/ shrunk \/ \A f \in Frames : Found(f)

-----------------------------------------------------------------------------
\* The invariant: loads

Areas == UNION {Area(i) : i \in 1 .. Len(Segments) + 1}

\* The pages that a load has been through.
Through(j) == (UNION {Area(i) : i \in 1 .. j.seg}) \ j.todo

\* Their contents that come from the file.
Contents(j) == UNION {FilePages(i) : i \in 1 .. j.seg - 1}

Unmapped == {"pdpt", "pd", "header"}

\* What is mapped, and what is filled, at each place of a load that has met no
\* failure; what may be mapped, in any load.
LoadInv(l) ==
  LET j == job[l]
      s == space[j.prog]
  IN /\ j.pc # "put" => j.hand = NoFrame
     /\ j.pc # "idle" => j.prog \in Programs /\ s.state = "loading"
     /\ j.pc = "pdpt" => DOMAIN s.table = {"pml4"}
     /\ j.pc = "pd" => DOMAIN s.table = {"pml4", "pdpt"}
     /\ j.pc \in Unmapped => DOMAIN s.page = {} /\ s.filled = {} /\ j.seg = 1
     /\ j.pc \in {"page", "put"} =>
          /\ j.seg \in 1 .. Len(Segments) + 1 /\ j.todo \subseteq Area(j.seg)
          /\ DOMAIN s.page \subseteq Through(j) /\ s.filled = {}
          /\ ~j.flawed => Through(j) \subseteq DOMAIN s.page
     /\ j.pc = "put" /\ ~j.flawed => j.hand # NoFrame
     /\ j.pc # "idle" /\ ~j.flawed => \A v \in DOMAIN s.page : s.page[v] # NoFrame
     /\ j.pc \in {"segment", "copy", "bss", "clear"} =>
          /\ j.seg \in 1 .. Len(Segments) + 1
          /\ j.pc # "segment" => j.seg <= Len(Segments)
          /\ ~j.flawed => Areas \subseteq DOMAIN s.page
     /\ j.pc = "segment" /\ ~j.flawed => s.filled = Contents(j)
     /\ j.pc = "copy" =>
          /\ j.todo \subseteq FilePages(j.seg)
          /\ ~j.flawed => /\ j.good /\ (j.todo # {} => j.cr3 = "new")
                          /\ s.filled = Contents(j) \cup (FilePages(j.seg) \ j.todo)
     /\ j.pc \in {"bss", "clear"} /\ ~j.flawed =>
          s.filled = Contents(j) \cup FilePages(j.seg)

\* No two loaders load one program.
LoadsApart ==
  \A k, l \in Loaders :
    job[k].pc # "idle" /\ job[l].pc # "idle" /\ job[k].prog = job[l].prog => k = l

-----------------------------------------------------------------------------
\* The invariant: programs

Below(brk) == (brk + 1) \div 2

\* A program that has not started has no heap.  Under the break everything is
\* mapped; above it nothing, as long as no break has been lowered and no growth
\* has failed.
ProgramInv(p) ==
  LET s == space[p]
  IN /\ s.state = "none" => DOMAIN s.table = {} /\ DOMAIN s.page = {}
     /\ s.state \notin {"live", "dead"} => s.brk = HeapBase
     /\ s.state = "loading" =>
          /\ \A t \in DOMAIN s.table : t \notin HeapNames
          /\ \A v \in DOMAIN s.page : ~HeapPage(v)
     /\ s.state = "live" /\ ~s.flawed =>
          /\ Areas \subseteq DOMAIN s.page /\ s.filled = Contents([seg |-> Len(Segments) + 1])
          /\ \A v \in DOMAIN s.page : s.page[v] # NoFrame
     /\ s.brk >= HeapBase
     /\ PagesOf(HeapBase, s.brk) \subseteq DOMAIN s.page
     /\ short \/ shrunk \/ \A v \in DOMAIN s.page : HeapPage(v) =>
          \/ v < Below(s.brk)
          \/ sbrk.on /\ sbrk.prog = p /\ v \in NewPages(s.brk, sbrk.to) \ sbrk.todo

\* A growth goes from the break up.
GrowthInv ==
  sbrk.on =>
    /\ sbrk.prog \in Programs /\ space[sbrk.prog].state = "live"
    /\ sbrk.to > space[sbrk.prog].brk
    /\ sbrk.todo \subseteq NewPages(space[sbrk.prog].brk, sbrk.to)
    /\ NewPages(space[sbrk.prog].brk, sbrk.to) \ sbrk.todo
         \subseteq DOMAIN space[sbrk.prog].page

SpaceInv ==
  /\ SpaceTypes /\ FramesApart /\ AllFound /\ LoadsApart
  /\ (stopped \/ \A l \in Loaders : LoadInv(l))
  /\ \A p \in Programs : ProgramInv(p)
  /\ GrowthInv

-----------------------------------------------------------------------------
\* Functions with one more value

LEMMA WithFacts ==
  ASSUME NEW g, NEW x, NEW f
  PROVE  /\ DOMAIN With(g, x, f) = DOMAIN g \cup {x}
         /\ With(g, x, f)[x] = f
         /\ \A y \in DOMAIN g : y # x => With(g, x, f)[y] = g[y]
  BY DEF With

LEMMA TableFacts ==
  ASSUME NEW g, g \in Tables
  PROVE  /\ DOMAIN g \subseteq Names /\ \A t \in DOMAIN g : g[t] \in Frames
         /\ \A t \in Names, f \in Frames : With(g, t, f) \in Tables
<1>1. PICK D \in SUBSET Names : g \in [D -> Frames]
  BY DEF Tables
<1>2. ASSUME NEW t \in Names, NEW f \in Frames PROVE With(g, t, f) \in Tables
  <2>1. With(g, t, f) \in [D \cup {t} -> Frames]
    BY <1>1 DEF With
  <2> QED BY <2>1 DEF Tables
<1> QED BY <1>1, <1>2

LEMMA PageFacts ==
  ASSUME NEW g, g \in Pages
  PROVE  /\ DOMAIN g \subseteq Nat /\ \A v \in DOMAIN g : g[v] \in Frames \cup {NoFrame}
         /\ \A v \in Nat, f \in Frames \cup {NoFrame} : With(g, v, f) \in Pages
<1>1. PICK D \in SUBSET Nat : g \in [D -> Frames \cup {NoFrame}]
  BY DEF Pages
<1>2. ASSUME NEW v \in Nat, NEW f \in Frames \cup {NoFrame} PROVE With(g, v, f) \in Pages
  <2>1. With(g, v, f) \in [D \cup {v} -> Frames \cup {NoFrame}]
    BY <1>1 DEF With
  <2> QED BY <2>1 DEF Pages
<1> QED BY <1>1, <1>2

LEMMA EmptyFacts ==
  /\ DOMAIN Empty = {} /\ Empty \in Tables /\ Empty \in Pages
<1>1. Empty \in [{} -> Frames] /\ Empty \in [{} -> Frames \cup {NoFrame}]
  BY DEF Empty
<1> QED BY <1>1 DEF Tables, Pages

\* 0 is no frame, and a frame that is picked is one of the free ones.
LEMMA FrameFacts ==
  /\ NoFrame \notin Frames
  /\ \A S \in SUBSET Frames : \A p \in Programs : S # {} => Pick(S, p) \in S
  BY SpaceAssumption DEF NoFrame

-----------------------------------------------------------------------------
\* The frames of an address space

\* A table more.
LEMMA OwnTableMore ==
  ASSUME NEW s, s.table \in Tables, s.page \in Pages, NEW r, NEW t \in Names, NEW f \in Frames,
         t \notin DOMAIN s.table, f \notin Own(s), Once(s),
         r.table = With(s.table, t, f), r.page = s.page
  PROVE  Own(r) = Own(s) \cup {f} /\ Once(r)
<1>2. /\ DOMAIN r.table = DOMAIN s.table \cup {t} /\ r.table[t] = f
      /\ \A y \in DOMAIN s.table : r.table[y] = s.table[y]
  BY DEF With
<1>3. Own(r) = Own(s) \cup {f}
  BY <1>2, FrameFacts DEF Own
<1>4. \A y \in DOMAIN s.table : s.table[y] # f
  BY DEF Own
<1>5. \A v \in DOMAIN s.page : s.page[v] # f
  BY FrameFacts DEF Own
<1>6. Once(r)
  BY <1>2, <1>4, <1>5 DEF Once
<1> QED BY <1>3, <1>6

\* A page more; f may be no frame.
LEMMA OwnPageMore ==
  ASSUME NEW s, s.table \in Tables, s.page \in Pages, NEW r, NEW v \in Nat,
         NEW f \in Frames \cup {NoFrame}, f \notin Own(s), Once(s),
         r.page = With(s.page, v, f), r.table = s.table
  PROVE  /\ Own(r) \subseteq Own(s) \cup {f} /\ Once(r) /\ (f # NoFrame => f \in Own(r))
         /\ NoFrame \notin Own(r)
         /\ v \notin DOMAIN s.page => Own(r) = Own(s) \cup ({f} \ {NoFrame})
<1>1. /\ DOMAIN r.page = DOMAIN s.page \cup {v} /\ r.page[v] = f
      /\ \A y \in DOMAIN s.page : y # v => r.page[y] = s.page[y]
  BY DEF With
<1>2. \A t \in DOMAIN s.table : s.table[t] \in Frames /\ s.table[t] # f
  BY TableFacts DEF Own
<1>3. \A y \in DOMAIN s.page : s.page[y] # NoFrame => s.page[y] # f
  BY DEF Own
<1>4. Own(r) \subseteq Own(s) \cup {f} /\ (f # NoFrame => f \in Own(r))
  BY <1>1 DEF Own
<1>5. v \notin DOMAIN s.page => Own(r) = Own(s) \cup ({f} \ {NoFrame})
  BY <1>1 DEF Own
<1>6. Once(r)
  BY <1>1, <1>2, <1>3, FrameFacts DEF Once
<1>7. NoFrame \notin Own(r)
  BY <1>2, FrameFacts DEF Own
<1> QED BY <1>4, <1>5, <1>6, <1>7

\* Only the tables and the pages matter.
LEMMA OwnSame ==
  ASSUME NEW s, NEW r, r.table = s.table, r.page = s.page
  PROVE  Own(r) = Own(s) /\ (Once(r) <=> Once(s))
  BY DEF Own, Once

-----------------------------------------------------------------------------
\* Walks

Walks == [prog : Programs, free : SUBSET Frames, table : Tables, page : Pages, ok : BOOLEAN]

\* A walk of which no frame is in two places.
Clean(m) == Once(m) /\ Own(m) \cap m.free = {}

\* A walk has come from m to d, making tables among T out of free frames.
Walked(m, d, T) ==
  /\ d \in Walks /\ Clean(d)
  /\ d.prog = m.prog /\ d.page = m.page
  /\ d.free \subseteq m.free
  /\ Own(d) \cup d.free = Own(m) \cup m.free
  /\ DOMAIN m.table \subseteq DOMAIN d.table
  /\ DOMAIN d.table \subseteq DOMAIN m.table \cup T

LEMMA NextTableWalked ==
  ASSUME NEW m \in Walks, NEW t \in Names, Clean(m)
  PROVE  Walked(m, NextTable(m, t), {t})
<1>1. CASE t \in DOMAIN m.table
  BY <1>1 DEF NextTable, Walked
<1>2. CASE t \notin DOMAIN m.table /\ (m.free = {} \/ ~m.ok)
  <2> DEFINE d == NextTable(m, t)
  <2>1. d = [m EXCEPT !.ok = FALSE]
    BY <1>2 DEF NextTable
  <2>2. d \in Walks /\ d.table = m.table /\ d.page = m.page /\ d.free = m.free /\ d.prog = m.prog
    BY <2>1 DEF Walks
  <2>3. Own(d) = Own(m) /\ Once(d)
    BY <2>2, OwnSame DEF Clean
  <2> QED BY <2>2, <2>3 DEF Walked, Clean
<1>3. CASE t \notin DOMAIN m.table /\ m.free # {} /\ m.ok
  <2> DEFINE d == NextTable(m, t)
             f == Pick(m.free, m.prog)
  <2>1. f \in m.free /\ f \in Frames
    BY <1>3, FrameFacts DEF Walks
  <2>2. d = [m EXCEPT !.free = @ \ {f}, !.table = With(@, t, f)]
    BY <1>3 DEF NextTable
  <2>3. m.table \in Tables
    BY DEF Walks
  <2>4. With(m.table, t, f) \in Tables
    BY <2>1, <2>3, TableFacts
  <2> HIDE DEF f
  <2>5. /\ d.table = With(m.table, t, f) /\ d.free = m.free \ {f}
        /\ d.page = m.page /\ d.prog = m.prog /\ d.ok = m.ok
    BY <2>2 DEF Walks
  <2>6. d \in Walks
    BY <2>2, <2>4 DEF Walks
  <2> HIDE DEF d
  <2>7. f \notin Own(m)
    BY <2>1 DEF Clean
  <2>8. Own(d) = Own(m) \cup {f} /\ Once(d)
    BY <1>3, <2>1, <2>5, <2>7, OwnTableMore DEF Clean, Walks
  <2>9. DOMAIN d.table = DOMAIN m.table \cup {t}
    BY <2>5 DEF With
  <2>10. Clean(d)
    BY <2>5, <2>8 DEF Clean
  <2> QED BY <2>1, <2>5, <2>6, <2>8, <2>9, <2>10 DEF Walked, d
<1> QED BY <1>1, <1>2, <1>3

LEMMA WalkedOn ==
  ASSUME NEW m, NEW c, NEW d, NEW S, NEW T, Walked(m, c, S), Walked(c, d, T)
  PROVE  Walked(m, d, S \cup T)
  BY DEF Walked

LEMMA DescendWalked ==
  ASSUME NEW m \in Walks, NEW v \in Nat, Clean(m)
  PROVE  Walked(m, Descend(m, v), IF HeapPage(v) THEN HeapNames ELSE Names \ HeapNames)
<1>1. CASE HeapPage(v)
  <2> DEFINE a == NextTable(m, "heap_pdpt")
             b == NextTable(a, "heap_pd")
             c == NextTable(b, "heap_pt")
  <2>1. Walked(m, a, {"heap_pdpt"})
    BY NextTableWalked DEF Names
  <2> HIDE DEF a
  <2>2. Walked(a, b, {"heap_pd"})
    BY <2>1, NextTableWalked DEF Names, Walked
  <2> HIDE DEF b
  <2>3. Walked(b, c, {"heap_pt"})
    BY <2>2, NextTableWalked DEF Names, Walked
  <2>4. c = Descend(m, v)
    BY <1>1 DEF Descend, a, b
  <2> HIDE DEF c
  <2>5. Walked(m, c, {"heap_pdpt"} \cup {"heap_pd"} \cup {"heap_pt"})
    BY <2>1, <2>2, <2>3, WalkedOn
  <2> QED BY <1>1, <2>4, <2>5 DEF HeapNames, Walked
<1>2. CASE ~HeapPage(v)
  <2> DEFINE t == IF v \in StackPages THEN "stack_pt" ELSE "code_pt"
  <2>1. t \in Names /\ t \in Names \ HeapNames
    BY DEF Names, HeapNames
  <2>2. Descend(m, v) = NextTable(m, t)
    BY <1>2 DEF Descend, TableName
  <2> HIDE DEF t
  <2>3. Walked(m, Descend(m, v), {t})
    BY <2>1, <2>2, NextTableWalked
  <2> QED BY <1>2, <2>1, <2>3 DEF Walked
<1> QED BY <1>1, <1>2

-----------------------------------------------------------------------------
\* What a step leaves alone

\* An address space, and its parts.
LEMMA SpaceParts ==
  ASSUME SpaceTypes, NEW p \in Programs
  PROVE  /\ space[p] \in Space /\ space[p].table \in Tables /\ space[p].page \in Pages
         /\ DOMAIN space[p].table \subseteq Names /\ DOMAIN space[p].page \subseteq Nat
         /\ Own(space[p]) \subseteq Frames
<1>1. space[p] \in Space
  BY DEF SpaceTypes
<1>2. space[p].table \in Tables /\ space[p].page \in Pages
  BY <1>1 DEF Space
<1>3. Own(space[p]) \subseteq Frames
  BY <1>2, TableFacts, PageFacts DEF Own
<1> QED BY <1>1, <1>2, <1>3, TableFacts, PageFacts

\* The step gives p the frames of r, out of its own and the free ones.
LEMMA FramesTraded ==
  ASSUME SpaceTypes, FramesApart, AllFound, NEW p \in Programs,
         \A q \in Programs : q # p => space'[q] = space[q],
         \A l \in Loaders : job'[l].hand = job[l].hand,
         Once(space'[p]), Own(space'[p]) \cap free' = {},
         Own(space'[p]) \cup free' \subseteq Own(space[p]) \cup free,
         short => short', shrunk => shrunk',
         short' \/ shrunk' \/ Own(space[p]) \cup free \subseteq Own(space'[p]) \cup free'
  PROVE  FramesApart' /\ AllFound'
<1>1. \A q \in Programs : Once(space[q]) /\ Own(space[q]) \cap free = {}
  BY DEF FramesApart
<1>2. \A q, r \in Programs : q # r => Own(space[q]) \cap Own(space[r]) = {}
  BY DEF FramesApart
<1>3. \A l \in Loaders : job[l].hand \notin free
  BY DEF FramesApart
<1>4. \A l \in Loaders : \A q \in Programs : job[l].hand \notin Own(space[q])
  BY DEF FramesApart
<1>5. \A q \in Programs : q # p => Own(space'[q]) = Own(space[q]) /\ Once(space'[q])
  BY <1>1
<1>6. \A q \in Programs : Once(space'[q]) /\ Own(space'[q]) \cap free' = {}
  BY <1>1, <1>2, <1>5
<1>7. \A q, r \in Programs : q # r => Own(space'[q]) \cap Own(space'[r]) = {}
  BY <1>1, <1>2, <1>5
<1>8. \A l \in Loaders : job'[l].hand \notin free'
  BY <1>3, <1>4
<1>9. \A l \in Loaders : \A q \in Programs : job'[l].hand \notin Own(space'[q])
  BY <1>3, <1>4, <1>5
<1>10. \A k, l \in Loaders : job'[k].hand = job'[l].hand /\ job'[k].hand # NoFrame => k = l
  BY DEF FramesApart
<1>11. FramesApart'
  BY <1>6, <1>7, <1>8, <1>9, <1>10 DEF FramesApart
<1>12. ASSUME ~short', ~shrunk', NEW f \in Frames PROVE Found(f)'
  <2>1. f \in free \/ (\E q \in Programs : f \in Own(space[q])) \/ \E l \in Loaders : job[l].hand = f
    BY <1>12 DEF AllFound, Found
  <2>2. CASE f \in free \/ f \in Own(space[p])
    BY <1>12, <2>2 DEF Found
  <2>3. CASE \E q \in Programs : q # p /\ f \in Own(space[q])
    BY <1>5, <2>3 DEF Found
  <2>4. CASE \E l \in Loaders : job[l].hand = f
    BY <2>4 DEF Found
  <2> QED BY <2>1, <2>2, <2>3, <2>4
<1>13. AllFound'
  BY <1>12 DEF AllFound
<1> QED BY <1>11, <1>13

\* No step of the others' frames.
LEMMA FramesKept ==
  ASSUME FramesApart, AllFound, free' = free,
         \A q \in Programs : space'[q].table = space[q].table /\ space'[q].page = space[q].page,
         \A l \in Loaders : job'[l].hand = job[l].hand,
         short => short', shrunk => shrunk'
  PROVE  FramesApart' /\ AllFound'
<1>1. \A q \in Programs : Own(space'[q]) = Own(space[q]) /\ (Once(space'[q]) <=> Once(space[q]))
  BY OwnSame
<1>2. FramesApart'
  BY <1>1 DEF FramesApart
<1>3. \A f : Found(f) => Found(f)'
  BY <1>1 DEF Found
<1>4. AllFound'
  BY <1>3 DEF AllFound
<1> QED BY <1>2, <1>4

\* A load goes on, or stays idle, where it was.
LEMMA LoadKept ==
  ASSUME NEW k \in Loaders, LoadInv(k), job'[k] = job[k],
         job[k].pc # "idle" => space'[job[k].prog] = space[job[k].prog]
  PROVE  LoadInv(k)'
  BY DEF LoadInv, Unmapped

\* A program stays as it was.
LEMMA ProgramKept ==
  ASSUME NEW p \in Programs, ProgramInv(p), sbrk' = sbrk \/ ~(sbrk.on /\ sbrk.prog = p),
         space'[p].state = space[p].state, space'[p].table = space[p].table,
         space'[p].page = space[p].page, space'[p].filled = space[p].filled,
         space'[p].brk = space[p].brk, space'[p].flawed = space[p].flawed,
         short => short', shrunk => shrunk'
  PROVE  ProgramInv(p)'
  BY DEF ProgramInv

\* The break of a program, once it has one.
LEMMA GrowthKept ==
  ASSUME GrowthInv, sbrk' = sbrk,
         sbrk.on => /\ space'[sbrk.prog].brk = space[sbrk.prog].brk
                    /\ space'[sbrk.prog].state = space[sbrk.prog].state
                    /\ DOMAIN space[sbrk.prog].page \subseteq DOMAIN space'[sbrk.prog].page
  PROVE  GrowthInv'
  BY DEF GrowthInv

\* No loader has come to a program that another has.
LEMMA ApartKept ==
  ASSUME LoadsApart, NEW l \in Loaders, \A k \in Loaders : k # l => job'[k] = job[k],
         job'[l].pc = "idle" \/ (job[l].pc # "idle" /\ job'[l].prog = job[l].prog)
  PROVE  LoadsApart'
  BY DEF LoadsApart

\* Steps of a load that concern nothing else.
LEMMA LoadOnly ==
  ASSUME SpaceInv, ~stopped, NEW l \in Loaders, job[l].pc # "idle",
         job' \in [Loaders -> Job], \A k \in Loaders : k # l => job'[k] = job[k],
         job'[l].hand = job[l].hand, job'[l].prog = job[l].prog,
         UNCHANGED <<free, space, sbrk, short, shrunk>>, stopped' \/ LoadInv(l)'
  PROVE  SpaceInv'
<1>1. SpaceTypes'
  BY DEF SpaceInv, SpaceTypes
<1>2. FramesApart' /\ AllFound'
  BY FramesKept DEF SpaceInv
<1>3. LoadsApart'
  BY ApartKept DEF SpaceInv
<1>4. stopped' \/ \A k \in Loaders : LoadInv(k)'
  BY LoadKept DEF SpaceInv
<1>5. \A p \in Programs : ProgramInv(p)'
  BY ProgramKept DEF SpaceInv
<1>6. GrowthInv'
  BY GrowthKept DEF SpaceInv
<1> QED BY <1>1, <1>2, <1>3, <1>4, <1>5, <1>6 DEF SpaceInv

-----------------------------------------------------------------------------
\* Pages

LEMMA SegmentFacts ==
  /\ Len(Segments) \in Nat /\ DOMAIN Segments = 1 .. Len(Segments)
  /\ \A i \in 1 .. Len(Segments) :
       /\ Segments[i].vaddr \in Nat /\ Segments[i].filesz \in Nat /\ Segments[i].memsz \in Nat
       /\ SegmentPages(i) \subseteq Nat /\ FilePages(i) \subseteq Nat /\ ZeroPages(i) \subseteq Nat
<1>1. Len(Segments) \in Nat /\ DOMAIN Segments = 1 .. Len(Segments)
  BY SpaceAssumption
<1>2. ASSUME NEW i \in 1 .. Len(Segments)
      PROVE  Segments[i].vaddr \in Nat /\ Segments[i].filesz \in Nat /\ Segments[i].memsz \in Nat
  <2> DEFINE Header == [vaddr : Nat, filesz : Nat, memsz : Nat]
  <2>1. Segments \in Seq(Header)
    BY SpaceAssumption
  <2>2. Segments[i] \in Header
    <3> HIDE DEF Header
    <3> QED BY <2>1
  <2> QED BY <2>2
<1>3. \A m, n \in Nat : PagesOf(m, n) \subseteq Nat
  BY DEF PagesOf
<1>4. ASSUME NEW i \in 1 .. Len(Segments)
      PROVE  SegmentPages(i) \subseteq Nat /\ FilePages(i) \subseteq Nat /\ ZeroPages(i) \subseteq Nat
  <2>1. Segments[i].vaddr + Segments[i].memsz \in Nat /\ Segments[i].vaddr + Segments[i].filesz \in Nat
    BY <1>2
  <2> QED BY <1>2, <1>3, <2>1 DEF SegmentPages, FilePages, ZeroPages
<1> QED BY <1>1, <1>2, <1>4

LEMMA AreaFacts ==
  \A i \in 1 .. Len(Segments) + 1 :
    /\ Area(i) \subseteq Nat
    /\ \A v \in Area(i) : ~HeapPage(v) /\ \A k \in 1 .. i - 1 : v \notin Area(k)
<1>1. ASSUME NEW i \in 1 .. Len(Segments)
      PROVE  /\ SegmentPages(i) \subseteq Nat
             /\ \A v \in SegmentPages(i) : ~HeapPage(v) /\ v \notin StackPages
             /\ \A k \in 1 .. Len(Segments) : k # i => SegmentPages(i) \cap SegmentPages(k) = {}
  <2>1. /\ SegmentPages(i) \subseteq OwnPages \ StackPages
        /\ \A k \in DOMAIN Segments : k # i => SegmentPages(i) \cap SegmentPages(k) = {}
    BY SegmentFacts, SpaceAssumption
  <2>2. \A v \in OwnPages : ~HeapPage(v)
    BY SpaceAssumption
  <2> HIDE DEF HeapPage
  <2> QED BY <2>1, <2>2, SegmentFacts
<1>2. StackPages \subseteq Nat /\ \A v \in StackPages : ~HeapPage(v)
  BY SpaceAssumption
<1>3. ASSUME NEW i \in 1 .. Len(Segments) + 1 PROVE Area(i) \subseteq Nat /\ \A v \in Area(i) : ~HeapPage(v)
  <2>1. CASE i \in 1 .. Len(Segments)
    BY <1>1, <2>1 DEF Area
  <2>2. CASE ~(i <= Len(Segments))
    BY <1>2, <2>2 DEF Area
  <2> QED BY <2>1, <2>2, SegmentFacts
<1>4. ASSUME NEW i \in 1 .. Len(Segments) + 1, NEW v \in Area(i), NEW k \in 1 .. i - 1
      PROVE  v \notin Area(k)
  <2>1. k \in 1 .. Len(Segments) /\ k # i /\ k <= Len(Segments)
    BY SegmentFacts
  <2>2. CASE i <= Len(Segments)
    BY <1>1, <2>1, <2>2, SegmentFacts DEF Area
  <2>3. CASE ~(i <= Len(Segments))
    BY <1>1, <2>1, <2>3, SegmentFacts DEF Area
  <2> QED BY <2>2, <2>3
<1> QED BY <1>3, <1>4

LEMMA ThroughIs ==
  ASSUME NEW v, NEW j
  PROVE  v \in Through(j) <=> v \notin j.todo /\ \E i \in 1 .. j.seg : v \in Area(i)
<1> DEFINE U == UNION {Area(i) : i \in 1 .. j.seg}
<1>1. v \in U <=> \E i \in 1 .. j.seg : v \in Area(i)
  OBVIOUS
<1>2. Through(j) = U \ j.todo
  BY DEF Through
<1> HIDE DEF U
<1> QED BY <1>1, <1>2

-----------------------------------------------------------------------------
\* The steps of a load that touch its own record only

LEMMA HeaderGood ==
  ASSUME SpaceInv, ~stopped, NEW l \in Loaders, At(l, "header"),
         job' = [job EXCEPT ![l].pc = "page", ![l].todo = Area(1)],
         UNCHANGED <<free, space, sbrk, short, shrunk, stopped>>
  PROVE  SpaceInv'
<1>1. job[l] \in Job /\ LoadInv(l) /\ job[l].pc = "header"
  BY DEF SpaceInv, SpaceTypes, At
<1>2. Area(1) \subseteq Nat /\ 1 \in 1 .. Len(Segments) + 1
  BY AreaFacts, SegmentFacts
<1>3. /\ job'[l].pc = "page" /\ job'[l].todo = Area(1) /\ job'[l].hand = job[l].hand
      /\ job'[l].prog = job[l].prog /\ job'[l].seg = job[l].seg /\ job'[l].flawed = job[l].flawed
      /\ \A k \in Loaders : k # l => job'[k] = job[k]
  BY DEF SpaceInv, SpaceTypes, Job
<1>4. job' \in [Loaders -> Job]
  BY <1>1, <1>2 DEF SpaceInv, SpaceTypes, Job
<1>5. /\ job[l].seg = 1 /\ job[l].hand = NoFrame /\ job[l].prog \in Programs
      /\ space[job[l].prog].state = "loading" /\ DOMAIN space[job[l].prog].page = {}
      /\ space[job[l].prog].filled = {}
  BY <1>1 DEF LoadInv, Unmapped
<1>6. Through(job'[l]) = {}
  <2>1. job'[l].seg = 1
    BY <1>3, <1>5
  <2>2. \A i \in 1 .. 1 : i = 1
    OBVIOUS
  <2>3. ASSUME NEW v PROVE v \notin Through(job'[l])
    <3>1. v \notin job'[l].todo => ~ \E i \in 1 .. job'[l].seg : v \in Area(i)
      BY <1>3, <2>1, <2>2
    <3> QED BY <3>1, ThroughIs
  <2> QED BY <2>3
<1>7. LoadInv(l)'
  BY <1>2, <1>3, <1>5, <1>6 DEF LoadInv, Unmapped
<1> QED BY <1>1, <1>3, <1>4, <1>7, LoadOnly

\* The way back is taken.
LEMMA ToUnload ==
  ASSUME SpaceInv, ~stopped, NEW l \in Loaders, job[l].pc \in {"header", "segment"},
         Goto(l, "unload"), UNCHANGED <<free, space, sbrk, short, shrunk, stopped>>
  PROVE  SpaceInv'
<1>1. job[l] \in Job /\ LoadInv(l)
  BY DEF SpaceInv, SpaceTypes
<1>2. /\ job[l].hand = NoFrame /\ job[l].prog \in Programs
      /\ space[job[l].prog].state = "loading"
      /\ ~job[l].flawed => \A v \in DOMAIN space[job[l].prog].page : space[job[l].prog].page[v] # NoFrame
  BY <1>1 DEF LoadInv
<1>3. /\ job'[l].pc = "unload" /\ job'[l].hand = job[l].hand /\ job'[l].prog = job[l].prog
      /\ job'[l].flawed = job[l].flawed
      /\ \A k \in Loaders : k # l => job'[k] = job[k]
  BY <1>1 DEF Goto, SpaceInv, SpaceTypes, Job
<1>4. job' \in [Loaders -> Job]
  <2>1. [job[l] EXCEPT !.pc = "unload"] \in Job
    BY <1>1 DEF Job
  <2> QED BY <2>1 DEF Goto, SpaceInv, SpaceTypes
<1>5. LoadInv(l)'
  BY <1>2, <1>3 DEF LoadInv, Unmapped
<1> QED BY <1>3, <1>4, <1>5, LoadOnly

\* The program headers are not there: nothing is followed any more.
LEMMA HeaderBad ==
  ASSUME SpaceInv, ~stopped, NEW l \in Loaders, At(l, "header"),
         Goto(l, "page"), stopped' = TRUE, UNCHANGED <<free, space, sbrk, short, shrunk>>
  PROVE  SpaceInv'
<1>1. job[l] \in Job /\ job[l].pc = "header"
  BY DEF SpaceInv, SpaceTypes, At
<1>2. /\ job'[l].hand = job[l].hand /\ job'[l].prog = job[l].prog
      /\ \A k \in Loaders : k # l => job'[k] = job[k]
  BY <1>1 DEF Goto, SpaceInv, SpaceTypes, Job
<1>3. job' \in [Loaders -> Job]
  <2>1. [job[l] EXCEPT !.pc = "page"] \in Job
    BY <1>1 DEF Job
  <2> QED BY <2>1 DEF Goto, SpaceInv, SpaceTypes
<1> QED BY <1>1, <1>2, <1>3, LoadOnly

LEMMA NextAreaKeeps ==
  ASSUME SpaceInv, ~stopped, NEW l \in Loaders, NextArea(l)
  PROVE  SpaceInv'
<1>1. job[l] \in Job /\ LoadInv(l) /\ job[l].pc = "page" /\ job[l].todo = {}
  BY DEF SpaceInv, SpaceTypes, At, NextArea
<1>2. /\ job[l].seg \in 1 .. Len(Segments) + 1 /\ job[l].seg <= Len(Segments)
      /\ job[l].hand = NoFrame /\ job[l].prog \in Programs
      /\ space[job[l].prog].state = "loading" /\ space[job[l].prog].filled = {}
      /\ DOMAIN space[job[l].prog].page \subseteq Through(job[l])
      /\ ~job[l].flawed => Through(job[l]) \subseteq DOMAIN space[job[l].prog].page
      /\ ~job[l].flawed => \A v \in DOMAIN space[job[l].prog].page : space[job[l].prog].page[v] # NoFrame
  BY <1>1 DEF LoadInv, NextArea
<1>3. job[l].seg + 1 \in 1 .. Len(Segments) + 1
  BY <1>2, SegmentFacts
<1>4. /\ job'[l].pc = "page" /\ job'[l].todo = Area(job[l].seg + 1) /\ job'[l].hand = job[l].hand
      /\ job'[l].prog = job[l].prog /\ job'[l].seg = job[l].seg + 1 /\ job'[l].flawed = job[l].flawed
      /\ \A k \in Loaders : k # l => job'[k] = job[k]
  BY <1>1 DEF SpaceInv, SpaceTypes, Job, NextArea
<1>5. Area(job[l].seg + 1) \subseteq Nat
  BY <1>3, AreaFacts
<1>6. job' \in [Loaders -> Job]
  <2>1. [job[l] EXCEPT !.seg = job[l].seg + 1, !.todo = Area(job[l].seg + 1)] \in Job
    <3>1. job[l].seg + 1 \in Nat
      BY <1>3
    <3> QED BY <1>1, <1>5, <3>1 DEF Job
  <2> QED BY <1>1, <2>1 DEF SpaceInv, SpaceTypes, NextArea
<1>7. Through(job'[l]) \subseteq Through(job[l])
  <2>1. \A i \in 1 .. job[l].seg + 1 : i \in 1 .. job[l].seg \/ i = job[l].seg + 1
    BY <1>2, SegmentFacts
  <2> QED BY <1>1, <1>4, <2>1, ThroughIs
<1>8. Through(job[l]) \subseteq Through(job'[l])
  <2>1. \A i \in 1 .. job[l].seg : i \in 1 .. job[l].seg + 1 /\ i \in 1 .. (job[l].seg + 1) - 1
    BY <1>2, SegmentFacts
  <2> QED BY <1>1, <1>3, <1>4, <2>1, ThroughIs, AreaFacts
<1>9. LoadInv(l)'
  BY <1>2, <1>3, <1>4, <1>7, <1>8 DEF LoadInv, Unmapped, NextArea
<1> QED BY <1>1, <1>4, <1>6, <1>9, LoadOnly DEF NextArea

\* What holds of a load that has everything mapped.
LEMMA MappedLoad ==
  ASSUME SpaceInv, ~stopped, NEW l \in Loaders, job[l].pc \in {"segment", "copy", "bss", "clear"}
  PROVE  /\ job[l] \in Job /\ job[l].hand = NoFrame /\ job[l].prog \in Programs
         /\ space[job[l].prog].state = "loading"
         /\ job[l].seg \in 1 .. Len(Segments) + 1
         /\ job[l].pc # "segment" => job[l].seg <= Len(Segments)
         /\ ~job[l].flawed => Areas \subseteq DOMAIN space[job[l].prog].page
         /\ ~job[l].flawed => \A v \in DOMAIN space[job[l].prog].page : space[job[l].prog].page[v] # NoFrame
         /\ job[l].pc = "segment" /\ ~job[l].flawed => space[job[l].prog].filled = Contents(job[l])
         /\ job[l].pc = "copy" =>
              /\ job[l].todo \subseteq FilePages(job[l].seg)
              /\ ~job[l].flawed =>
                   /\ job[l].good /\ (job[l].todo # {} => job[l].cr3 = "new")
                   /\ space[job[l].prog].filled =
                        Contents(job[l]) \cup (FilePages(job[l].seg) \ job[l].todo)
         /\ job[l].pc \in {"bss", "clear"} /\ ~job[l].flawed =>
              space[job[l].prog].filled = Contents(job[l]) \cup FilePages(job[l].seg)
<1>1. job[l] \in Job /\ LoadInv(l)
  BY DEF SpaceInv, SpaceTypes
<1> QED BY <1>1 DEF LoadInv

LEMMA MappedKeeps ==
  ASSUME SpaceInv, ~stopped, NEW l \in Loaders, Mapped(l)
  PROVE  SpaceInv'
<1>1. job[l] \in Job /\ LoadInv(l) /\ job[l].pc = "page" /\ job[l].todo = {}
  BY DEF SpaceInv, SpaceTypes, At, Mapped
<1>2. /\ job[l].seg \in 1 .. Len(Segments) + 1 /\ job[l].seg > Len(Segments)
      /\ job[l].hand = NoFrame /\ job[l].prog \in Programs
      /\ space[job[l].prog].state = "loading" /\ space[job[l].prog].filled = {}
      /\ ~job[l].flawed => Through(job[l]) \subseteq DOMAIN space[job[l].prog].page
      /\ ~job[l].flawed => \A v \in DOMAIN space[job[l].prog].page : space[job[l].prog].page[v] # NoFrame
  BY <1>1 DEF LoadInv, Mapped
<1>3. job[l].seg = Len(Segments) + 1
  BY <1>2, SegmentFacts
<1>4. /\ job'[l].pc = "segment" /\ job'[l].hand = job[l].hand
      /\ job'[l].prog = job[l].prog /\ job'[l].seg = 1 /\ job'[l].flawed = job[l].flawed
      /\ \A k \in Loaders : k # l => job'[k] = job[k]
  BY <1>1 DEF SpaceInv, SpaceTypes, Job, Mapped
<1>6. job' \in [Loaders -> Job]
  <2>1. [job[l] EXCEPT !.pc = "segment", !.seg = 1, !.ints = FALSE] \in Job
    BY <1>1 DEF Job
  <2> QED BY <1>1, <2>1 DEF SpaceInv, SpaceTypes, Mapped
<1>7. Areas = Through(job[l])
  BY <1>1, <1>3 DEF Areas, Through
<1>8. Contents(job'[l]) = {}
  BY <1>4 DEF Contents
<1>9. LoadInv(l)'
  <2>1. 1 \in 1 .. Len(Segments) + 1
    BY SegmentFacts
  <2> QED BY <1>2, <1>4, <1>7, <1>8, <2>1 DEF LoadInv, Unmapped, Mapped
<1> QED BY <1>1, <1>4, <1>6, <1>9, LoadOnly DEF Mapped

LEMMA BufferKeeps ==
  ASSUME SpaceInv, ~stopped, NEW l \in Loaders, Buffer(l)
  PROVE  SpaceInv'
<1> DEFINE i == job[l].seg
<1>1. job[l].pc = "segment" /\ i <= Len(Segments)
  BY DEF At, Buffer
<1>2. /\ job[l] \in Job /\ job[l].hand = NoFrame /\ job[l].prog \in Programs
      /\ space[job[l].prog].state = "loading" /\ i \in 1 .. Len(Segments) + 1
      /\ ~job[l].flawed => Areas \subseteq DOMAIN space[job[l].prog].page
      /\ ~job[l].flawed => \A v \in DOMAIN space[job[l].prog].page : space[job[l].prog].page[v] # NoFrame
      /\ ~job[l].flawed => space[job[l].prog].filled = Contents(job[l])
  BY <1>1, MappedLoad
<1>3. i \in 1 .. Len(Segments)
  BY <1>1, <1>2, SegmentFacts
<1>4. FilePages(i) \subseteq Nat
  BY <1>3, SegmentFacts
<1>5. CASE Segments[i].filesz = 0 /\ Goto(l, "bss")
  <2>1. /\ job'[l].pc = "bss" /\ job'[l].hand = job[l].hand /\ job'[l].prog = job[l].prog
        /\ job'[l].seg = i /\ job'[l].flawed = job[l].flawed
        /\ \A k \in Loaders : k # l => job'[k] = job[k]
    BY <1>2, <1>5 DEF SpaceInv, SpaceTypes, Job, Goto
  <2>2. job' \in [Loaders -> Job]
    <3>1. [job[l] EXCEPT !.pc = "bss"] \in Job
      BY <1>2 DEF Job
    <3> QED BY <1>5, <3>1 DEF SpaceInv, SpaceTypes, Goto
  <2>3. FilePages(i) = {} /\ Contents(job'[l]) = Contents(job[l])
    BY <1>5, <2>1 DEF FilePages, Contents
  <2>4. LoadInv(l)'
    BY <1>1, <1>2, <2>1, <2>3 DEF LoadInv, Unmapped, Buffer
  <2> QED BY <1>1, <2>1, <2>2, <2>4, LoadOnly DEF Buffer
<1>6. ASSUME NEW read \in BOOLEAN,
             job' = [job EXCEPT ![l].pc = "copy", ![l].ints = TRUE, ![l].cr3 = "new",
                       ![l].good = read, ![l].todo = FilePages(i), ![l].flawed = @ \/ ~read]
      PROVE  SpaceInv'
  <2>1. /\ job'[l].pc = "copy" /\ job'[l].hand = job[l].hand /\ job'[l].prog = job[l].prog
        /\ job'[l].seg = i /\ job'[l].flawed = (job[l].flawed \/ ~read) /\ job'[l].good = read
        /\ job'[l].todo = FilePages(i) /\ job'[l].cr3 = "new"
        /\ \A k \in Loaders : k # l => job'[k] = job[k]
    BY <1>2, <1>6 DEF SpaceInv, SpaceTypes, Job
  <2>2. job' \in [Loaders -> Job]
    <3> DEFINE fl == job[l].flawed \/ ~read
    <3>1. fl \in BOOLEAN
      OBVIOUS
    <3> HIDE DEF fl
    <3>2. [job[l] EXCEPT !.pc = "copy", !.ints = TRUE, !.cr3 = "new",
                       !.good = read, !.todo = FilePages(i), !.flawed = fl] \in Job
      BY <1>2, <1>4, <3>1 DEF Job
    <3> QED BY <1>6, <3>2 DEF SpaceInv, SpaceTypes, fl
  <2>3. Contents(job'[l]) = Contents(job[l])
    BY <2>1 DEF Contents
  <2>4. ~job'[l].flawed => ~job[l].flawed /\ job'[l].good
    BY <2>1
  <2>5. /\ job'[l].pc = "copy" /\ job'[l].hand = NoFrame /\ job'[l].prog = job[l].prog
        /\ job'[l].seg = i /\ job'[l].todo = FilePages(i) /\ job'[l].cr3 = "new"
    BY <1>2, <2>1
  <2>6. LoadInv(l)'
    BY <1>1, <1>2, <2>3, <2>4, <2>5 DEF LoadInv, Unmapped, Buffer
  <2> QED BY <1>1, <2>1, <2>2, <2>6, LoadOnly DEF Buffer
<1>7. CASE job' = [job EXCEPT ![l].pc = "bss", ![l].ints = TRUE, ![l].flawed = TRUE]
  <2>1. /\ job'[l].pc = "bss" /\ job'[l].hand = job[l].hand /\ job'[l].prog = job[l].prog
        /\ job'[l].seg = i /\ job'[l].flawed = TRUE
        /\ \A k \in Loaders : k # l => job'[k] = job[k]
    BY <1>2, <1>7 DEF SpaceInv, SpaceTypes, Job
  <2>2. job' \in [Loaders -> Job]
    <3>1. [job[l] EXCEPT !.pc = "bss", !.ints = TRUE, !.flawed = TRUE] \in Job
      BY <1>2 DEF Job
    <3> QED BY <1>7, <3>1 DEF SpaceInv, SpaceTypes
  <2>4. LoadInv(l)'
    BY <1>1, <1>2, <2>1 DEF LoadInv, Unmapped, Buffer
  <2> QED BY <1>1, <2>1, <2>2, <2>4, LoadOnly DEF Buffer
<1> QED BY <1>5, <1>6, <1>7 DEF Buffer

\* The way on to the next segment.
LEMMA NextSegment ==
  ASSUME NEW j \in Job, NEW r \in Job, j.seg \in 1 .. Len(Segments), r.seg = j.seg + 1
  PROVE  /\ r.seg \in 1 .. Len(Segments) + 1
         /\ Contents(r) = Contents(j) \cup FilePages(j.seg)
<1>1. j.seg \in Nat /\ \A i : i \in 1 .. r.seg - 1 <=> i \in 1 .. j.seg - 1 \/ i = j.seg
  BY SegmentFacts
<1>2. \A v : v \in Contents(r) <=> \E i \in 1 .. r.seg - 1 : v \in FilePages(i)
  BY DEF Contents
<1>3. \A v : v \in Contents(j) <=> \E i \in 1 .. j.seg - 1 : v \in FilePages(i)
  BY DEF Contents
<1>4. Contents(r) = Contents(j) \cup FilePages(j.seg)
  BY <1>1, <1>2, <1>3
<1> QED BY <1>4, SegmentFacts

LEMMA BssKeeps ==
  ASSUME SpaceInv, ~stopped, NEW l \in Loaders, Bss(l)
  PROVE  SpaceInv'
<1> DEFINE i == job[l].seg
<1>1. job[l].pc = "bss"
  BY DEF At, Bss
<1>2. /\ job[l] \in Job /\ job[l].hand = NoFrame /\ job[l].prog \in Programs
      /\ space[job[l].prog].state = "loading" /\ i \in 1 .. Len(Segments) + 1 /\ i <= Len(Segments)
      /\ ~job[l].flawed => Areas \subseteq DOMAIN space[job[l].prog].page
      /\ ~job[l].flawed => \A v \in DOMAIN space[job[l].prog].page : space[job[l].prog].page[v] # NoFrame
      /\ ~job[l].flawed => space[job[l].prog].filled = Contents(job[l]) \cup FilePages(i)
  BY <1>1, MappedLoad
<1>3. i \in 1 .. Len(Segments)
  BY <1>2, SegmentFacts
<1>4. ZeroPages(i) \subseteq Nat
  BY <1>3, SegmentFacts
<1>5. CASE job' = [job EXCEPT ![l].pc = "clear", ![l].cr3 = "new", ![l].todo = ZeroPages(i)]
  <2>1. /\ job'[l].pc = "clear" /\ job'[l].hand = job[l].hand /\ job'[l].prog = job[l].prog
        /\ job'[l].seg = i /\ job'[l].flawed = job[l].flawed
        /\ \A k \in Loaders : k # l => job'[k] = job[k]
    BY <1>2, <1>5 DEF SpaceInv, SpaceTypes, Job
  <2>2. job' \in [Loaders -> Job]
    <3>1. [job[l] EXCEPT !.pc = "clear", !.cr3 = "new", !.todo = ZeroPages(i)] \in Job
      BY <1>2, <1>4 DEF Job
    <3> QED BY <1>5, <3>1 DEF SpaceInv, SpaceTypes
  <2>3. Contents(job'[l]) = Contents(job[l])
    BY <2>1 DEF Contents
  <2>4. LoadInv(l)'
    BY <1>1, <1>2, <2>1, <2>3 DEF LoadInv, Unmapped, Bss
  <2> QED BY <1>1, <2>1, <2>2, <2>4, LoadOnly DEF Bss
<1>6. CASE job' = [job EXCEPT ![l].pc = "segment", ![l].seg = @ + 1]
  <2>1. /\ job'[l].pc = "segment" /\ job'[l].hand = job[l].hand /\ job'[l].prog = job[l].prog
        /\ job'[l].seg = i + 1 /\ job'[l].flawed = job[l].flawed
        /\ \A k \in Loaders : k # l => job'[k] = job[k]
    BY <1>2, <1>6 DEF SpaceInv, SpaceTypes, Job
  <2>2. job' \in [Loaders -> Job]
    <3>0. job[l] \in Job /\ i + 1 \in Nat
      BY <1>2, SegmentFacts
    <3>1. [job[l] EXCEPT !.pc = "segment", !.seg = i + 1] \in Job
      BY <3>0 DEF Job
    <3> QED BY <1>6, <3>1 DEF SpaceInv, SpaceTypes
  <2>3. /\ job'[l].seg \in 1 .. Len(Segments) + 1
        /\ Contents(job'[l]) = Contents(job[l]) \cup FilePages(i)
    BY <1>2, <1>3, <2>1, <2>2, NextSegment
  <2>4. LoadInv(l)'
    BY <1>1, <1>2, <2>1, <2>3 DEF LoadInv, Unmapped, Bss
  <2> QED BY <1>1, <2>1, <2>2, <2>4, LoadOnly DEF Bss
<1> QED BY <1>5, <1>6 DEF Bss

LEMMA BackKeeps ==
  ASSUME SpaceInv, ~stopped, NEW l \in Loaders, Back(l)
  PROVE  SpaceInv'
<1> DEFINE i == job[l].seg
<1>1. job[l].pc \in {"copy", "clear"} /\ job[l].todo = {}
  BY DEF Back
<1>2. /\ job[l] \in Job /\ job[l].hand = NoFrame /\ job[l].prog \in Programs
      /\ space[job[l].prog].state = "loading" /\ i \in 1 .. Len(Segments) + 1 /\ i <= Len(Segments)
      /\ ~job[l].flawed => Areas \subseteq DOMAIN space[job[l].prog].page
      /\ ~job[l].flawed => \A v \in DOMAIN space[job[l].prog].page : space[job[l].prog].page[v] # NoFrame
      /\ ~job[l].flawed => space[job[l].prog].filled = Contents(job[l]) \cup FilePages(i)
  BY <1>1, MappedLoad
<1>3. i \in 1 .. Len(Segments)
  BY <1>2, SegmentFacts
<1>5. CASE job[l].pc = "copy"
  <2>0. job' = [job EXCEPT ![l].cr3 = "kernel", ![l].pc = "bss", ![l].seg = i]
    BY <1>2, <1>5 DEF Back, At
  <2>1. /\ job'[l].pc = "bss" /\ job'[l].hand = job[l].hand /\ job'[l].prog = job[l].prog
        /\ job'[l].seg = i /\ job'[l].flawed = job[l].flawed
        /\ \A k \in Loaders : k # l => job'[k] = job[k]
    BY <1>2, <2>0 DEF SpaceInv, SpaceTypes, Job
  <2>2. job' \in [Loaders -> Job]
    <3>1. [job[l] EXCEPT !.cr3 = "kernel", !.pc = "bss", !.seg = i] \in Job
      BY <1>2 DEF Job
    <3> QED BY <2>0, <3>1 DEF SpaceInv, SpaceTypes
  <2>3. Contents(job'[l]) = Contents(job[l])
    BY <2>1 DEF Contents
  <2>4. LoadInv(l)'
    BY <1>1, <1>2, <2>1, <2>3 DEF LoadInv, Unmapped, Back
  <2> QED BY <1>1, <2>1, <2>2, <2>4, LoadOnly DEF Back
<1>6. CASE job[l].pc = "clear"
  <2>0. job' = [job EXCEPT ![l].cr3 = "kernel", ![l].pc = "segment", ![l].seg = i + 1]
    BY <1>2, <1>6 DEF Back, At
  <2>1. /\ job'[l].pc = "segment" /\ job'[l].hand = job[l].hand /\ job'[l].prog = job[l].prog
        /\ job'[l].seg = i + 1 /\ job'[l].flawed = job[l].flawed
        /\ \A k \in Loaders : k # l => job'[k] = job[k]
    BY <1>2, <2>0 DEF SpaceInv, SpaceTypes, Job
  <2>2. job' \in [Loaders -> Job]
    <3>0. job[l] \in Job /\ i + 1 \in Nat
      BY <1>2, SegmentFacts
    <3>1. [job[l] EXCEPT !.cr3 = "kernel", !.pc = "segment", !.seg = i + 1] \in Job
      BY <3>0 DEF Job
    <3> QED BY <2>0, <3>1 DEF SpaceInv, SpaceTypes
  <2>3. /\ job'[l].seg \in 1 .. Len(Segments) + 1
        /\ Contents(job'[l]) = Contents(job[l]) \cup FilePages(i)
    BY <1>2, <1>3, <2>1, <2>2, NextSegment
  <2>4. LoadInv(l)'
    BY <1>1, <1>2, <2>1, <2>3 DEF LoadInv, Unmapped, Back
  <2> QED BY <1>1, <2>1, <2>2, <2>4, LoadOnly DEF Back
<1> QED BY <1>1, <1>5, <1>6

LEMMA PreemptedKeeps ==
  ASSUME SpaceInv, ~stopped, NEW l \in Loaders, Preempted(l)
  PROVE  SpaceInv'
<1>1. job[l].pc \in {"copy", "clear"}
  BY DEF Preempted
<1>2. /\ job[l] \in Job /\ job[l].hand = NoFrame /\ job[l].prog \in Programs
      /\ space[job[l].prog].state = "loading"
      /\ job[l].seg \in 1 .. Len(Segments) + 1 /\ job[l].seg <= Len(Segments)
      /\ job[l].pc = "copy" => job[l].todo \subseteq FilePages(job[l].seg)
  BY <1>1, MappedLoad
<1>3. /\ job'[l].pc = job[l].pc /\ job'[l].hand = job[l].hand /\ job'[l].prog = job[l].prog
      /\ job'[l].seg = job[l].seg /\ job'[l].flawed = TRUE /\ job'[l].todo = job[l].todo
      /\ \A k \in Loaders : k # l => job'[k] = job[k]
  BY <1>2 DEF SpaceInv, SpaceTypes, Job, Preempted
<1>4. job' \in [Loaders -> Job]
  <2>1. [job[l] EXCEPT !.cr3 = "kernel", !.flawed = TRUE] \in Job
    BY <1>2 DEF Job
  <2> QED BY <2>1 DEF SpaceInv, SpaceTypes, Preempted
<1>5. LoadInv(l)'
  BY <1>1, <1>2, <1>3 DEF LoadInv, Unmapped, Preempted
<1> QED BY <1>1, <1>3, <1>4, <1>5, LoadOnly DEF Preempted

-----------------------------------------------------------------------------
\* The steps of a load that touch its program

\* The program of a load, and the steps that change nothing but it and the
\* record of the load.
LEMMA Loading ==
  ASSUME SpaceInv, ~stopped, NEW l \in Loaders, job[l].pc # "idle"
  PROVE  /\ job[l] \in Job /\ job[l].prog \in Programs
         /\ space[job[l].prog] \in Space /\ space[job[l].prog].state = "loading"
         /\ space[job[l].prog].brk = HeapBase
         /\ \A t \in DOMAIN space[job[l].prog].table : t \notin HeapNames
         /\ \A v \in DOMAIN space[job[l].prog].page : ~HeapPage(v)
         /\ sbrk.on => sbrk.prog # job[l].prog
         /\ \A k \in Loaders : k # l /\ job[k].pc # "idle" => job[k].prog # job[l].prog
<1>1. job[l] \in Job /\ LoadInv(l)
  BY DEF SpaceInv, SpaceTypes
<1>2. job[l].prog \in Programs /\ space[job[l].prog].state = "loading"
  BY <1>1 DEF LoadInv
<1>3. space[job[l].prog] \in Space
  BY <1>2 DEF SpaceInv, SpaceTypes
<1>4. ProgramInv(job[l].prog)
  BY <1>2 DEF SpaceInv
<1>5. sbrk.on => sbrk.prog # job[l].prog
  BY <1>2 DEF SpaceInv, GrowthInv
<1>6. \A k \in Loaders : k # l /\ job[k].pc # "idle" => job[k].prog # job[l].prog
  BY DEF SpaceInv, LoadsApart
<1> QED BY <1>1, <1>2, <1>3, <1>4, <1>5, <1>6 DEF ProgramInv

\* The break is at the start of the heap: nothing needs to be mapped.
LEMMA NoBreak == PagesOf(HeapBase, HeapBase) = {}
  BY SpaceAssumption DEF PagesOf

\* A program that is being loaded, or was refused, has no heap.
LEMMA LoadingProgram ==
  ASSUME NEW p \in Programs, space'[p].state \in {"loading", "refused"}, space'[p].brk = HeapBase,
         \A t \in DOMAIN space'[p].table : t \notin HeapNames,
         \A v \in DOMAIN space'[p].page : ~HeapPage(v)
  PROVE  ProgramInv(p)'
<1>1. HeapBase >= HeapBase /\ PagesOf(HeapBase, space'[p].brk) = {}
  BY NoBreak, SpaceAssumption
<1>2. ~ \E v \in DOMAIN space'[p].page : HeapPage(v)
  OBVIOUS
<1> HIDE DEF HeapPage
<1> QED BY <1>1, <1>2 DEF ProgramInv

LEMMA LoadStepKeeps ==
  ASSUME SpaceInv, ~stopped, ~sbrk.on, NEW l \in Loaders, NEW p \in Programs,
         \A k \in Loaders : k # l /\ job[k].pc # "idle" => job[k].prog # p,
         SpaceTypes', sbrk' = sbrk, short => short', shrunk => shrunk',
         \A k \in Loaders : k # l => job'[k] = job[k],
         \A q \in Programs : q # p => space'[q] = space[q],
         FramesApart', AllFound', job'[l].pc = "idle" \/ job'[l].prog = p,
         stopped' \/ LoadInv(l)', ProgramInv(p)'
  PROVE  SpaceInv'
<1>1. LoadsApart'
  BY DEF SpaceInv, LoadsApart
<1>2. \A k \in Loaders : k # l => LoadInv(k)'
  <2>1. ASSUME NEW k \in Loaders, k # l, job[k].pc # "idle" PROVE space'[job[k].prog] = space[job[k].prog]
    BY <2>1, Loading
  <2> QED BY <2>1, LoadKept DEF SpaceInv
<1>3. \A q \in Programs : q # p => ProgramInv(q)'
  BY ProgramKept DEF SpaceInv
<1>4. GrowthInv'
  BY DEF GrowthInv
<1> QED BY <1>1, <1>2, <1>3, <1>4 DEF SpaceInv

LEMMA WriteKeeps ==
  ASSUME SpaceInv, ~stopped, ~sbrk.on, NEW l \in Loaders, Write(l)
  PROVE  SpaceInv'
<1> DEFINE i == job[l].seg
<1>1. job[l].pc \in {"copy", "clear"}
  BY DEF Write
<1>0. PICK p \in Programs : p = job[l].prog
  BY <1>1, Loading
<1>2. /\ job[l] \in Job /\ job[l].hand = NoFrame /\ p \in Programs
      /\ space[p].state = "loading" /\ i \in 1 .. Len(Segments) + 1 /\ i <= Len(Segments)
      /\ ~job[l].flawed => Areas \subseteq DOMAIN space[p].page
      /\ ~job[l].flawed => \A v \in DOMAIN space[p].page : space[p].page[v] # NoFrame
      /\ job[l].pc = "copy" =>
              /\ job[l].todo \subseteq FilePages(i)
              /\ ~job[l].flawed =>
                   /\ job[l].good /\ (job[l].todo # {} => job[l].cr3 = "new")
                   /\ space[p].filled = Contents(job[l]) \cup (FilePages(i) \ job[l].todo)
      /\ job[l].pc = "clear" /\ ~job[l].flawed => space[p].filled = Contents(job[l]) \cup FilePages(i)
  BY <1>0, <1>1, MappedLoad
<1>3. /\ space[p] \in Space /\ space[p].brk = HeapBase
      /\ \A k \in Loaders : k # l /\ job[k].pc # "idle" => job[k].prog # p
  BY <1>0, <1>1, Loading
<1>4. PICK v \in job[l].todo :
        /\ space' = IF job[l].cr3 = "new" /\ job[l].good /\ At(l, "copy")
                    THEN [space EXCEPT ![p].filled = @ \cup {v}] ELSE space
        /\ job' = [job EXCEPT ![l].todo = @ \ {v}]
  BY <1>0 DEF Write
<1>5. v \in Nat /\ job[l].todo \subseteq Nat
  BY <1>2, <1>4 DEF Job
<1>6. /\ job'[l].pc = job[l].pc /\ job'[l].hand = job[l].hand /\ job'[l].prog = p
      /\ job'[l].seg = i /\ job'[l].flawed = job[l].flawed /\ job'[l].todo = job[l].todo \ {v}
      /\ job'[l].good = job[l].good /\ job'[l].cr3 = job[l].cr3
      /\ \A k \in Loaders : k # l => job'[k] = job[k]
  BY <1>0, <1>2, <1>4 DEF SpaceInv, SpaceTypes, Job
<1>7. job' \in [Loaders -> Job]
  <2>1. [job[l] EXCEPT !.todo = @ \ {v}] \in Job
    BY <1>2, <1>5 DEF Job
  <2> QED BY <1>4, <2>1 DEF SpaceInv, SpaceTypes
<1>8. /\ space' \in [Programs -> Space]
      /\ \A q \in Programs : q # p => space'[q] = space[q]
      /\ space'[p].state = "loading" /\ space'[p].table = space[p].table /\ space'[p].page = space[p].page
      /\ space'[p].brk = space[p].brk /\ space'[p].flawed = space[p].flawed
      /\ space'[p].filled = IF job[l].cr3 = "new" /\ job[l].good /\ job[l].pc = "copy"
                            THEN space[p].filled \cup {v} ELSE space[p].filled
  <2>1. [space[p] EXCEPT !.filled = @ \cup {v}] \in Space
    BY <1>3, <1>5 DEF Space
  <2>2. CASE job[l].cr3 = "new" /\ job[l].good /\ At(l, "copy")
    <3>1. space' = [space EXCEPT ![p].filled = @ \cup {v}]
      BY <1>4, <2>2
    <3>2. /\ space' \in [Programs -> Space] /\ space'[p] = [space[p] EXCEPT !.filled = @ \cup {v}]
          /\ \A q \in Programs : q # p => space'[q] = space[q]
      BY <1>2, <2>1, <3>1 DEF SpaceInv, SpaceTypes
    <3> QED BY <1>2, <1>3, <2>2, <3>2 DEF Space, At
  <2>3. CASE ~(job[l].cr3 = "new" /\ job[l].good /\ At(l, "copy"))
    <3>1. space' = space
      BY <1>4, <2>3
    <3> QED BY <1>2, <2>3, <3>1 DEF SpaceInv, SpaceTypes, At
  <2> QED BY <2>2, <2>3
<1>9. UNCHANGED <<free, sbrk, short, shrunk>>
  BY DEF Write
<1>10. SpaceTypes'
  BY <1>7, <1>8, <1>9 DEF SpaceInv, SpaceTypes
<1>11. \A k \in Loaders : job'[k].hand = job[k].hand
  BY <1>6
<1>12. FramesApart' /\ AllFound'
  <2>1. \A q \in Programs : space'[q].table = space[q].table /\ space'[q].page = space[q].page
    BY <1>8
  <2> QED BY <1>9, <1>11, <2>1, FramesKept DEF SpaceInv
<1>13. Contents(job'[l]) = Contents(job[l])
  BY <1>6 DEF Contents
<1>14. LoadInv(l)'
  <2>1. CASE job[l].pc = "copy"
    <3>1. ~job[l].flawed => space'[p].filled = space[p].filled \cup {v}
      BY <1>2, <1>4, <1>8, <2>1
    <3>2. ~job[l].flawed => space'[p].filled = Contents(job'[l]) \cup (FilePages(i) \ job'[l].todo)
      BY <1>2, <1>4, <1>6, <1>13, <2>1, <3>1
    <3> QED BY <1>2, <1>6, <1>8, <2>1, <3>2 DEF LoadInv, Unmapped
  <2>2. CASE job[l].pc = "clear"
    BY <1>2, <1>6, <1>8, <1>13, <2>2 DEF LoadInv, Unmapped
  <2> QED BY <1>1, <2>1, <2>2
<1>15. ProgramInv(p)'
  <2>1. p \in Programs /\ space'[p].state = "loading" /\ space'[p].brk = HeapBase
    BY <1>0, <1>1, <1>2, <1>8, Loading
  <2>2. \A u \in DOMAIN space'[p].table : u \notin HeapNames
    BY <1>0, <1>1, <1>2, <1>8, Loading
  <2>3. \A w \in DOMAIN space'[p].page : ~HeapPage(w)
    BY <1>0, <1>1, <1>2, <1>8, Loading
  <2> QED BY <2>1, <2>2, <2>3, LoadingProgram
<1> QED BY <1>2, <1>3, <1>6, <1>8, <1>9, <1>10, <1>12, <1>14, <1>15, LoadStepKeeps

\* Steps in and out of the page allocator that leave memory as it is.
LEMMA NothingMoves ==
  ASSUME SpaceInv, UNCHANGED <<free, space, job, sbrk, shrunk, stopped>>,
         short' \in BOOLEAN, short => short'
  PROVE  SpaceInv'
<1>1. free' = free /\ space' = space /\ job' = job /\ sbrk' = sbrk /\ shrunk' = shrunk
      /\ stopped' = stopped
  OBVIOUS
<1>2. SpaceTypes'
  BY <1>1 DEF SpaceInv, SpaceTypes
<1>3. FramesApart' /\ AllFound'
  BY <1>1, FramesKept DEF SpaceInv
<1>4. LoadsApart'
  BY <1>1 DEF SpaceInv, LoadsApart
<1>5. stopped' \/ \A l \in Loaders : LoadInv(l)'
  BY <1>1, LoadKept DEF SpaceInv
<1>6. \A p \in Programs : ProgramInv(p)'
  BY <1>1, ProgramKept DEF SpaceInv
<1>7. GrowthInv'
  BY <1>1, GrowthKept DEF SpaceInv
<1> QED BY <1>2, <1>3, <1>4, <1>5, <1>6, <1>7 DEF SpaceInv

LEMMA BeginsKeeps ==
  ASSUME SpaceInv, ~stopped, ~sbrk.on, NEW l \in Loaders, BeginLoad(l), free # {}
  PROVE  SpaceInv'
<1>1. PICK p \in Programs :
        /\ space[p].state = "none" /\ free # {}
        /\ free' = free \ {Pick(free, p)}
        /\ space' = [space EXCEPT ![p] =
               [NoSpace EXCEPT !.state = "loading",
                               !.table = With(Empty, "pml4", Pick(free, p))]]
        /\ job' = [job EXCEPT ![l] =
               [IdleJob EXCEPT !.pc = "pdpt", !.prog = p]]
  BY DEF BeginLoad, Unused
<1> DEFINE f == Pick(free, p)
           s == [NoSpace EXCEPT !.state = "loading", !.table = With(Empty, "pml4", f)]
<1>2. f \in free /\ f \in Frames
  BY <1>1, FrameFacts DEF SpaceInv, SpaceTypes
<1>3. With(Empty, "pml4", f) \in Tables /\ DOMAIN With(Empty, "pml4", f) = {"pml4"}
  <2>1. DOMAIN With(Empty, "pml4", f) = {"pml4"}
    BY EmptyFacts DEF With
  <2> QED BY <1>2, <2>1, EmptyFacts, TableFacts DEF Names
<1>4. HeapBase \in Nat
  BY SpaceAssumption
<1>5. /\ s.state = "loading" /\ s.table = With(Empty, "pml4", f) /\ s.page = Empty
      /\ s.filled = {} /\ s.brk = HeapBase /\ s.flawed = FALSE
  BY DEF NoSpace
<1>6. s \in Space
  BY <1>3, <1>4, EmptyFacts DEF NoSpace, Space
<1> HIDE DEF s
<1>7. /\ space' \in [Programs -> Space] /\ space'[p] = s
      /\ \A q \in Programs : q # p => space'[q] = space[q]
  BY <1>1, <1>6 DEF SpaceInv, SpaceTypes, s
<1>8. [IdleJob EXCEPT !.pc = "pdpt", !.prog = p] \in Job
  BY DEF IdleJob, Job
<1>9. /\ job' \in [Loaders -> Job] /\ \A k \in Loaders : k # l => job'[k] = job[k]
      /\ job'[l].pc = "pdpt" /\ job'[l].prog = p /\ job'[l].hand = NoFrame /\ job'[l].seg = 1
      /\ job'[l].flawed = FALSE
  BY <1>1, <1>8 DEF SpaceInv, SpaceTypes, IdleJob
<1>10. UNCHANGED <<sbrk, short, shrunk, stopped>>
  BY DEF BeginLoad
<1>11. SpaceTypes'
  BY <1>1, <1>7, <1>9, <1>10 DEF SpaceInv, SpaceTypes
<1>12. job[l].hand = NoFrame
  BY DEF SpaceInv, LoadInv, BeginLoad, At
<1>13. DOMAIN space[p].table = {} /\ DOMAIN space[p].page = {} /\ Own(space[p]) = {}
  BY <1>1 DEF SpaceInv, ProgramInv, Own
<1>14. \A k \in Loaders : k # l /\ job[k].pc # "idle" => job[k].prog # p
  BY <1>1 DEF SpaceInv, LoadInv
<1>15. s.table["pml4"] = f /\ DOMAIN s.table = {"pml4"} /\ DOMAIN s.page = {}
  <2>1. With(Empty, "pml4", f)["pml4"] = f
    BY DEF With
  <2> QED BY <1>3, <1>5, <2>1, EmptyFacts
<1>16. Own(s) = {f} /\ Once(s)
  BY <1>15 DEF Own, Once
<1>17. FramesApart' /\ AllFound'
  <2>1. \A k \in Loaders : job'[k].hand = job[k].hand
    BY <1>9, <1>12
  <2>2. free' = free \ {f}
    BY <1>1
  <2> HIDE DEF f
  <2> QED BY <1>2, <1>7, <1>10, <1>13, <1>16, <2>1, <2>2, FramesTraded DEF SpaceInv
<1>18. LoadInv(l)'
  BY <1>5, <1>7, <1>9, <1>15 DEF LoadInv, Unmapped
<1>19. ProgramInv(p)'
  BY <1>5, <1>7, <1>15, LoadingProgram DEF HeapNames
<1> QED BY <1>7, <1>9, <1>10, <1>11, <1>14, <1>17, <1>18, <1>19, LoadStepKeeps

LEMMA BeginLoadKeeps ==
  ASSUME SpaceInv, ~stopped, ~sbrk.on, NEW l \in Loaders, BeginLoad(l)
  PROVE  SpaceInv'
<1>1. CASE free = {}
  BY <1>1, NothingMoves DEF BeginLoad
<1>2. CASE free # {}
  BY <1>2, BeginsKeeps
<1> QED BY <1>1, <1>2

LEMMA OwnTableKeeps ==
  ASSUME SpaceInv, ~stopped, ~sbrk.on, NEW l \in Loaders, FirstGigabyte(l)
  PROVE  SpaceInv'
<1>1. PICK t \in {"pdpt", "pd"}, next \in {"pd", "header"} :
        OwnTable(l, t, next) /\ ((t = "pdpt" /\ next = "pd") \/ (t = "pd" /\ next = "header"))
  BY DEF FirstGigabyte
<1>2. job[l].pc = t /\ t \in Names /\ t \notin HeapNames
  BY <1>1 DEF OwnTable, At, Names, HeapNames
<1>0. PICK p \in Programs : p = job[l].prog
  BY <1>1, <1>2, Loading
<1> DEFINE f == Pick(free, p)
<1>3. /\ job[l] \in Job /\ p \in Programs /\ space[p] \in Space /\ space[p].state = "loading"
      /\ space[p].brk = HeapBase
      /\ \A u \in DOMAIN space[p].table : u \notin HeapNames
      /\ \A k \in Loaders : k # l /\ job[k].pc # "idle" => job[k].prog # p
  BY <1>0, <1>1, <1>2, Loading
<1>4. /\ job[l].hand = NoFrame /\ job[l].seg = 1
      /\ DOMAIN space[p].page = {} /\ space[p].filled = {}
      /\ DOMAIN space[p].table = IF t = "pdpt" THEN {"pml4"} ELSE {"pml4", "pdpt"}
  BY <1>0, <1>1, <1>2 DEF SpaceInv, LoadInv, Unmapped
<1>5. t \notin DOMAIN space[p].table
  BY <1>1, <1>4
<1>6. job' = [job EXCEPT ![l].pc = next]
  BY <1>1 DEF OwnTable, Goto
<1>7. job' \in [Loaders -> Job]
  <2>1. [job[l] EXCEPT !.pc = next] \in Job
    BY <1>3 DEF Job
  <2> QED BY <1>6, <2>1 DEF SpaceInv, SpaceTypes
<1>8. /\ \A k \in Loaders : k # l => job'[k] = job[k]
      /\ job'[l].pc = next /\ job'[l].prog = p /\ job'[l].hand = NoFrame /\ job'[l].seg = 1
      /\ job'[l].flawed = job[l].flawed
  BY <1>0, <1>3, <1>4, <1>6 DEF SpaceInv, SpaceTypes, Job
<1>9. \A k \in Loaders : job'[k].hand = job[k].hand
  BY <1>4, <1>8
<1>10. CASE free = {}
  <2>1. stopped' = TRUE /\ short' = TRUE /\ UNCHANGED <<free, space, sbrk, shrunk>>
    BY <1>1, <1>10 DEF OwnTable
  <2>2. SpaceTypes'
    BY <1>7, <2>1 DEF SpaceInv, SpaceTypes
  <2>3. FramesApart' /\ AllFound'
    BY <1>9, <2>1, FramesKept DEF SpaceInv
  <2>4. ProgramInv(p)'
    <3>1. p \in Programs /\ space'[p].state = "loading" /\ space'[p].brk = HeapBase
      BY <1>3, <1>4, <2>1
    <3>2. \A u \in DOMAIN space'[p].table : u \notin HeapNames
      BY <1>3, <1>4, <2>1
    <3>3. \A v \in DOMAIN space'[p].page : ~HeapPage(v)
      BY <1>3, <1>4, <2>1
    <3> QED BY <3>1, <3>2, <3>3, LoadingProgram
  <2> QED BY <1>3, <1>8, <2>1, <2>2, <2>3, <2>4, LoadStepKeeps
<1>11. CASE free # {}
  <2>1. free' = free \ {f} /\ space' = [space EXCEPT ![p].table = With(@, t, f)]
        /\ UNCHANGED <<stopped, short, sbrk, shrunk>>
    BY <1>0, <1>1, <1>11 DEF OwnTable
  <2>2. f \in free /\ f \in Frames
    BY <1>3, <1>11, FrameFacts DEF SpaceInv, SpaceTypes
  <2> HIDE DEF f
  <2> DEFINE g == With(space[p].table, t, f)
  <2>3. space[p].table \in Tables /\ space[p].page \in Pages
    BY <1>3 DEF Space
  <2>4. g \in Tables /\ DOMAIN g = DOMAIN space[p].table \cup {t}
    <3>1. DOMAIN g = DOMAIN space[p].table \cup {t}
      BY DEF With
    <3> QED BY <1>2, <2>2, <2>3, <3>1, TableFacts
  <2> HIDE DEF g
  <2>5. [space[p] EXCEPT !.table = g] \in Space
    BY <1>3, <2>4 DEF Space
  <2>6. /\ space' \in [Programs -> Space] /\ space'[p] = [space[p] EXCEPT !.table = g]
        /\ \A q \in Programs : q # p => space'[q] = space[q]
    BY <1>3, <2>1, <2>5 DEF SpaceInv, SpaceTypes, g
  <2>7. /\ space'[p].state = "loading" /\ space'[p].table = g /\ space'[p].page = space[p].page
        /\ space'[p].filled = space[p].filled /\ space'[p].brk = HeapBase
    BY <1>3, <2>6 DEF Space
  <2>8. SpaceTypes'
    BY <1>7, <2>1, <2>6 DEF SpaceInv, SpaceTypes
  <2>9. Once(space[p]) /\ f \notin Own(space[p])
    BY <1>3, <2>2 DEF SpaceInv, FramesApart
  <2>10. Own(space'[p]) = Own(space[p]) \cup {f} /\ Once(space'[p])
    BY <1>2, <1>5, <2>2, <2>3, <2>7, <2>9, OwnTableMore DEF g
  <2>11. FramesApart' /\ AllFound'
    <3>1. Own(space[p]) \cap free = {}
      BY <1>3 DEF SpaceInv, FramesApart
    <3> QED BY <1>3, <1>9, <2>1, <2>2, <2>6, <2>10, <3>1, FramesTraded DEF SpaceInv
  <2>12. LoadInv(l)'
    BY <1>1, <1>3, <1>4, <1>8, <2>4, <2>7 DEF LoadInv, Unmapped
  <2>13. ProgramInv(p)'
    <3>1. p \in Programs /\ space'[p].state = "loading" /\ space'[p].brk = HeapBase
      BY <1>2, <1>3, <1>4, <2>4, <2>7
    <3>2. \A u \in DOMAIN space'[p].table : u \notin HeapNames
      BY <1>2, <1>3, <1>4, <2>4, <2>7
    <3>3. \A v \in DOMAIN space'[p].page : ~HeapPage(v)
      BY <1>2, <1>3, <1>4, <2>4, <2>7
    <3> QED BY <3>1, <3>2, <3>3, LoadingProgram
  <2> QED BY <1>3, <1>8, <2>1, <2>6, <2>8, <2>11, <2>12, <2>13, LoadStepKeeps
<1> QED BY <1>10, <1>11

LEMMA RefusedKeeps ==
  ASSUME SpaceInv, ~stopped, ~sbrk.on, NEW l \in Loaders, elf_unload_failed_pml4(l)
  PROVE  SpaceInv'
<1>a. job[l].pc = "unload"
  BY DEF elf_unload_failed_pml4, At
<1>0. PICK p \in Programs : p = job[l].prog
  BY <1>a, Loading
<1>1. /\ space[p] \in Space /\ \A u \in DOMAIN space[p].table : u \notin HeapNames
      /\ \A v \in DOMAIN space[p].page : ~HeapPage(v)
      /\ \A k \in Loaders : k # l /\ job[k].pc # "idle" => job[k].prog # p
  BY <1>0, <1>a, Loading
<1>2. job[l].hand = NoFrame
  BY <1>a DEF SpaceInv, LoadInv
<1> DEFINE s == [NoSpace EXCEPT !.state = "refused"]
<1>3. /\ free' = free \cup (Unloaded(p) \ {NoFrame})
      /\ space' = [space EXCEPT ![p] = s] /\ job' = [job EXCEPT ![l] = IdleJob]
  BY <1>0 DEF elf_unload_failed_pml4
<1>4. /\ s.state = "refused" /\ s.table = Empty /\ s.page = Empty /\ s.brk = HeapBase
      /\ s \in Space
  BY EmptyFacts, SpaceAssumption DEF NoSpace, Space
<1> HIDE DEF s
<1>5. /\ space' \in [Programs -> Space] /\ space'[p] = s
      /\ \A q \in Programs : q # p => space'[q] = space[q]
  BY <1>3, <1>4 DEF SpaceInv, SpaceTypes
<1>6. IdleJob \in Job /\ IdleJob.pc = "idle" /\ IdleJob.hand = NoFrame
  BY DEF IdleJob, Job
<1>7. /\ job' \in [Loaders -> Job] /\ \A k \in Loaders : k # l => job'[k] = job[k]
      /\ job'[l].pc = "idle" /\ job'[l].hand = NoFrame
  BY <1>3, <1>6 DEF SpaceInv, SpaceTypes
<1>8. Unloaded(p) \ {NoFrame} = Own(space[p])
  <2>1. \A t \in DOMAIN space[p].table : space[p].table[t] # NoFrame
    BY <1>1, TableFacts, FrameFacts DEF Space
  <2>2. DOMAIN space[p].table \ {"heap_pd", "heap_pt"} = DOMAIN space[p].table
    BY <1>1 DEF HeapNames
  <2>3. {v \in DOMAIN space[p].page : ~HeapPage(v)} = DOMAIN space[p].page
    BY <1>1
  <2>4. Unloaded(p) = {space[p].page[v] : v \in DOMAIN space[p].page}
                        \cup {space[p].table[t] : t \in DOMAIN space[p].table}
    BY <2>2, <2>3 DEF Unloaded
  <2> QED BY <2>1, <2>4 DEF Own
<1>9. Own(space[p]) \subseteq Frames /\ Own(space[p]) \cap free = {}
  BY SpaceParts DEF SpaceInv, FramesApart
<1>10. Own(s) = {} /\ Once(s)
  BY <1>4, EmptyFacts DEF Own, Once
<1>11. UNCHANGED <<sbrk, short, shrunk>>
  BY DEF elf_unload_failed_pml4
<1>12. SpaceTypes'
  BY <1>3, <1>5, <1>7, <1>8, <1>9, <1>11 DEF SpaceInv, SpaceTypes
<1>13. FramesApart' /\ AllFound'
  <2>1. \A k \in Loaders : job'[k].hand = job[k].hand
    BY <1>2, <1>7
  <2>2. free' = free \cup Own(space[p])
    BY <1>3, <1>8
  <2> QED BY <1>5, <1>10, <1>11, <2>1, <2>2, FramesTraded DEF SpaceInv
<1>14. LoadInv(l)'
  BY <1>7 DEF LoadInv, Unmapped
<1>15. ProgramInv(p)'
  BY <1>4, <1>5, EmptyFacts, LoadingProgram
<1> QED BY <1>1, <1>5, <1>7, <1>11, <1>12, <1>13, <1>14, <1>15, LoadStepKeeps

LEMMA ReadHeaderKeeps ==
  ASSUME SpaceInv, ~stopped, ~sbrk.on, NEW l \in Loaders, ReadHeader(l)
  PROVE  SpaceInv'
<1>1. job[l].pc = "header" /\ At(l, "header") /\ UNCHANGED <<free, space, sbrk, short, shrunk>>
  BY DEF ReadHeader, At
<1>2. CASE job' = [job EXCEPT ![l].pc = "page", ![l].todo = Area(1)] /\ UNCHANGED stopped
  BY <1>1, <1>2, HeaderGood
<1>3. CASE Goto(l, "unload") /\ UNCHANGED stopped
  BY <1>1, <1>3, ToUnload
<1>4. CASE Goto(l, "page") /\ stopped' = TRUE
  BY <1>1, <1>4, HeaderBad
<1> QED BY <1>2, <1>3, <1>4 DEF ReadHeader

\* A program's pages when its load has met no failure.
LEMMA FinishKeeps ==
  ASSUME SpaceInv, ~stopped, ~sbrk.on, NEW l \in Loaders, Finish(l)
  PROVE  SpaceInv'
<1>1. job[l].pc = "segment" /\ job[l].seg > Len(Segments) /\ UNCHANGED <<free, sbrk, short, shrunk, stopped>>
  BY DEF Finish, At
<1>0. PICK p \in Programs : p = job[l].prog
  BY <1>1, Loading
<1>2. CASE Goto(l, "unload") /\ UNCHANGED space
  BY <1>1, <1>2, ToUnload
<1>3. ASSUME NEW st \in {"live", "orphan"},
             space' = [space EXCEPT ![job[l].prog].state = st,
                                    ![job[l].prog].flawed = job[l].flawed],
             job' = [job EXCEPT ![l] = IdleJob]
      PROVE  SpaceInv'
  <2>1. /\ space[p] \in Space /\ space[p].brk = HeapBase
        /\ \A v \in DOMAIN space[p].page : ~HeapPage(v)
        /\ \A k \in Loaders : k # l /\ job[k].pc # "idle" => job[k].prog # p
    BY <1>0, <1>1, Loading
  <2>2. /\ job[l] \in Job /\ job[l].hand = NoFrame /\ job[l].seg \in 1 .. Len(Segments) + 1
        /\ ~job[l].flawed => Areas \subseteq DOMAIN space[p].page
        /\ ~job[l].flawed => \A v \in DOMAIN space[p].page : space[p].page[v] # NoFrame
        /\ ~job[l].flawed => space[p].filled = Contents(job[l])
    BY <1>0, <1>1, MappedLoad
  <2> DEFINE s == [space[p] EXCEPT !.state = st, !.flawed = job[l].flawed]
  <2>3. /\ s.state = st /\ s.flawed = job[l].flawed /\ s.table = space[p].table
        /\ s.page = space[p].page /\ s.filled = space[p].filled /\ s.brk = HeapBase
        /\ s \in Space
    BY <2>1, <2>2 DEF Space, Job
  <2>4. space' = [space EXCEPT ![p] = s]
    BY <1>0, <1>3 DEF SpaceInv, SpaceTypes
  <2> HIDE DEF s
  <2>5. /\ space' \in [Programs -> Space] /\ space'[p] = s
        /\ \A q \in Programs : q # p => space'[q] = space[q]
    BY <2>3, <2>4 DEF SpaceInv, SpaceTypes
  <2>6. IdleJob \in Job /\ IdleJob.pc = "idle" /\ IdleJob.hand = NoFrame
    BY DEF IdleJob, Job
  <2>7. /\ job' \in [Loaders -> Job] /\ \A k \in Loaders : k # l => job'[k] = job[k]
        /\ job'[l].pc = "idle" /\ job'[l].hand = NoFrame
    BY <1>3, <2>6 DEF SpaceInv, SpaceTypes
  <2>8. SpaceTypes'
    BY <1>1, <1>3, <2>5, <2>7 DEF SpaceInv, SpaceTypes
  <2>9. FramesApart' /\ AllFound'
    <3>1. \A k \in Loaders : job'[k].hand = job[k].hand
      BY <2>2, <2>7
    <3>2. \A q \in Programs : space'[q].table = space[q].table /\ space'[q].page = space[q].page
      BY <2>3, <2>5
    <3> QED BY <1>1, <1>3, <3>1, <3>2, FramesKept DEF SpaceInv
  <2>10. LoadInv(l)'
    BY <2>7 DEF LoadInv, Unmapped
  <2>11. job[l].seg - 1 = Len(Segments)
    BY <1>1, <2>2, SegmentFacts
  <2>12. Contents(job[l]) = Contents([seg |-> Len(Segments) + 1])
    <3>1. (Len(Segments) + 1) - 1 = Len(Segments)
      BY SegmentFacts
    <3> QED BY <2>11, <3>1 DEF Contents
  <2>13. ProgramInv(p)'
    <3>1. HeapBase >= HeapBase /\ PagesOf(HeapBase, HeapBase) = {}
      BY NoBreak, SpaceAssumption
    <3>2. /\ space'[p].state = st /\ space'[p].flawed = job[l].flawed /\ space'[p].brk = HeapBase
          /\ space'[p].page = space[p].page /\ space'[p].filled = space[p].filled
      BY <2>3, <2>5
    <3>3. space'[p].state = "live" /\ ~space'[p].flawed =>
            /\ Areas \subseteq DOMAIN space'[p].page
            /\ space'[p].filled = Contents([seg |-> Len(Segments) + 1])
            /\ \A v \in DOMAIN space'[p].page : space'[p].page[v] # NoFrame
      BY <2>2, <2>12, <3>2
    <3>4. ~ \E v \in DOMAIN space'[p].page : HeapPage(v)
      BY <2>1, <3>2
    <3> HIDE DEF HeapPage
    <3> QED BY <3>1, <3>2, <3>3, <3>4 DEF ProgramInv
  <2> QED BY <1>1, <2>1, <2>5, <2>7, <2>8, <2>9, <2>10, <2>13, LoadStepKeeps
<1> QED BY <1>2, <1>3 DEF Finish

\* A page for the loader's hand.
LEMMA AllocPageKeeps ==
  ASSUME SpaceInv, ~stopped, ~sbrk.on, NEW l \in Loaders, AllocPage(l)
  PROVE  SpaceInv'
<1>1. job[l].pc = "page" /\ job[l].todo # {} /\ UNCHANGED <<space, sbrk, shrunk, stopped>>
  BY DEF AllocPage, At
<1>0. PICK p \in Programs : p = job[l].prog
  BY <1>1, Loading
<1>2. /\ job[l] \in Job /\ \A k \in Loaders : k # l /\ job[k].pc # "idle" => job[k].prog # p
  BY <1>0, <1>1, Loading
<1>3. /\ job[l].hand = NoFrame /\ space[p].state = "loading"
      /\ job[l].seg \in 1 .. Len(Segments) + 1 /\ job[l].todo \subseteq Area(job[l].seg)
      /\ DOMAIN space[p].page \subseteq Through(job[l]) /\ space[p].filled = {}
      /\ ~job[l].flawed => Through(job[l]) \subseteq DOMAIN space[p].page
      /\ ~job[l].flawed => \A v \in DOMAIN space[p].page : space[p].page[v] # NoFrame
  BY <1>0, <1>1 DEF SpaceInv, LoadInv
<1>4. PICK f \in Frames \cup {NoFrame} :
        /\ (f = NoFrame /\ free = {}) \/ (f \in free /\ free # {})
        /\ free' = free \ {f} /\ short' = (short \/ free = {})
        /\ job' = [job EXCEPT ![l].pc = "put", ![l].hand = f, ![l].flawed = @ \/ free = {}]
  <2> DEFINE f == IF free = {} THEN NoFrame ELSE Pick(free, job[l].prog)
  <2>1. CASE free = {}
    <3>1. f = NoFrame
      BY <2>1
    <3> QED BY <2>1, <3>1 DEF AllocPage
  <2>2. CASE free # {}
    <3>1. f \in free /\ f \in Frames
      BY <1>0, <2>2, FrameFacts DEF SpaceInv, SpaceTypes
    <3> QED BY <2>2, <3>1 DEF AllocPage
  <2> QED BY <2>1, <2>2
<1> DEFINE fl == job[l].flawed \/ free = {}
           j == [job[l] EXCEPT !.pc = "put", !.hand = f, !.flawed = fl]
<1>5. fl \in BOOLEAN
  OBVIOUS
<1>6. ~fl => ~job[l].flawed /\ f # NoFrame
  BY <1>4, FrameFacts DEF SpaceInv, SpaceTypes
<1> HIDE DEF fl
<1>7. /\ j \in Job /\ j.pc = "put" /\ j.hand = f /\ j.flawed = fl /\ j.prog = job[l].prog
      /\ j.seg = job[l].seg /\ j.todo = job[l].todo
  BY <1>2, <1>5 DEF Job
<1>8. job' = [job EXCEPT ![l] = j]
  BY <1>2, <1>4 DEF SpaceInv, SpaceTypes, fl
<1> HIDE DEF j
<1>9. job' \in [Loaders -> Job] /\ job'[l] = j /\ \A k \in Loaders : k # l => job'[k] = job[k]
  BY <1>7, <1>8 DEF SpaceInv, SpaceTypes
<1>10. short' \in BOOLEAN /\ (short => short') /\ (~short' => free # {})
  BY <1>4
<1>11. SpaceTypes'
  BY <1>1, <1>4, <1>9, <1>10 DEF SpaceInv, SpaceTypes
<1>12. free' = free \ {f} /\ (f \in free \/ (f = NoFrame /\ free = {}))
  BY <1>4
<1>13. \A q \in Programs : space'[q] = space[q] /\ Own(space[q]) \subseteq Frames
  BY <1>1, SpaceParts DEF SpaceInv
<1>14. FramesApart'
  <2>1. \A k \in Loaders : job'[k].hand \notin free'
    BY <1>7, <1>9, <1>12 DEF SpaceInv, FramesApart
  <2>2. \A k \in Loaders : \A q \in Programs : job'[k].hand \notin Own(space'[q])
    BY <1>7, <1>9, <1>12, <1>13, FrameFacts DEF SpaceInv, FramesApart
  <2>3. \A k \in Loaders : k # l => job[k].hand # f \/ f = NoFrame
    BY <1>12 DEF SpaceInv, FramesApart
  <2>4. \A k, i \in Loaders : job'[k].hand = job'[i].hand /\ job'[k].hand # NoFrame => k = i
    BY <1>7, <1>9, <2>3 DEF SpaceInv, FramesApart
  <2>5. \A q \in Programs : Once(space'[q]) /\ Own(space'[q]) \cap free' = {}
    BY <1>12, <1>13 DEF SpaceInv, FramesApart
  <2>6. \A q, r \in Programs : q # r => Own(space'[q]) \cap Own(space'[r]) = {}
    BY <1>13 DEF SpaceInv, FramesApart
  <2> QED BY <2>1, <2>2, <2>4, <2>5, <2>6 DEF FramesApart
<1>15. AllFound'
  <2>1. ASSUME ~short', ~shrunk', NEW g \in Frames PROVE Found(g)'
    <3>1. Found(g)
      BY <1>1, <1>10, <2>1 DEF SpaceInv, AllFound
    <3>2. CASE g \in free
      BY <1>7, <1>9, <1>12, <3>2 DEF Found
    <3>3. CASE \E q \in Programs : g \in Own(space[q])
      BY <1>13, <3>3 DEF Found
    <3>4. CASE \E k \in Loaders : job[k].hand = g
      BY <1>3, <1>9, <3>4, FrameFacts DEF Found
    <3> QED BY <3>1, <3>2, <3>3, <3>4 DEF Found
  <2> QED BY <2>1 DEF AllFound
<1>16. Through(j) = Through(job[l])
  BY <1>7 DEF Through
<1>17. LoadInv(l)'
  BY <1>0, <1>1, <1>3, <1>6, <1>7, <1>9, <1>16 DEF LoadInv, Unmapped
<1>18. ProgramInv(p)'
  BY <1>1, <1>10, ProgramKept DEF SpaceInv
<1>19. job'[l].prog = p
  BY <1>0, <1>7, <1>9
<1> QED BY <1>1, <1>2, <1>9, <1>10, <1>11, <1>14, <1>15, <1>17, <1>18, <1>19, LoadStepKeeps

\* What the loader holds goes to p, with frames out of the free ones.
LEMMA HandPut ==
  ASSUME SpaceTypes, FramesApart, AllFound, NEW p \in Programs, NEW l \in Loaders,
         \A q \in Programs : q # p => space'[q] = space[q],
         \A k \in Loaders : k # l => job'[k] = job[k], job'[l].hand = NoFrame,
         Once(space'[p]), Own(space'[p]) \cap free' = {}, NoFrame \notin Own(space'[p]),
         Own(space'[p]) \cup free' \subseteq Own(space[p]) \cup free \cup {job[l].hand},
         NoFrame \notin free', short => short', shrunk => shrunk',
         short' \/ shrunk' \/
           Own(space[p]) \cup free \cup ({job[l].hand} \ {NoFrame}) \subseteq Own(space'[p]) \cup free'
  PROVE  FramesApart' /\ AllFound'
<1> DEFINE h == job[l].hand
<1>1. \A q \in Programs : Once(space[q]) /\ Own(space[q]) \cap free = {} /\ h \notin Own(space[q])
  BY DEF FramesApart
<1>2. \A q, r \in Programs : q # r => Own(space[q]) \cap Own(space[r]) = {}
  BY DEF FramesApart
<1>3. \A k \in Loaders : job[k].hand \notin free /\ (k # l => job[k].hand # h \/ h = NoFrame)
  BY DEF FramesApart
<1>4. \A k \in Loaders : \A q \in Programs : job[k].hand \notin Own(space[q])
  BY DEF FramesApart
<1>5. \A q \in Programs : NoFrame \notin Own(space[q])
  BY SpaceParts, FrameFacts
<1>6. \A q \in Programs : q # p => Own(space'[q]) = Own(space[q]) /\ Once(space'[q])
  BY <1>1
<1>7. \A q \in Programs : Once(space'[q]) /\ Own(space'[q]) \cap free' = {}
  BY <1>1, <1>2, <1>6
<1>8. \A q, r \in Programs : q # r => Own(space'[q]) \cap Own(space'[r]) = {}
  BY <1>1, <1>2, <1>6
<1>9. \A k \in Loaders : job'[k].hand \notin free'
  BY <1>3, <1>4
<1>10. \A k \in Loaders : \A q \in Programs : job'[k].hand \notin Own(space'[q])
  <2>1. ASSUME NEW k \in Loaders, k # l, NEW q \in Programs PROVE job'[k].hand \notin Own(space'[q])
    BY <1>3, <1>4, <1>6, <2>1
  <2>2. ASSUME NEW q \in Programs PROVE job'[l].hand \notin Own(space'[q])
    BY <1>5, <1>6
  <2> QED BY <2>1, <2>2
<1>11. \A k, i \in Loaders : job'[k].hand = job'[i].hand /\ job'[k].hand # NoFrame => k = i
  BY DEF FramesApart
<1>12. FramesApart'
  BY <1>7, <1>8, <1>9, <1>10, <1>11 DEF FramesApart
<1>13. ASSUME ~short', ~shrunk', NEW f \in Frames PROVE Found(f)'
  <2>1. f \in free \/ (\E q \in Programs : f \in Own(space[q])) \/ \E k \in Loaders : job[k].hand = f
    BY <1>13 DEF AllFound, Found
  <2>2. CASE f \in free \/ f \in Own(space[p]) \/ f = h
    BY <1>13, <2>2, FrameFacts DEF Found
  <2>3. CASE \E q \in Programs : q # p /\ f \in Own(space[q])
    BY <1>6, <2>3 DEF Found
  <2>4. CASE \E k \in Loaders : k # l /\ job[k].hand = f
    BY <2>4 DEF Found
  <2> QED BY <2>1, <2>2, <2>3, <2>4
<1>14. AllFound'
  BY <1>13 DEF AllFound
<1> QED BY <1>12, <1>14

\* A walk begins with what the program has.
LEMMA MemoryWalk ==
  ASSUME SpaceInv, NEW p \in Programs
  PROVE  /\ Memory(p) \in Walks /\ Clean(Memory(p)) /\ Memory(p).free = free
         /\ Memory(p).table = space[p].table /\ Memory(p).page = space[p].page
         /\ Own(Memory(p)) = Own(space[p])
<1>1. space[p].table \in Tables /\ space[p].page \in Pages /\ free \subseteq Frames
  BY SpaceParts DEF SpaceInv, SpaceTypes
<1>2. /\ Memory(p) \in Walks /\ Memory(p).free = free
      /\ Memory(p).table = space[p].table /\ Memory(p).page = space[p].page
  BY <1>1 DEF Memory, Walks
<1>3. Own(Memory(p)) = Own(space[p]) /\ (Once(Memory(p)) <=> Once(space[p]))
  BY <1>2, OwnSame
<1>4. Clean(Memory(p))
  BY <1>2, <1>3 DEF Clean, SpaceInv, FramesApart
<1> QED BY <1>2, <1>3, <1>4

LEMMA PutKeeps ==
  ASSUME SpaceInv, ~stopped, ~sbrk.on, NEW l \in Loaders, Put(l)
  PROVE  SpaceInv'
<1>1. job[l].pc = "put" /\ UNCHANGED <<sbrk, shrunk, stopped>>
  BY DEF Put, At
<1>0. PICK p \in Programs : p = job[l].prog
  BY <1>1, Loading
<1>2. /\ job[l] \in Job /\ space[p] \in Space /\ space[p].state = "loading" /\ space[p].brk = HeapBase
      /\ \A t \in DOMAIN space[p].table : t \notin HeapNames
      /\ \A v \in DOMAIN space[p].page : ~HeapPage(v)
      /\ \A k \in Loaders : k # l /\ job[k].pc # "idle" => job[k].prog # p
  BY <1>0, <1>1, Loading
<1>3. /\ job[l].seg \in 1 .. Len(Segments) + 1 /\ job[l].todo \subseteq Area(job[l].seg)
      /\ DOMAIN space[p].page \subseteq Through(job[l]) /\ space[p].filled = {}
      /\ ~job[l].flawed => Through(job[l]) \subseteq DOMAIN space[p].page
      /\ ~job[l].flawed => \A v \in DOMAIN space[p].page : space[p].page[v] # NoFrame
      /\ ~job[l].flawed => job[l].hand # NoFrame
  BY <1>0, <1>1 DEF SpaceInv, LoadInv
<1>4. PICK v \in job[l].todo :
       LET m == Descend(Memory(p), v)
       IN /\ free' = m.free
          /\ short' = (short \/ ~m.ok)
          /\ space' = [space EXCEPT ![p].table = m.table,
               ![p].page = IF m.ok THEN With(@, v, job[l].hand) ELSE @]
          /\ job' = [job EXCEPT ![l].pc = "page", ![l].hand = NoFrame,
               ![l].todo = @ \ {v}, ![l].flawed = @ \/ ~m.ok]
  BY <1>0 DEF Put
<1>5. v \in Nat /\ ~HeapPage(v) /\ v \in Area(job[l].seg) /\ v \notin Through(job[l])
  BY <1>3, AreaFacts DEF Through
<1>6. PICK d : d = Descend(Memory(p), v)
  OBVIOUS
<1>7. Walked(Memory(p), d, Names \ HeapNames)
  BY <1>5, <1>6, MemoryWalk, DescendWalked
<1>8. /\ d \in Walks /\ Clean(d) /\ d.page = space[p].page /\ d.free \subseteq free
      /\ Own(d) \cup d.free = Own(space[p]) \cup free
      /\ DOMAIN d.table \subseteq DOMAIN space[p].table \cup (Names \ HeapNames)
  BY <1>7, MemoryWalk DEF Walked
<1>9. d.table \in Tables /\ d.page \in Pages /\ d.free \subseteq Frames /\ d.ok \in BOOLEAN
  BY <1>8 DEF Walks
<1> DEFINE h == job[l].hand
           g == IF d.ok THEN With(space[p].page, v, h) ELSE space[p].page
           s == [space[p] EXCEPT !.table = d.table, !.page = g]
           fl == job[l].flawed \/ ~d.ok
           j == [job[l] EXCEPT !.pc = "page", !.hand = NoFrame, !.todo = @ \ {v}, !.flawed = fl]
<1>10. h \in Frames \cup {NoFrame} /\ space[p].page \in Pages
  BY <1>2 DEF Job, Space
<1>11. g \in Pages
  BY <1>5, <1>10, PageFacts
<1>12. DOMAIN g = IF d.ok THEN DOMAIN space[p].page \cup {v} ELSE DOMAIN space[p].page
  BY DEF With
<1>13. ~fl => /\ d.ok /\ ~job[l].flawed
  BY <1>9
<1>14. fl \in BOOLEAN
  OBVIOUS
<1>15. ~fl => \A w \in DOMAIN g : g[w] # NoFrame
  BY <1>3, <1>13 DEF With
<1>16. free' = d.free /\ short' = (short \/ ~d.ok)
  BY <1>4, <1>6
<1>17. space' = [space EXCEPT ![p] = s]
  BY <1>4, <1>6, <1>2 DEF SpaceInv, SpaceTypes
<1>18. job' = [job EXCEPT ![l] = j]
  BY <1>4, <1>6, <1>2 DEF SpaceInv, SpaceTypes
<1> HIDE DEF g, fl
<1>19. /\ s \in Space /\ s.table = d.table /\ s.page = g /\ s.state = "loading"
       /\ s.brk = HeapBase /\ s.filled = {}
  BY <1>2, <1>3, <1>9, <1>11 DEF Space
<1>20. /\ j \in Job /\ j.pc = "page" /\ j.hand = NoFrame /\ j.todo = job[l].todo \ {v}
       /\ j.flawed = fl /\ j.seg = job[l].seg /\ j.prog = p
  BY <1>0, <1>2, <1>14 DEF Job
<1> HIDE DEF s, j
<1>21. /\ space' \in [Programs -> Space] /\ space'[p] = s
       /\ \A q \in Programs : q # p => space'[q] = space[q]
  BY <1>17, <1>19 DEF SpaceInv, SpaceTypes
<1>22. job' \in [Loaders -> Job] /\ job'[l] = j /\ \A k \in Loaders : k # l => job'[k] = job[k]
  BY <1>18, <1>20 DEF SpaceInv, SpaceTypes
<1>23. short' \in BOOLEAN /\ (short => short') /\ (~d.ok => short')
  BY <1>16
<1>24. SpaceTypes'
  BY <1>1, <1>9, <1>16, <1>21, <1>22, <1>23 DEF SpaceInv, SpaceTypes
<1>25. h \notin Own(space[p]) /\ h \notin free
  BY DEF SpaceInv, FramesApart
<1>26. h \notin Own(d) /\ Once(d) /\ Own(d) \cap d.free = {}
  BY <1>8, <1>25 DEF Clean
<1>27. /\ Own(s) \subseteq Own(d) \cup {h} /\ Own(d) \subseteq Own(s)
       /\ d.ok /\ h # NoFrame => h \in Own(s)
       /\ Once(s) /\ NoFrame \notin Own(s)
  <2>1. CASE d.ok
    <3>1. s.page = With(d.page, v, h)
      BY <1>8, <1>19, <2>1 DEF g
    <3>2. v \notin DOMAIN d.page
      BY <1>3, <1>5, <1>8
    <3>3. /\ Own(s) \subseteq Own(d) \cup {h} /\ Once(s) /\ (h # NoFrame => h \in Own(s))
          /\ NoFrame \notin Own(s) /\ Own(s) = Own(d) \cup ({h} \ {NoFrame})
      BY <1>5, <1>9, <1>10, <1>19, <1>26, <3>1, <3>2, OwnPageMore
    <3> QED BY <3>3
  <2>2. CASE ~d.ok
    <3>1. s.page = d.page
      BY <1>8, <1>19, <2>2 DEF g
    <3>2. Own(s) = Own(d) /\ Once(s)
      BY <1>19, <1>26, <3>1, OwnSame
    <3>3. NoFrame \notin Own(d)
      BY <1>9, TableFacts, FrameFacts DEF Own
    <3> QED BY <2>2, <3>2, <3>3
  <2> QED BY <2>1, <2>2
<1>28. FramesApart' /\ AllFound'
  <2>1. NoFrame \notin free' /\ Own(s) \cap free' = {}
    BY <1>8, <1>9, <1>16, <1>25, <1>26, <1>27, FrameFacts
  <2>2. Own(s) \cup free' \subseteq Own(space[p]) \cup free \cup {h}
    BY <1>8, <1>16, <1>27
  <2>3. short' \/ shrunk' \/ Own(space[p]) \cup free \cup ({h} \ {NoFrame}) \subseteq Own(s) \cup free'
    BY <1>8, <1>16, <1>23, <1>27
  <2>4. job'[l].hand = NoFrame
    BY <1>20, <1>22
  <2> HIDE DEF h
  <2>5. job[l].hand = h
    BY DEF h
  <2>6. SpaceTypes /\ FramesApart /\ AllFound /\ (shrunk => shrunk')
    BY <1>1 DEF SpaceInv
  <2> QED BY <1>21, <1>22, <1>23, <1>27, <2>1, <2>2, <2>3, <2>4, <2>5, <2>6, HandPut
<1>29. Through(j) = Through(job[l]) \cup {v}
  <2>1. \A w : w \in Through(j) <=> w \in Through(job[l]) \/ w = v
    BY <1>3, <1>5, <1>20, ThroughIs
  <2> QED BY <2>1
<1>30. LoadInv(l)'
  <2>1. DOMAIN g \subseteq Through(j) /\ (~fl => Through(j) \subseteq DOMAIN g)
    BY <1>3, <1>12, <1>13, <1>29
  <2>2. /\ job'[l].pc = "page" /\ job'[l].hand = NoFrame /\ job'[l].todo \subseteq Area(job'[l].seg)
        /\ job'[l].flawed = fl /\ job'[l].seg = job[l].seg /\ job'[l].prog = p
    BY <1>3, <1>20, <1>22
  <2>3. space'[p].state = "loading" /\ space'[p].page = g /\ space'[p].filled = {}
    BY <1>19, <1>21
  <2> QED BY <1>3, <1>15, <1>22, <2>1, <2>2, <2>3 DEF LoadInv, Unmapped
<1>31. ProgramInv(p)'
  <2>1. p \in Programs /\ space'[p].state = "loading" /\ space'[p].brk = HeapBase
    BY <1>19, <1>21
  <2>2. \A t \in DOMAIN space'[p].table : t \notin HeapNames
    BY <1>2, <1>8, <1>19, <1>21
  <2>3. \A w \in DOMAIN space'[p].page : ~HeapPage(w)
    BY <1>2, <1>5, <1>12, <1>19, <1>21
  <2> QED BY <2>1, <2>2, <2>3, LoadingProgram
<1>32. job'[l].prog = p
  BY <1>20, <1>22
<1> QED BY <1>1, <1>2, <1>21, <1>22, <1>23, <1>24, <1>28, <1>30, <1>31, <1>32, LoadStepKeeps

-----------------------------------------------------------------------------
\* The steps of a running program

LEMMA BreakFacts ==
  /\ HeapBase \in Nat /\ HeapBase % 2 = 0
  /\ \A m, n \in Nat : PagesOf(m, n) \subseteq Nat /\ NewPages(m, n) \subseteq Nat
  /\ \A m, n \in Nat : m <= n => PagesOf(HeapBase, m) \subseteq PagesOf(HeapBase, n)
  /\ \A m, n \in Nat : PagesOf(HeapBase, n) \subseteq PagesOf(HeapBase, m) \cup NewPages(m, n)
  /\ \A m, n \in Nat : \A v \in NewPages(m, n) :
       ~(v < Below(m)) /\ v < Below(n) /\ (HeapBase <= m => HeapPage(v))
  /\ \A m, n \in Nat : m <= n => Below(m) <= Below(n)
  /\ \A m \in Nat : Below(m) \in Nat
<1>1. HeapBase \in Nat /\ HeapBase % 2 = 0
  BY SpaceAssumption
<1>2. \A m, n \in Nat : PagesOf(m, n) \subseteq Nat /\ NewPages(m, n) \subseteq Nat
  BY DEF PagesOf, NewPages
<1>3. \A m, n \in Nat : m <= n => PagesOf(HeapBase, m) \subseteq PagesOf(HeapBase, n)
  BY <1>1 DEF PagesOf
<1>4. \A m, n \in Nat : PagesOf(HeapBase, n) \subseteq PagesOf(HeapBase, m) \cup NewPages(m, n)
  BY <1>1 DEF PagesOf, NewPages
<1>5. \A m, n \in Nat : \A v \in NewPages(m, n) :
       ~(v < Below(m)) /\ v < Below(n) /\ (HeapBase <= m => HeapPage(v))
  BY <1>1 DEF NewPages, Below, HeapPage
<1>6. \A m, n \in Nat : m <= n => Below(m) <= Below(n)
  BY DEF Below
<1>7. \A m \in Nat : Below(m) \in Nat
  BY DEF Below
<1> QED BY <1>1, <1>2, <1>3, <1>4, <1>5, <1>6, <1>7

\* A step of p, which is running: no load is concerned.
LEMMA RunKeeps ==
  ASSUME SpaceInv, ~stopped, NEW p \in Programs, space[p].state = "live",
         \A q \in Programs : q # p => space'[q] = space[q],
         job' = job, stopped' = stopped, SpaceTypes', FramesApart', AllFound',
         short => short', shrunk => shrunk', sbrk' = sbrk \/ ~sbrk.on \/ sbrk.prog = p,
         ProgramInv(p)', GrowthInv'
  PROVE  SpaceInv'
<1>1. LoadsApart'
  BY DEF SpaceInv, LoadsApart
<1>2. \A k \in Loaders : LoadInv(k)'
  <2>1. ASSUME NEW k \in Loaders, job[k].pc # "idle" PROVE space'[job[k].prog] = space[job[k].prog]
    BY <2>1, Loading
  <2> QED BY <2>1, LoadKept DEF SpaceInv
<1>3. \A q \in Programs : q # p => ProgramInv(q)'
  BY ProgramKept DEF SpaceInv
<1> QED BY <1>1, <1>2, <1>3 DEF SpaceInv

LEMMA DiesKeeps ==
  ASSUME SpaceInv, ~stopped, ~sbrk.on, NEW p \in Programs, Dies(p)
  PROVE  SpaceInv'
<1> DEFINE s == [space[p] EXCEPT !.state = "dead"]
<1>1. space[p].state = "live" /\ space' = [space EXCEPT ![p] = s]
      /\ UNCHANGED <<free, job, sbrk, kernelHit, short, shrunk, stopped>>
  BY DEF Dies, SpaceInv, SpaceTypes
<1>2. /\ s \in Space /\ s.state = "dead" /\ s.table = space[p].table /\ s.page = space[p].page
      /\ s.brk = space[p].brk /\ s.filled = space[p].filled /\ s.flawed = space[p].flawed
  BY SpaceParts DEF SpaceInv, Space
<1> HIDE DEF s
<1>3. /\ space' \in [Programs -> Space] /\ space'[p] = s
      /\ \A q \in Programs : q # p => space'[q] = space[q]
  BY <1>1, <1>2 DEF SpaceInv, SpaceTypes
<1>4. SpaceTypes'
  BY <1>1, <1>3 DEF SpaceInv, SpaceTypes
<1>5. FramesApart' /\ AllFound'
  <2>1. \A q \in Programs : space'[q].table = space[q].table /\ space'[q].page = space[q].page
    BY <1>2, <1>3
  <2> QED BY <1>1, <2>1, FramesKept DEF SpaceInv
<1>6. ProgramInv(p)'
  <2>1. ProgramInv(p) /\ space[p].state = "live"
    BY <1>1 DEF SpaceInv
  <2>2. /\ space'[p].state = "dead" /\ space'[p].page = space[p].page /\ space'[p].brk = space[p].brk
        /\ sbrk' = sbrk /\ short' = short /\ shrunk' = shrunk
    BY <1>1, <1>2, <1>3
  <2> QED BY <2>1, <2>2 DEF ProgramInv
<1>7. GrowthInv'
  BY <1>1 DEF GrowthInv
<1> QED BY <1>1, <1>3, <1>4, <1>5, <1>6, <1>7, RunKeeps

LEMMA SbrkKeeps ==
  ASSUME SpaceInv, ~stopped, ~sbrk.on, NEW p \in Programs, NEW inc \in Increments, Sbrk(p, inc)
  PROVE  SpaceInv'
<1> DEFINE old == space[p].brk
           new == old + inc
<1>1. /\ space[p].state = "live" /\ new \in HeapBase .. MaxBreak
      /\ shrunk' = (shrunk \/ inc < 0) /\ UNCHANGED <<free, job, kernelHit, short, stopped>>
  BY DEF Sbrk
<1>2. /\ space[p] \in Space /\ old \in Nat /\ inc \in Int /\ new \in Nat /\ new >= HeapBase
      /\ old >= HeapBase
  BY <1>1, SpaceParts, SpaceAssumption DEF SpaceInv, Space, ProgramInv
<1>3. shrunk' \in BOOLEAN /\ (shrunk => shrunk')
  BY <1>1
<1>4. CASE inc > 0
  <2>1. /\ sbrk' = [prog |-> p, on |-> TRUE, todo |-> NewPages(old, new), to |-> new]
        /\ UNCHANGED space
    BY <1>4 DEF Sbrk
  <2>2. NewPages(old, new) \subseteq Nat
    BY <1>2, BreakFacts
  <2>3. SpaceTypes'
    BY <1>1, <1>2, <1>3, <2>1, <2>2 DEF SpaceInv, SpaceTypes, Call
  <2>4. FramesApart' /\ AllFound'
    BY <1>1, <1>3, <2>1, FramesKept DEF SpaceInv
  <2>5. ProgramInv(p)'
    BY <1>1, <1>3, <2>1, ProgramKept DEF SpaceInv
  <2>6. GrowthInv'
    BY <1>1, <1>2, <1>4, <2>1 DEF GrowthInv
  <2> QED BY <1>1, <1>3, <2>1, <2>3, <2>4, <2>5, <2>6, RunKeeps
<1>5. CASE ~(inc > 0)
  <2> DEFINE s == [space[p] EXCEPT !.brk = new]
  <2>1. space' = [space EXCEPT ![p] = s] /\ UNCHANGED sbrk
    BY <1>5 DEF Sbrk, SpaceInv, SpaceTypes
  <2>2. /\ s \in Space /\ s.state = "live" /\ s.table = space[p].table /\ s.page = space[p].page
        /\ s.brk = new /\ s.filled = space[p].filled /\ s.flawed = space[p].flawed
    BY <1>1, <1>2 DEF Space
  <2> HIDE DEF s
  <2>3. /\ space' \in [Programs -> Space] /\ space'[p] = s
        /\ \A q \in Programs : q # p => space'[q] = space[q]
    BY <2>1, <2>2 DEF SpaceInv, SpaceTypes
  <2>4. SpaceTypes'
    BY <1>1, <1>3, <2>1, <2>3 DEF SpaceInv, SpaceTypes
  <2>5. FramesApart' /\ AllFound'
    <3>1. \A q \in Programs : space'[q].table = space[q].table /\ space'[q].page = space[q].page
      BY <2>2, <2>3
    <3> QED BY <1>1, <1>3, <3>1, FramesKept DEF SpaceInv
  <2>6. ProgramInv(p)'
    <3>1. ProgramInv(p)
      BY DEF SpaceInv
    <3>2. /\ space'[p].state = "live" /\ space'[p].page = space[p].page /\ space'[p].brk = new
          /\ space'[p].filled = space[p].filled /\ space'[p].flawed = space[p].flawed
          /\ sbrk' = sbrk
      BY <2>1, <2>2, <2>3
    <3>3. PagesOf(HeapBase, new) \subseteq DOMAIN space'[p].page
      <4>1. new <= old
        BY <1>2, <1>5
      <4>2. PagesOf(HeapBase, new) \subseteq PagesOf(HeapBase, old)
        BY <1>2, <4>1, BreakFacts
      <4>3. PagesOf(HeapBase, old) \subseteq DOMAIN space[p].page
        BY <3>1 DEF ProgramInv
      <4> QED BY <3>2, <4>2, <4>3
    <3>4. short' \/ shrunk' \/ \A v \in DOMAIN space'[p].page : HeapPage(v) => v < Below(space'[p].brk)
      <4>1. CASE inc < 0
        BY <1>1, <4>1
      <4>2. CASE inc = 0
        <5>1. space'[p].brk = space[p].brk
          BY <1>2, <3>2, <4>2
        <5>2. short \/ shrunk \/ \A v \in DOMAIN space[p].page : HeapPage(v) => v < Below(space[p].brk)
          BY <3>1 DEF ProgramInv
        <5>3. (short => short') /\ (shrunk => shrunk')
          BY <1>1
        <5> HIDE DEF HeapPage
        <5> QED BY <3>2, <5>1, <5>2, <5>3
      <4> QED BY <1>2, <1>5, <4>1, <4>2
    <3> QED BY <1>1, <1>2, <3>1, <3>2, <3>3, <3>4 DEF ProgramInv
  <2>7. GrowthInv'
    BY <2>1 DEF GrowthInv
  <2> QED BY <1>1, <1>3, <2>1, <2>3, <2>4, <2>5, <2>6, <2>7, RunKeeps
<1> QED BY <1>4, <1>5

LEMMA GrownKeeps ==
  ASSUME SpaceInv, ~stopped, Grown
  PROVE  SpaceInv'
<1>0. PICK p \in Programs : p = sbrk.prog
  BY DEF SpaceInv, GrowthInv, Grown
<1>1. /\ sbrk.on /\ sbrk.todo = {} /\ space[p].state = "live" /\ sbrk.to > space[p].brk
      /\ NewPages(space[p].brk, sbrk.to) \subseteq DOMAIN space[p].page
  BY <1>0 DEF SpaceInv, GrowthInv, Grown
<1>2. sbrk' = NoCall /\ UNCHANGED <<free, job, kernelHit, short, shrunk, stopped>>
  BY DEF Grown
<1> DEFINE old == space[p].brk
           new == sbrk.to
           s == [space[p] EXCEPT !.brk = new]
<1>3. /\ space[p] \in Space /\ old \in Nat /\ new \in Nat /\ old >= HeapBase /\ HeapBase \in Nat
  BY SpaceParts, SpaceAssumption DEF SpaceInv, SpaceTypes, Space, Call, ProgramInv
<1>4. space' = [space EXCEPT ![p] = s]
  BY <1>0 DEF Grown, SpaceInv, SpaceTypes
<1>5. /\ s \in Space /\ s.state = "live" /\ s.table = space[p].table /\ s.page = space[p].page
      /\ s.brk = new /\ s.filled = space[p].filled /\ s.flawed = space[p].flawed
  BY <1>1, <1>3 DEF Space
<1> HIDE DEF s
<1>6. /\ space' \in [Programs -> Space] /\ space'[p] = s
      /\ \A q \in Programs : q # p => space'[q] = space[q]
  BY <1>4, <1>5 DEF SpaceInv, SpaceTypes
<1>7. NoCall \in Call /\ ~NoCall.on
  BY SpaceAssumption DEF NoCall, Call
<1>8. SpaceTypes'
  BY <1>2, <1>6, <1>7 DEF SpaceInv, SpaceTypes
<1>9. FramesApart' /\ AllFound'
  <2>1. \A q \in Programs : space'[q].table = space[q].table /\ space'[q].page = space[q].page
    BY <1>5, <1>6
  <2> QED BY <1>2, <2>1, FramesKept DEF SpaceInv
<1>10. ProgramInv(p)'
  <2>1. ProgramInv(p)
    BY DEF SpaceInv
  <2>2. /\ space'[p].state = "live" /\ space'[p].page = space[p].page /\ space'[p].brk = new
        /\ space'[p].filled = space[p].filled /\ space'[p].flawed = space[p].flawed
    BY <1>5, <1>6
  <2>3. PagesOf(HeapBase, new) \subseteq DOMAIN space'[p].page
    <3>1. PagesOf(HeapBase, new) \subseteq PagesOf(HeapBase, old) \cup NewPages(old, new)
      BY <1>3, BreakFacts
    <3>2. PagesOf(HeapBase, old) \subseteq DOMAIN space[p].page
      BY <2>1 DEF ProgramInv
    <3> QED BY <1>1, <2>2, <3>1, <3>2
  <2>4. ASSUME ~short', ~shrunk', NEW v \in DOMAIN space'[p].page, HeapPage(v)
        PROVE  v < Below(new)
    <3>1. v < Below(old) \/ v \in NewPages(old, new)
      BY <1>0, <1>1, <1>2, <2>1, <2>2, <2>4 DEF ProgramInv
    <3>2. old <= new /\ v \in Nat
      BY <1>1, <1>3, <2>2, SpaceParts DEF SpaceInv
    <3>3. Below(old) <= Below(new) /\ Below(old) \in Nat /\ Below(new) \in Nat
      BY <1>3, <3>2, BreakFacts
    <3>4. v \in NewPages(old, new) => v < Below(new)
      BY <1>3, BreakFacts
    <3> QED BY <3>1, <3>2, <3>3, <3>4
  <2>5. new >= HeapBase
    BY <1>1, <1>3
  <2> HIDE DEF HeapPage
  <2> QED BY <2>1, <2>2, <2>3, <2>4, <2>5, <1>1 DEF ProgramInv
<1>11. GrowthInv'
  BY <1>2, <1>7 DEF GrowthInv
<1> QED BY <1>0, <1>1, <1>2, <1>6, <1>8, <1>9, <1>10, <1>11, RunKeeps

\* The next page of a growth, and what is known of it.
LEMMA Growing ==
  ASSUME SpaceInv, GrowByPage
  PROVE  /\ sbrk.on /\ sbrk.prog \in Programs /\ space[sbrk.prog].state = "live"
         /\ sbrk.to \in Nat /\ space[sbrk.prog].brk \in Nat /\ space[sbrk.prog].brk >= HeapBase
         /\ sbrk.to > space[sbrk.prog].brk
         /\ sbrk.todo \subseteq NewPages(space[sbrk.prog].brk, sbrk.to)
         /\ NewPages(space[sbrk.prog].brk, sbrk.to) \ sbrk.todo \subseteq DOMAIN space[sbrk.prog].page
         /\ \A v \in sbrk.todo : /\ v \in Nat /\ HeapPage(v) /\ ~(v < Below(space[sbrk.prog].brk))
                                 /\ ~(short \/ shrunk) => v \notin DOMAIN space[sbrk.prog].page
<1>1. /\ sbrk.on /\ sbrk.prog \in Programs /\ space[sbrk.prog].state = "live"
      /\ sbrk.to > space[sbrk.prog].brk
      /\ sbrk.todo \subseteq NewPages(space[sbrk.prog].brk, sbrk.to)
      /\ NewPages(space[sbrk.prog].brk, sbrk.to) \ sbrk.todo \subseteq DOMAIN space[sbrk.prog].page
  BY DEF SpaceInv, GrowthInv, GrowByPage
<1>2. /\ sbrk.to \in Nat /\ space[sbrk.prog].brk \in Nat /\ space[sbrk.prog].brk >= HeapBase
  BY <1>1, SpaceParts DEF SpaceInv, SpaceTypes, Space, Call, ProgramInv
<1>3. ASSUME NEW v \in sbrk.todo
      PROVE  v \in Nat /\ HeapPage(v) /\ ~(v < Below(space[sbrk.prog].brk))
  BY <1>1, <1>2, BreakFacts
<1>4. ASSUME NEW v \in sbrk.todo, ~short, ~shrunk
      PROVE  v \notin DOMAIN space[sbrk.prog].page
  <2>1. ProgramInv(sbrk.prog)
    BY <1>1 DEF SpaceInv
  <2> HIDE DEF HeapPage
  <2> QED BY <1>3, <1>4, <2>1 DEF ProgramInv
<1> QED BY <1>1, <1>2, <1>3, <1>4

\* A growth that gives up: memory has run out, and what is mapped stays.
LEMMA GivesUp ==
  ASSUME SpaceInv, ~stopped, GrowByPage, sbrk' = NoCall, short' = TRUE, shrunk' = shrunk,
         job' = job, stopped' = stopped, free' \subseteq Frames,
         NEW p \in Programs, p = sbrk.prog, NEW g \in Tables,
         space' = [space EXCEPT ![p].table = g],
         Once(space'[p]), Own(space'[p]) \cap free' = {},
         Own(space'[p]) \cup free' \subseteq Own(space[p]) \cup free
  PROVE  SpaceInv'
<1> DEFINE s == [space[p] EXCEPT !.table = g]
<1>1. space[p] \in Space /\ space[p].state = "live"
  BY SpaceParts, Growing DEF SpaceInv
<1>2. /\ s \in Space /\ s.state = "live" /\ s.page = space[p].page
      /\ s.brk = space[p].brk /\ s.filled = space[p].filled /\ s.flawed = space[p].flawed
  BY <1>1 DEF Space
<1>3. space' = [space EXCEPT ![p] = s]
  BY DEF SpaceInv, SpaceTypes
<1> HIDE DEF s
<1>4. /\ space' \in [Programs -> Space] /\ space'[p] = s
      /\ \A q \in Programs : q # p => space'[q] = space[q]
  BY <1>2, <1>3 DEF SpaceInv, SpaceTypes
<1>5. NoCall \in Call /\ ~NoCall.on
  BY SpaceAssumption DEF NoCall, Call
<1>6. SpaceTypes'
  BY <1>4, <1>5 DEF SpaceInv, SpaceTypes
<1>7. FramesApart' /\ AllFound'
  BY <1>4, FramesTraded DEF SpaceInv
<1>8. ProgramInv(p)'
  <2>1. ProgramInv(p)
    BY DEF SpaceInv
  <2>2. /\ space'[p].state = "live" /\ space'[p].page = space[p].page /\ space'[p].brk = space[p].brk
        /\ space'[p].filled = space[p].filled /\ space'[p].flawed = space[p].flawed
    BY <1>2, <1>4
  <2> QED BY <1>1, <2>1, <2>2 DEF ProgramInv
<1>9. GrowthInv'
  BY <1>5 DEF GrowthInv
<1> QED BY <1>1, <1>4, <1>6, <1>7, <1>8, <1>9, RunKeeps

\* A growth that has its page.
LEMMA PageGrown ==
  ASSUME SpaceInv, ~stopped, GrowByPage, short' = short, shrunk' = shrunk,
         job' = job, stopped' = stopped, free' \subseteq Frames,
         NEW p \in Programs, p = sbrk.prog, NEW g \in Tables, NEW f \in Frames, NEW v \in sbrk.todo,
         sbrk' = [sbrk EXCEPT !.todo = @ \ {v}],
         space' = [space EXCEPT ![p].table = g, ![p].page = With(@, v, f)],
         Once(space'[p]), Own(space'[p]) \cap free' = {},
         Own(space'[p]) \cup free' \subseteq Own(space[p]) \cup free,
         v \notin DOMAIN space[p].page => Own(space[p]) \cup free \subseteq Own(space'[p]) \cup free'
  PROVE  SpaceInv'
<1> DEFINE s == [space[p] EXCEPT !.table = g, !.page = With(@, v, f)]
<1>1. space[p] \in Space /\ space[p].state = "live" /\ space[p].page \in Pages
  BY SpaceParts, Growing DEF SpaceInv
<1>2. v \in Nat /\ HeapPage(v) /\ (~(short \/ shrunk) => v \notin DOMAIN space[p].page)
  BY Growing
<1>3. With(space[p].page, v, f) \in Pages
  BY <1>1, <1>2, PageFacts
<1>4. /\ s \in Space /\ s.state = "live" /\ s.page = With(space[p].page, v, f)
      /\ s.brk = space[p].brk /\ s.filled = space[p].filled /\ s.flawed = space[p].flawed
  BY <1>1, <1>3 DEF Space
<1>5. space' = [space EXCEPT ![p] = s]
  BY DEF SpaceInv, SpaceTypes
<1> HIDE DEF s
<1>6. /\ space' \in [Programs -> Space] /\ space'[p] = s
      /\ \A q \in Programs : q # p => space'[q] = space[q]
  <2>1. space \in [Programs -> Space]
    BY DEF SpaceInv, SpaceTypes
  <2>2. space' \in [Programs -> Space]
    BY <1>4, <1>5, <2>1
  <2>3. space'[p] = s
    BY <1>5, <2>1
  <2>4. \A q \in Programs : q # p => space'[q] = space[q]
    BY <1>5, <2>1
  <2> QED BY <2>2, <2>3, <2>4
<1>7. /\ sbrk' \in Call /\ sbrk'.prog = p /\ sbrk'.on = sbrk.on /\ sbrk'.to = sbrk.to
      /\ sbrk'.todo = sbrk.todo \ {v}
  BY DEF SpaceInv, SpaceTypes, Call
<1>8. SpaceTypes'
  BY <1>6, <1>7 DEF SpaceInv, SpaceTypes
<1>9. FramesApart' /\ AllFound'
  BY <1>2, <1>6, FramesTraded DEF SpaceInv
<1>10. /\ DOMAIN s.page = DOMAIN space[p].page \cup {v} /\ s.page[v] = f
       /\ \A w \in DOMAIN space[p].page : w # v => s.page[w] = space[p].page[w]
  BY <1>4 DEF With
<1>11. ProgramInv(p)'
  <2>1. ProgramInv(p)
    BY DEF SpaceInv
  <2>2. /\ space'[p].state = "live" /\ space'[p].page = s.page /\ space'[p].brk = space[p].brk
        /\ space'[p].filled = space[p].filled /\ space'[p].flawed = space[p].flawed
    BY <1>4, <1>6
  <2>3. space[p].brk >= HeapBase /\ PagesOf(HeapBase, space[p].brk) \subseteq DOMAIN s.page
    BY <1>10, <2>1 DEF ProgramInv
  <2>4. ~space[p].flawed =>
          /\ Areas \subseteq DOMAIN s.page /\ space[p].filled = Contents([seg |-> Len(Segments) + 1])
          /\ \A w \in DOMAIN s.page : s.page[w] # NoFrame
    BY <1>1, <1>10, <2>1, FrameFacts DEF ProgramInv
  <2>5. ASSUME ~short', ~shrunk', NEW w \in DOMAIN s.page, HeapPage(w)
        PROVE  \/ w < Below(space[p].brk)
               \/ sbrk'.on /\ sbrk'.prog = p /\ w \in NewPages(space[p].brk, sbrk'.to) \ sbrk'.todo
    <3>1. CASE w = v
      BY <1>7, <3>1, Growing
    <3>2. CASE w # v
      <4>1. \/ w < Below(space[p].brk)
            \/ sbrk.on /\ sbrk.prog = p /\ w \in NewPages(space[p].brk, sbrk.to) \ sbrk.todo
        BY <1>10, <2>1, <2>5, <3>2 DEF ProgramInv
      <4> QED BY <1>7, <4>1
    <3> QED BY <3>1, <3>2
  <2> HIDE DEF HeapPage
  <2> QED BY <2>2, <2>3, <2>4, <2>5 DEF ProgramInv
<1>12. GrowthInv'
  BY <1>4, <1>6, <1>7, <1>10, Growing DEF GrowthInv
<1> QED BY <1>1, <1>6, <1>8, <1>9, <1>11, <1>12, RunKeeps

LEMMA GrowByPageKeeps ==
  ASSUME SpaceInv, ~stopped, GrowByPage
  PROVE  SpaceInv'
<1>0. PICK p \in Programs : p = sbrk.prog
  BY Growing
<1> DEFINE f == Pick(free, p)
<1>1. PICK v \in sbrk.todo :
       LET m == Descend([Memory(p) EXCEPT !.free = @ \ {f}], v)
       IN \/ /\ free = {}
             /\ sbrk' = NoCall /\ short' = TRUE
             /\ UNCHANGED <<free, space>>
          \/ /\ free # {} /\ m.ok
             /\ free' = m.free
             /\ space' = [space EXCEPT ![p].table = m.table,
                                       ![p].page = With(@, v, f)]
             /\ sbrk' = [sbrk EXCEPT !.todo = @ \ {v}]
             /\ UNCHANGED short
          \/ /\ free # {} /\ ~m.ok
             /\ free' = m.free \cup {f}
             /\ space' = [space EXCEPT ![p].table = m.table]
             /\ sbrk' = NoCall /\ short' = TRUE
  BY <1>0 DEF GrowByPage
<1>2. UNCHANGED <<job, kernelHit, shrunk, stopped>> /\ free \subseteq Frames
  BY DEF GrowByPage, SpaceInv, SpaceTypes
<1>3. v \in Nat
  BY Growing
<1>4. /\ Once(space[p]) /\ Own(space[p]) \cap free = {} /\ space[p].table \in Tables
      /\ space[p].page \in Pages /\ space[p] \in Space
  BY SpaceParts DEF SpaceInv, FramesApart
<1>5. CASE free = {} /\ sbrk' = NoCall /\ short' = TRUE /\ UNCHANGED <<free, space>>
  <2>1. space' = [space EXCEPT ![p].table = space[p].table]
    BY <1>4, <1>5 DEF SpaceInv, SpaceTypes, Space
  <2> QED BY <1>0, <1>2, <1>4, <1>5, <2>1, GivesUp
<1>6. CASE free # {}
  <2>1. f \in free /\ f \in Frames
    BY <1>2, <1>6, FrameFacts
  <2>2. PICK c : c = [Memory(p) EXCEPT !.free = @ \ {f}]
    OBVIOUS
  <2>3. /\ Memory(p) \in Walks /\ Clean(Memory(p)) /\ Memory(p).free = free
        /\ Memory(p).table = space[p].table /\ Memory(p).page = space[p].page
    BY MemoryWalk
  <2>4. /\ c \in Walks /\ c.free = free \ {f} /\ c.table = space[p].table /\ c.page = space[p].page
    BY <2>2, <2>3 DEF Walks
  <2>5. Own(c) = Own(space[p]) /\ Clean(c)
    BY <1>4, <2>4, OwnSame DEF Clean
  <2>6. PICK d : d = Descend(c, v)
    OBVIOUS
  <2>7. Walked(c, d, HeapNames) \/ Walked(c, d, Names \ HeapNames)
    BY <1>3, <2>4, <2>5, <2>6, DescendWalked
  <2>8. /\ d \in Walks /\ Clean(d) /\ d.page = space[p].page /\ d.free \subseteq free \ {f}
        /\ Own(d) \cup d.free = Own(space[p]) \cup (free \ {f})
    BY <2>4, <2>5, <2>7 DEF Walked
  <2>9. d.table \in Tables /\ d.page \in Pages /\ d.free \subseteq Frames
    BY <2>8 DEF Walks
  <2>10. f \notin Own(d) /\ f \notin d.free /\ Once(d) /\ Own(d) \cap d.free = {}
    BY <1>4, <2>1, <2>8 DEF Clean
  <2> HIDE DEF f
  <2>11. CASE /\ d.ok /\ free' = d.free
              /\ space' = [space EXCEPT ![p].table = d.table, ![p].page = With(@, v, f)]
              /\ sbrk' = [sbrk EXCEPT !.todo = @ \ {v}] /\ UNCHANGED short
    <3>1. space'[p].table = d.table /\ space'[p].page = With(d.page, v, f)
      BY <1>4, <2>8, <2>11 DEF SpaceInv, SpaceTypes, Space
    <3>2. /\ Own(space'[p]) \subseteq Own(d) \cup {f} /\ Once(space'[p])
          /\ v \notin DOMAIN d.page => Own(space'[p]) = Own(d) \cup ({f} \ {NoFrame})
      BY <1>3, <2>1, <2>9, <2>10, <3>1, OwnPageMore
    <3>3. Own(space'[p]) \cap free' = {}
      BY <2>10, <2>11, <3>2
    <3>4. Own(space'[p]) \cup free' \subseteq Own(space[p]) \cup free
      BY <2>1, <2>8, <2>11, <3>2
    <3>5. v \notin DOMAIN space[p].page => Own(space[p]) \cup free \subseteq Own(space'[p]) \cup free'
      BY <2>1, <2>8, <2>11, <3>2, FrameFacts
    <3>6. free' \subseteq Frames
      BY <2>9, <2>11
    <3> QED BY <1>0, <1>2, <2>1, <2>9, <2>11, <3>2, <3>3, <3>4, <3>5, <3>6, PageGrown
  <2>12. CASE /\ ~d.ok /\ free' = d.free \cup {f}
              /\ space' = [space EXCEPT ![p].table = d.table]
              /\ sbrk' = NoCall /\ short' = TRUE
    <3>1. space'[p].table = d.table /\ space'[p].page = d.page
      BY <1>4, <2>8, <2>12 DEF SpaceInv, SpaceTypes, Space
    <3>2. Own(space'[p]) = Own(d) /\ Once(space'[p])
      BY <2>10, <3>1, OwnSame
    <3>3. Own(space'[p]) \cap free' = {}
      BY <2>10, <2>12, <3>2
    <3>4. Own(space'[p]) \cup free' \subseteq Own(space[p]) \cup free
      BY <2>1, <2>8, <2>12, <3>2
    <3>5. free' \subseteq Frames
      BY <2>1, <2>9, <2>12
    <3> QED BY <1>0, <1>2, <2>9, <2>12, <3>2, <3>3, <3>4, <3>5, GivesUp
  <2> QED BY <1>1, <1>6, <2>2, <2>6, <2>11, <2>12 DEF f
<1> QED BY <1>1, <1>5, <1>6

-----------------------------------------------------------------------------
\* The invariant

LEMMA InitSpace ==
  ASSUME SpaceInit
  PROVE  SpaceInv
<1>1. HeapBase \in Nat
  BY SpaceAssumption
<1>2. NoSpace \in Space /\ NoSpace.state = "none" /\ NoSpace.brk = HeapBase
      /\ NoSpace.table = Empty /\ NoSpace.page = Empty
  BY <1>1, EmptyFacts DEF NoSpace, Space
<1>3. IdleJob \in Job /\ IdleJob.pc = "idle" /\ IdleJob.hand = NoFrame
  BY DEF IdleJob, Job
<1>4. NoCall \in Call /\ ~NoCall.on
  BY <1>1 DEF NoCall, Call
<1>5. /\ \A p \in Programs : space[p] = NoSpace
      /\ \A l \in Loaders : job[l] = IdleJob
      /\ free = Frames /\ sbrk = NoCall
  BY DEF SpaceInit
<1>6. SpaceTypes
  BY <1>2, <1>3, <1>4 DEF SpaceInit, SpaceTypes
<1>7. Own(NoSpace) = {} /\ Once(NoSpace)
  BY <1>2, EmptyFacts DEF Own, Once
<1>8. FramesApart /\ AllFound /\ LoadsApart
  BY <1>3, <1>5, <1>7, FrameFacts DEF FramesApart, AllFound, Found, LoadsApart
<1>9. \A l \in Loaders : LoadInv(l)
  BY <1>3, <1>5 DEF LoadInv, Unmapped
<1>10. \A p \in Programs : ProgramInv(p)
  <2>1. PagesOf(HeapBase, HeapBase) = {} /\ HeapBase >= HeapBase
    BY <1>1, NoBreak
  <2> HIDE DEF HeapPage
  <2> QED BY <1>2, <1>5, <2>1, EmptyFacts DEF ProgramInv
<1>11. GrowthInv
  BY <1>4, <1>5 DEF GrowthInv
<1> QED BY <1>6, <1>8, <1>9, <1>10, <1>11 DEF SpaceInv

LEMMA EnterKeeps ==
  ASSUME SpaceInv, NEW l \in Loaders, Enter(l)
  PROVE  SpaceInv'
<1>1. UNCHANGED <<free, space, job, sbrk, short, shrunk, stopped>>
  BY DEF Enter
<1> QED BY <1>1, NothingMoves DEF SpaceInv, SpaceTypes

LEMMA OverlapKeeps ==
  ASSUME SpaceInv, Overlap
  PROVE  SpaceInv'
<1>1. UNCHANGED <<free, space, job, sbrk, short, shrunk, stopped>>
  BY DEF Overlap
<1> QED BY <1>1, NothingMoves DEF SpaceInv, SpaceTypes

LEMMA NextSpace ==
  ASSUME SpaceInv, SpaceNext
  PROVE  SpaceInv'
<1>1. ~stopped
  BY DEF SpaceNext
<1>2. ASSUME ~sbrk.on, NEW l \in Loaders, LoadStep(l)
      PROVE  SpaceInv'
  BY <1>1, <1>2, BeginLoadKeeps, OwnTableKeeps, ReadHeaderKeeps, AllocPageKeeps, PutKeeps,
     NextAreaKeeps, MappedKeeps, BufferKeeps, BssKeeps, WriteKeeps, BackKeeps, PreemptedKeeps,
     FinishKeeps, RefusedKeeps, EnterKeeps DEF LoadStep
<1>3. ASSUME ~sbrk.on, NEW p \in Programs, Dies(p) \/ \E inc \in Increments : Sbrk(p, inc)
      PROVE  SpaceInv'
  BY <1>1, <1>3, DiesKeeps, SbrkKeeps
<1>4. CASE GrowByPage
  BY <1>1, <1>4, GrowByPageKeeps
<1>5. CASE Grown
  BY <1>1, <1>5, GrownKeeps
<1>6. CASE Overlap
  BY <1>6, OverlapKeeps
<1> QED BY <1>2, <1>3, <1>4, <1>5, <1>6 DEF SpaceNext

LEMMA IdleSpace ==
  ASSUME SpaceInv, UNCHANGED spaceVars
  PROVE  SpaceInv'
<1>1. UNCHANGED <<free, space, job, sbrk, shrunk, stopped>> /\ short' = short
  BY DEF spaceVars
<1> QED BY <1>1, NothingMoves DEF SpaceInv, SpaceTypes

\* What the memory of programs keeps to, whatever is loaded, refused, grown
\* and ended, and in whichever order its steps come (elf.c, vmm.c, syscall.c).
THEOREM SpaceInvariant == SpaceSpec => []SpaceInv
<1>1. SpaceInit => SpaceInv
  BY InitSpace
<1>2. SpaceInv /\ [SpaceNext]_spaceVars => SpaceInv'
  BY NextSpace, IdleSpace
<1> QED BY <1>1, <1>2, PTL DEF SpaceSpec

-----------------------------------------------------------------------------
\* The pages of programs

LEMMA AreasAre ==
  Areas = StackPages \cup UNION {SegmentPages(i) : i \in DOMAIN Segments}
<1>1. ASSUME NEW v
      PROVE  v \in Areas <=> v \in StackPages \/ \E i \in DOMAIN Segments : v \in SegmentPages(i)
  <2>1. v \in Areas <=> \E i \in 1 .. Len(Segments) + 1 : v \in Area(i)
    BY DEF Areas
  <2>2. \A i \in 1 .. Len(Segments) : Area(i) = SegmentPages(i) /\ i \in 1 .. Len(Segments) + 1
    BY SegmentFacts DEF Area
  <2>3. Area(Len(Segments) + 1) = StackPages /\ Len(Segments) + 1 \in 1 .. Len(Segments) + 1
    BY SegmentFacts DEF Area
  <2>4. \A i \in 1 .. Len(Segments) + 1 : i \in 1 .. Len(Segments) \/ i = Len(Segments) + 1
    BY SegmentFacts
  <2> QED BY <2>1, <2>2, <2>3, <2>4, SegmentFacts
<1> QED BY <1>1

LEMMA ContentsAre ==
  Contents([seg |-> Len(Segments) + 1]) = UNION {FilePages(i) : i \in DOMAIN Segments}
<1>1. (Len(Segments) + 1) - 1 = Len(Segments) /\ DOMAIN Segments = 1 .. Len(Segments)
  BY SegmentFacts
<1> QED BY <1>1 DEF Contents

\* A program that starts has its pages, its stack and the contents of its file,
\* unless its load met a failure that elf.c passes over; and below the break of
\* a program everything is mapped, whatever growths have failed.
THEOREM ProgramsStayBacked == SpaceSpec => []ProgramsBacked
<1>1. SpaceInv => ProgramsBacked
  <2> SUFFICES ASSUME SpaceInv, NEW p \in Programs
               PROVE  /\ space[p].state = "live" /\ ~space[p].flawed =>
                          /\ StackPages \cup UNION {SegmentPages(i) : i \in DOMAIN Segments}
                               \subseteq DOMAIN space[p].page
                          /\ space[p].filled = UNION {FilePages(i) : i \in DOMAIN Segments}
                          /\ NoFrame \notin {space[p].page[v] : v \in DOMAIN space[p].page}
                      /\ PagesOf(HeapBase, space[p].brk) \subseteq DOMAIN space[p].page
    BY DEF ProgramsBacked, StartsWhole, BreakBacked
  <2>1. ProgramInv(p)
    BY DEF SpaceInv
  <2>2. PagesOf(HeapBase, space[p].brk) \subseteq DOMAIN space[p].page
    BY <2>1 DEF ProgramInv
  <2>3. ASSUME space[p].state = "live", ~space[p].flawed
        PROVE  /\ Areas \subseteq DOMAIN space[p].page
               /\ space[p].filled = Contents([seg |-> Len(Segments) + 1])
               /\ \A v \in DOMAIN space[p].page : space[p].page[v] # NoFrame
    BY <2>1, <2>3 DEF ProgramInv
  <2> QED BY <2>2, <2>3, AreasAre, ContentsAre
<1> QED BY <1>1, SpaceInvariant, PTL

-----------------------------------------------------------------------------
\* The pages under a break

HeapStays ==
  \A p \in Programs : space[p].state = "live" =>
    \A v \in PagesOf(HeapBase, space[p].brk) : space'[p].page[v] = space[p].page[v]

LEMMA GrowthLeavesHeap ==
  ASSUME SpaceInv, GrowByPage
  PROVE  HeapStays
<1>0. PICK p \in Programs : p = sbrk.prog
  BY Growing
<1>1. space \in [Programs -> Space] /\ space[p] \in Space /\ HeapBase \in Nat
  BY SpaceAssumption DEF SpaceInv, SpaceTypes
<1>2. PICK v \in sbrk.todo :
        LET m == Descend([Memory(p) EXCEPT !.free = @ \ {Pick(free, p)}], v)
        IN \/ UNCHANGED space
           \/ space' = [space EXCEPT ![p].table = m.table,
                                     ![p].page = With(@, v, Pick(free, p))]
           \/ space' = [space EXCEPT ![p].table = m.table]
  BY <1>0 DEF GrowByPage
<1>7. PICK d : d = Descend([Memory(p) EXCEPT !.free = @ \ {Pick(free, p)}], v)
  OBVIOUS
<1>8. PICK g, f : g = d.table /\ f = Pick(free, p)
  OBVIOUS
<1>9. \/ space' = space
      \/ space' = [space EXCEPT ![p].table = g, ![p].page = With(@, v, f)]
      \/ space' = [space EXCEPT ![p].table = g]
  BY <1>2, <1>7, <1>8
<1>3. v \in Nat /\ ~(v < Below(space[p].brk)) /\ space[p].brk \in Nat
  BY <1>0, Growing
<1>4. \A w \in PagesOf(HeapBase, space[p].brk) : w # v /\ w \in DOMAIN space[p].page
  <2>1. ProgramInv(p)
    BY DEF SpaceInv
  <2>2. PagesOf(HeapBase, space[p].brk) \subseteq DOMAIN space[p].page
    BY <2>1 DEF ProgramInv
  <2> QED BY <1>1, <1>3, <2>2 DEF PagesOf, Below
<1>5. \A w \in PagesOf(HeapBase, space[p].brk) : With(space[p].page, v, f)[w] = space[p].page[w]
  BY <1>4 DEF With
<1>6. /\ \A q \in Programs : q # p => space'[q] = space[q]
      /\ space'[p].page = space[p].page \/ space'[p].page = With(space[p].page, v, f)
  BY <1>1, <1>9 DEF Space
<1> QED BY <1>5, <1>6 DEF HeapStays

LEMMA OthersLeaveHeap ==
  ASSUME SpaceInv, ~stopped, NEW p \in Programs, space[p].state = "live", Dies(p) \/ \E inc \in Increments : Sbrk(p, inc)
  PROVE  HeapStays
<1>1. space \in [Programs -> Space] /\ space[p] \in Space
  BY DEF SpaceInv, SpaceTypes
<1>2. \A q \in Programs : space'[q].page = space[q].page
  BY <1>1 DEF Dies, Sbrk, Space
<1> QED BY <1>2 DEF HeapStays

LEMMA LoadLeavesHeap ==
  ASSUME SpaceInv, ~stopped, NEW l \in Loaders, LoadStep(l)
  PROVE  HeapStays
<1>1. space \in [Programs -> Space]
  BY DEF SpaceInv, SpaceTypes
<1>2. CASE BeginLoad(l)
  <2>1. CASE UNCHANGED space
    BY <2>1 DEF HeapStays
  <2>2. CASE ~ UNCHANGED space
    <3>1. PICK p \in Programs : space[p].state = "none" /\ \A q \in Programs : q # p => space'[q] = space[q]
      BY <1>1, <1>2, <2>2 DEF BeginLoad, Unused
    <3> QED BY <3>1 DEF HeapStays
  <2> QED BY <2>1, <2>2
<1>4. CASE Enter(l)
  BY <1>4 DEF Enter, HeapStays
<1>3. CASE ~BeginLoad(l) /\ ~Enter(l)
  <2>1. job[l].pc # "idle"
    BY <1>3 DEF LoadStep, FirstGigabyte, OwnTable, ReadHeader, AllocPage, Put, NextArea, Mapped,
                Buffer, Bss, Write, Back, Preempted, Finish, elf_unload_failed_pml4, At
  <2>2. PICK p \in Programs : p = job[l].prog /\ space[p].state = "loading"
    BY <2>1, Loading
  <2>3. \A q \in Programs : q # p => space'[q] = space[q]
    <3>1. CASE FirstGigabyte(l)
      BY <1>1, <2>2, <3>1 DEF FirstGigabyte, OwnTable
    <3>2. CASE ReadHeader(l) \/ Finish(l) \/ elf_unload_failed_pml4(l)
      BY <1>1, <2>2, <3>2 DEF ReadHeader, Finish, elf_unload_failed_pml4
    <3>3. CASE AllocPage(l) \/ NextArea(l) \/ Mapped(l) \/ Buffer(l) \/ Bss(l) \/ Back(l) \/ Preempted(l)
      BY <3>3 DEF AllocPage, NextArea, Mapped, Buffer, Bss, Back, Preempted
    <3>4. CASE Put(l)
      BY <1>1, <2>2, <3>4 DEF Put
    <3>5. CASE Write(l)
      BY <1>1, <2>2, <3>5 DEF Write
    <3> QED BY <1>3, <3>1, <3>2, <3>3, <3>4, <3>5 DEF LoadStep
  <2> QED BY <2>2, <2>3 DEF HeapStays
<1> QED BY <1>2, <1>3, <1>4

\* What a program has stored in its heap stays in the frames where it is, also
\* in the page that the break is in, whoever takes which step.
THEOREM HeapIsKept == SpaceSpec => KeepsHeap
<1>1. SpaceInv /\ [SpaceNext]_spaceVars => [HeapStays]_spaceVars
  <2> SUFFICES ASSUME SpaceInv, SpaceNext PROVE HeapStays
    OBVIOUS
  <2>1. CASE GrowByPage
    BY <2>1, GrowthLeavesHeap
  <2>2. CASE Grown
    <3>1. space \in [Programs -> Space]
      BY DEF SpaceInv, SpaceTypes
    <3>2. \A q \in Programs : space'[q].page = space[q].page
      BY <2>2, <3>1 DEF Grown, Space
    <3> QED BY <3>2 DEF HeapStays
  <2>3. ASSUME NEW l \in Loaders, LoadStep(l) PROVE HeapStays
    BY <2>3, LoadLeavesHeap DEF SpaceNext
  <2>4. ASSUME NEW p \in Programs, Dies(p) \/ \E inc \in Increments : Sbrk(p, inc) PROVE HeapStays
    BY <2>4, OthersLeaveHeap DEF SpaceNext, Dies, Sbrk
  <2>5. CASE Overlap
    BY <2>5 DEF Overlap, HeapStays
  <2> QED BY <2>1, <2>2, <2>3, <2>4, <2>5 DEF SpaceNext
<1>2. KeepsHeap <=> [][HeapStays]_spaceVars
  BY DEF KeepsHeap, HeapStays
<1> HIDE DEF HeapStays
<1> QED BY <1>1, <1>2, SpaceInvariant, PTL DEF SpaceSpec

-----------------------------------------------------------------------------
\* Frames and the places where they are noted

\* The frames that are not free.
Taken == Owned \cup Stranded

LEMMA TakenIs == Taken = {Noted(x) : x \in Places} \ {NoFrame}
  BY DEF Taken, Owned, Stranded

LEMMA OwnedAre ==
  ASSUME SpaceInv, NEW f
  PROVE  f \in Taken <=> /\ f # NoFrame
                         /\ \/ \E p \in Programs : f \in Own(space[p])
                            \/ \E l \in Loaders : job[l].hand = f
<1>1. f \in Taken <=> f # NoFrame /\ \E x \in Places : Noted(x) = f
  BY TakenIs
<1>2. ASSUME NEW x \in Places, f # NoFrame, Noted(x) = f
      PROVE  (\E p \in Programs : f \in Own(space[p])) \/ \E l \in Loaders : job[l].hand = f
  <2>1. CASE \E p \in Programs : \E t \in DOMAIN space[p].table : x = <<p, "table", t>>
    BY <1>2, <2>1 DEF Noted, Own
  <2>2. CASE \E p \in Programs : \E v \in DOMAIN space[p].page : x = <<p, "page", v>>
    BY <1>2, <2>2 DEF Noted, Own
  <2>3. CASE \E l \in Loaders : x = <<l, "hand">>
    BY <1>2, <2>3 DEF Noted
  <2> QED BY <2>1, <2>2, <2>3 DEF Places
<1>3. ASSUME NEW p \in Programs, f \in Own(space[p]) PROVE \E x \in Places : Noted(x) = f
  <2>1. CASE \E t \in DOMAIN space[p].table : f = space[p].table[t]
    <3>1. PICK t \in DOMAIN space[p].table : f = space[p].table[t]
      BY <2>1
    <3>2. <<p, "table", t>> \in Places /\ Noted(<<p, "table", t>>) = f
      BY <3>1 DEF Places, Noted
    <3> QED BY <3>2
  <2>2. CASE \E v \in DOMAIN space[p].page : f = space[p].page[v]
    <3>1. PICK v \in DOMAIN space[p].page : f = space[p].page[v]
      BY <2>2
    <3>2. <<p, "page", v>> \in Places /\ Noted(<<p, "page", v>>) = f
      BY <3>1 DEF Places, Noted
    <3> QED BY <3>2
  <2> QED BY <1>3, <2>1, <2>2 DEF Own
<1>4. ASSUME NEW l \in Loaders, job[l].hand = f PROVE \E x \in Places : Noted(x) = f
  <2>1. <<l, "hand">> \in Places /\ Noted(<<l, "hand">>) = f
    BY <1>4 DEF Places, Noted
  <2> QED BY <2>1
<1> QED BY <1>1, <1>2, <1>3, <1>4

\* The three kinds of places.
InTable(x, p, t) == p \in Programs /\ t \in DOMAIN space[p].table /\ x = <<p, "table", t>>
OnPage(x, p, v) == p \in Programs /\ v \in DOMAIN space[p].page /\ x = <<p, "page", v>>
InHand(x, l) == l \in Loaders /\ x = <<l, "hand">>

LEMMA PlaceFacts ==
  /\ \A x, p, t : InTable(x, p, t) => Noted(x) = space[p].table[t] /\ Noted(x) \in Own(space[p])
  /\ \A x, p, v : OnPage(x, p, v) => /\ Noted(x) = space[p].page[v]
                                     /\ Noted(x) # NoFrame => Noted(x) \in Own(space[p])
  /\ \A x, l : InHand(x, l) => Noted(x) = job[l].hand
  /\ \A x \in Places : \/ \E p, t : InTable(x, p, t)
                       \/ \E p, v : OnPage(x, p, v)
                       \/ \E l : InHand(x, l)
<1>1. ASSUME NEW x, NEW p, NEW t, InTable(x, p, t)
      PROVE  Noted(x) = space[p].table[t] /\ Noted(x) \in Own(space[p])
  BY <1>1 DEF InTable, Noted, Own
<1>2. ASSUME NEW x, NEW p, NEW v, OnPage(x, p, v)
      PROVE  Noted(x) = space[p].page[v] /\ (Noted(x) # NoFrame => Noted(x) \in Own(space[p]))
  BY <1>2 DEF OnPage, Noted, Own
<1>3. ASSUME NEW x, NEW l, InHand(x, l) PROVE Noted(x) = job[l].hand
  BY <1>3 DEF InHand, Noted
<1>4. ASSUME NEW x \in Places
      PROVE  \/ \E p, t : InTable(x, p, t)
             \/ \E p, v : OnPage(x, p, v)
             \/ \E l : InHand(x, l)
  BY DEF Places, InTable, OnPage, InHand
<1> QED BY <1>1, <1>2, <1>3, <1>4

\* What is noted at one place is noted at no other.
LEMMA NotedOnce ==
  ASSUME SpaceInv, NEW x \in Places, NEW y \in Places, Noted(x) = Noted(y), Noted(x) # NoFrame
  PROVE  x = y
<1>1. /\ \A p \in Programs : Once(space[p])
      /\ \A p, q \in Programs : \A f : f \in Own(space[p]) /\ f \in Own(space[q]) => p = q
      /\ \A l \in Loaders : \A p \in Programs : job[l].hand \notin Own(space[p])
      /\ \A k, l \in Loaders : job[k].hand = job[l].hand /\ job[k].hand # NoFrame => k = l
  <2>1. \A p, q \in Programs : p # q => Own(space[p]) \cap Own(space[q]) = {}
    BY DEF SpaceInv, FramesApart
  <2>2. \A p, q \in Programs : \A f : f \in Own(space[p]) /\ f \in Own(space[q]) => p = q
    BY <2>1
  <2> QED BY <2>2 DEF SpaceInv, FramesApart
<1>2. ASSUME NEW p, NEW t, InTable(x, p, t) PROVE x = y
  <2>1. p \in Programs /\ Noted(x) = space[p].table[t] /\ Noted(x) \in Own(space[p])
    BY <1>2, PlaceFacts DEF InTable
  <2>2. ASSUME NEW q, NEW u, InTable(y, q, u) PROVE x = y
    <3>1. q \in Programs /\ Noted(y) = space[q].table[u] /\ Noted(y) \in Own(space[q])
      BY <2>2, PlaceFacts DEF InTable
    <3>2. p = q
      BY <1>1, <2>1, <3>1
    <3>3. t = u
      BY <1>1, <1>2, <2>1, <2>2, <3>1, <3>2 DEF Once, InTable
    <3> QED BY <1>2, <2>2, <3>2, <3>3 DEF InTable
  <2>3. ASSUME NEW q, NEW v, OnPage(y, q, v) PROVE x = y
    <3>1. q \in Programs /\ Noted(y) = space[q].page[v] /\ Noted(y) \in Own(space[q])
      BY <2>3, PlaceFacts DEF OnPage
    <3>2. p = q
      BY <1>1, <2>1, <3>1
    <3> QED BY <1>1, <1>2, <2>1, <2>3, <3>1, <3>2 DEF Once, InTable, OnPage
  <2>4. ASSUME NEW l, InHand(y, l) PROVE x = y
    <3>1. l \in Loaders /\ Noted(y) = job[l].hand
      BY <2>4, PlaceFacts DEF InHand
    <3> QED BY <1>1, <2>1, <3>1
  <2> QED BY <2>2, <2>3, <2>4, PlaceFacts
<1>3. ASSUME NEW p, NEW v, OnPage(x, p, v) PROVE x = y
  <2>1. p \in Programs /\ Noted(x) = space[p].page[v] /\ Noted(x) \in Own(space[p])
    BY <1>3, PlaceFacts DEF OnPage
  <2>2. ASSUME NEW q, NEW u, InTable(y, q, u) PROVE x = y
    <3>1. q \in Programs /\ Noted(y) = space[q].table[u] /\ Noted(y) \in Own(space[q])
      BY <2>2, PlaceFacts DEF InTable
    <3>2. p = q
      BY <1>1, <2>1, <3>1
    <3> QED BY <1>1, <1>3, <2>1, <2>2, <3>1, <3>2 DEF Once, InTable, OnPage
  <2>3. ASSUME NEW q, NEW w, OnPage(y, q, w) PROVE x = y
    <3>1. q \in Programs /\ Noted(y) = space[q].page[w] /\ Noted(y) \in Own(space[q])
      BY <2>3, PlaceFacts DEF OnPage
    <3>2. p = q
      BY <1>1, <2>1, <3>1
    <3>3. v = w
      BY <1>1, <1>3, <2>1, <2>3, <3>1, <3>2 DEF Once, OnPage
    <3> QED BY <1>3, <2>3, <3>2, <3>3 DEF OnPage
  <2>4. ASSUME NEW l, InHand(y, l) PROVE x = y
    <3>1. l \in Loaders /\ Noted(y) = job[l].hand
      BY <2>4, PlaceFacts DEF InHand
    <3> QED BY <1>1, <2>1, <3>1
  <2> QED BY <2>2, <2>3, <2>4, PlaceFacts
<1>4. ASSUME NEW l, InHand(x, l) PROVE x = y
  <2>1. l \in Loaders /\ Noted(x) = job[l].hand
    BY <1>4, PlaceFacts DEF InHand
  <2>2. ASSUME NEW q, NEW u, InTable(y, q, u) PROVE x = y
    <3>1. q \in Programs /\ Noted(y) \in Own(space[q])
      BY <2>2, PlaceFacts DEF InTable
    <3> QED BY <1>1, <2>1, <3>1
  <2>3. ASSUME NEW q, NEW w, OnPage(y, q, w) PROVE x = y
    <3>1. q \in Programs /\ Noted(y) \in Own(space[q])
      BY <2>3, PlaceFacts DEF OnPage
    <3> QED BY <1>1, <2>1, <3>1
  <2>4. ASSUME NEW k, InHand(y, k) PROVE x = y
    <3>1. k \in Loaders /\ Noted(y) = job[k].hand
      BY <2>4, PlaceFacts DEF InHand
    <3> QED BY <1>1, <1>4, <2>1, <2>4, <3>1 DEF InHand
  <2> QED BY <2>2, <2>3, <2>4, PlaceFacts
<1> QED BY <1>2, <1>3, <1>4, PlaceFacts

\* As long as no two calls of the page allocator overlap, no frame is noted at
\* two places or is free while in use, and none is forgotten before memory has
\* run out or a break has been lowered: loads, unloading and growth lose and
\* share nothing of their own, though those that have ended, or could not be
\* made a process of, leave theirs behind (elf.c, vmm.c, proc.c).
THEOREM FramesStayAccounted == SpaceSpec => []FramesAccounted
<1>1. SpaceInv => FramesAccounted
  <2> SUFFICES ASSUME SpaceInv PROVE FramesAccounted
    OBVIOUS
  <2>1. Taken \subseteq Frames
    <3>1. \A p \in Programs : Own(space[p]) \subseteq Frames
      BY SpaceParts DEF SpaceInv
    <3>2. \A l \in Loaders : job[l].hand \in Frames \cup {NoFrame}
      BY DEF SpaceInv, SpaceTypes, Job
    <3> QED BY <3>1, <3>2, OwnedAre
  <2>2. free \cap Taken = {}
    BY OwnedAre DEF SpaceInv, FramesApart
  <2>3. Cardinality(Taken) = Cardinality({x \in Places : Noted(x) # NoFrame})
    <3> DEFINE Used == {x \in Places : Noted(x) # NoFrame}
               n == [x \in Used |-> Noted(x)]
    <3>1. IsFiniteSet(Taken)
      BY <2>1, FS_Subset, SpaceAssumption
    <3>2. n \in [Used -> Taken]
      BY TakenIs
    <3>3. \A x, y \in Used : n[x] = n[y] => x = y
      BY NotedOnce
    <3>4. \A f \in Taken : \E x \in Used : n[x] = f
      BY TakenIs
    <3> HIDE DEF Used, n
    <3>5. n \in Injection(Used, Taken)
      BY <3>2, <3>3 DEF Injection, IsInjective
    <3>6. n \in Surjection(Used, Taken)
      BY <3>2, <3>4 DEF Surjection
    <3>7. Cardinality(Used) = Cardinality(Taken)
      BY <3>1, <3>5, <3>6, FS_Injection
    <3> QED BY <3>7 DEF Used
  <2>4. NothingForgotten
    <3>1. ASSUME ~short, ~shrunk, NEW f \in Frames PROVE f \in free \cup Taken
      BY <3>1, OwnedAre, FrameFacts DEF SpaceInv, AllFound, Found
    <3>2. free \subseteq Frames
      BY DEF SpaceInv, SpaceTypes
    <3> QED BY <2>1, <3>1, <3>2 DEF NothingForgotten, Taken
  <2> QED BY <2>2, <2>3, <2>4 DEF FramesAccounted, OneOwner, Taken
<1> QED BY <1>1, SpaceInvariant, PTL

-----------------------------------------------------------------------------
\* The heap of a program: numbers

\* A set of natural numbers has a least one.
LEMMA NatLeast == ASSUME NEW T, T \subseteq Nat, T # {} PROVE \E n \in T : \A m \in T : n <= m
  <1> DEFINE R == {ss \in Nat \X Nat : ss[1] < ss[2]}
  <1>1. IsWellFoundedOn(R, Nat)
    BY NatLessThanWellFounded DEF OpToRel
  <1>2. \E x \in T : \A y \in T : ~ (<<y, x>> \in R)
    <2> HIDE DEF R
    <2> QED BY <1>1, WFMin
  <1>3. \A x, y \in Nat : x < y => <<x, y>> \in R
    OBVIOUS
  <1>4. PICK x \in T : \A y \in T : ~ (<<y, x>> \in R)
    BY <1>2
  <1>5. \A m \in T : ~ (m < x)
    <2> HIDE DEF R
    <2> QED BY <1>3, <1>4
  <1> QED BY <1>5

-----------------------------------------------------------------------------
\* The list

EndOf(h, a) == a + HEADER_SIZE + h[a].size

Node == [size : Nat, is_free : BOOLEAN,
         next : Nat \cup {NoBlock}, prev : Nat \cup {NoBlock}]

\* The list of headers h, whose last is at last, covers 0 .. top - 1.
Linked(h, last, top) ==
  /\ DOMAIN h \subseteq Nat /\ h \in [DOMAIN h -> Node]
  /\ 0 \in DOMAIN h /\ h[0].prev = NoBlock
  /\ last \in DOMAIN h /\ EndOf(h, last) = top /\ h[last].next = NoBlock
  /\ \A a \in DOMAIN h : a <= last
  /\ \A a \in DOMAIN h \ {last} :
       /\ EndOf(h, a) \in DOMAIN h
       /\ h[a].next = EndOf(h, a) /\ h[EndOf(h, a)].prev = a
  /\ \A a \in DOMAIN h \ {0} :
       h[a].prev \in DOMAIN h /\ EndOf(h, h[a].prev) = a
  /\ \A a, b \in DOMAIN h : a < b => EndOf(h, a) <= b

\* heap_start and heap_end go with it.
Tiled(h, top) ==
  /\ h = [start |-> 0, end |-> h.end, block |-> h.block]
  /\ Linked(h.block, h.end, top)

\* Every block ends inside the heap, after it begins.
LEMMA ChainEnds ==
  ASSUME NEW h, NEW last, NEW top, Linked(h, last, top), NEW a \in DOMAIN h
  PROVE  EndOf(h, a) <= top /\ EndOf(h, a) \in Nat /\ a < EndOf(h, a) /\ a \in Nat
         /\ h[a].size \in Nat /\ h[a] \in Node /\ top \in Nat
  <1>1. HEADER_SIZE \in Nat \ {0} /\ DOMAIN h \subseteq Nat /\ h \in [DOMAIN h -> Node]
        /\ last \in DOMAIN h /\ EndOf(h, last) = top /\ a <= last
    BY UserHeapAssumption DEF Linked
  <1>2. a \in Nat /\ h[a].size \in Nat /\ last \in Nat /\ h[last].size \in Nat
    BY <1>1 DEF Node
  <1>3. EndOf(h, a) \in Nat /\ a < EndOf(h, a) /\ EndOf(h, last) \in Nat
        /\ last < EndOf(h, last)
    BY <1>1, <1>2 DEF EndOf
  <1>4. CASE a = last
    BY <1>1, <1>2, <1>3, <1>4
  <1>5. CASE a # last
    <2>1. EndOf(h, a) <= last
      BY <1>1, <1>2, <1>5 DEF Linked
    <2> QED BY <1>1, <1>2, <1>3, <2>1
  <1> QED BY <1>1, <1>2, <1>3, <1>4, <1>5

\* The block after a, by link, is the one that begins where a ends.
LEMMA NextOf ==
  ASSUME NEW h, NEW last, NEW top, Linked(h, last, top), NEW a \in DOMAIN h,
         h[a].next # NoBlock
  PROVE  /\ a # last /\ h[a].next \in DOMAIN h /\ h[a].next = EndOf(h, a)
         /\ a < h[a].next /\ h[h[a].next].prev = a
  BY ChainEnds DEF Linked

\* What joining x with the block y after it leaves of the list h, and changes.
Joins(h, last, x, y, g) ==
  /\ x # last /\ y = EndOf(h, x) /\ y \in DOMAIN h /\ x < y /\ y # 0
  /\ h[y].prev = x
  /\ DOMAIN g = DOMAIN h \ {y} /\ g \in [DOMAIN g -> Node] /\ x \in DOMAIN g
  /\ g[x].size = h[x].size + HEADER_SIZE + h[y].size
  /\ g[x].next = h[y].next /\ EndOf(g, x) = EndOf(h, y)
  /\ \A w \in DOMAIN g \ {x} :
       /\ g[w].size = h[w].size /\ EndOf(g, w) = EndOf(h, w)
       /\ g[w].next = h[w].next
  /\ \A w \in DOMAIN g :
       /\ g[w].is_free = h[w].is_free
       /\ g[w].prev = IF h[w].prev = y THEN x ELSE h[w].prev

\* coalesce() and realloc() absorb the block after x, which begins where x ends.
Absorbs(h, x, g) ==
  LET y == h.block[x].next
  IN /\ Joins(h.block, h.end, x, y, g.block)
     /\ g = [start |-> 0, block |-> g.block,
             end |-> IF h.block[y].next = NoBlock THEN x ELSE h.end]

LEMMA AbsorbShape ==
  ASSUME NEW l, NEW top, Tiled(l, top), NEW x \in DOMAIN l.block,
         l.block[x].next # NoBlock
  PROVE  Absorbs(l, x, Absorb(l, x))
  <1> DEFINE h == l.block
             last == l.end
             y == h[x].next
             z == h[y].next
             m == [w \in DOMAIN h \ {y} |->
                     IF w = x THEN [h[x] EXCEPT !.size = @ + HEADER_SIZE + h[y].size,
                                                !.next = z]
                     ELSE h[w]]
             g == IF z = NoBlock THEN m ELSE [m EXCEPT ![z].prev = x]
  <1>a. Linked(h, last, top) /\ x \in DOMAIN h /\ h[x].next # NoBlock
        /\ l = [start |-> 0, end |-> last, block |-> h]
    BY DEF Tiled
  <1>0. HEADER_SIZE \in Nat \ {0} /\ DOMAIN h \subseteq Nat /\ h \in [DOMAIN h -> Node]
    BY <1>a, UserHeapAssumption DEF Linked
  <1>1. x # last /\ y = EndOf(h, x) /\ y \in DOMAIN h /\ h[y].prev = x
    BY <1>a DEF Linked
  <1>2. x \in Nat /\ h[x].size \in Nat /\ y \in Nat /\ x < y
    BY <1>0, <1>1 DEF Node, EndOf
  <1>3. \/ z = NoBlock
        \/ z \in DOMAIN h /\ z = EndOf(h, y) /\ y < z /\ h[z].prev = y
    <2>1. CASE y = last
      BY <1>a, <2>1 DEF Linked
    <2>2. CASE y # last
      <3>1. z = EndOf(h, y) /\ z \in DOMAIN h /\ h[z].prev = y
        BY <1>a, <1>1, <2>2 DEF Linked
      <3> QED BY <3>1, <1>0, <1>1, <1>2 DEF Node, EndOf
    <2> QED BY <2>1, <2>2
  <1>5. h[x] \in Node /\ h[y] \in Node /\ (z # NoBlock => h[z] \in Node /\ z # x)
    BY <1>0, <1>1, <1>2, <1>3
  <1>4. /\ DOMAIN m = DOMAIN h \ {y} /\ x \in DOMAIN m
        /\ m[x] = [h[x] EXCEPT !.size = @ + HEADER_SIZE + h[y].size, !.next = z]
        /\ \A w \in DOMAIN m \ {x} : m[w] = h[w]
        /\ m[x].next = z
    <2>1. x # y
      BY <1>2
    <2> QED BY <1>5, <2>1 DEF Node
  <1> HIDE DEF m
  <1>b. Absorb(l, x) = IF z = NoBlock THEN [start |-> 0, end |-> x, block |-> m]
                       ELSE [start |-> 0, end |-> last, block |-> [m EXCEPT ![z].prev = x]]
    <2>1. [l EXCEPT !.block = m] = [start |-> 0, end |-> last, block |-> m]
      BY <1>a
    <2>2. Absorb(l, x) = LinkBack([l EXCEPT !.block = m], x)
      BY DEF Absorb, m
    <2> QED BY <1>4, <2>1, <2>2 DEF LinkBack
  <1> HIDE DEF g
  <1>6. DOMAIN g = DOMAIN h \ {y} /\ x \in DOMAIN g
    BY <1>4 DEF g
  <1>7. g \in [DOMAIN g -> Node]
    <2>1. m[x] \in Node
      <3>1. z \in Nat \cup {NoBlock}
        BY <1>0, <1>3
      <3>2. h[x].size + HEADER_SIZE + h[y].size \in Nat
        BY <1>0, <1>5 DEF Node
      <3>3. \A r \in Node, n \in Nat, p \in Nat \cup {NoBlock} :
               [r EXCEPT !.size = n, !.next = p] \in Node
        BY DEF Node
      <3>4. [h[x] EXCEPT !.size = @ + HEADER_SIZE + h[y].size, !.next = z] \in Node
        BY <1>5, <3>1, <3>2, <3>3
      <3> QED BY <1>4, <3>4
    <2>2. m \in [DOMAIN m -> Node]
      <3>1. \A w \in DOMAIN m : m[w] \in Node
        BY <1>0, <1>4, <2>1
      <3> QED BY <3>1 DEF m
    <2>3. \A r \in Node : [r EXCEPT !.prev = x] \in Node
      BY <1>2 DEF Node
    <2> QED BY <1>4, <2>2, <2>3 DEF g
  <1>8. /\ g[x].size = h[x].size + HEADER_SIZE + h[y].size
        /\ g[x].next = z
        /\ g[x].is_free = h[x].is_free /\ g[x].prev = h[x].prev
    <2>1. g[x] = m[x]
      BY <1>4, <1>5 DEF g
    <2> QED BY <1>4, <1>5, <2>1 DEF Node
  <1>9. ASSUME NEW w \in DOMAIN g \ {x}
        PROVE  /\ g[w].size = h[w].size /\ g[w].next = h[w].next
               /\ g[w].is_free = h[w].is_free
               /\ g[w].prev = IF w = z THEN x ELSE h[w].prev
    <2>1. w \in DOMAIN m /\ m[w] = h[w] /\ h[w] \in Node /\ w # NoBlock
      BY <1>0, <1>4, <1>6 DEF NoBlock
    <2>2. g[w] = IF w = z THEN [h[w] EXCEPT !.prev = x] ELSE h[w]
      BY <2>1 DEF g
    <2> QED BY <2>1, <2>2 DEF Node
  <1>10. EndOf(g, x) = EndOf(h, y)
    BY <1>0, <1>1, <1>2, <1>5, <1>8 DEF EndOf, Node
  <1>11. \A w \in DOMAIN h : h[w].prev = y <=> w = z
    <2> TAKE w \in DOMAIN h
    <2>1. w = z => h[w].prev = y
      BY <1>0, <1>3 DEF NoBlock
    <2>2. ASSUME h[w].prev = y PROVE w = z
      <3>1. w # 0
        BY <1>a, <2>2, <1>2 DEF Linked, NoBlock
      <3>2. EndOf(h, y) = w
        BY <1>a, <2>2, <3>1 DEF Linked
      <3>3. CASE y # last
        BY <1>a, <1>1, <3>2, <3>3 DEF Linked
      <3>4. CASE y = last
        <4>1. y < w
          <5>1. h[y].size \in Nat
            BY <1>5 DEF Node
          <5> HIDE DEF y
          <5> QED BY <1>0, <1>2, <3>2, <5>1 DEF EndOf
        <4>2. w <= y
          BY <1>a, <3>4 DEF Linked
        <4> QED BY <1>0, <1>2, <4>1, <4>2
      <3> QED BY <3>3, <3>4
    <2> QED BY <2>1, <2>2
  <1>12. \A w \in DOMAIN g \ {x} : EndOf(g, w) = EndOf(h, w)
    BY <1>9 DEF EndOf
  <1>13. y # 0 /\ (h[x].prev = y <=> x = z)
    BY <1>2, <1>11
  <1>14. x # z
    BY <1>5, <1>0 DEF NoBlock
  <1>15. \A w \in DOMAIN g :
            /\ g[w].is_free = h[w].is_free
            /\ g[w].prev = IF h[w].prev = y THEN x ELSE h[w].prev
    BY <1>6, <1>8, <1>9, <1>11, <1>14
  <1>16. Joins(h, last, x, y, g)
    <2> HIDE DEF y, z
    <2> QED BY <1>1, <1>2, <1>6, <1>7, <1>8, <1>9, <1>10, <1>12, <1>13, <1>15
            DEF y, z, Joins
  <1>17. Absorb(l, x) = [start |-> 0, end |-> IF z = NoBlock THEN x ELSE last,
                         block |-> g]
    BY <1>b DEF g
  <1> QED BY <1>16, <1>17 DEF Absorbs, h, last, y, z

\* Joining keeps the list linked, also when the last block is absorbed.
LEMMA JoinLinked ==
  ASSUME NEW h, NEW last, NEW top, Linked(h, last, top),
         NEW x \in DOMAIN h, NEW y, NEW g, Joins(h, last, x, y, g)
  PROVE  Linked(g, IF h[y].next = NoBlock THEN x ELSE last, top)
  <1> DEFINE end == IF h[y].next = NoBlock THEN x ELSE last
  <1>1. /\ x # last /\ y = EndOf(h, x) /\ y \in DOMAIN h /\ x < y /\ y # 0
        /\ h[y].prev = x
        /\ DOMAIN g = DOMAIN h \ {y} /\ g \in [DOMAIN g -> Node] /\ x \in DOMAIN g
        /\ g[x].next = h[y].next /\ EndOf(g, x) = EndOf(h, y)
    BY DEF Joins
  <1>2. \A w \in DOMAIN g \ {x} :
           EndOf(g, w) = EndOf(h, w) /\ g[w].next = h[w].next
    BY DEF Joins
  <1>3. \A w \in DOMAIN g :
           g[w].prev = IF h[w].prev = y THEN x ELSE h[w].prev
    BY DEF Joins
  <1>4. end = IF y = last THEN x ELSE last
    <2>1. y = last => h[y].next = NoBlock
      BY DEF Linked
    <2>2. y # last => h[y].next # NoBlock
      BY <1>1 DEF Linked, NoBlock
    <2> QED BY <2>1, <2>2
  <1> HIDE DEF end
  <1>5. DOMAIN g \subseteq Nat /\ 0 \in DOMAIN g /\ g[0].prev = NoBlock
    BY <1>1, <1>3 DEF Linked, NoBlock
  <1>6. end \in DOMAIN g /\ EndOf(g, end) = top /\ g[end].next = NoBlock
    BY <1>1, <1>2, <1>4 DEF Linked
  <1>7. \A a \in DOMAIN g : a <= end
    <2> TAKE a \in DOMAIN g
    <2>1. a \in DOMAIN h /\ a # y /\ a \in Nat /\ a <= last /\ last \in Nat
      BY <1>1 DEF Linked
    <2>2. CASE y = last /\ x < a
      <3>1. EndOf(h, x) <= a
        BY <2>1, <2>2 DEF Linked
      <3> QED BY <1>1, <2>1, <2>2, <3>1
    <2> QED BY <1>1, <1>4, <1>5, <2>1, <2>2
  <1>8. ASSUME NEW a \in DOMAIN g \ {end}
        PROVE  /\ EndOf(g, a) \in DOMAIN g
               /\ g[a].next = EndOf(g, a) /\ g[EndOf(g, a)].prev = a
    <2>1. CASE a = x
      <3>1. y # last
        BY <1>4, <2>1
      <3>2. EndOf(h, y) \in DOMAIN h /\ h[y].next = EndOf(h, y)
            /\ h[EndOf(h, y)].prev = y
        BY <1>1, <3>1 DEF Linked
      <3>3. EndOf(h, y) # y
        BY <1>1, <3>2
      <3> QED BY <1>1, <1>3, <2>1, <3>2, <3>3
    <2>2. CASE a # x
      <3>1. a # last /\ a \in DOMAIN h /\ a # y
        BY <1>1, <1>4, <2>2
      <3>2. EndOf(h, a) \in DOMAIN h /\ h[a].next = EndOf(h, a)
            /\ h[EndOf(h, a)].prev = a
        BY <3>1 DEF Linked
      <3>3. EndOf(h, a) # y
        BY <1>1, <2>2, <3>2
      <3> QED BY <1>1, <1>2, <1>3, <2>2, <3>1, <3>2, <3>3
    <2> QED BY <2>1, <2>2
  <1>9. ASSUME NEW a \in DOMAIN g \ {0}
        PROVE  g[a].prev \in DOMAIN g /\ EndOf(g, g[a].prev) = a
    <2>1. a \in DOMAIN h /\ h[a].prev \in DOMAIN h /\ EndOf(h, h[a].prev) = a
      BY <1>1 DEF Linked
    <2>2. CASE h[a].prev = y
      BY <1>1, <1>3, <2>1, <2>2
    <2>3. CASE h[a].prev # y
      <3>1. h[a].prev # x
        BY <1>1, <2>1
      <3> QED BY <1>1, <1>2, <1>3, <2>1, <2>3, <3>1
    <2> QED BY <2>2, <2>3
  <1>10. ASSUME NEW a \in DOMAIN g, NEW b \in DOMAIN g, a < b
         PROVE  EndOf(g, a) <= b
    <2>1. a \in DOMAIN h /\ b \in DOMAIN h /\ b # y /\ EndOf(h, a) <= b
      BY <1>1, <1>10 DEF Linked
    <2>2. CASE a = x
      <3>1. y < b
        <4>1. EndOf(h, x) <= b /\ y \in Nat /\ b \in Nat
          BY <1>1, <2>1, <2>2 DEF Linked
        <4> QED BY <1>1, <2>1, <4>1
      <3>2. EndOf(h, y) <= b
        BY <1>1, <2>1, <3>1 DEF Linked
      <3> QED BY <1>1, <2>2, <3>2
    <2> QED BY <1>2, <2>1, <2>2
  <1> QED BY <1>1, <1>5, <1>6, <1>7, <1>8, <1>9, <1>10 DEF Linked, end

\* What cutting the block at a, after t units, leaves of the list, and changes.
Cuts(h, a, t, b, g) ==
  /\ b = a + HEADER_SIZE + t /\ b \notin DOMAIN h /\ a < b /\ b < EndOf(h, a)
  /\ DOMAIN g = DOMAIN h \cup {b} /\ g \in [DOMAIN g -> Node]
  /\ g[a].size = t /\ g[a].is_free = h[a].is_free /\ g[a].next = b
  /\ g[a].prev = h[a].prev /\ EndOf(g, a) = b
  /\ g[b].size = h[a].size - t - HEADER_SIZE /\ g[b].is_free
  /\ g[b].next = h[a].next /\ g[b].prev = a
  /\ EndOf(g, b) = EndOf(h, a)
  /\ \A w \in DOMAIN h \ {a} :
       /\ g[w].size = h[w].size /\ EndOf(g, w) = EndOf(h, w)
       /\ g[w].is_free = h[w].is_free /\ g[w].next = h[w].next
       /\ g[w].prev = IF h[w].prev = a THEN b ELSE h[w].prev

\* split_block() cuts a block when a header and MIN_SPLIT remain: the new header
\* falls inside the block, where there was none.
Splits(h, a, n, g) ==
  LET f == a + HEADER_SIZE + n
  IN /\ Cuts(h.block, a, n, f, g.block)
     /\ g = [start |-> 0, block |-> g.block,
             end |-> IF h.block[a].next = NoBlock THEN f ELSE h.end]

LEMMA SplitShape ==
  ASSUME NEW l, NEW top, Tiled(l, top), NEW a \in DOMAIN l.block,
         NEW t \in Nat \ {0}, l.block[a].size >= t + HEADER_SIZE + MIN_SPLIT
  PROVE  Splits(l, a, t, split_block(l, a, t))
  <1> DEFINE h == l.block
             last == l.end
             b == a + HEADER_SIZE + t
             z == h[a].next
             new == [size |-> h[a].size - t - HEADER_SIZE, is_free |-> TRUE,
                     next |-> z, prev |-> a]
             m == [w \in DOMAIN h \cup {b} |->
                     IF w = b THEN new
                     ELSE IF w = a THEN [h[a] EXCEPT !.size = t, !.next = b]
                     ELSE h[w]]
             g == IF z = NoBlock THEN m ELSE [m EXCEPT ![z].prev = b]
  <1>a. Linked(h, last, top) /\ a \in DOMAIN h
        /\ l = [start |-> 0, end |-> last, block |-> h]
    BY DEF Tiled
  <1>0. HEADER_SIZE \in Nat \ {0} /\ MIN_SPLIT \in Nat
        /\ DOMAIN h \subseteq Nat /\ h \in [DOMAIN h -> Node]
    BY <1>a, UserHeapAssumption DEF Linked
  <1>1. a \in DOMAIN h /\ a \in Nat /\ h[a] \in Node /\ h[a].size \in Nat
    BY <1>a, <1>0 DEF Node
  <1>2. a < b /\ b < EndOf(h, a) /\ b \in Nat
        /\ h[a].size - t - HEADER_SIZE \in Nat
    BY <1>0, <1>1 DEF EndOf
  <1>3. b \notin DOMAIN h
    <2> SUFFICES ASSUME b \in DOMAIN h PROVE FALSE
      OBVIOUS
    <2>1. EndOf(h, a) <= b
      BY <1>a, <1>1, <1>2 DEF Linked
    <2> QED BY <1>0, <1>1, <1>2, <2>1 DEF EndOf
  <1>4. z = NoBlock \/ (z \in DOMAIN h /\ z # a /\ h[z].prev = a)
    <2>1. CASE a = last
      BY <1>a, <2>1 DEF Linked
    <2>2. CASE a # last
      <3>1. z = EndOf(h, a) /\ z \in DOMAIN h /\ h[z].prev = a
        BY <1>a, <1>1, <2>2 DEF Linked
      <3>2. z # a
        BY <1>0, <1>1, <3>1 DEF EndOf
      <3> QED BY <3>1, <3>2
    <2> QED BY <2>1, <2>2
  <1>5. \A w \in DOMAIN h : h[w].prev = a <=> w = z
    <2> TAKE w \in DOMAIN h
    <2>1. w = z => h[w].prev = a
      BY <1>0, <1>4 DEF NoBlock
    <2>2. ASSUME h[w].prev = a PROVE w = z
      <3>1. w # 0
        BY <1>a, <2>2, <1>1 DEF Linked, NoBlock
      <3>2. EndOf(h, a) = w
        BY <1>a, <2>2, <3>1 DEF Linked
      <3>3. a < w /\ w \in Nat
        BY <1>0, <1>1, <1>2, <3>2 DEF EndOf
      <3>4. a # last
        BY <1>a, <1>1, <3>3 DEF Linked
      <3> QED BY <1>a, <1>1, <3>2, <3>4 DEF Linked
    <2> QED BY <2>1, <2>2
  <1>7. z \in Nat \cup {NoBlock} /\ NoBlock \notin DOMAIN h
    BY <1>0, <1>4 DEF NoBlock
  <1>6. /\ DOMAIN m = DOMAIN h \cup {b}
        /\ m[b] = new /\ m[b].next = z
        /\ m[a] = [h[a] EXCEPT !.size = t, !.next = b]
        /\ \A w \in DOMAIN h \ {a} : m[w] = h[w]
    <2>1. a # b
      BY <1>1, <1>2
    <2> QED BY <1>1, <1>3, <2>1
  <1> HIDE DEF m
  <1>b. split_block(l, a, t)
          = IF z = NoBlock THEN [start |-> 0, end |-> b, block |-> m]
            ELSE [start |-> 0, end |-> last, block |-> [m EXCEPT ![z].prev = b]]
    <2>1. [l EXCEPT !.block = m] = [start |-> 0, end |-> last, block |-> m]
      BY <1>a
    <2>2. ~(h[a].size < t + HEADER_SIZE + MIN_SPLIT)
      BY <1>0, <1>1
    <2>3. split_block(l, a, t) = LinkBack([l EXCEPT !.block = m], b)
      BY <2>2 DEF split_block, m
    <2> QED BY <1>6, <2>1, <2>3 DEF LinkBack
  <1> HIDE DEF g, new
  <1>8. DOMAIN g = DOMAIN h \cup {b}
    BY <1>6 DEF g
  <1>9. g[a] = [h[a] EXCEPT !.size = t, !.next = b]
    BY <1>1, <1>4, <1>6 DEF g
  <1>10. g[b] = new
    BY <1>3, <1>4, <1>6, <1>7 DEF g
  <1>11. \A w \in DOMAIN h \ {a} :
           g[w] = IF w = z THEN [h[w] EXCEPT !.prev = b] ELSE h[w]
    BY <1>6, <1>7 DEF g
  <1>12. g \in [DOMAIN g -> Node]
    <2>1. g[a] \in Node
      BY <1>1, <1>2, <1>9 DEF Node
    <2>2. g[b] \in Node
      <3>1. \A n \in Nat : [size |-> n, is_free |-> TRUE, next |-> z,
                            prev |-> a] \in Node
        BY <1>1, <1>7 DEF Node
      <3> QED BY <1>2, <1>10, <3>1 DEF new
    <2>3. \A w \in DOMAIN h \ {a} : g[w] \in Node
      BY <1>0, <1>2, <1>11 DEF Node
    <2>4. g = [w \in DOMAIN g |-> g[w]]
      BY DEF g, m
    <2> QED BY <1>8, <2>1, <2>2, <2>3, <2>4
  <1>13. /\ g[a].size = t /\ g[a].is_free = h[a].is_free /\ g[a].next = b
         /\ g[a].prev = h[a].prev
    BY <1>1, <1>9 DEF Node
  <1>14. EndOf(g, a) = b
    BY <1>13 DEF EndOf
  <1>17. /\ g[b].size = h[a].size - t - HEADER_SIZE /\ g[b].is_free
         /\ g[b].next = z /\ g[b].prev = a
    BY <1>10 DEF new
  <1>15. EndOf(g, b) = EndOf(h, a)
    BY <1>0, <1>1, <1>2, <1>17 DEF EndOf
  <1>16. ASSUME NEW w \in DOMAIN h \ {a}
         PROVE  /\ g[w].size = h[w].size /\ EndOf(g, w) = EndOf(h, w)
                /\ g[w].is_free = h[w].is_free /\ g[w].next = h[w].next
                /\ g[w].prev = IF h[w].prev = a THEN b ELSE h[w].prev
    <2>1. h[w] \in Node
      BY <1>0
    <2>2. /\ g[w].size = h[w].size
          /\ g[w].is_free = h[w].is_free /\ g[w].next = h[w].next
          /\ g[w].prev = IF w = z THEN b ELSE h[w].prev
      BY <1>11, <2>1 DEF Node
    <2> QED BY <1>5, <2>2 DEF EndOf
  <1>18. Cuts(h, a, t, b, g)
    <2> HIDE DEF z
    <2> QED BY <1>2, <1>3, <1>8, <1>12, <1>13, <1>14, <1>15, <1>16, <1>17
            DEF Cuts, z
  <1>19. split_block(l, a, t) = [start |-> 0, end |-> IF z = NoBlock THEN b ELSE last,
                                 block |-> g]
    BY <1>b DEF g
  <1> QED BY <1>18, <1>19 DEF Splits, h, last, b, z

\* Cutting keeps the list linked, also when the last block is cut.
LEMMA CutLinked ==
  ASSUME NEW h, NEW last, NEW top, Linked(h, last, top), NEW a \in DOMAIN h,
         NEW t \in Nat, NEW b, NEW g, Cuts(h, a, t, b, g)
  PROVE  Linked(g, IF h[a].next = NoBlock THEN b ELSE last, top)
  <1> DEFINE end == IF h[a].next = NoBlock THEN b ELSE last
  <1>0. HEADER_SIZE \in Nat \ {0} /\ DOMAIN h \subseteq Nat /\ h \in [DOMAIN h -> Node]
    BY UserHeapAssumption DEF Linked
  <1>1. /\ b \notin DOMAIN h /\ a < b /\ b < EndOf(h, a)
        /\ a \in Nat /\ b \in Nat /\ EndOf(h, a) \in Nat
        /\ DOMAIN g = DOMAIN h \cup {b} /\ g \in [DOMAIN g -> Node]
        /\ g[a].next = b /\ g[a].prev = h[a].prev /\ EndOf(g, a) = b
        /\ g[b].next = h[a].next /\ g[b].prev = a
        /\ EndOf(g, b) = EndOf(h, a)
    BY <1>0 DEF Cuts, EndOf, Node
  <1>2. \A w \in DOMAIN h \ {a} :
           /\ EndOf(g, w) = EndOf(h, w) /\ g[w].next = h[w].next
           /\ g[w].prev = IF h[w].prev = a THEN b ELSE h[w].prev
    BY DEF Cuts
  <1>3. end = IF a = last THEN b ELSE last
    <2>1. a = last => h[a].next = NoBlock
      BY DEF Linked
    <2>2. a # last => h[a].next # NoBlock
      BY <1>0 DEF Linked, NoBlock
    <2> QED BY <2>1, <2>2
  <1> HIDE DEF end
  <1>4. DOMAIN g \subseteq Nat /\ 0 \in DOMAIN g /\ g[0].prev = NoBlock
    BY <1>0, <1>1, <1>2 DEF Linked, NoBlock
  <1>5. end \in DOMAIN g /\ EndOf(g, end) = top /\ g[end].next = NoBlock
    BY <1>1, <1>2, <1>3 DEF Linked
  <1>6. \A w \in DOMAIN g : w <= end
    <2>1. CASE a = last
      BY <1>0, <1>1, <1>3, <2>1 DEF Linked
    <2>2. CASE a # last
      <3>1. EndOf(h, a) \in DOMAIN h /\ EndOf(h, a) <= last /\ last \in Nat
        BY <1>0, <2>2 DEF Linked
      <3> QED BY <1>1, <1>3, <2>2, <3>1 DEF Linked
    <2> QED BY <2>1, <2>2
  <1>7. ASSUME NEW w \in DOMAIN g \ {end}
        PROVE  /\ EndOf(g, w) \in DOMAIN g
               /\ g[w].next = EndOf(g, w) /\ g[EndOf(g, w)].prev = w
    <2>1. CASE w = a
      BY <1>1, <2>1
    <2>2. CASE w = b
      <3>1. a # last
        BY <1>3, <2>2
      <3>2. EndOf(h, a) \in DOMAIN h /\ h[a].next = EndOf(h, a)
            /\ h[EndOf(h, a)].prev = a /\ EndOf(h, a) # a
        BY <1>1, <3>1 DEF Linked
      <3> QED BY <1>1, <1>2, <2>2, <3>2
    <2>3. CASE w # a /\ w # b
      <3>1. w \in DOMAIN h /\ w # last
        BY <1>1, <1>3, <2>3
      <3>2. EndOf(h, w) \in DOMAIN h /\ h[w].next = EndOf(h, w)
            /\ h[EndOf(h, w)].prev = w
        BY <3>1 DEF Linked
      <3> QED BY <1>1, <1>2, <2>3, <3>1, <3>2
    <2> QED BY <2>1, <2>2, <2>3
  <1>8. ASSUME NEW w \in DOMAIN g \ {0}
        PROVE  g[w].prev \in DOMAIN g /\ EndOf(g, g[w].prev) = w
    <2>1. CASE w = b
      BY <1>1, <2>1
    <2>2. CASE w # b
      <3>1. w \in DOMAIN h /\ h[w].prev \in DOMAIN h
            /\ EndOf(h, h[w].prev) = w
        BY <1>1, <2>2 DEF Linked
      <3>2. CASE h[w].prev = a
        <4>1. w # a
          BY <1>1, <3>1, <3>2
        <4> QED BY <1>1, <1>2, <3>1, <3>2, <4>1
      <3>3. CASE h[w].prev # a
        BY <1>1, <1>2, <3>1, <3>3
      <3> QED BY <3>2, <3>3
    <2> QED BY <2>1, <2>2
  <1>9. ASSUME NEW v \in DOMAIN g, NEW w \in DOMAIN g, v < w
        PROVE  EndOf(g, v) <= w
    <2>1. CASE v = b
      <3>1. w \in DOMAIN h /\ a < w
        BY <1>1, <1>4, <1>9, <2>1
      <3>2. EndOf(h, a) <= w
        BY <3>1 DEF Linked
      <3> QED BY <1>1, <2>1, <3>2
    <2>2. CASE v = a
      <3>1. w = b \/ (w \in DOMAIN h /\ EndOf(h, a) <= w)
        BY <1>1, <1>9, <2>2 DEF Linked
      <3> QED BY <1>1, <1>4, <2>2, <3>1
    <2>3. CASE v # a /\ v # b
      <3>1. v \in DOMAIN h /\ EndOf(g, v) = EndOf(h, v)
        BY <1>1, <1>2, <2>3
      <3>2. CASE w = b
        <4>1. v < a
          <5> SUFFICES ASSUME ~(v < a) PROVE FALSE
            OBVIOUS
          <5>1. a < v
            BY <1>1, <1>4, <2>3
          <5>2. EndOf(h, a) <= v
            BY <3>1, <5>1 DEF Linked
          <5> QED BY <1>1, <1>4, <1>9, <3>2, <5>2
        <4>2. EndOf(h, v) <= a
          BY <3>1, <4>1 DEF Linked
        <4>3. EndOf(h, v) \in Nat
          BY <1>0, <3>1 DEF EndOf, Node
        <4> QED BY <1>1, <3>1, <3>2, <4>2, <4>3
      <3>3. CASE w # b
        BY <1>1, <1>9, <3>1, <3>3 DEF Linked
      <3> QED BY <3>2, <3>3
    <2> QED BY <2>1, <2>2, <2>3
  <1> QED BY <1>1, <1>4, <1>5, <1>6, <1>7, <1>8, <1>9 DEF Linked, end

-----------------------------------------------------------------------------
\* What the operations do to the blocks that the program holds

Held(b) == {a \in DOMAIN b : ~b[a].is_free}

\* What b and c say of the blocks in S is the same.
SameSizes(b, c, S) ==
  \A a \in S : a \in DOMAIN b /\ a \in DOMAIN c /\ c[a].size = b[a].size

\* split_block() leaves the block at a long enough, and nobody else's changed.
LEMMA SplitKeeps ==
  ASSUME NEW h, NEW top, Tiled(h, top), NEW a \in DOMAIN h.block,
         NEW n \in Nat \ {0}, h.block[a].size >= n
  PROVE  LET g == split_block(h, a, n)
         IN /\ Tiled(g, top) /\ a \in DOMAIN g.block
            /\ g.block[a].is_free = h.block[a].is_free
            /\ g.block[a].size >= n /\ EndOf(g.block, a) <= EndOf(h.block, a)
            /\ Held(g.block) = Held(h.block)
            /\ SameSizes(h.block, g.block, Held(h.block) \ {a})
  <1> DEFINE g == split_block(h, a, n)
             f == a + HEADER_SIZE + n
  <1>1. Linked(h.block, h.end, top)
    BY DEF Tiled
  <1>2. /\ HEADER_SIZE \in Nat \ {0} /\ MIN_SPLIT \in Nat
        /\ h.block[a].size \in Nat /\ EndOf(h.block, a) \in Nat
    BY <1>1, ChainEnds, UserHeapAssumption
  <1>3. CASE h.block[a].size < n + HEADER_SIZE + MIN_SPLIT
    <2>1. g = h
      BY <1>3 DEF split_block
    <2> HIDE DEF g
    <2> QED BY <1>2, <2>1 DEF Held, SameSizes, g
  <1>4. CASE ~(h.block[a].size < n + HEADER_SIZE + MIN_SPLIT)
    <2>1. h.block[a].size >= n + HEADER_SIZE + MIN_SPLIT
      BY <1>2, <1>4
    <2>2. Splits(h, a, n, g)
      BY <2>1, SplitShape
    <2> HIDE DEF g
    <2>3. /\ Cuts(h.block, a, n, f, g.block)
          /\ g = [start |-> 0, block |-> g.block,
                  end |-> IF h.block[a].next = NoBlock THEN f ELSE h.end]
      BY <2>2 DEF Splits
    <2>4. g.end = IF h.block[a].next = NoBlock THEN f ELSE h.end
      BY <2>3
    <2>5. Linked(g.block, g.end, top)
      BY <1>1, <2>3, <2>4, CutLinked
    <2>6. Tiled(g, top)
      BY <2>3, <2>4, <2>5 DEF Tiled
    <2>7. /\ a < f /\ f < EndOf(h.block, a) /\ f \notin DOMAIN h.block
          /\ DOMAIN g.block = DOMAIN h.block \cup {f}
          /\ g.block[a].size = n /\ g.block[a].is_free = h.block[a].is_free
          /\ EndOf(g.block, a) = f /\ g.block[f].is_free
          /\ \A w \in DOMAIN h.block \ {a} :
               g.block[w].size = h.block[w].size
               /\ g.block[w].is_free = h.block[w].is_free
      <3> HIDE DEF f
      <3> QED BY <2>3 DEF Cuts
    <2> HIDE DEF f
    <2>8. Held(g.block) = Held(h.block)
      BY <2>7 DEF Held
    <2>9. SameSizes(h.block, g.block, Held(h.block) \ {a})
      BY <2>7 DEF Held, SameSizes
    <2>10. EndOf(g.block, a) <= EndOf(h.block, a)
      <3>1. f \in Nat
        BY <1>1, <1>2, ChainEnds DEF f
      <3> QED BY <1>2, <2>7, <3>1
    <2>11. g.block[a].size >= n
      BY <2>7
    <2> QED BY <2>6, <2>7, <2>8, <2>9, <2>10, <2>11 DEF g
  <1> QED BY <1>3, <1>4

\* Absorbing the free block after x changes nobody else's.
LEMMA AbsorbKeeps ==
  ASSUME NEW h, NEW top, Tiled(h, top), NEW x \in DOMAIN h.block, NextIsFree(h, x)
  PROVE  LET g == Absorb(h, x)
         IN /\ Tiled(g, top) /\ x \in DOMAIN g.block
            /\ g.block[x].is_free = h.block[x].is_free
            /\ g.block[x].size
                 = h.block[x].size + HEADER_SIZE + h.block[h.block[x].next].size
            /\ Held(g.block) = Held(h.block)
            /\ SameSizes(h.block, g.block, Held(h.block) \ {x})
            /\ DOMAIN g.block \subseteq DOMAIN h.block
            /\ \A w \in DOMAIN g.block : g.block[w].is_free = h.block[w].is_free
  <1> DEFINE g == Absorb(h, x)
             y == h.block[x].next
  <1>1. Linked(h.block, h.end, top) /\ h.block[x].next # NoBlock
        /\ h.block[y].is_free
    BY DEF Tiled, NextIsFree
  <1>2. Absorbs(h, x, g)
    BY <1>1, AbsorbShape
  <1> HIDE DEF g
  <1>3. /\ Joins(h.block, h.end, x, y, g.block)
        /\ g = [start |-> 0, block |-> g.block,
                end |-> IF h.block[y].next = NoBlock THEN x ELSE h.end]
    BY <1>2 DEF Absorbs
  <1>4. g.end = IF h.block[y].next = NoBlock THEN x ELSE h.end
    BY <1>3
  <1>5. Linked(g.block, g.end, top)
    BY <1>1, <1>3, <1>4, JoinLinked
  <1>6. Tiled(g, top)
    BY <1>3, <1>4, <1>5 DEF Tiled
  <1> HIDE DEF y
  <1>7. /\ DOMAIN g.block = DOMAIN h.block \ {y} /\ x \in DOMAIN g.block
        /\ g.block[x].size = h.block[x].size + HEADER_SIZE + h.block[y].size
        /\ \A w \in DOMAIN g.block \ {x} : g.block[w].size = h.block[w].size
        /\ \A w \in DOMAIN g.block : g.block[w].is_free = h.block[w].is_free
    BY <1>3 DEF Joins
  <1>8. Held(g.block) = Held(h.block)
    BY <1>1, <1>7 DEF Held
  <1>9. SameSizes(h.block, g.block, Held(h.block) \ {x})
    BY <1>7, <1>8 DEF Held, SameSizes
  <1> QED BY <1>6, <1>7, <1>8, <1>9 DEF g, y

\* The block before a, by link, has a after it.
LEMMA PrevOf ==
  ASSUME NEW h, NEW last, NEW top, Linked(h, last, top), NEW a \in DOMAIN h,
         h[a].prev # NoBlock
  PROVE  h[a].prev \in DOMAIN h /\ h[h[a].prev].next = a /\ a # NoBlock
  <1>1. a # 0 /\ a \in Nat /\ HEADER_SIZE \in Nat \ {0}
    BY UserHeapAssumption DEF Linked
  <1> DEFINE p == h[a].prev
  <1>2. p \in DOMAIN h /\ EndOf(h, p) = a
    BY <1>1 DEF Linked
  <1>3. p < a /\ p \in Nat
    BY <1>2, ChainEnds
  <1>4. p # last
    BY <1>1, <1>2, <1>3 DEF Linked
  <1> HIDE DEF p
  <1>5. h[p].next = EndOf(h, p)
    BY <1>2, <1>4 DEF Linked
  <1> QED BY <1>1, <1>2, <1>5 DEF p, NoBlock

\* coalesce() joins free blocks only.
LEMMA CoalesceKeeps ==
  ASSUME NEW h, NEW top, Tiled(h, top), NEW a \in DOMAIN h.block,
         h.block[a].is_free
  PROVE  LET g == coalesce(h, a)
         IN /\ Tiled(g, top) /\ Held(g.block) = Held(h.block)
            /\ SameSizes(h.block, g.block, Held(h.block))
  <1> DEFINE m == IF NextIsFree(h, a) THEN Absorb(h, a) ELSE h
             p == m.block[a].prev
  <1>1. /\ Tiled(m, top) /\ a \in DOMAIN m.block /\ m.block[a].is_free
        /\ Held(m.block) = Held(h.block)
        /\ SameSizes(h.block, m.block, Held(h.block))
    <2>1. CASE NextIsFree(h, a)
      BY <2>1, AbsorbKeeps DEF Held, SameSizes
    <2>2. CASE ~NextIsFree(h, a)
      BY <2>2 DEF Held, SameSizes
    <2> QED BY <2>1, <2>2
  <1> HIDE DEF m
  <1>2. coalesce(h, a)
          = IF p # NoBlock /\ m.block[p].is_free THEN Absorb(m, p) ELSE m
    BY DEF coalesce, m
  <1>3. CASE p # NoBlock /\ m.block[p].is_free
    <2>1. p \in DOMAIN m.block /\ m.block[p].next = a /\ a # NoBlock
      BY <1>1, <1>3, PrevOf DEF Tiled
    <2>2. NextIsFree(m, p)
      BY <1>1, <2>1 DEF NextIsFree
    <2> HIDE DEF p
    <2> DEFINE g == Absorb(m, p)
    <2>3. /\ Tiled(g, top) /\ Held(g.block) = Held(m.block)
          /\ SameSizes(m.block, g.block, Held(m.block) \ {p})
      BY <1>1, <2>1, <2>2, AbsorbKeeps
    <2>4. p \notin Held(m.block)
      BY <1>3 DEF Held
    <2>5. coalesce(h, a) = g
      BY <1>2, <1>3
    <2> HIDE DEF g
    <2>6. SameSizes(h.block, g.block, Held(h.block))
      BY <1>1, <2>3, <2>4 DEF SameSizes
    <2> QED BY <1>1, <2>3, <2>5, <2>6
  <1>4. CASE ~(p # NoBlock /\ m.block[p].is_free)
    BY <1>1, <1>2, <1>4
  <1> QED BY <1>3, <1>4

Flag(h, a, v) == [h EXCEPT !.block[a].is_free = v]

\* Setting is_free of the block at a changes nothing else of the list.
LEMMA Flagged ==
  ASSUME NEW h, NEW top, Tiled(h, top), NEW a \in DOMAIN h.block,
         NEW v \in BOOLEAN, NEW m, m = Flag(h, a, v)
  PROVE  /\ Tiled(m, top) /\ DOMAIN m.block = DOMAIN h.block
         /\ m.block[a].is_free = v
         /\ \A w \in DOMAIN h.block : m.block[w].size = h.block[w].size
         /\ \A w \in DOMAIN h.block \ {a} : m.block[w].is_free = h.block[w].is_free
  <1>1. /\ Linked(h.block, h.end, top)
        /\ h = [start |-> 0, end |-> h.end, block |-> h.block]
        /\ h.block \in [DOMAIN h.block -> Node]
    BY DEF Tiled, Linked
  <1>2. m = [start |-> 0, end |-> h.end,
             block |-> [h.block EXCEPT ![a].is_free = v]]
    <2> DEFINE c == [h.block EXCEPT ![a].is_free = v]
    <2>1. m = [h EXCEPT !.block = c]
      BY DEF Flag
    <2> HIDE DEF c
    <2>2. m = [start |-> 0, end |-> h.end, block |-> c]
      BY <1>1, <2>1
    <2> QED BY <2>2 DEF c
  <1>3. /\ m.block = [h.block EXCEPT ![a].is_free = v] /\ m.end = h.end
        /\ m = [start |-> 0, end |-> m.end, block |-> m.block]
    BY <1>2
  <1>4. /\ DOMAIN m.block = DOMAIN h.block
        /\ m.block \in [DOMAIN h.block -> Node]
        /\ m.block[a].is_free = v
        /\ \A w \in DOMAIN h.block :
             /\ m.block[w].size = h.block[w].size
             /\ m.block[w].next = h.block[w].next
             /\ m.block[w].prev = h.block[w].prev
        /\ \A w \in DOMAIN h.block \ {a} : m.block[w].is_free = h.block[w].is_free
    <2>1. DOMAIN m.block = DOMAIN h.block
      BY <1>3
    <2>2. m.block[a] = [h.block[a] EXCEPT !.is_free = v]
      BY <1>3
    <2>3. \A w \in DOMAIN h.block \ {a} : m.block[w] = h.block[w]
      BY <1>3
    <2>4. h.block[a] \in Node
      BY <1>1
    <2>5. m.block[a] \in Node /\ m.block[a].is_free = v
          /\ m.block[a].size = h.block[a].size
          /\ m.block[a].next = h.block[a].next
          /\ m.block[a].prev = h.block[a].prev
      BY <2>2, <2>4 DEF Node
    <2>6. m.block \in [DOMAIN h.block -> Node]
      BY <1>1, <1>3, <2>5
    <2> QED BY <2>1, <2>3, <2>5, <2>6
  <1>5. \A w \in DOMAIN h.block : EndOf(m.block, w) = EndOf(h.block, w)
    BY <1>4 DEF EndOf
  <1>6. Linked(m.block, m.end, top)
    <2> DEFINE b == m.block
               c == h.block
               last == h.end
    <2>1. /\ DOMAIN b \subseteq Nat /\ b \in [DOMAIN b -> Node]
          /\ 0 \in DOMAIN b /\ b[0].prev = NoBlock
          /\ last \in DOMAIN b /\ EndOf(b, last) = top /\ b[last].next = NoBlock
          /\ \A w \in DOMAIN b : w <= last
      BY <1>1, <1>4, <1>5 DEF Linked
    <2>2. \A w \in DOMAIN b \ {last} :
            /\ EndOf(b, w) \in DOMAIN b
            /\ b[w].next = EndOf(b, w) /\ b[EndOf(b, w)].prev = w
      <3> TAKE w \in DOMAIN b \ {last}
      <3>1. /\ EndOf(c, w) \in DOMAIN c
            /\ c[w].next = EndOf(c, w) /\ c[EndOf(c, w)].prev = w
        BY <1>1, <1>4 DEF Linked
      <3> QED BY <1>4, <1>5, <3>1
    <2>3. \A w \in DOMAIN b \ {0} :
            b[w].prev \in DOMAIN b /\ EndOf(b, b[w].prev) = w
      <3> TAKE w \in DOMAIN b \ {0}
      <3>1. c[w].prev \in DOMAIN c /\ EndOf(c, c[w].prev) = w
        BY <1>1, <1>4 DEF Linked
      <3> QED BY <1>4, <1>5, <3>1
    <2>4. \A w, x \in DOMAIN b : w < x => EndOf(b, w) <= x
      BY <1>1, <1>4, <1>5 DEF Linked
    <2> HIDE DEF b
    <2>5. Linked(b, last, top)
      BY <2>1, <2>2, <2>3, <2>4 DEF Linked
    <2> QED BY <1>3, <2>5 DEF b
  <1>7. Tiled(m, top)
    BY <1>3, <1>6 DEF Tiled
  <1> QED BY <1>4, <1>7

\* A free block is taken into use.
LEMMA Takes ==
  ASSUME NEW h, NEW top, Tiled(h, top), NEW a \in DOMAIN h.block
  PROVE  LET g == [h EXCEPT !.block[a].is_free = FALSE]
         IN /\ Tiled(g, top) /\ Held(g.block) = Held(h.block) \cup {a}
            /\ g.block[a].size = h.block[a].size
            /\ SameSizes(h.block, g.block, Held(h.block))
  <1> DEFINE g == [h EXCEPT !.block[a].is_free = FALSE]
  <1>1. /\ Tiled(g, top) /\ DOMAIN g.block = DOMAIN h.block
        /\ g.block[a].is_free = FALSE
        /\ \A w \in DOMAIN h.block : g.block[w].size = h.block[w].size
        /\ \A w \in DOMAIN h.block \ {a} : g.block[w].is_free = h.block[w].is_free
    <2> DEFINE v == FALSE
    <2>1. v \in BOOLEAN /\ g = Flag(h, a, v)
      BY DEF Flag
    <2> HIDE DEF g, v
    <2>2. /\ Tiled(g, top) /\ DOMAIN g.block = DOMAIN h.block
          /\ g.block[a].is_free = v
          /\ \A w \in DOMAIN h.block : g.block[w].size = h.block[w].size
          /\ \A w \in DOMAIN h.block \ {a} : g.block[w].is_free = h.block[w].is_free
      BY <2>1, Flagged
    <2> QED BY <2>2 DEF v
  <1> HIDE DEF g
  <1>2. Held(g.block) = Held(h.block) \cup {a}
    BY <1>1 DEF Held
  <1>3. SameSizes(h.block, g.block, Held(h.block))
    BY <1>1 DEF Held, SameSizes
  <1> QED BY <1>1, <1>2, <1>3 DEF g

\* free() takes back the block at a, and nothing else.
LEMMA ReleasedKeeps ==
  ASSUME NEW h, NEW top, Tiled(h, top), NEW a \in DOMAIN h.block
  PROVE  LET g == Released(h, a)
         IN /\ Tiled(g, top) /\ Held(g.block) = Held(h.block) \ {a}
            /\ SameSizes(h.block, g.block, Held(h.block) \ {a})
  <1> DEFINE m == [h EXCEPT !.block[a].is_free = TRUE]
  <1>1. /\ Tiled(m, top) /\ DOMAIN m.block = DOMAIN h.block
        /\ m.block[a].is_free = TRUE
        /\ \A w \in DOMAIN h.block : m.block[w].size = h.block[w].size
        /\ \A w \in DOMAIN h.block \ {a} : m.block[w].is_free = h.block[w].is_free
    <2> DEFINE v == TRUE
    <2>1. v \in BOOLEAN /\ m = Flag(h, a, v)
      BY DEF Flag
    <2> HIDE DEF m, v
    <2>2. /\ Tiled(m, top) /\ DOMAIN m.block = DOMAIN h.block
          /\ m.block[a].is_free = v
          /\ \A w \in DOMAIN h.block : m.block[w].size = h.block[w].size
          /\ \A w \in DOMAIN h.block \ {a} : m.block[w].is_free = h.block[w].is_free
      BY <2>1, Flagged
    <2> QED BY <2>2 DEF v
  <1> HIDE DEF m
  <1>8. Held(m.block) = Held(h.block) \ {a}
    BY <1>1 DEF Held
  <1>9. SameSizes(h.block, m.block, Held(h.block) \ {a})
    BY <1>1 DEF Held, SameSizes
  <1> DEFINE g == coalesce(m, a)
  <1>10. /\ Tiled(g, top) /\ Held(g.block) = Held(m.block)
         /\ SameSizes(m.block, g.block, Held(m.block))
    BY <1>1, CoalesceKeeps
  <1>11. Released(h, a) = g
    BY DEF Released, m
  <1> HIDE DEF g
  <1>12. SameSizes(h.block, g.block, Held(h.block) \ {a})
    BY <1>8, <1>9, <1>10 DEF SameSizes
  <1> QED BY <1>8, <1>10, <1>11, <1>12

\* The heap before the first call.
NoHeap == [start |-> NoBlock, end |-> NoBlock, block |-> [a \in {} |-> 0]]

HeapIs(h, top) == Tiled(h, top) \/ (h = NoHeap /\ top = 0)

LEMMA HeldWithin ==
  ASSUME NEW h, NEW top, HeapIs(h, top)
  PROVE  /\ top \in Nat /\ DOMAIN h.block \subseteq Nat /\ NoBlock \notin DOMAIN h.block
         /\ \A a \in DOMAIN h.block :
              /\ h.block[a] \in Node /\ EndOf(h.block, a) \in Nat
              /\ EndOf(h.block, a) <= top /\ a < top
  <1>1. CASE Tiled(h, top)
    <2>1. Linked(h.block, h.end, top)
      BY <1>1 DEF Tiled
    <2>2. /\ DOMAIN h.block \subseteq Nat /\ h.end \in DOMAIN h.block
          /\ NoBlock \notin DOMAIN h.block
      BY <2>1 DEF Linked, NoBlock
    <2>3. \A a \in DOMAIN h.block :
            /\ h.block[a] \in Node /\ EndOf(h.block, a) \in Nat /\ top \in Nat
            /\ EndOf(h.block, a) <= top /\ a < EndOf(h.block, a)
      BY <2>1, ChainEnds
    <2>4. \A a \in DOMAIN h.block : a < top
      BY <2>2, <2>3
    <2> QED BY <2>2, <2>3, <2>4
  <1>2. CASE h = NoHeap /\ top = 0
    <2>1. DOMAIN h.block = {}
      BY <1>2 DEF NoHeap
    <2> QED BY <1>2, <2>1
  <1> QED BY <1>1, <1>2 DEF HeapIs

\* What SYS_SBRK gave becomes one more block, at the end.
LEMMA ExtendedKeeps ==
  ASSUME NEW h, NEW top, HeapIs(h, top), NEW room \in Nat, room >= HEADER_SIZE
  PROVE  LET g == Extended(h, top, room)
         IN /\ Tiled(g, top + room) /\ top \in DOMAIN g.block
            /\ g.block[top].size = room - HEADER_SIZE /\ ~g.block[top].is_free
            /\ top \notin DOMAIN h.block
            /\ Held(g.block) = Held(h.block) \cup {top}
            /\ SameSizes(h.block, g.block, Held(h.block))
  <1> DEFINE b == h.block
             e == h.end
             new == [size |-> room - HEADER_SIZE, is_free |-> FALSE,
                     next |-> NoBlock, prev |-> e]
             c == [w \in DOMAIN b \cup {top} |->
                     IF w = top THEN new
                     ELSE IF w = e THEN [b[w] EXCEPT !.next = top] ELSE b[w]]
  <1>1. /\ HEADER_SIZE \in Nat \ {0} /\ top \in Nat /\ DOMAIN b \subseteq Nat
        /\ top \notin DOMAIN b /\ room - HEADER_SIZE \in Nat
    <2>1. top \in Nat /\ DOMAIN b \subseteq Nat /\ \A a \in DOMAIN b : a < top
      BY HeldWithin
    <2> QED BY <2>1, UserHeapAssumption
  <1>2. e \in Nat \cup {NoBlock}
    BY DEF HeapIs, Tiled, NoHeap, Linked
  <1>3. Extended(h, top, room)
          = [start |-> IF h.start = NoBlock THEN top ELSE h.start,
             end |-> top, block |-> c]
    BY DEF Extended
  <1>4. /\ DOMAIN c = DOMAIN b \cup {top} /\ c[top] = new
        /\ \A w \in DOMAIN b : c[w] = IF w = e THEN [b[w] EXCEPT !.next = top] ELSE b[w]
    BY <1>1
  <1>5. new \in Node /\ new.size = room - HEADER_SIZE /\ ~new.is_free
        /\ new.next = NoBlock /\ new.prev = e
    BY <1>1, <1>2 DEF Node
  <1>c. c = [w \in DOMAIN c |-> c[w]]
    OBVIOUS
  <1> HIDE DEF c, new
  <1>6. EndOf(c, top) = top + room
    BY <1>1, <1>4, <1>5 DEF EndOf
  <1>7. \A w \in DOMAIN b :
          /\ c[w] \in Node /\ c[w].size = b[w].size
          /\ c[w].is_free = b[w].is_free /\ c[w].prev = b[w].prev
          /\ c[w].next = IF w = e THEN top ELSE b[w].next
          /\ EndOf(c, w) = EndOf(b, w)
    <2> TAKE w \in DOMAIN b
    <2>1. b[w] \in Node
      BY HeldWithin
    <2>2. c[w] = IF w = e THEN [b[w] EXCEPT !.next = top] ELSE b[w]
      BY <1>4
    <2>3. /\ c[w] \in Node /\ c[w].size = b[w].size
          /\ c[w].is_free = b[w].is_free /\ c[w].prev = b[w].prev
          /\ c[w].next = IF w = e THEN top ELSE b[w].next
      BY <1>1, <2>1, <2>2 DEF Node
    <2> QED BY <2>3 DEF EndOf
  <1>8. c \in [DOMAIN c -> Node]
    <2>1. \A w \in DOMAIN c : c[w] \in Node
      BY <1>4, <1>5, <1>7
    <2> QED BY <2>1, <1>c
  <1>9. Linked(c, top, top + room) /\ (IF h.start = NoBlock THEN top ELSE h.start) = 0
    <2>1. CASE Tiled(h, top)
      <3>1. Linked(b, e, top) /\ h.start = 0
        BY <2>1 DEF Tiled
      <3>2. /\ DOMAIN c \subseteq Nat /\ 0 \in DOMAIN c /\ c[0].prev = NoBlock
            /\ e \in DOMAIN b /\ EndOf(b, e) = top
        BY <1>1, <1>4, <1>7, <3>1 DEF Linked
      <3>3. \A a \in DOMAIN b : a < top /\ EndOf(b, a) <= top
        BY HeldWithin
      <3>4. \A a \in DOMAIN c : a <= top
        BY <1>1, <1>4, <3>3
      <3>5. ASSUME NEW a \in DOMAIN c \ {top}
            PROVE  /\ EndOf(c, a) \in DOMAIN c
                   /\ c[a].next = EndOf(c, a) /\ c[EndOf(c, a)].prev = a
        <4>1. a \in DOMAIN b
          BY <1>4
        <4>2. CASE a = e
          BY <1>4, <1>5, <1>7, <3>2, <4>1, <4>2
        <4>3. CASE a # e
          <5>1. /\ EndOf(b, a) \in DOMAIN b
                /\ b[a].next = EndOf(b, a) /\ b[EndOf(b, a)].prev = a
            BY <3>1, <4>1, <4>3 DEF Linked
          <5> QED BY <1>4, <1>7, <4>1, <4>3, <5>1
        <4> QED BY <4>2, <4>3
      <3>6. ASSUME NEW a \in DOMAIN c \ {0}
            PROVE  c[a].prev \in DOMAIN c /\ EndOf(c, c[a].prev) = a
        <4>1. CASE a = top
          BY <1>4, <1>5, <1>7, <3>2, <4>1
        <4>2. CASE a # top
          <5>1. a \in DOMAIN b
            BY <1>4, <4>2
          <5>2. b[a].prev \in DOMAIN b /\ EndOf(b, b[a].prev) = a
            BY <3>1, <5>1 DEF Linked
          <5> QED BY <1>4, <1>7, <5>1, <5>2
        <4> QED BY <4>1, <4>2
      <3>7. ASSUME NEW a \in DOMAIN c, NEW d \in DOMAIN c, a < d
            PROVE  EndOf(c, a) <= d
        <4>1. a # top
          BY <3>4, <3>7, <3>2
        <4>2. a \in DOMAIN b /\ EndOf(c, a) = EndOf(b, a)
          BY <1>4, <1>7, <4>1
        <4>3. CASE d = top
          BY <3>3, <4>2, <4>3
        <4>4. CASE d # top
          <5>1. d \in DOMAIN b
            BY <1>4, <4>4
          <5> QED BY <3>1, <3>7, <4>2, <5>1 DEF Linked
        <4> QED BY <4>3, <4>4
      <3>8. top \in DOMAIN c /\ c[top].next = NoBlock
        BY <1>4, <1>5
      <3>9. Linked(c, top, top + room)
        BY <1>6, <1>8, <3>2, <3>4, <3>5, <3>6, <3>7, <3>8 DEF Linked
      <3> QED BY <3>1, <3>9 DEF NoBlock
    <2>2. CASE h = NoHeap /\ top = 0
      <3>1. DOMAIN b = {} /\ h.start = NoBlock /\ e = NoBlock
        BY <2>2 DEF NoHeap
      <3>2. DOMAIN c = {0} /\ c[0].prev = NoBlock /\ c[0].next = NoBlock
        BY <1>4, <1>5, <2>2, <3>1
      <3> QED BY <1>6, <1>8, <2>2, <3>1, <3>2 DEF Linked
    <2> QED BY <2>1, <2>2 DEF HeapIs
  <1> DEFINE g == Extended(h, top, room)
  <1>10. g = [start |-> 0, end |-> top, block |-> c]
    BY <1>3, <1>9
  <1> HIDE DEF g
  <1>11. g.block = c /\ g.end = top /\ g = [start |-> 0, end |-> g.end, block |-> g.block]
    BY <1>10
  <1>12. Tiled(g, top + room)
    BY <1>9, <1>11 DEF Tiled
  <1>13. Held(c) = Held(b) \cup {top}
    BY <1>1, <1>4, <1>5, <1>7 DEF Held
  <1>14. SameSizes(b, c, Held(b))
    BY <1>4, <1>7 DEF Held, SameSizes
  <1> QED BY <1>1, <1>4, <1>5, <1>11, <1>12, <1>13, <1>14 DEF g

\* Whole pages hold what was asked for and its header.
LEMMA AskedEnough ==
  ASSUME NEW n \in Nat
  PROVE  Asked(n) \in Nat /\ Asked(n) >= n + HEADER_SIZE
  <1>1. HEADER_SIZE \in Nat \ {0} /\ CHUNK_SIZE \in Nat \ {0}
    BY UserHeapAssumption
  <1> DEFINE x == n + HEADER_SIZE + CHUNK_SIZE - 1
             q == x \div CHUNK_SIZE
             r == x % CHUNK_SIZE
  <1>2. x \in Nat
    BY <1>1
  <1> HIDE DEF x
  <1>3. q \in Nat /\ r \in 0 .. CHUNK_SIZE - 1 /\ x = CHUNK_SIZE * q + r
    BY <1>1, <1>2
  <1> HIDE DEF q, r
  <1>4. Asked(n) = q * CHUNK_SIZE
    BY DEF Asked, q, x
  <1>5. CHUNK_SIZE * q \in Nat /\ q * CHUNK_SIZE = CHUNK_SIZE * q
    BY <1>1, <1>3
  <1>6. CHUNK_SIZE * q >= n + HEADER_SIZE
    BY <1>1, <1>3, <1>5 DEF x
  <1> QED BY <1>4, <1>5, <1>6

\* The regions of the blocks at a in b and at d in c have no unit in common.
Apart(b, a, c, d) == EndOf(b, a) <= d + HEADER_SIZE \/ EndOf(c, d) <= a + HEADER_SIZE

\* Two blocks of the list have no unit in common.
LEMMA BlocksApart ==
  ASSUME NEW h, NEW top, Tiled(h, top), NEW a \in DOMAIN h.block,
         NEW d \in DOMAIN h.block, a # d
  PROVE  Apart(h.block, a, h.block, d)
  <1>1. Linked(h.block, h.end, top) /\ HEADER_SIZE \in Nat
    BY UserHeapAssumption DEF Tiled
  <1>2. a \in Nat /\ d \in Nat /\ EndOf(h.block, a) \in Nat /\ EndOf(h.block, d) \in Nat
    BY <1>1, ChainEnds
  <1>3. \/ a < d /\ EndOf(h.block, a) <= d
        \/ d < a /\ EndOf(h.block, d) <= a
    BY <1>1, <1>2 DEF Linked
  <1> QED BY <1>1, <1>2, <1>3 DEF Apart

\* A call with outcome o hands out a block of n units or more in the place of
\* the ones in old, of which there is one at most.
Serves(h, o, old, n) ==
  /\ Tiled(o.heap, o.brk)
  /\ o.at \notin Held(h.block) \ old
  /\ Held(o.heap.block) = (Held(h.block) \ old) \cup {o.at}
  /\ SameSizes(h.block, o.heap.block, Held(h.block) \ old)
  /\ o.heap.block[o.at].size >= n
  /\ \A a \in old : a = o.at \/ Apart(h.block, a, o.heap.block, o.at)

\* Or it hands out nothing and leaves the heap as it was.
Fails(h, top, o) == o.at = NoBlock /\ o.heap = h /\ o.brk = top

\* malloc() hands out a free block, or one made of new pages.
LEMMA MallocServes ==
  ASSUME NEW h, NEW top, HeapIs(h, top), NEW n \in Nat \ {0},
         NEW o \in malloc(h, top, n)
  PROVE  Fails(h, top, o) \/ (o.at # NoBlock /\ Serves(h, o, {}, n))
  <1> DEFINE fits == {a \in DOMAIN h.block :
                        h.block[a].is_free /\ h.block[a].size >= n}
  <1>1. CASE fits # {}
    <2> DEFINE a == Min(fits)
               g == split_block(h, a, n)
               f == [g EXCEPT !.block[a].is_free = FALSE]
    <2>1. a \in fits
      <3>1. fits \subseteq Nat
        BY HeldWithin
      <3> HIDE DEF fits
      <3>2. \E x \in fits : \A y \in fits : x <= y
        BY <1>1, <3>1, NatLeast
      <3> QED BY <3>2 DEF Min
    <2>2. o = [heap |-> f, brk |-> top, at |-> a]
      BY <1>1 DEF malloc
    <2>3. a \in DOMAIN h.block /\ h.block[a].is_free /\ h.block[a].size >= n
      BY <2>1
    <2>4. Tiled(h, top)
      BY <2>3 DEF HeapIs, NoHeap
    <2> HIDE DEF fits, a
    <2>5. /\ Tiled(g, top) /\ a \in DOMAIN g.block
          /\ g.block[a].size >= n
          /\ Held(g.block) = Held(h.block)
          /\ SameSizes(h.block, g.block, Held(h.block) \ {a})
      BY <2>3, <2>4, SplitKeeps
    <2> HIDE DEF g
    <2>6. /\ Tiled(f, top)
          /\ Held(f.block) = Held(g.block) \cup {a}
          /\ f.block[a].size = g.block[a].size
          /\ SameSizes(g.block, f.block, Held(g.block))
      BY <2>5, Takes
    <2> HIDE DEF f
    <2>7. a \notin Held(h.block) /\ a # NoBlock
      BY <2>3, HeldWithin DEF Held
    <2>8. SameSizes(h.block, f.block, Held(h.block))
      BY <2>5, <2>6, <2>7 DEF SameSizes
    <2> QED BY <2>2, <2>5, <2>6, <2>7, <2>8 DEF Serves
  <1>2. CASE fits = {}
    <2>1. CASE o = [heap |-> h, brk |-> top, at |-> NoBlock]
      BY <2>1 DEF Fails
    <2>2. CASE o # [heap |-> h, brk |-> top, at |-> NoBlock]
      <3> DEFINE e == Extended(h, top, Asked(n))
                 g == split_block(e, top, n)
      <3>1. o = [heap |-> g, brk |-> top + Asked(n), at |-> top]
        BY <1>2, <2>2 DEF malloc
      <3>2. Asked(n) \in Nat /\ Asked(n) >= n + HEADER_SIZE
            /\ HEADER_SIZE \in Nat /\ top \in Nat
        BY AskedEnough, HeldWithin, UserHeapAssumption
      <3>3. /\ Tiled(e, top + Asked(n)) /\ top \in DOMAIN e.block
            /\ e.block[top].size = Asked(n) - HEADER_SIZE /\ ~e.block[top].is_free
            /\ top \notin DOMAIN h.block
            /\ Held(e.block) = Held(h.block) \cup {top}
            /\ SameSizes(h.block, e.block, Held(h.block))
        <4>1. Asked(n) >= HEADER_SIZE
          BY <3>2
        <4> QED BY <3>2, <4>1, ExtendedKeeps
      <3> HIDE DEF e
      <3>4. e.block[top].size >= n
        BY <3>2, <3>3
      <3>5. /\ Tiled(g, top + Asked(n)) /\ top \in DOMAIN g.block
            /\ g.block[top].size >= n
            /\ Held(g.block) = Held(e.block)
            /\ SameSizes(e.block, g.block, Held(e.block) \ {top})
        BY <3>3, <3>4, SplitKeeps
      <3> HIDE DEF g
      <3>6. top \notin Held(h.block) /\ top # NoBlock
        BY <3>2, <3>3 DEF Held, NoBlock
      <3>7. SameSizes(h.block, g.block, Held(h.block))
        BY <3>3, <3>5, <3>6 DEF SameSizes
      <3> QED BY <3>1, <3>3, <3>5, <3>6, <3>7 DEF Serves
    <2> QED BY <2>1, <2>2
  <1> QED BY <1>1, <1>2

\* realloc() hands out the same block, cut or grown, or one that overlaps the
\* old one nowhere, so that the copy reads what was there.
LEMMA ReallocServes ==
  ASSUME NEW h, NEW top, HeapIs(h, top), NEW n \in Nat \ {0},
         NEW a \in Held(h.block), NEW o \in realloc(h, top, a, n)
  PROVE  Fails(h, top, o) \/ (o.at # NoBlock /\ Serves(h, o, {a}, n))
  <1>1. a \in DOMAIN h.block /\ Tiled(h, top) /\ a # NoBlock
    BY HeldWithin DEF Held, HeapIs, NoHeap
  <1>2. CASE h.block[a].size >= n
    <2> DEFINE g == split_block(h, a, n)
    <2>1. o = [heap |-> g, brk |-> top, at |-> a]
      BY <1>2 DEF realloc
    <2>2. /\ Tiled(g, top) /\ g.block[a].size >= n
          /\ Held(g.block) = Held(h.block)
          /\ SameSizes(h.block, g.block, Held(h.block) \ {a})
      BY <1>1, <1>2, SplitKeeps
    <2> HIDE DEF g
    <2> QED BY <1>1, <2>1, <2>2 DEF Serves
  <1>3. CASE /\ ~(h.block[a].size >= n) /\ NextIsFree(h, a)
             /\ h.block[a].size + HEADER_SIZE + h.block[h.block[a].next].size >= n
    <2> DEFINE m == Absorb(h, a)
               g == split_block(m, a, n)
    <2>1. o = [heap |-> g, brk |-> top, at |-> a]
      BY <1>3 DEF realloc
    <2>2. /\ Tiled(m, top) /\ a \in DOMAIN m.block
          /\ m.block[a].size
               = h.block[a].size + HEADER_SIZE + h.block[h.block[a].next].size
          /\ Held(m.block) = Held(h.block)
          /\ SameSizes(h.block, m.block, Held(h.block) \ {a})
      BY <1>1, <1>3, AbsorbKeeps
    <2> HIDE DEF m
    <2>3. m.block[a].size >= n
      BY <1>3, <2>2
    <2>4. /\ Tiled(g, top) /\ g.block[a].size >= n
          /\ Held(g.block) = Held(m.block)
          /\ SameSizes(m.block, g.block, Held(m.block) \ {a})
      BY <2>2, <2>3, SplitKeeps
    <2> HIDE DEF g
    <2>5. SameSizes(h.block, g.block, Held(h.block) \ {a})
      BY <2>2, <2>4 DEF SameSizes
    <2> QED BY <1>1, <2>1, <2>2, <2>4, <2>5 DEF Serves
  <1>4. CASE /\ ~(h.block[a].size >= n)
             /\ ~(/\ NextIsFree(h, a)
                  /\ h.block[a].size + HEADER_SIZE + h.block[h.block[a].next].size >= n)
    <2>1. PICK q \in malloc(h, top, n) :
            o = IF q.at = NoBlock THEN q ELSE [q EXCEPT !.heap = Released(@, a)]
      BY <1>4 DEF realloc
    <2>2. CASE Fails(h, top, q)
      BY <2>1, <2>2 DEF Fails
    <2>3. CASE q.at # NoBlock /\ Serves(h, q, {}, n)
      <3> DEFINE l == q.heap
                 g == Released(l, a)
      <3>1. /\ Tiled(l, q.brk) /\ q.at \notin Held(h.block)
            /\ Held(l.block) = Held(h.block) \cup {q.at}
            /\ SameSizes(h.block, l.block, Held(h.block))
            /\ l.block[q.at].size >= n
        BY <2>3 DEF Serves
      <3>2. a \in DOMAIN l.block /\ q.at \in DOMAIN l.block /\ q.at # a
        BY <3>1 DEF Held
      <3>3. q = [heap |-> l, brk |-> q.brk, at |-> q.at]
        <4>1. \E x, y, z : q = [heap |-> x, brk |-> y, at |-> z]
          BY <2>3 DEF malloc
        <4> QED BY <4>1
      <3>4. o = [heap |-> g, brk |-> q.brk, at |-> q.at]
        BY <2>1, <2>3, <3>3
      <3>5. /\ Tiled(g, q.brk) /\ Held(g.block) = Held(l.block) \ {a}
            /\ SameSizes(l.block, g.block, Held(l.block) \ {a})
        BY <3>1, <3>2, ReleasedKeeps
      <3> HIDE DEF g
      <3>6. Apart(l.block, a, l.block, q.at)
        BY <3>1, <3>2, BlocksApart
      <3>7. Apart(h.block, a, g.block, q.at)
        <4>1. l.block[a].size = h.block[a].size
              /\ g.block[q.at].size = l.block[q.at].size
          BY <3>1, <3>2, <3>5 DEF SameSizes
        <4> HIDE DEF l
        <4> QED BY <3>6, <4>1 DEF Apart, EndOf
      <3>8. SameSizes(h.block, g.block, Held(h.block) \ {a})
        BY <3>1, <3>5 DEF SameSizes
      <3>9. g.block[q.at].size >= n
        BY <3>1, <3>2, <3>5 DEF SameSizes
      <3>10. /\ q.at \notin Held(h.block) \ {a}
             /\ Held(g.block) = (Held(h.block) \ {a}) \cup {q.at}
        BY <3>1, <3>2, <3>5
      <3> HIDE DEF l
      <3> QED BY <2>3, <3>4, <3>5, <3>7, <3>8, <3>9, <3>10 DEF Serves
    <2> QED BY <2>2, <2>3, MallocServes
  <1> QED BY <1>2, <1>3, <1>4

-----------------------------------------------------------------------------
\* The invariant of a program's heap: the list is whole, and each block that
\* the program holds is as long as it asked for.
HeapInv ==
  /\ HeapIs(heap, programBreak)
  /\ asked \in [InUse -> Nat]
  /\ \A a \in InUse : heap.block[a].size >= asked[a]

\* A step takes back the blocks in old and hands out those in new: one of each
\* at most, and what is new is apart from what is old, or begins where it does.
Trades(old, new) ==
  /\ \A x, y \in old : x = y
  /\ \A x, y \in new : x = y
  /\ new \cap (Held(heap.block) \ old) = {}
  /\ Held(heap'.block) = (Held(heap.block) \ old) \cup new
  /\ SameSizes(heap.block, heap'.block, Held(heap.block) \ old)
  /\ \A a \in old, d \in new : a = d \/ Apart(heap.block, a, heap'.block, d)

LEMMA Aligned == ASSUME NEW n \in Sizes PROVE ALIGN16(n) \in Nat \ {0}
  <1>1. n \in Nat \ {0}
    BY UserHeapAssumption
  <1> QED BY <1>1 DEF ALIGN16

\* A call that fails changes nothing, one that serves trades.
LEMMA HandsTrades ==
  ASSUME HeapInv, NEW o, NEW old, NEW n \in Nat \ {0},
         old \in InUse \cup {NoBlock}, Hands(o, old, n),
         \/ Fails(heap, programBreak, o)
         \/ o.at # NoBlock /\ Serves(heap, o, {old} \ {NoBlock}, n)
  PROVE  HeapInv' /\ \E out, new : Trades(out, new)
  <1>1. InUse = Held(heap.block)
    BY DEF InUse, Held
  <1>2. CASE Fails(heap, programBreak, o)
    <2>1. heap' = heap /\ programBreak' = programBreak /\ asked' = asked
      BY <1>2 DEF Fails, Hands
    <2>2. HeapInv'
      BY <2>1 DEF HeapInv, InUse
    <2>3. Trades({}, {})
      BY <2>1, <1>1 DEF Trades, SameSizes, InUse
    <2> QED BY <2>2, <2>3
  <1>3. CASE o.at # NoBlock /\ Serves(heap, o, {old} \ {NoBlock}, n)
    <2> DEFINE out == {old} \ {NoBlock}
    <2>1. /\ heap' = o.heap /\ programBreak' = o.brk
          /\ asked' = [b \in (DOMAIN asked \ {old}) \cup {o.at} |->
                        IF b = o.at THEN n ELSE asked[b]]
      BY <1>3 DEF Hands
    <2>2. /\ Tiled(heap', programBreak')
          /\ o.at \notin Held(heap.block) \ out
          /\ Held(heap'.block) = (Held(heap.block) \ out) \cup {o.at}
          /\ SameSizes(heap.block, heap'.block, Held(heap.block) \ out)
          /\ heap'.block[o.at].size >= n
          /\ \A a \in out : a = o.at \/ Apart(heap.block, a, heap'.block, o.at)
      <3> HIDE DEF out
      <3> QED BY <1>3, <2>1 DEF Serves, out
    <2>3. NoBlock \notin Held(heap.block)
      BY HeldWithin DEF HeapInv, Held
    <2>4. Held(heap.block) \ out = Held(heap.block) \ {old}
      BY <2>3
    <2>5. asked \in [Held(heap.block) -> Nat]
      BY <1>1 DEF HeapInv
    <2>6. InUse' = Held(heap'.block)
      BY DEF InUse, Held
    <2>7. asked' \in [InUse' -> Nat]
      BY <2>1, <2>2, <2>4, <2>5, <2>6
    <2>8. ASSUME NEW a \in InUse' PROVE heap'.block[a].size >= asked'[a]
      <3>1. CASE a = o.at
        BY <2>1, <2>2, <3>1
      <3>2. CASE a # o.at
        <4>1. a \in Held(heap.block) \ out /\ a \in InUse
          BY <1>1, <2>2, <2>6, <3>2
        <4>2. heap'.block[a].size = heap.block[a].size
          BY <2>2, <4>1 DEF SameSizes
        <4>3. a \in (DOMAIN asked \ {old}) \cup {o.at}
          BY <2>4, <2>5, <4>1
        <4>4. asked'[a] = asked[a]
          BY <2>1, <3>2, <4>3
        <4> QED BY <4>1, <4>2, <4>4 DEF HeapInv
      <3> QED BY <3>1, <3>2
    <2>9. HeapInv'
      BY <2>2, <2>7, <2>8 DEF HeapInv, HeapIs
    <2>10. Trades(out, {o.at})
      BY <2>2 DEF Trades
    <2> QED BY <2>9, <2>10
  <1> QED BY <1>2, <1>3

LEMMA FreeTrades ==
  ASSUME HeapInv, NEW a \in InUse, FreeBlock(a)
  PROVE  HeapInv' /\ Trades({a}, {})
  <1>1. a \in Held(heap.block) /\ InUse = Held(heap.block)
    BY DEF InUse, Held
  <1>2. a \in DOMAIN heap.block /\ Tiled(heap, programBreak)
    BY <1>1 DEF HeapInv, HeapIs, NoHeap, Held
  <1>3. heap' = Released(heap, a) /\ programBreak' = programBreak
        /\ asked' = [b \in DOMAIN asked \ {a} |-> asked[b]]
    BY DEF FreeBlock, Without
  <1>4. /\ Tiled(heap', programBreak')
        /\ Held(heap'.block) = Held(heap.block) \ {a}
        /\ SameSizes(heap.block, heap'.block, Held(heap.block) \ {a})
    BY <1>2, <1>3, ReleasedKeeps
  <1>5. InUse' = InUse \ {a} /\ InUse' = Held(heap'.block)
    BY <1>1, <1>4 DEF InUse, Held
  <1>6. asked' \in [InUse' -> Nat] /\ \A b \in InUse' : asked'[b] = asked[b]
    BY <1>3, <1>5 DEF HeapInv
  <1>7. \A b \in InUse' : heap'.block[b].size = heap.block[b].size
    BY <1>1, <1>4, <1>5 DEF SameSizes
  <1>8. HeapInv'
    <2>1. \A b \in InUse' : heap'.block[b].size >= asked'[b]
      BY <1>5, <1>6, <1>7 DEF HeapInv
    <2> QED BY <1>4, <1>6, <2>1 DEF HeapInv, HeapIs
  <1>9. Trades({a}, {})
    BY <1>1, <1>4 DEF Trades
  <1> QED BY <1>8, <1>9

LEMMA StepTrades ==
  ASSUME HeapInv, [HeapNext]_heapVars
  PROVE  HeapInv' /\ \E out, new : Trades(out, new)
  <1>0. HeapIs(heap, programBreak)
    BY DEF HeapInv
  <1>1. ASSUME NEW n \in Sizes, Malloc(n)
        PROVE  HeapInv' /\ \E out, new : Trades(out, new)
    <2> DEFINE m == ALIGN16(n)
    <2>1. m \in Nat \ {0}
      BY Aligned
    <2>2. PICK o \in malloc(heap, programBreak, m) : Hands(o, NoBlock, m)
      BY <1>1 DEF Malloc
    <2> HIDE DEF m
    <2>3. Fails(heap, programBreak, o) \/ (o.at # NoBlock /\ Serves(heap, o, {}, m))
      BY <1>0, <2>1, MallocServes
    <2>4. {NoBlock} \ {NoBlock} = {}
      OBVIOUS
    <2> QED BY <2>1, <2>2, <2>3, <2>4, HandsTrades
  <1>2. ASSUME NEW a \in InUse, FreeBlock(a)
        PROVE  HeapInv' /\ \E out, new : Trades(out, new)
    BY <1>2, FreeTrades
  <1>3. ASSUME NEW a \in InUse, NEW n \in Sizes, Realloc(a, n)
        PROVE  HeapInv' /\ \E out, new : Trades(out, new)
    <2> DEFINE m == ALIGN16(n)
    <2>1. m \in Nat \ {0}
      BY Aligned
    <2>2. PICK o \in realloc(heap, programBreak, a, m) : Hands(o, a, m)
      BY <1>3 DEF Realloc
    <2> HIDE DEF m
    <2>3. a \in Held(heap.block) /\ a # NoBlock
      BY <1>0, HeldWithin DEF InUse, Held
    <2>4. Fails(heap, programBreak, o) \/ (o.at # NoBlock /\ Serves(heap, o, {a}, m))
      BY <1>0, <2>1, <2>3, ReallocServes
    <2>5. {a} \ {NoBlock} = {a}
      BY <2>3
    <2> QED BY <2>1, <2>2, <2>4, <2>5, HandsTrades
  <1>4. ASSUME UNCHANGED heapVars
        PROVE  HeapInv' /\ \E out, new : Trades(out, new)
    <2>1. heap' = heap /\ programBreak' = programBreak /\ asked' = asked
      BY <1>4 DEF heapVars
    <2>2. HeapInv'
      BY <2>1 DEF HeapInv, InUse
    <2>3. Trades({}, {})
      BY <2>1 DEF Trades, SameSizes, Held
    <2> QED BY <2>2, <2>3
  <1> QED BY <1>1, <1>2, <1>3, <1>4 DEF HeapNext

\* The heap of a program stays whole, whatever it asks for and gives back, and
\* each block it holds has the length it asked for.
THEOREM HeapInvariant == HeapSpec => []HeapInv
  <1>1. HeapInit => HeapInv
    <2> SUFFICES ASSUME HeapInit PROVE HeapInv
      OBVIOUS
    <2>1. heap = NoHeap /\ programBreak = 0 /\ asked = [a \in {} |-> 0]
      BY DEF HeapInit, NoHeap
    <2>2. InUse = {}
      BY <2>1 DEF InUse, NoHeap
    <2> QED BY <2>1, <2>2 DEF HeapInv, HeapIs
  <1>2. HeapInv /\ [HeapNext]_heapVars => HeapInv'
    BY StepTrades
  <1> QED BY <1>1, <1>2, PTL DEF HeapSpec

\* UserListTiles: the list that malloc(), free(), realloc() and coalesce() link
\* covers the heap both ways, and its blocks in use are what the program holds.
THEOREM ListTiles == HeapSpec => []UserListTiles
  <1>1. HeapInv => UserListTiles
    <2> SUFFICES ASSUME HeapInv PROVE UserListTiles
      OBVIOUS
    <2>1. InUse = DOMAIN asked /\ \A a \in InUse : heap.block[a].size >= asked[a]
      BY DEF HeapInv
    <2>2. CASE Tiled(heap, programBreak)
      <3>1. heap.start = 0 /\ Linked(heap.block, heap.end, programBreak)
        BY <2>2 DEF Tiled
      <3>2. 0 \in DOMAIN heap.block
        BY <3>1 DEF Linked
      <3>3. \A a \in DOMAIN heap.block :
              EndOf(heap.block, a) = a + HEADER_SIZE + heap.block[a].size
        BY DEF EndOf
      <3> QED BY <2>1, <3>1, <3>2, <3>3 DEF UserListTiles, Linked
    <2>3. CASE heap = NoHeap /\ programBreak = 0
      <3>1. heap.start = NoBlock /\ heap.end = NoBlock /\ DOMAIN heap.block = {}
        BY <2>3 DEF NoHeap
      <3> QED BY <2>1, <2>3, <3>1 DEF UserListTiles
    <2> QED BY <2>2, <2>3 DEF HeapInv, HeapIs
  <1> QED BY <1>1, HeapInvariant, PTL

Region(b, a) == [base |-> a + HEADER_SIZE, len |-> b[a].size]

\* A set without two members has one at most.
LEMMA AtMostOne ==
  ASSUME NEW S, \A x, y \in S : x = y
  PROVE  Cardinality(S) <= 1
  <1>1. CASE S = {}
    BY <1>1, FS_EmptySet
  <1>2. CASE S # {}
    <2>1. PICK x \in S : TRUE
      BY <1>2
    <2>2. S = {x}
      BY <2>1
    <2>3. Cardinality(S) = 1
      BY <2>2, FS_Singleton
    <2> QED BY <2>3
  <1> QED BY <1>1, <1>2

\* RegionsKept: a call takes at most one region back and hands at most one out,
\* which overlaps nothing in use; the copy that realloc() makes reads a region
\* that the new one does not overlap; all others stay as they are.
THEOREM KeepsRegions == HeapSpec => RegionsKept
  <1> DEFINE given == Regions' \ Regions
             back == Regions \ Regions'
             Kept == /\ Cardinality(given) <= 1 /\ Cardinality(back) <= 1
                     /\ \A r \in given :
                          /\ \A t \in Regions \ back : ApartFrom(r, t)
                          /\ \A g \in back : r.base = g.base \/ ApartFrom(r, g)
  <1>1. ASSUME HeapInv, [HeapNext]_heapVars
        PROVE  Kept
    <2>1. HeapInv' /\ \E out, new : Trades(out, new)
      BY <1>1, StepTrades
    <2>2. PICK out, new : Trades(out, new)
      BY <2>1
    <2> DEFINE H == Held(heap.block)
               G == Held(heap'.block)
    <2>3. /\ \A x, y \in out : x = y
          /\ \A x, y \in new : x = y
          /\ G = (H \ out) \cup new
          /\ SameSizes(heap.block, heap'.block, H \ out)
          /\ \A a \in out, d \in new : a = d \/ Apart(heap.block, a, heap'.block, d)
      BY <2>2 DEF Trades
    <2>4. Regions = {Region(heap.block, a) : a \in H}
      BY DEF Regions, Region, InUse, Held
    <2>5. Regions' = {Region(heap'.block, a) : a \in G}
      BY DEF Regions, Region, InUse, Held
    <2>6. H \subseteq DOMAIN heap.block /\ G \subseteq DOMAIN heap'.block
      BY DEF Held
    <2> HIDE DEF H, G
    <2>7. \A a \in H \ out : Region(heap'.block, a) = Region(heap.block, a)
      BY <2>3 DEF SameSizes, Region
    <2>8. ASSUME NEW r \in given
          PROVE  \E d \in new : d \in G /\ r = Region(heap'.block, d)
      BY <2>3, <2>4, <2>5, <2>7
    <2>9. ASSUME NEW g \in back
          PROVE  \E a \in out : a \in H /\ g = Region(heap.block, a)
      BY <2>3, <2>4, <2>5, <2>7
    <2>10. HEADER_SIZE \in Nat
      BY UserHeapAssumption
    <2>11. \A a \in H : a \in Nat /\ heap.block[a].size \in Nat
      BY <1>1, <2>6, HeldWithin DEF HeapInv, Node
    <2>12. \A a \in G : a \in Nat /\ heap'.block[a].size \in Nat
      <3>1. HeapIs(heap', programBreak')
        BY <2>1 DEF HeapInv
      <3> QED BY <3>1, <2>6, HeldWithin DEF Node
    <2>13. Cardinality(given) <= 1
      <3>1. \A x, y \in given : x = y
        BY <2>3, <2>8
      <3> QED BY <3>1, AtMostOne
    <2>14. Cardinality(back) <= 1
      <3>1. \A x, y \in back : x = y
        BY <2>3, <2>9
      <3> QED BY <3>1, AtMostOne
    <2>15. ASSUME NEW r \in given, NEW t \in Regions \ back
           PROVE  ApartFrom(r, t)
      <3>1. PICK d \in G : r = Region(heap'.block, d)
        BY <2>8
      <3>2. PICK c \in G : t = Region(heap'.block, c)
        BY <2>5
      <3>3. c # d
        BY <3>1, <3>2
      <3>4. Tiled(heap', programBreak')
        <4>1. DOMAIN heap'.block # {}
          BY <2>6
        <4> QED BY <2>1, <4>1 DEF HeapInv, HeapIs, NoHeap
      <3>5. Apart(heap'.block, d, heap'.block, c)
        BY <2>6, <3>3, <3>4, BlocksApart
      <3> QED BY <2>10, <2>12, <3>1, <3>2, <3>5 DEF Apart, EndOf, ApartFrom, Region
    <2>16. ASSUME NEW r \in given, NEW g \in back
           PROVE  r.base = g.base \/ ApartFrom(r, g)
      <3>1. PICK d \in new : d \in G /\ r = Region(heap'.block, d)
        BY <2>8
      <3>2. PICK a \in out : a \in H /\ g = Region(heap.block, a)
        BY <2>9
      <3>3. a = d \/ Apart(heap.block, a, heap'.block, d)
        BY <2>3
      <3>4. CASE a = d
        BY <3>1, <3>2, <3>4 DEF Region
      <3>5. CASE Apart(heap.block, a, heap'.block, d)
        BY <2>10, <2>11, <2>12, <3>1, <3>2, <3>5 DEF Apart, EndOf, ApartFrom, Region
      <3> QED BY <3>3, <3>4, <3>5
    <2> QED BY <2>13, <2>14, <2>15, <2>16
  <1>2. RegionsKept <=> [][Kept]_heapVars
    BY DEF RegionsKept
  <1> HIDE DEF Kept
  <1> QED BY <1>1, <1>2, HeapInvariant, PTL DEF HeapSpec
=============================================================================
