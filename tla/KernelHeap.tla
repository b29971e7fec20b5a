----------------------------- MODULE KernelHeap -----------------------------
(***************************************************************************)
(* The kernel heap: kmalloc() and kfree() over a doubly linked list of     *)
(* blocks with headers, split at allocation, joined with their neighbours  *)
(* when freed, and extended page by page at the end (mem/kmalloc.c).       *)
(*                                                                         *)
(* Each operation runs with interrupts off under trava_heap, so it is one  *)
(* action.  Addresses are relative to HEAP_START_SAFE and counted, like    *)
(* sizes, in units of the 16 bytes to which kmalloc() aligns.  A header    *)
(* that has been absorbed by its neighbour is dropped from bloco: only the *)
(* pointers of the list and those that callers hold lead to headers.       *)
(***************************************************************************)
EXTENDS Integers, FiniteSetsExt

CONSTANTS
  Hdr,      \* sizeof(cabecalho_bloco_t)
  Page,     \* the 4096 bytes of a page
  Limit,    \* ENDERECO_MAX - HEAP_START_SAFE
  Requests  \* the sizes in bytes that callers of kmalloc() ask for

ASSUME HeapAssumption ==
  /\ Hdr \in Nat \ {0} /\ Page \in Nat /\ Page > Hdr
  /\ Limit \in Nat /\ Limit > Page
  /\ Requests \subseteq Nat \ {0}

VARIABLES
  heap_atual,          \* end of the last block
  heap_mapeado_fim,    \* end of the pages mapped for the heap
  lista_livre_inicio,
  lista_livre_fim,
  bloco                \* the headers, by address

blockVars == <<heap_atual, heap_mapeado_fim, lista_livre_inicio,
               lista_livre_fim, bloco>>

NULL == -1
Addr == 0 .. Limit

Header == [tamanho : Addr, esta_livre : BOOLEAN,
           proximo : Addr \cup {NULL}, anterior : Addr \cup {NULL}]

Blocks == DOMAIN bloco
FreeBlocks == {a \in Blocks : bloco[a].esta_livre}
Used == Blocks \ FreeBlocks

\* Where the block at a ends.
End(a) == a + Hdr + bloco[a].tamanho

\* tamanho = (tamanho + 15) & ~15
Units(n) == (n + 15) \div 16

BlockTypes ==
  /\ heap_atual \in Addr
  /\ heap_mapeado_fim \in 0 .. Limit + Page
  /\ lista_livre_inicio \in Addr \cup {NULL}
  /\ lista_livre_fim \in Addr \cup {NULL}
  /\ Blocks \subseteq Addr
  /\ bloco \in [Blocks -> Header]

-----------------------------------------------------------------------------
\* Mutants: the limit is not looked at; mapping stops when the end is reached.
Mut_ExpandsByUnlimited(n) ==
  \E k \in 0 .. Limit :
    /\ heap_mapeado_fim' = heap_mapeado_fim + k * Page
    /\ heap_atual + n < heap_mapeado_fim'
    /\ k > 0 => heap_atual + n >= heap_mapeado_fim' - Page
    /\ heap_atual + n < 2 * Limit
Mut_ExpandsByToTheBrim(n) ==
  /\ heap_atual + n < Limit
  /\ \E k \in 0 .. Limit :
       /\ heap_mapeado_fim' = heap_mapeado_fim + k * Page
       /\ heap_atual + n <= heap_mapeado_fim'
       /\ k > 0 => heap_atual + n > heap_mapeado_fim' - Page

\* expandir_heap(n): pages are mapped until the end plus n lies inside them.
ExpandsBy(n) ==
  /\ heap_atual + n < Limit
  /\ \E k \in 0 .. Limit :
       /\ heap_mapeado_fim' = heap_mapeado_fim + k * Page
       /\ heap_atual + n < heap_mapeado_fim'
       /\ k > 0 => heap_atual + n >= heap_mapeado_fim' - Page

\* It fails at the limit of the heap, or when pmm_alloc_block() has no frame
\* left; the pages mapped before that stay mapped.
ExpandFails(n) ==
  \/ heap_atual + n >= Limit /\ UNCHANGED heap_mapeado_fim
  \/ /\ heap_atual + n < Limit
     /\ \E k \in 0 .. Limit :
          /\ heap_mapeado_fim' = heap_mapeado_fim + k * Page
          /\ heap_atual + n >= heap_mapeado_fim'

-----------------------------------------------------------------------------
\* kmalloc()

Fits(t) == {a \in FreeBlocks : bloco[a].tamanho >= t}

\* Mutant: the header of the remainder is not counted.
Mut_SplitForgetsHeader(a, t) ==
  LET b == a + Hdr + t
      z == bloco[a].proximo
  IN [w \in Blocks \cup {b} |->
        IF w = a THEN [bloco[a] EXCEPT !.tamanho = t, !.esta_livre = FALSE,
                                       !.proximo = b]
        ELSE IF w = b THEN [tamanho |-> bloco[a].tamanho - t,
                            esta_livre |-> TRUE, proximo |-> z, anterior |-> a]
        ELSE IF w = z THEN [bloco[z] EXCEPT !.anterior = b]
        ELSE bloco[w]]

\* The list after the free block at a is cut into one of length t, now in use,
\* and the remainder.
Split(a, t) ==
  LET b == a + Hdr + t
      z == bloco[a].proximo
  IN [w \in Blocks \cup {b} |->
        IF w = a THEN [bloco[a] EXCEPT !.tamanho = t, !.esta_livre = FALSE,
                                       !.proximo = b]
        ELSE IF w = b THEN [tamanho |-> bloco[a].tamanho - t - Hdr,
                            esta_livre |-> TRUE, proximo |-> z, anterior |-> a]
        ELSE IF w = z THEN [bloco[z] EXCEPT !.anterior = b]
        ELSE bloco[w]]

\* The first free block of the list that is long enough is taken, and split
\* if header and 16 bytes at least remain.  The list is in the order of the
\* addresses (ListTiles), so the first is the lowest.
TakeFit(t) ==
  \E a \in Fits(t) :
    /\ \A b \in Fits(t) : a <= b
    /\ IF bloco[a].tamanho >= t + Hdr + 1
       THEN /\ bloco' = Split(a, t)
            /\ lista_livre_fim' = IF bloco[a].proximo = NULL THEN a + Hdr + t
                                  ELSE lista_livre_fim
       ELSE /\ bloco' = [bloco EXCEPT ![a].esta_livre = FALSE]
            /\ UNCHANGED lista_livre_fim
    /\ UNCHANGED <<heap_atual, heap_mapeado_fim, lista_livre_inicio>>

\* Mutant: the old last block does not learn of the new one.
Mut_Appended(t) ==
  [w \in Blocks \cup {heap_atual} |->
     IF w = heap_atual THEN [tamanho |-> t, esta_livre |-> FALSE,
                             proximo |-> NULL, anterior |-> lista_livre_fim]
     ELSE bloco[w]]

\* The list with a new block of length t at its end.
Appended(t) ==
  [w \in Blocks \cup {heap_atual} |->
     IF w = heap_atual THEN [tamanho |-> t, esta_livre |-> FALSE,
                             proximo |-> NULL, anterior |-> lista_livre_fim]
     ELSE IF w = lista_livre_fim THEN [bloco[w] EXCEPT !.proximo = heap_atual]
     ELSE bloco[w]]

TakeNew(t) ==
  /\ Fits(t) = {}
  /\ ExpandsBy(Hdr + t)
  /\ bloco' = Appended(t)
  /\ lista_livre_inicio' = IF lista_livre_fim = NULL THEN heap_atual
                           ELSE lista_livre_inicio
  /\ lista_livre_fim' = heap_atual
  /\ heap_atual' = heap_atual + Hdr + t

Kmalloc(n) == TakeFit(Units(n)) \/ TakeNew(Units(n))

KmallocFails(n) ==
  /\ Fits(Units(n)) = {}
  /\ ExpandFails(Hdr + Units(n))
  /\ UNCHANGED <<heap_atual, lista_livre_inicio, lista_livre_fim, bloco>>

-----------------------------------------------------------------------------
\* kfree()

\* The list h after the block at x has absorbed the one after it.
Join(h, x) ==
  LET y == h[x].proximo
      z == h[y].proximo
  IN [w \in DOMAIN h \ {y} |->
        IF w = x THEN [h[x] EXCEPT !.tamanho = @ + Hdr + h[y].tamanho,
                                   !.proximo = z]
        ELSE IF w = z THEN [h[z] EXCEPT !.anterior = x]
        ELSE h[w]]

\* The last block of the list once x has absorbed the one after it.
JoinedEnd(h, x, last) == IF h[h[x].proximo].proximo = NULL THEN x ELSE last

\* Mutant: the neighbour is absorbed whether it is free or not.
Mut_FreeAfterAny(h, x) ==
  /\ h[x].proximo # NULL
  /\ x + Hdr + h[x].tamanho = h[x].proximo

\* The block after x is free and begins where x ends.
FreeAfter(h, x) ==
  /\ h[x].proximo # NULL
  /\ h[h[x].proximo].esta_livre
  /\ x + Hdr + h[x].tamanho = h[x].proximo

\* Mutant: the block before is examined as if it were the one after.
Mut_FreeBeforeIsAfter(h, x) == FreeAfter(h, x) /\ h[x].anterior # NULL

\* The block before x is free and ends where x begins.
FreeBefore(h, x) ==
  LET p == h[x].anterior
  IN p # NULL /\ h[p].esta_livre /\ p + Hdr + h[p].tamanho = x

Freed(a) == [bloco EXCEPT ![a].esta_livre = TRUE]

Kfree(a) ==
  LET h1 == Freed(a)
      h2 == IF FreeAfter(h1, a) THEN Join(h1, a) ELSE h1
      f2 == IF FreeAfter(h1, a) THEN JoinedEnd(h1, a, lista_livre_fim)
                                ELSE lista_livre_fim
      p  == bloco[a].anterior
  IN /\ a \in Used
     /\ IF FreeBefore(h2, a)
        THEN bloco' = Join(h2, p) /\ lista_livre_fim' = JoinedEnd(h2, p, f2)
        ELSE bloco' = h2 /\ lista_livre_fim' = f2
     /\ UNCHANGED <<heap_atual, heap_mapeado_fim, lista_livre_inicio>>

-----------------------------------------------------------------------------
\* heap_init(): a first free block of one page, unless there is no frame.
KernelHeapInit ==
  \/ /\ heap_atual = Page /\ heap_mapeado_fim = 2 * Page
     /\ lista_livre_inicio = 0 /\ lista_livre_fim = 0
     /\ bloco = [a \in {0} |-> [tamanho |-> Page - Hdr, esta_livre |-> TRUE,
                                proximo |-> NULL, anterior |-> NULL]]
  \/ /\ heap_atual = 0 /\ heap_mapeado_fim \in {0, Page}
     /\ lista_livre_inicio = NULL /\ lista_livre_fim = NULL
     /\ bloco = [a \in {} |-> 0]

KernelHeapNext ==
  \/ \E n \in Requests : Kmalloc(n) \/ KmallocFails(n)
  \/ \E a \in Used : Kfree(a)

KernelHeapSpec == KernelHeapInit /\ [][KernelHeapNext]_blockVars
-----------------------------------------------------------------------------
\* The list is the heap: it begins at the first address, each block is linked
\* both ways with the one that begins where it ends, and the last ends at
\* heap_atual.  No address is lost and none belongs to two blocks.
ListTiles ==
  /\ IF Blocks = {}
     THEN lista_livre_inicio = NULL /\ lista_livre_fim = NULL /\ heap_atual = 0
     ELSE /\ lista_livre_inicio = 0 /\ 0 \in Blocks /\ bloco[0].anterior = NULL
          /\ lista_livre_fim \in Blocks
  /\ \A a \in Blocks :
       IF a = lista_livre_fim
       THEN End(a) = heap_atual /\ bloco[a].proximo = NULL
       ELSE /\ End(a) \in Blocks /\ bloco[a].proximo = End(a)
            /\ bloco[End(a)].anterior = a
  /\ \A a, b \in Blocks : a < b => End(a) <= b

\* kfree() leaves nothing to join: two free blocks are never neighbours.
Coalesced == \A a \in FreeBlocks : bloco[a].proximo \notin FreeBlocks

\* Every header and every byte that is handed out lies in mapped pages.
InsideMapped == Blocks # {} => heap_atual < heap_mapeado_fim

\* kmalloc() goes to expandir_heap(), and returns NULL if that fails, only when
\* no stretch below heap_atual that is clear of blocks in use has room for a
\* header and the request: no free memory is hidden by fragmentation.
NoHiddenRoom ==
  \A n \in Requests : Fits(Units(n)) = {} =>
    ~\E x \in Addr :
        /\ x + Hdr + Units(n) <= heap_atual
        /\ \A a \in Used : End(a) <= x \/ x + Hdr + Units(n) <= a

\* What callers are promised.
Promised == INSTANCE Allocator WITH
       live <- {[base |-> a + Hdr, len |-> bloco[a].tamanho] : a \in Used}

AllocatorSpec == Promised!Spec

\* kmalloc_stats(): what it reports in use and free adds up to the mapped heap
\* less the headers of the free blocks, which it counts nowhere.
Usado == SumFunctionOnSet([a \in Blocks |-> Hdr + bloco[a].tamanho], Used)
Livre == SumFunctionOnSet([a \in Blocks |-> bloco[a].tamanho], FreeBlocks)
           + (heap_mapeado_fim - heap_atual)
StatsAddUp == Usado + Livre + Hdr * Cardinality(FreeBlocks) = heap_mapeado_fim

\* What any sequence of calls keeps of the list: see its parts.
HeapSound ==
  BlockTypes /\ ListTiles /\ Coalesced /\ InsideMapped /\ NoHiddenRoom
    /\ StatsAddUp
=============================================================================
