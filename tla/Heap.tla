-------------------------------- MODULE Heap --------------------------------
(***************************************************************************)
(* The kernel's own memory: pages from a bitmap (alloc_kpage, bitmap_scan) *)
(* and the heap built on them (src/kernel/arena.c), whose small blocks     *)
(* come from pages cut into blocks of one size and whose large ones are    *)
(* whole pages.                                                            *)
(***************************************************************************)
EXTENDS Integers, FiniteSetsExt, SequencesExt

CONSTANTS
  KPages,      \* pages of the kernel map, numbers from 1
  TotalBlock,  \* total_block of each descriptor, a sequence
  BufCount,    \* BUF_COUNT, pages of a descriptor that are kept
  Large        \* sizes of large blocks, in pages

Descs == DOMAIN TotalBlock

VARIABLES
  kmap,    \* kernel_map, the pages in use
  arenas,  \* the arena at the head of a page: [desc, count], or NoArena
  desc,    \* descriptors: [page_count, free_list], blocks <<page, index>>
  live     \* history: blocks handed out, [page, from, to] of a page's blocks;
           \* a large block has from = 0 and pages page .. to

hvars == <<kmap, arenas, desc, live>>
NoArena == [desc |-> 0, count |-> 0]
-----------------------------------------------------------------------------
\* bitmap_scan: the lowest run of n free pages, 0 when there is none.
Run(p, n) == p .. p + n - 1
ScanPage(n) ==
  LET fit == {p \in KPages : Run(p, n) \subseteq KPages \ kmap}
  IN IF fit = {} THEN 0 ELSE Min(fit)

\* kmalloc of more than 1024 bytes.  Without pages the kernel panics.
KmallocLarge(n) ==
  LET p == ScanPage(n)
  IN /\ p # 0
     /\ kmap' = kmap \cup Run(p, n)
     /\ arenas' = [arenas EXCEPT ![p] = [desc |-> 0, count |-> n]]
     /\ live' = live \cup {[page |-> p, from |-> 0, to |-> p + n - 1]}
     /\ UNCHANGED desc

\* kmalloc: the head of the free list; a page is cut up when it is empty.
Cut(d, p) == [i \in 1 .. TotalBlock[d] |-> <<p, TotalBlock[d] + 1 - i>>]
Kmalloc(d) ==
  LET new   == desc[d].free_list = << >>
      p     == ScanPage(1)
      list  == IF new THEN Cut(d, p) ELSE desc[d].free_list
      block == Head(list)
      full  == IF new THEN [arenas EXCEPT ![p] = [desc |-> d, count |-> TotalBlock[d]]] ELSE arenas
  IN /\ new => p # 0
     /\ kmap' = IF new THEN kmap \cup {p} ELSE kmap
     /\ arenas' = [full EXCEPT ![block[1]].count = @ - 1]
     /\ desc' = [desc EXCEPT ![d] = [page_count |-> @.page_count + IF new THEN 1 ELSE 0,
                                     free_list |-> Tail(list)]]
     /\ live' = live \cup {[page |-> block[1], from |-> block[2], to |-> block[2]]}

\* list_remove of every block of a page: what is on the list from then on.
Without(list, p) ==
  LET kept[i \in 0 .. Len(list)] ==
        IF i = 0 THEN << >> ELSE IF list[i][1] = p THEN kept[i - 1] ELSE Append(kept[i - 1], list[i])
  IN kept[Len(list)]

KfreeLarge(b) ==
  /\ kmap' = kmap \ Run(b.page, arenas[b.page].count)
  /\ arenas' = [arenas EXCEPT ![b.page] = NoArena]
  /\ live' = live \ {b}
  /\ UNCHANGED desc

BugKfree(b) ==
  LET d    == arenas[b.page].desc
      list == <<<<b.page, b.from>>>> \o desc[d].free_list
      back == desc[d].page_count > BufCount
  IN /\ desc' = [desc EXCEPT ![d] =
          IF back THEN [page_count |-> @.page_count - 1,
                        free_list |-> Without(list, b.page)]
                  ELSE [@ EXCEPT !.free_list = list]]
     /\ kmap' = IF back THEN kmap \ {b.page} ELSE kmap
     /\ arenas' = IF back THEN [arenas EXCEPT ![b.page] = NoArena]
                          ELSE [arenas EXCEPT ![b.page].count = @ + 1]
     /\ live' = live \ {b}

\* kfree of a small block: to the head of the list; a page all of whose
\* blocks are free goes back, when the descriptor has enough of them.
Kfree(b) ==
  LET d    == arenas[b.page].desc
      list == <<<<b.page, b.from>>>> \o desc[d].free_list
      back == arenas[b.page].count + 1 = TotalBlock[d] /\ desc[d].page_count > BufCount
  IN /\ desc' = [desc EXCEPT ![d] =
          IF back THEN [page_count |-> @.page_count - 1,
                        free_list |-> Without(list, b.page)]
                  ELSE [@ EXCEPT !.free_list = list]]
     /\ kmap' = IF back THEN kmap \ {b.page} ELSE kmap
     /\ arenas' = IF back THEN [arenas EXCEPT ![b.page] = NoArena]
                          ELSE [arenas EXCEPT ![b.page].count = @ + 1]
     /\ live' = live \ {b}

\* arena_init.
HeapInit ==
  /\ kmap = {} /\ live = {}
  /\ arenas = [p \in KPages |-> NoArena]
  /\ desc = [d \in Descs |-> [page_count |-> 0, free_list |-> << >>]]

HeapNext ==
  \/ \E n \in Large : KmallocLarge(n)
  \/ \E d \in Descs : Kmalloc(d)
  \/ \E b \in live : IF b.from = 0 THEN KfreeLarge(b) ELSE Kfree(b)
-----------------------------------------------------------------------------
\* No two blocks in use overlap, and none is on a free list or in a page that
\* has been given back.
PagesOf(b) == IF b.from = 0 THEN b.page .. b.to ELSE {b.page}
BlocksDisjoint ==
  /\ \A b \in live : PagesOf(b) \subseteq kmap
  /\ \A b, c \in live : b # c /\ PagesOf(b) \cap PagesOf(c) # {} =>
       b.from # 0 /\ c.from # 0 /\ b.from # c.from
  /\ \A d \in Descs, b \in live : ~ Contains(desc[d].free_list, <<b.page, b.from>>)

\* The count of an arena is the number of its blocks on the free list of its
\* descriptor, and page_count the pages cut up for it.
ArenasCounted ==
  \A d \in Descs :
    LET cut == {p \in KPages : arenas[p].desc = d}
        On(p) == {i \in DOMAIN desc[d].free_list : desc[d].free_list[i][1] = p}
    IN /\ desc[d].page_count = Cardinality(cut)
       /\ \A i \in DOMAIN desc[d].free_list : desc[d].free_list[i][1] \in cut
       /\ \A p \in cut : arenas[p].count = Cardinality(On(p))

\* arena.c:102 and 135: whatever is allocated and freed, in whatever order,
\* kmalloc hands out memory nobody else has and kfree gives back a page only
\* when none of its blocks is in use.
HeapSound == BlocksDisjoint /\ ArenasCounted
=============================================================================
