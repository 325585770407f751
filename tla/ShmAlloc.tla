------------------------------ MODULE ShmAlloc ------------------------------
(***************************************************************************)
(* The shared-memory allocator: the kernel module kernel/fsl_shm.c, which  *)
(* hands out areas of the 256 MB huge page, and the processes that reach   *)
(* it through lg_shm.c and fsl_usmmgr.c (DSP boot, L1, the test programs). *)
(*                                                                         *)
(* Addresses and sizes are counted in units; MIN_FREE_SIZE_LIST and        *)
(* NUMBER_OF_LISTS scale with them.  A list of the code (a ring of nodes   *)
(* around a head) is the sequence of its nodes, and a node is found again  *)
(* by its address.  Every ioctl works under mm_lock and is one action.     *)
(***************************************************************************)
EXTENDS Integers, FiniteSets, Functions, Totals

CONSTANTS Procs,               \* the processes that use the segment
          MIN_FREE_SIZE_LIST,
          NUMBER_OF_LISTS,
          Base,                \* physical address of the huge page
          HugePage,            \* its size without IPC_METADATA_AREA_SZ
          DspShared,           \* dsp_shared_size of the system map
          Sizes,               \* the sizes that are asked for
          Aligns,              \* the alignments, powers of two
          MaxHeld,             \* bound: areas a process holds at a time
          MaxInits             \* bound: initialisations of the segment

ASSUME ShmAssumption ==
  /\ MIN_FREE_SIZE_LIST \in Nat \ {0} /\ NUMBER_OF_LISTS \in Nat \ {0}
  /\ Base \in Nat \ {0} /\ HugePage \in Nat /\ DspShared \in 1 .. HugePage - 1
  /\ Sizes \subseteq Nat \ {0} /\ Aligns \subseteq Nat \ {0}

VARIABLES heap,      \* the kernel's lists
          inits,     \* how often initialize() has run
          shared,    \* sc_shared_mem of the control area: from where, 0 unset
          done,      \* done[p]: shm_init_done of the process
          usm,       \* usm[p]: usmmgr_initialized of the process
          held,      \* held[p]: the areas p was given and has not freed
          mixed      \* initialize() has run while areas were held

shmVars == <<heap, inits, shared, done, usm, held, mixed>>

MAX_FREE_SIZE_LIST == MIN_FREE_SIZE_LIST * NUMBER_OF_LISTS
Lists == 0 .. NUMBER_OF_LISTS

Node(a, n) == [addr |-> a, size |-> n]
Area(a, n, t) == [addr |-> a, size |-> n, tag |-> t]

-----------------------------------------------------------------------------
(* Place of the node with this address in a list. *)
At(l, a) == CHOOSE i \in DOMAIN l : l[i].addr = a

(* Places i to j of the list l become s. *)
Splice(l, i, j, s) == SubSeq(l, 1, i - 1) \o s \o SubSeq(l, j + 1, Len(l))

-----------------------------------------------------------------------------
(* The free lists and the sum of the sizes kept in each list head. *)

get_list(size) ==
  IF size > MAX_FREE_SIZE_LIST THEN NUMBER_OF_LISTS
                               ELSE size \div MIN_FREE_SIZE_LIST

(* At the tail if no smaller than the tail, at the head if smaller than the *)
(* head, else in second place: the tail is the largest only until it goes.  *)
AddFree(h, n) ==
  LET k == get_list(n.size)
      l == h.free[k]
      i == IF Head(l).size > n.size THEN 1 ELSE 2
      put == IF l = <<>> \/ l[Len(l)].size <= n.size THEN Append(l, n)
             ELSE Splice(l, i, i - 1, <<n>>)
  IN [h EXCEPT !.free[k] = put, !.total[k] = @ + n.size]

RemoveFree(h, n) ==
  LET k == get_list(n.size)
      i == At(h.free[k], n.addr)
  IN [h EXCEPT !.free[k] = Splice(@, i, i, <<>>), !.total[k] = @ - n.size]

(* Mutant of Promising: the loop stops before the last list. *)
PromisingButLast(h, size) ==
  {k \in size \div MIN_FREE_SIZE_LIST .. NUMBER_OF_LISTS - 1 :
     h.total[k] > size /\ h.free[k][Len(h.free[k])].size >= size}

(* Lists whose head promises more than size and whose tail is big enough. *)
Promising(h, size) ==
  {k \in size \div MIN_FREE_SIZE_LIST .. NUMBER_OF_LISTS :
     h.total[k] > size /\ h.free[k][Len(h.free[k])].size >= size}

(* The list to search, as a set of at most one. *)
get_free_area_list(h, size) ==
  IF size > MAX_FREE_SIZE_LIST THEN {NUMBER_OF_LISTS}
  ELSE {k \in Promising(h, size) : \A j \in Promising(h, size) : k <= j}

-----------------------------------------------------------------------------
NoLists == [shm_size |-> 0, areas |-> <<>>, allocated |-> {},
            free |-> [k \in Lists |-> <<>>], total |-> [k \in Lists |-> 0]]

(* initialize(): whatever was handed out before is forgotten. *)
initialize(size) ==
  [AddFree(NoLists, Node(Base, size)) EXCEPT
     !.shm_size = size, !.areas = <<Area(Base, size, 0)>>]

(* Node n of h becomes the areas of s in the global list. *)
Replace(h, n, s) ==
  [h EXCEPT !.areas = Splice(@, At(@, n.addr), At(@, n.addr), s)]

Allocated(h, a) == [h EXCEPT !.allocated = @ \cup {a}]

(* allocate_free_area: the whole node, or its front. *)
allocate_free_area(h, n, size) ==
  LET rest == Node(n.addr + size, n.size - size) IN
  Allocated(
    IF n.size = size
    THEN Replace(RemoveFree(h, n), n, <<Area(n.addr, size, 1)>>)
    ELSE Replace(AddFree(RemoveFree(h, n), rest), n,
           <<Area(n.addr, size, 1), Area(rest.addr, rest.size, 0)>>),
    n.addr)

(* Where do_align_valloc would put the area in node n. *)
AlignUp(n, align) ==
  IF n.addr % align = 0 THEN n.addr
                        ELSE (n.addr + align) - ((n.addr + align) % align)

(* Mutant of AlignFits: the padding in front is left out of account. *)
AlignFitsUnpadded(n, align, size) ==
  AlignUp(n, align) < n.addr + n.size /\ size <= n.size

AlignFits(n, align, size) ==
  AlignUp(n, align) + size <= n.addr + n.size

do_align_valloc(h, n, align, size) ==
  LET a == AlignUp(n, align)
      up == Node(n.addr, a - n.addr)
      low == Node(a + size, n.addr + n.size - (a + size))
      g == Replace(AddFree(RemoveFree(h, n), up), n,
             <<Area(up.addr, up.size, 0), Area(a, size, 1)>>
               \o (IF low.size > 0 THEN <<Area(low.addr, low.size, 0)>> ELSE <<>>))
  IN IF a = n.addr THEN allocate_free_area(h, n, size)
     ELSE Allocated(IF low.size > 0 THEN AddFree(g, low) ELSE g, a)

(* The largest of the nodes that were passed over is put in anew. *)
Resort(h, passed) ==
  IF passed = <<>> THEN h
  ELSE LET i == CHOOSE i \in DOMAIN passed :
                  /\ \A j \in DOMAIN passed : passed[j].size <= passed[i].size
                  /\ \A j \in 1 .. i - 1 : passed[j].size < passed[i].size
       IN AddFree(RemoveFree(h, passed[i]), passed[i])

(* The nodes of the lists of ks, each as <<list, place>>, and the one of    *)
(* fit that a search from list to list and from head to tail meets first.   *)
Places(h, ks) == UNION {{k} \X DOMAIN h.free[k] : k \in ks}
First(fit) ==
  CHOOSE p \in fit : \A q \in fit : p[1] < q[1] \/ (p[1] = q[1] /\ p[2] <= q[2])

(* What a request returns: the heap after it and the address, or 0. *)
Refuse(h) == [heap |-> h, addr |-> 0]

(* __alloc: the first node of the list that is big enough.  kmalloc may     *)
(* fail for the nodes of short; a node taken whole needs none.              *)
__alloc(h, size, short) ==
  LET fit == {p \in Places(h, get_free_area_list(h, size)) : h.free[p[1]][p[2]].size >= size}
      p == First(fit)
      n == h.free[p[1]][p[2]]
  IN IF fit = {} \/ (n.size # size /\ n.addr \in short) THEN Refuse(h)
     ELSE [heap |-> Resort(allocate_free_area(h, n, size),
                           SubSeq(h.free[p[1]], 1, p[2] - 1)),
           addr |-> n.addr]

(* __memalign: the first node, in this list or a later one, that can hold   *)
(* an aligned area and for which the new nodes could be had.                *)
__memalign(h, size, align, short) ==
  LET from == {k \in Lists : \E j \in get_free_area_list(h, size) : j <= k}
      fit == {p \in Places(h, from) :
                LET n == h.free[p[1]][p[2]] IN
                  /\ AlignFits(n, align, size)
                  /\ n.addr \in short => AlignUp(n, align) = n.addr /\ n.size = size}
      p == First(fit)
      n == h.free[p[1]][p[2]]
  IN IF fit = {} THEN Refuse(h)
     ELSE [heap |-> Resort(do_align_valloc(h, n, align, size),
                           SubSeq(h.free[p[1]], 1, p[2] - 1)),
           addr |-> AlignUp(n, align)]

-----------------------------------------------------------------------------
(* Area x with the size of area y added. *)
Merged(x, y) == [x EXCEPT !.size = @ + y.size]

(* Mutant of try_merge_downward: the neighbour's tag is not looked at. *)
MergeAnyDownward(h, i) ==
  IF i = Len(h.areas) THEN h
  ELSE LET next == h.areas[i + 1]
           g == IF next.tag = 0 THEN RemoveFree(h, next) ELSE [h EXCEPT !.allocated = @ \ {next.addr}]
       IN [g EXCEPT !.areas = Splice(@, i, i + 1, <<Merged(@[i], next)>>)]

(* A free neighbour below is swallowed ... *)
try_merge_downward(h, i) ==
  IF i = Len(h.areas) \/ h.areas[i + 1].tag = 1 THEN h
  ELSE LET next == h.areas[i + 1] IN
       [RemoveFree(h, next) EXCEPT !.areas = Splice(@, i, i + 1, <<Merged(@[i], next)>>)]

(* ... and a free neighbour above swallows the area. *)
try_merge_upward(h, i) ==
  LET prev == h.areas[i - 1]
      big == Merged(prev, h.areas[i])
  IN IF i = 1 \/ prev.tag = 1 THEN AddFree(h, Node(h.areas[i].addr, h.areas[i].size))
     ELSE [AddFree(RemoveFree(h, prev), Node(big.addr, big.size)) EXCEPT
             !.areas = Splice(@, i - 1, i, <<big>>)]

(* __free: an address that was not handed out is only warned about. *)
__free(h, a) ==
  IF a \notin h.allocated THEN h
  ELSE LET i == At(h.areas, a) IN
       try_merge_upward(
         try_merge_downward([h EXCEPT !.allocated = @ \ {a}, !.areas[i].tag = 0], i), i)

-----------------------------------------------------------------------------
(* The processes. *)

ShmInit ==
  /\ heap = NoLists
  /\ inits = 0
  /\ shared = 0
  /\ done = [p \in Procs |-> FALSE]
  /\ usm = [p \in Procs |-> FALSE]
  /\ held = [p \in Procs |-> {}]
  /\ mixed = FALSE

(* FORCE_INIT over size units. *)
ForceInit(size) ==
  /\ inits < MaxInits
  /\ inits' = inits + 1
  /\ heap' = initialize(size)
  /\ mixed' = (mixed \/ \E p \in Procs : held[p] # {})

(* init_hugetlb of the DSP boot program keeps the end of the page for the   *)
(* DSP and announces it in the control area.                                *)
BootInit ==
  /\ ForceInit(HugePage - DspShared)
  /\ shared' = Base + HugePage - DspShared
  /\ UNCHANGED <<done, usm, held>>

(* fsl_usmmgr_init: fsl_shm_init(0, 1) takes the whole page.  Only if all   *)
(* that follows works does a second call return at once.                    *)
UsmmgrInit(p, works) ==
  /\ ~usm[p]
  /\ ForceInit(HugePage)
  /\ done' = [done EXCEPT ![p] = TRUE]
  /\ usm' = [usm EXCEPT ![p] = works]
  /\ UNCHANGED <<shared, held>>

(* Hand the result of a request to process p; NULL leaves it without. *)
Give(p, size, r) ==
  /\ heap' = r.heap
  /\ held' = IF r.addr = 0 THEN held ELSE 
             [held EXCEPT ![p] = @ \cup {Node(r.addr, size)}]
  /\ UNCHANGED <<inits, shared, done, usm, mixed>>

CanAsk(p) == done[p] /\ Cardinality(held[p]) < MaxHeld

(* Bound: kmalloc fails for one node of a search at most. *)
Shortages == {{}} \cup {{heap.areas[i].addr} : i \in {i \in DOMAIN heap.areas : heap.areas[i].tag = 0}}

fsl_usmmgr_alloc(p, size) ==
  CanAsk(p) /\ \E short \in Shortages : Give(p, size, __alloc(heap, size, short))

fsl_usmmgr_memalign(p, size, align) ==
  /\ CanAsk(p)
  /\ \E short \in Shortages : Give(p, size, __memalign(heap, size, align, short))

(* shm_free: the translation refuses what lies outside the page. *)
fsl_usmmgr_free(p, n) ==
  /\ held' = [held EXCEPT ![p] = @ \ {n}]
  /\ heap' = __free(heap, n.addr)
  /\ UNCHANGED <<inits, shared, done, usm, mixed>>

(* A process ends: the kernel module keeps no record of who holds what. *)
Exit(p) ==
  /\ done[p]
  /\ done' = [done EXCEPT ![p] = FALSE]
  /\ usm' = [usm EXCEPT ![p] = FALSE]
  /\ held' = [held EXCEPT ![p] = {}]
  /\ UNCHANGED <<heap, inits, shared, mixed>>

ShmNext ==
  \/ BootInit
  \/ \E p \in Procs :
       \/ \E works \in BOOLEAN : UsmmgrInit(p, works)
       \/ \E size \in Sizes : fsl_usmmgr_alloc(p, size)
       \/ \E size \in Sizes, align \in Aligns : fsl_usmmgr_memalign(p, size, align)
       \/ \E n \in held[p] : fsl_usmmgr_free(p, n)
       \/ Exit(p)

ShmSpec == ShmInit /\ [][ShmNext]_shmVars

-----------------------------------------------------------------------------
Areas == DOMAIN heap.areas
FreeAreas == {i \in Areas : heap.areas[i].tag = 0}

(* The areas of the global list follow each other without gap or overlap    *)
(* and cover what initialize() was given: no split, aligned allocation or   *)
(* merge loses or duplicates memory.                                        *)
Tiles ==
  /\ Areas # {} => heap.areas[1].addr = Base
  /\ \A i \in Areas :
       /\ heap.areas[i].size > 0
       /\ heap.areas[i].addr + heap.areas[i].size =
            IF i = Len(heap.areas) THEN Base + heap.shm_size ELSE heap.areas[i + 1].addr

(* The free lists hold the free areas, each once and in the list of its     *)
(* size, although a node changes its size while it is on its way from one   *)
(* list to another; the heads hold the sums get_free_area_list relies on;   *)
(* the allocated areas are those whose address can be freed.                *)
ListsExact ==
  /\ \A k \in Lists :
       /\ Range(heap.free[k]) =
            {Node(heap.areas[i].addr, heap.areas[i].size) :
               i \in {i \in FreeAreas : get_list(heap.areas[i].size) = k}}
       /\ IsInjective(heap.free[k])
       /\ heap.total[k] = Total([i \in DOMAIN heap.free[k] |-> heap.free[k][i].size])
  /\ heap.allocated = {heap.areas[i].addr : i \in Areas \ FreeAreas}

(* Two neighbours are never both free, so a large area can be had again     *)
(* once all of it has been given back, in whatever order.                   *)
Coalesced == \A i \in FreeAreas : i + 1 \notin FreeAreas

(* Through any sequence of splits, aligned allocations and merges the four  *)
(* views of the segment that __alloc, __memalign and __free keep by hand    *)
(* (global list, free lists, their totals, allocated list) agree.           *)
HeapSound == Tiles /\ ListsExact /\ Coalesced

Overlap(m, n) == m.addr < n.addr + n.size /\ n.addr < m.addr + m.size
Holdings == UNION {{p} \X held[p] : p \in Procs}

(* As long as the segment was never initialised again under areas in use,   *)
(* no two areas in use overlap and each is an allocated area of that very   *)
(* size.  (fsl_usmmgr_init forces an initialisation in every process.)      *)
OwnersDisjoint ==
  ~mixed => \A g, h \in Holdings :
    /\ g # h => ~Overlap(g[2], h[2])
    /\ \E i \in Areas : heap.areas[i] = Area(g[2].addr, g[2].size, 1)

(* A request is refused for want of memory only when no free area above     *)
(* MAX_FREE_SIZE_LIST exceeds it: the totals in the heads and the loosely   *)
(* sorted lists, which may hide a smaller area that would fit, never hide   *)
(* such a one.                                                              *)
LargeServed ==
  \A size \in Sizes :
    (\E i \in FreeAreas : heap.areas[i].size > size /\ heap.areas[i].size > MAX_FREE_SIZE_LIST)
      => __alloc(heap, size, {}).addr # 0
=============================================================================
