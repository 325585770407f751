----------------------------- MODULE HeapProofs -----------------------------
(***************************************************************************)
(* Proofs about the shared-memory allocator (ShmAlloc), for any segment,   *)
(* list sizes, processes, requests and alignments: the heap stays sound    *)
(* through every request, release and initialisation, areas in use do not  *)
(* overlap, and a large free area is never overlooked.                     *)
(***************************************************************************)
EXTENDS HeapLemmas

(* Among the nodes passed over there is a first largest one.               *)
LEMMA FirstLargest ==
  ASSUME NEW l \in Seq(NodeType), l # <<>>, NEW B \in Nat, \A i \in 1 .. Len(l) : l[i].size <= B
  PROVE  \E i \in DOMAIN l :
           /\ \A j \in DOMAIN l : l[j].size <= l[i].size
           /\ \A j \in 1 .. i - 1 : l[j].size < l[i].size
<1>0. Len(l) \in Nat \ {0} /\ DOMAIN l = 1 .. Len(l)
  OBVIOUS
<1>1. \A i \in 1 .. Len(l) : l[i].size \in Nat
  <2>1. \A i \in 1 .. Len(l) : l[i] \in NodeType
    BY <1>0
  <2> QED
    BY <2>1, NodeFields, Zenon
<1> DEFINE T == {B - l[i].size : i \in 1 .. Len(l)}
<1>2. PICK m \in 1 .. Len(l) : \A i \in 1 .. Len(l) : l[i].size <= l[m].size
  <2>1. T \subseteq Nat
    <3>1. \A i \in 1 .. Len(l) : B - l[i].size \in Nat
      BY <1>1
    <3> QED
      BY <3>1, Zenon
  <2>2. T # {}
    <3>1. 1 \in 1 .. Len(l)
      BY <1>0
    <3> QED
      BY <3>1, Zenon
  <2>3. PICK x \in T : \A y \in T : x <= y
    BY <2>1, <2>2, LeastNat, Zenon
  <2>4. PICK m \in 1 .. Len(l) : x = B - l[m].size
    BY Zenon
  <2>5. \A i \in 1 .. Len(l) : B - l[m].size <= B - l[i].size
    BY <2>3, <2>4, Zenon
  <2>6. \A i \in 1 .. Len(l) : l[i].size <= l[m].size
    <3> SUFFICES ASSUME NEW i \in 1 .. Len(l) PROVE l[i].size <= l[m].size
      BY Zenon
    <3>1. l[i].size \in Nat /\ l[m].size \in Nat /\ B - l[m].size <= B - l[i].size
      BY <1>1, <2>5, Zenon
    <3> QED
      BY <3>1, SMTT(40)
  <2> QED
    BY <2>6, Zenon
<1> HIDE DEF T
<1> DEFINE S == {i \in 1 .. Len(l) : l[i].size = l[m].size}
<1>3. S \subseteq Nat /\ S # {}
  BY <1>0
<1>4. PICK i \in S : \A y \in S : i <= y
  BY <1>3, LeastNat, Zenon
<1>5. i \in 1 .. Len(l) /\ l[i].size = l[m].size
  BY <1>4, Zenon
<1>6. \A j \in 1 .. Len(l) : l[j].size <= l[i].size
  BY <1>2, <1>5, Zenon
<1>7. ASSUME NEW j \in 1 .. i - 1 PROVE l[j].size < l[i].size
  <2>1. j \in 1 .. Len(l) /\ ~(i <= j)
    BY <1>0, <1>5
  <2>2. l[j].size # l[m].size
    BY <1>4, <2>1, Zenon
  <2>3. l[j].size \in Nat /\ l[i].size \in Nat /\ l[j].size <= l[i].size /\ l[j].size # l[i].size
    BY <1>1, <1>5, <1>6, <2>1, <2>2, Zenon
  <2> QED
    BY <2>3
<1> QED
  BY <1>0, <1>5, <1>6, <1>7, Zenon

(* Areas within the segment. *)
LEMMA TiledWithin ==
  ASSUME NEW a, NEW lo, NEW hi, Tiled(a, lo, hi), NEW i \in 1 .. Len(a)
  PROVE  End(a[i]) <= hi /\ lo <= a[i].addr /\ hi \in Nat
<1>0. a \in Seq(AreaType) /\ Len(a) \in Nat /\ 1 \in 1 .. Len(a) /\ Len(a) \in 1 .. Len(a) /\ a # <<>>
  BY DEF Tiled
<1>1. End(a[Len(a)]) = hi /\ a[1].addr = lo
  BY <1>0, Zenon DEF Tiled
<1>2. /\ End(a[i]) \in Nat /\ a[i].addr \in Nat /\ a[i].addr < End(a[i])
      /\ End(a[Len(a)]) \in Nat /\ a[Len(a)].addr \in Nat /\ a[Len(a)].addr < End(a[Len(a)])
      /\ End(a[1]) \in Nat /\ a[1].addr \in Nat /\ a[1].addr < End(a[1])
  BY <1>0, MemberFields, Zenon
<1>3. i = Len(a) \/ End(a[i]) <= a[Len(a)].addr
  <2>1. i = Len(a) \/ i < Len(a)
    BY <1>0
  <2> QED
    BY <1>0, <2>1, TiledOrdered, Zenon
<1>4. i = 1 \/ End(a[1]) <= a[i].addr
  <2>1. i = 1 \/ 1 < i
    BY <1>0
  <2> QED
    BY <1>0, <2>1, TiledOrdered, Zenon
<1> QED
  BY <1>1, <1>2, <1>3, <1>4, SMTT(40)

(* No free area is larger than the segment. *)
LEMMA FreeNodeSize ==
  ASSUME NEW h, HeapInv(h), NEW n \in FreeNodes(h.areas)
  PROVE  n.size <= Base + h.shm_size /\ Base + h.shm_size \in Nat
<1> DEFINE B == Base + h.shm_size
<1>1. PICK k \in 1 .. Len(h.areas) :
        /\ h.areas[k].addr = n.addr /\ h.areas[k].size = n.size /\ h.areas[k].tag = 0
        /\ n = Node(h.areas[k].addr, h.areas[k].size) /\ n \in NodeType
        /\ n.addr \in Nat \ {0} /\ n.size \in Nat \ {0} /\ End(h.areas[k]) = n.addr + n.size
  BY FreeNodeIs, Zenon
<1>2. End(h.areas[k]) <= B /\ B \in Nat
  <2>1. Tiled(h.areas, Base, Base + h.shm_size)
    BY Zenon DEF HeapInv
  <2> QED
    BY <2>1, TiledWithin, Zenon
<1> HIDE DEF B
<1>3. n.addr \in Nat /\ n.size \in Nat /\ n.addr + n.size <= B
  BY <1>1, <1>2, Zenon
<1>4. n.size <= B
  BY <1>2, <1>3, SMTT(40)
<1> QED
  BY <1>2, <1>4, Zenon DEF B

(* g is as sound as h and has the same areas. *)
SoundAs(g, h) == HeapInv(g) /\ g.areas = h.areas /\ g.shm_size = h.shm_size

(* Putting the largest of the nodes passed over in anew leaves the heap      *)
(* sound.                                                                    *)
LEMMA ResortOk ==
  ASSUME NEW h, HeapInv(h), NEW passed \in Seq(FreeNodes(h.areas))
  PROVE  SoundAs(Resort(h, passed), h)
<1>1. CASE passed = <<>>
  <2>1. Resort(h, passed) = h
    BY <1>1, Zenon DEF Resort
  <2> QED
    BY <2>1, Zenon DEF SoundAs
<1>2. CASE passed # <<>>
  <2> DEFINE Largest(i) == /\ \A j \in DOMAIN passed : passed[j].size <= passed[i].size
                           /\ \A j \in 1 .. i - 1 : passed[j].size < passed[i].size
             q == CHOOSE i \in DOMAIN passed : Largest(i)
             n == passed[q]
             f == RemoveFree(h, n)
             g == AddFree(f, n)
             N == FreeNodes(h.areas)
  <2>1. Resort(h, passed) = g
    BY <1>2, Zenon DEF Resort
  <2>2. Tiled(h.areas, Base, Base + h.shm_size) /\ HeapShape(h)
    BY Zenon DEF HeapInv
  <2>3. N \subseteq NodeType
    BY <2>2, FreeNodesAre, Zenon
  <2>4. passed \in Seq(NodeType) /\ \A i \in DOMAIN passed : passed[i] \in N
    <3> HIDE DEF N
    <3>1. passed \in Seq(N)
      BY Zenon DEF N
    <3> QED
      BY <2>3, <3>1, SMTT(40)
  <2>5. \E i \in DOMAIN passed : Largest(i)
    <3>1. \A i \in DOMAIN passed : passed[i].size <= Base + h.shm_size /\ Base + h.shm_size \in Nat
      <4> SUFFICES ASSUME NEW i \in DOMAIN passed
                   PROVE  passed[i].size <= Base + h.shm_size /\ Base + h.shm_size \in Nat
        BY Zenon
      <4>1. passed[i] \in FreeNodes(h.areas)
        BY <2>4, Zenon
      <4> QED
        BY <4>1, FreeNodeSize, Zenon
    <3>2. DOMAIN passed = 1 .. Len(passed) /\ 1 \in DOMAIN passed
      BY <1>2, <2>4, SMTT(40)
    <3>3. Base + h.shm_size \in Nat /\ \A i \in 1 .. Len(passed) : passed[i].size <= Base + h.shm_size
      BY <3>1, <3>2, Zenon
    <3> QED
      BY <1>2, <2>4, <3>3, FirstLargest, Zenon
  <2>6. q \in DOMAIN passed
    <3> HIDE DEF Largest
    <3> QED
      BY <2>5, Zenon
  <2> HIDE DEF q
  <2>7. n \in N /\ n \in NodeType
    BY <2>3, <2>4, <2>6, Zenon
  <2> HIDE DEF n
  <2>8. Kept(f, h, N \ {n})
    BY <2>7, RemoveServed, Zenon
  <2> HIDE DEF f
  <2>9. HeapShape(f) /\ ListsOk(f, N \ {n}) /\ SameAreas(f, h)
    BY <2>8, Zenon DEF Kept
  <2> HIDE DEF N
  <2>10. Kept(g, f, (N \ {n}) \cup {n})
    BY <2>7, <2>9, AddFreeOk, Zenon
  <2> HIDE DEF g
  <2>11. (N \ {n}) \cup {n} = N
    BY <2>7, Zenon
  <2>12. HeapShape(g) /\ ListsOk(g, N) /\ SameAreas(g, h)
    BY <2>9, <2>10, <2>11, Zenon DEF Kept, SameAreas
  <2> QED
    BY <2>1, <2>12, Zenon DEF SoundAs, SameAreas, HeapInv, N
<1> QED
  BY <1>1, <1>2, Zenon

(* A search finds the first place that fits. *)
LEMMA FirstIs ==
  ASSUME NEW fit, fit # {}, \A p \in fit : p[1] \in Nat /\ p[2] \in Nat
  PROVE  First(fit) \in fit
<1> DEFINE S == {p[1] : p \in fit}
<1>1. S \subseteq Nat /\ S # {}
  BY Zenon
<1>2. PICK k \in S : \A y \in S : k <= y
  BY <1>1, LeastNat, Zenon
<1>3. PICK r \in fit : r[1] = k
  BY Zenon
<1> DEFINE R == {q \in fit : q[1] = k}
           Q == {p[2] : p \in R}
<1>4. Q \subseteq Nat /\ Q # {}
  BY <1>3, Zenon
<1>5. PICK m \in Q : \A y \in Q : m <= y
  BY <1>4, LeastNat, Zenon
<1>6. PICK p \in R : p[2] = m
  BY Zenon
<1>7. p \in fit /\ p[1] = k
  BY Zenon
<1>8. ASSUME NEW q \in fit PROVE p[1] < q[1] \/ (p[1] = q[1] /\ p[2] <= q[2])
  <2>1. p[1] <= q[1] /\ p[1] \in Nat /\ q[1] \in Nat
    BY <1>2, <1>7, Zenon
  <2>2. q[1] = p[1] => p[2] <= q[2]
    BY <1>5, <1>6, <1>7, Zenon
  <2>3. p[1] < q[1] \/ p[1] = q[1]
    BY <2>1
  <2> QED
    BY <2>2, <2>3, Zenon
<1> QED
  BY <1>7, <1>8, Zenon DEF First

(* The places of the lists hold free areas. *)
LEMMA PlacesAre ==
  ASSUME NEW h, HeapInv(h), NEW ks \in SUBSET Lists, NEW p \in Places(h, ks)
  PROVE  /\ p[1] \in ks /\ p[1] \in Lists /\ p[1] \in Nat /\ p[2] \in Nat /\ p[2] \in 1 .. Len(h.free[p[1]])
         /\ h.free[p[1]] \in Seq(FreeNodes(h.areas)) /\ IsInjective(h.free[p[1]])
         /\ h.free[p[1]][p[2]] \in FreeNodes(h.areas)
<1>1. PICK k \in ks : p \in {k} \X DOMAIN h.free[k]
  BY Zenon DEF Places
<1>2. p[1] = k /\ p[2] \in DOMAIN h.free[k]
  BY <1>1
<1> DEFINE l == h.free[k]
<1>3. k \in Lists
  BY Zenon
<1>4. ListOk(l, h.total[k], {n \in FreeNodes(h.areas) : get_list(n.size) = k})
  BY <1>3, Zenon DEF HeapInv, ListsOk
<1>5. l \in Seq(NodeType) /\ Range(l) \subseteq FreeNodes(h.areas) /\ IsInjective(l)
  BY <1>4, Zenon DEF ListOk
<1> HIDE DEF l
<1>6. DOMAIN l = 1 .. Len(l)
  BY <1>5
<1>7. \A i \in 1 .. Len(l) : l[i] \in FreeNodes(h.areas)
  BY <1>5, <1>6, Zenon DEF Range
<1>8. l \in Seq(FreeNodes(h.areas))
  <2> DEFINE N == FreeNodes(h.areas)
  <2> HIDE DEF N
  <2>1. \A i \in 1 .. Len(l) : l[i] \in N
    BY <1>7, Zenon DEF N
  <2>2. l \in Seq(N)
    BY <1>5, <2>1, SMTT(40)
  <2> QED
    BY <2>2, Zenon DEF N
<1>9. k \in Nat
  BY <1>3, ShmAssumption, SMTT(40) DEF Lists
<1>10. p[2] \in 1 .. Len(l) /\ p[2] \in Nat
  <2>1. p[2] \in 1 .. Len(l)
    BY <1>2, <1>6, Zenon DEF l
  <2> QED
    BY <1>5, <2>1
<1> QED
  BY <1>2, <1>3, <1>5, <1>7, <1>8, <1>9, <1>10, Zenon DEF l

(* What a request leaves behind: a sound heap with all areas that were in    *)
(* use, and the area that was handed out, if any, is not one of them.        *)
Granted(r, h, size) ==
  /\ HeapInv(r.heap)
  /\ \A x \in Range(h.areas) : x.tag = 1 => x \in Range(r.heap.areas)
  /\ r.addr # 0 => Area(r.addr, size, 1) \in Range(r.heap.areas) \ Range(h.areas)

(* A refusal changes nothing. *)
LEMMA RefuseOk ==
  ASSUME NEW h, HeapInv(h), NEW size
  PROVE  Granted(Refuse(h), h, size)
<1>1. Refuse(h).heap = h /\ Refuse(h).addr = 0
  BY Zenon DEF Refuse
<1> QED
  BY <1>1, Zenon DEF Granted

(* What is cut out of a free area was not in use. *)
LEMMA FreshArea ==
  ASSUME NEW h, HeapInv(h), NEW n \in FreeNodes(h.areas), NEW a \in Nat, n.addr <= a, a < n.addr + n.size, NEW size
  PROVE  Area(a, size, 1) \notin Range(h.areas)
<1> SUFFICES ASSUME NEW x \in Range(h.areas), x = Area(a, size, 1) PROVE FALSE
  BY Zenon
<1>1. PICK i \in 1 .. Len(h.areas) :
        /\ h.areas[i].addr = n.addr /\ h.areas[i].size = n.size /\ h.areas[i].tag = 0
        /\ n = Node(h.areas[i].addr, h.areas[i].size) /\ n \in NodeType
        /\ n.addr \in Nat \ {0} /\ n.size \in Nat \ {0} /\ End(h.areas[i]) = n.addr + n.size
  BY FreeNodeIs, Zenon
<1>2. Tiled(h.areas, Base, Base + h.shm_size)
  BY Zenon DEF HeapInv
<1>3. PICK j \in 1 .. Len(h.areas) : h.areas[j] = x
  BY <1>2, TiledMember, Zenon
<1>4. x.addr = a /\ x.tag = 1
  BY Zenon DEF Area
<1>5. j # i
  <2>1. 0 # 1
    OBVIOUS
  <2> QED
    BY <1>1, <1>3, <1>4, <2>1, Zenon
<1>6. End(h.areas[i]) <= h.areas[j].addr \/ End(h.areas[j]) <= h.areas[i].addr
  BY <1>2, <1>5, TiledApart, Zenon
<1>7. x \in AreaType
  BY <1>2, TiledMember, Zenon
<1>8. x.addr \in Nat /\ End(x) \in Nat /\ x.addr < End(x)
  BY <1>7, AreaFields, Zenon
<1>9. n.addr + n.size <= a \/ End(x) <= n.addr
  BY <1>1, <1>3, <1>4, <1>6, Zenon
<1>10. a < End(x) /\ End(x) \in Nat /\ n.addr \in Nat /\ n.size \in Nat
  BY <1>1, <1>4, <1>8, Zenon
<1> QED
  BY <1>9, <1>10, SMTT(40)

(* The end of a request: the nodes passed over are sorted in, the address    *)
(* returned.                                                                 *)
LEMMA RequestDone ==
  ASSUME NEW h, HeapInv(h), NEW n \in FreeNodes(h.areas), NEW size, NEW a \in Nat, n.addr <= a, a < n.addr + n.size,
         NEW g, HandedOut(g, h, n, a, size),
         NEW l \in Seq(FreeNodes(h.areas)), IsInjective(l), NEW q \in 1 .. Len(l), l[q] = n
  PROVE  Granted([heap |-> Resort(g, SubSeq(l, 1, q - 1)), addr |-> a], h, size)
<1> DEFINE passed == SubSeq(l, 1, q - 1)
           f == Resort(g, passed)
           r == [heap |-> f, addr |-> a]
           N == FreeNodes(h.areas)
           M == FreeNodes(g.areas)
<1>1. /\ HeapInv(g) /\ N \ {n} \subseteq M
      /\ \A x \in Range(h.areas) : x.tag = 1 => x \in Range(g.areas)
      /\ Area(a, size, 1) \in Range(g.areas)
  BY Zenon DEF HandedOut, Served
<1>2. passed \in Seq(M)
  <2>0. l \in Seq(N)
    BY Zenon
  <2> HIDE DEF N, M
  <2>1. DOMAIN l = 1 .. Len(l) /\ Len(l) \in Nat
    BY <2>0
  <2>2. \A j \in 1 .. q - 1 : j \in 1 .. Len(l) /\ j # q
    BY <2>1
  <2>3. \A j \in 1 .. q - 1 : l[j] \in N /\ l[j] # n
    <3>1. \A j \in 1 .. Len(l) : l[j] \in N
      BY <2>0
    <3> QED
      BY <2>1, <2>2, <3>1, Zenon DEF IsInjective
  <2>4. \A j \in 1 .. q - 1 : l[j] \in M
    BY <1>1, <2>3, Zenon
  <2>5. passed \in Seq(N) /\ Len(passed) = q - 1 /\ \A j \in 1 .. q - 1 : passed[j] = l[j]
    BY <2>0, <2>1, SMTT(40)
  <2> HIDE DEF passed
  <2>6. \A j \in 1 .. Len(passed) : passed[j] \in M
    BY <2>4, <2>5, Zenon
  <2> QED
    BY <2>5, <2>6, SMTT(40)
<1> HIDE DEF passed
<1>3. SoundAs(f, g)
  BY <1>1, <1>2, ResortOk, Zenon
<1> HIDE DEF f
<1>4. HeapInv(f) /\ f.areas = g.areas
  BY <1>3, Zenon DEF SoundAs
<1>5. Area(a, size, 1) \notin Range(h.areas)
  BY FreshArea, Zenon
<1>6. r.heap = f /\ r.addr = a
  BY Zenon
<1> HIDE DEF r
<1>7. Granted(r, h, size)
  BY <1>1, <1>4, <1>5, <1>6, Zenon DEF Granted
<1> QED
  BY <1>7, Zenon DEF r, f, passed

(* get_free_area_list names a list. *)
LEMMA FreeAreaList ==
  ASSUME NEW h, NEW size \in Nat
  PROVE  get_free_area_list(h, size) \in SUBSET Lists
<1>1. MIN_FREE_SIZE_LIST \in Nat \ {0} /\ NUMBER_OF_LISTS \in Nat
  BY ShmAssumption
<1>2. size \div MIN_FREE_SIZE_LIST \in Nat
  BY <1>1, DivLists, Zenon
<1>3. size \div MIN_FREE_SIZE_LIST .. NUMBER_OF_LISTS \subseteq Lists
  BY <1>1, <1>2, SMTT(40) DEF Lists
<1>4. NUMBER_OF_LISTS \in Lists
  BY <1>1 DEF Lists
<1>5. Promising(h, size) \subseteq Lists
  BY <1>3, Zenon DEF Promising
<1> QED
  BY <1>4, <1>5, Zenon DEF get_free_area_list

(* __alloc leaves the heap sound, whatever it is asked and wherever kmalloc  *)
(* fails.                                                                    *)
LEMMA AllocOk ==
  ASSUME NEW h, HeapInv(h), NEW size \in Nat \ {0}, NEW short
  PROVE  Granted(__alloc(h, size, short), h, size)
<1> DEFINE ks == get_free_area_list(h, size)
           fit == {p \in Places(h, ks) : h.free[p[1]][p[2]].size >= size}
           p == First(fit)
           l == h.free[p[1]]
           n == l[p[2]]
           g == allocate_free_area(h, n, size)
           r == [heap |-> Resort(g, SubSeq(l, 1, p[2] - 1)), addr |-> n.addr]
<1>1. CASE fit = {} \/ (n.size # size /\ n.addr \in short)
  <2>1. __alloc(h, size, short) = Refuse(h)
    BY <1>1, Zenon DEF __alloc
  <2> QED
    BY <2>1, RefuseOk, Zenon
<1>2. CASE ~(fit = {} \/ (n.size # size /\ n.addr \in short))
  <2>1. __alloc(h, size, short) = r
    BY <1>2, Zenon DEF __alloc
  <2>2. ks \in SUBSET Lists
    BY FreeAreaList, Zenon
  <2> HIDE DEF ks
  <2>3. \A q \in fit : q \in Places(h, ks) /\ q[1] \in Nat /\ q[2] \in Nat
    BY <2>2, PlacesAre, ZenonT(40)
  <2>4. p \in fit
    <3> HIDE DEF fit
    <3> QED
      BY <1>2, <2>3, FirstIs, Zenon
  <2>5. p \in Places(h, ks) /\ n.size >= size
    BY <2>4, Zenon
  <2> HIDE DEF fit, p
  <2>6. /\ p[2] \in 1 .. Len(l) /\ l \in Seq(FreeNodes(h.areas)) /\ IsInjective(l) /\ n \in FreeNodes(h.areas)
    BY <2>2, <2>5, PlacesAre, Zenon
  <2>7. l[p[2]] = n
    BY Zenon
  <2> HIDE DEF l, n
  <2>8. n.addr \in Nat /\ n.size \in Nat
    BY <2>6, FreeNodeIs, Zenon
  <2>9. size <= n.size /\ n.addr <= n.addr /\ n.addr < n.addr + n.size
    BY <2>5, <2>8
  <2>10. HandedOut(g, h, n, n.addr, size)
    BY <2>6, <2>9, AllocateOk, Zenon
  <2> HIDE DEF g
  <2>11. Granted(r, h, size)
    BY <2>6, <2>7, <2>8, <2>9, <2>10, RequestDone, Zenon
  <2> QED
    BY <2>1, <2>11, Zenon
<1> QED
  BY <1>1, <1>2, Zenon

(* The same for __memalign. *)
LEMMA MemalignOk ==
  ASSUME NEW h, HeapInv(h), NEW size \in Nat \ {0}, NEW align \in Nat \ {0}, NEW short
  PROVE  Granted(__memalign(h, size, align, short), h, size)
<1> DEFINE ks == {k \in Lists : \E j \in get_free_area_list(h, size) : j <= k}
           fit == {p \in Places(h, ks) :
                     LET n == h.free[p[1]][p[2]] IN
                       /\ AlignFits(n, align, size)
                       /\ n.addr \in short => AlignUp(n, align) = n.addr /\ n.size = size}
           p == First(fit)
           l == h.free[p[1]]
           n == l[p[2]]
           g == do_align_valloc(h, n, align, size)
           a == AlignUp(n, align)
           r == [heap |-> Resort(g, SubSeq(l, 1, p[2] - 1)), addr |-> a]
<1>1. CASE fit = {}
  <2>1. __memalign(h, size, align, short) = Refuse(h)
    BY <1>1, Zenon DEF __memalign
  <2> QED
    BY <2>1, RefuseOk, Zenon
<1>2. CASE fit # {}
  <2>1. __memalign(h, size, align, short) = r
    BY <1>2, Zenon DEF __memalign
  <2>2. ks \in SUBSET Lists
    BY Zenon
  <2> HIDE DEF ks
  <2>3. \A q \in fit : q \in Places(h, ks) /\ q[1] \in Nat /\ q[2] \in Nat
    BY <2>2, PlacesAre, Zenon
  <2>4. p \in fit
    <3> HIDE DEF fit
    <3> QED
      BY <1>2, <2>3, FirstIs, Zenon
  <2>5. p \in Places(h, ks) /\ AlignFits(n, align, size)
    BY <2>4, Zenon
  <2> HIDE DEF fit, p
  <2>6. /\ p[2] \in 1 .. Len(l) /\ l \in Seq(FreeNodes(h.areas)) /\ IsInjective(l) /\ n \in FreeNodes(h.areas)
    BY <2>2, <2>5, PlacesAre, Zenon
  <2>7. l[p[2]] = n
    BY Zenon
  <2> HIDE DEF l, n
  <2>8. n.addr \in Nat /\ n.size \in Nat
    BY <2>6, FreeNodeIs, Zenon
  <2>9. a \in Nat /\ n.addr <= a
    BY <2>8, AlignUpIs, Zenon
  <2>10. HandedOut(g, h, n, a, size)
    BY <2>5, <2>6, AlignVallocOk, Zenon
  <2>11. a + size <= n.addr + n.size
    BY <2>5, Zenon DEF AlignFits
  <2> HIDE DEF g, a
  <2>12. a < n.addr + n.size
    BY <2>8, <2>9, <2>11, SMTT(40)
  <2>13. Granted(r, h, size)
    BY <2>6, <2>7, <2>9, <2>10, <2>12, RequestDone, Zenon
  <2> QED
    BY <2>1, <2>13, Zenon
<1> QED
  BY <1>1, <1>2, Zenon

-----------------------------------------------------------------------------

(* The parts of an empty heap. *)
LEMMA EmptyParts ==
  /\ FreeNodes(<<>>) = {} /\ Taken(<<>>) = {}
  /\ \A lo, hi : Tiled(<<>>, lo, hi)
  /\ \A i : NoPairs(<<>>, 1, 0)
<1>1. Range(<<>>) = {}
  BY DEF Range
<1>2. FreeNodes(<<>>) = {} /\ Taken(<<>>) = {}
  BY <1>1, Zenon DEF FreeNodes, Taken
<1>3. \A lo, hi : Tiled(<<>>, lo, hi)
  <2>1. <<>> \in Seq(AreaType) /\ 1 .. Len(<<>>) = {}
    OBVIOUS
  <2> QED
    BY <2>1, Zenon DEF Tiled
<1>4. NoPairs(<<>>, 1, 0)
  BY DEF NoPairs
<1> QED
  BY <1>2, <1>3, <1>4, Zenon

(* The lists before the first initialisation are empty. *)
LEMMA NoListsParts ==
  /\ HeapShape(NoLists) /\ ListsOk(NoLists, {})
  /\ NoLists.areas = <<>> /\ NoLists.allocated = {} /\ NoLists.shm_size = 0
<1>1. /\ NoLists.areas = <<>> /\ NoLists.allocated = {} /\ NoLists.shm_size = 0
      /\ NoLists.free = [k \in Lists |-> <<>>] /\ NoLists.total = [k \in Lists |-> 0]
      /\ NoLists = [shm_size |-> NoLists.shm_size, areas |-> NoLists.areas, allocated |-> NoLists.allocated,
                    free |-> NoLists.free, total |-> NoLists.total]
  BY DEF NoLists
<1>2. HeapShape(NoLists)
  <2>1. [k \in Lists |-> <<>>] \in [Lists -> Seq(NodeType)] /\ [k \in Lists |-> 0] \in [Lists -> Int]
    OBVIOUS
  <2> QED
    BY <1>1, <2>1, Zenon DEF HeapShape
<1>3. ListsOk(NoLists, {})
  <2> SUFFICES ASSUME NEW k \in Lists PROVE ListOk(NoLists.free[k], NoLists.total[k], {n \in {} : get_list(n.size) = k})
    BY Zenon DEF ListsOk
  <2>1. NoLists.free[k] = <<>> /\ NoLists.total[k] = 0 /\ {n \in {} : get_list(n.size) = k} = {}
    BY <1>1, Zenon
  <2>2. <<>> \in Seq(NodeType) /\ Range(<<>>) = {} /\ IsInjective(<<>>) /\ Len(<<>>) = 0
    BY DEF Range, IsInjective
  <2>3. 0 = Total(SizesOf(<<>>))
    <3>1. SizesOf(<<>>) \in Seq(Nat) /\ Len(SizesOf(<<>>)) = Len(<<>>)
      BY <2>2, SizesSeq, Zenon
    <3> QED
      BY <2>2, <3>1, TotalNat, Zenon
  <2>4. ListOk(<<>>, 0, {})
    BY <2>2, <2>3, Zenon DEF ListOk
  <2> QED
    BY <2>1, <2>4, Zenon
<1> QED
  BY <1>1, <1>2, <1>3, Zenon

(* That heap is sound. *)
LEMMA NoListsOk == HeapInv(NoLists)
<1>1. /\ HeapShape(NoLists) /\ ListsOk(NoLists, {})
      /\ NoLists.areas = <<>> /\ NoLists.allocated = {} /\ NoLists.shm_size = 0
  BY NoListsParts, Zenon
<1>2. FreeNodes(<<>>) = {} /\ Taken(<<>>) = {} /\ Tiled(<<>>, Base, Base + NoLists.shm_size) /\ NoPairs(<<>>, 1, 0)
  BY EmptyParts, Zenon
<1>3. Len(<<>>) = 0
  OBVIOUS
<1> QED
  BY <1>1, <1>2, <1>3, Zenon DEF HeapInv

(* The last step of initialize, field by field. *)
LEMMA FreshIs ==
  ASSUME NEW f, HeapShape(f), NEW n, NEW b, NEW g, g = [f EXCEPT !.shm_size = n, !.areas = b]
  PROVE  g = [shm_size |-> n, areas |-> b, allocated |-> f.allocated, free |-> f.free, total |-> f.total]
  BY Zenon DEF HeapShape

(* The fields of the areas and nodes that are made. *)
LEMMA AreaIs ==
  ASSUME NEW a \in Nat \ {0}, NEW n \in Nat \ {0}, NEW t \in {0, 1}
  PROVE  /\ Area(a, n, t) \in AreaType /\ Area(a, n, t).addr = a /\ Area(a, n, t).size = n /\ Area(a, n, t).tag = t
         /\ End(Area(a, n, t)) = a + n
         /\ Node(a, n) \in NodeType /\ Node(a, n).addr = a /\ Node(a, n).size = n
  BY Zenon DEF Area, AreaType, End, Node, NodeType

(* initialize() leaves a sound heap, whatever was there before. *)
LEMMA InitializeOk ==
  ASSUME NEW size \in Nat \ {0}
  PROVE  HeapInv(initialize(size))
<1> DEFINE n == Node(Base, size)
           x == Area(Base, size, 0)
           f == AddFree(NoLists, n)
           g == [f EXCEPT !.shm_size = size, !.areas = <<x>>]
<1>1. initialize(size) = g
  BY Zenon DEF initialize
<1>2. /\ x \in AreaType /\ x.addr = Base /\ x.size = size /\ x.tag = 0
      /\ End(x) = Base + size
      /\ n \in NodeType
  BY ShmAssumption, AreaIs, ZenonT(40)
<1>3. n = Node(x.addr, x.size)
  BY <1>2, Zenon
<1> HIDE DEF n, x
<1>4. Kept(f, NoLists, {} \cup {n})
  BY <1>2, NoListsParts, AddFreeOk, Zenon
<1> HIDE DEF f
<1>5. HeapShape(f) /\ f.allocated = {} /\ ListsOk(f, {n})
  <2>1. {} \cup {n} = {n}
    BY Zenon
  <2> QED
    BY <1>4, <2>1, NoListsParts, Zenon DEF Kept, SameAreas
<1>6. g = [shm_size |-> size, areas |-> <<x>>, allocated |-> f.allocated, free |-> f.free, total |-> f.total]
  BY <1>5, FreshIs, Zenon
<1> HIDE DEF g
<1>7. /\ g.shm_size = size /\ g.areas = <<x>> /\ g.allocated = f.allocated /\ g.free = f.free /\ g.total = f.total
      /\ g = [shm_size |-> g.shm_size, areas |-> g.areas, allocated |-> g.allocated, free |-> g.free, total |-> g.total]
  BY <1>6
<1>8. HeapShape(g) /\ ListsOk(g, {n})
  BY <1>5, <1>7, Zenon DEF HeapShape, ListsOk
<1>9. /\ Range(<<x>>) = {x} /\ Tiled(<<x>>, x.addr, End(x)) /\ NoPairs(<<x>>, 1, Len(<<x>>))
  BY <1>2, OneArea, Zenon
<1>10. FreeNodes(<<x>>) = {n}
  BY <1>2, <1>3, <1>9, Zenon DEF FreeNodes
<1>11. Taken(<<x>>) = {}
  <2>1. 0 # 1
    OBVIOUS
  <2> QED
    BY <1>2, <1>9, <2>1, Zenon DEF Taken
<1>12. HeapInv(g)
  BY <1>2, <1>5, <1>7, <1>8, <1>9, <1>10, <1>11, Zenon DEF HeapInv
<1> QED
  BY <1>1, <1>12, Zenon

(* There is memory to manage in either way of initialising. *)
LEMMA PageSizes == HugePage - DspShared \in Nat \ {0} /\ HugePage \in Nat \ {0}
  BY ShmAssumption

-----------------------------------------------------------------------------
(* A sound heap tiles the segment, ... *)
LEMMA InvTiles == ASSUME HeapInv(heap) PROVE Tiles
<1> DEFINE a == heap.areas
<1>1. Tiled(a, Base, Base + heap.shm_size)
  BY Zenon DEF HeapInv
<1>2. DOMAIN a = 1 .. Len(a)
  BY <1>1, TiledMember, Zenon
<1>3. Areas # {} => a[1].addr = Base
  <2> SUFFICES ASSUME Areas # {} PROVE a # <<>>
    BY <1>1, Zenon DEF Tiled
  <2> QED
    BY DEF Areas
<1>4. ASSUME NEW i \in Areas
      PROVE  /\ a[i].size > 0
             /\ a[i].addr + a[i].size = IF i = Len(a) THEN Base + heap.shm_size ELSE a[i + 1].addr
  <2>1. i \in 1 .. Len(a)
    BY <1>2, Zenon DEF Areas
  <2>2. a[i] \in AreaType
    BY <1>1, <2>1, TiledMember, Zenon
  <2>3. a[i].size \in Nat \ {0}
    BY <2>2, AreaFields, Zenon
  <2>4. a[i].size > 0
    BY <2>3
  <2>5. End(a[i]) = IF i = Len(a) THEN Base + heap.shm_size ELSE a[i + 1].addr
    BY <1>1, <2>1, Zenon DEF Tiled
  <2> QED
    BY <2>4, <2>5, Zenon DEF End
<1> QED
  BY <1>3, <1>4, Zenon DEF Tiles

(* ... its free areas and allocated addresses are those of its global list,  *)
(* ...                                                                       *)
LEMMA AreaNodes ==
  ASSUME HeapInv(heap)
  PROVE  /\ FreeNodes(heap.areas) = {Node(heap.areas[i].addr, heap.areas[i].size) : i \in FreeAreas}
         /\ heap.allocated = {heap.areas[i].addr : i \in Areas \ FreeAreas}
<1> DEFINE a == heap.areas
<1>1. Tiled(a, Base, Base + heap.shm_size) /\ heap.allocated = Taken(a)
  BY Zenon DEF HeapInv
<1>2. Range(a) = {a[i] : i \in DOMAIN a}
  BY Zenon DEF Range
<1>3. FreeNodes(a) = {Node(a[i].addr, a[i].size) : i \in FreeAreas}
  BY <1>2, Zenon DEF FreeNodes, FreeAreas, Areas
<1>4. \A i \in DOMAIN a : a[i].tag = 1 <=> a[i].tag # 0
  <2> SUFFICES ASSUME NEW i \in DOMAIN a PROVE a[i].tag = 1 <=> a[i].tag # 0
    OBVIOUS
  <2>1. DOMAIN a = 1 .. Len(a)
    BY <1>1, TiledMember, Zenon
  <2>2. i \in 1 .. Len(a) /\ a \in Seq(AreaType)
    BY <1>1, <2>1, Zenon DEF Tiled
  <2>3. a[i].tag \in {0, 1}
    BY <2>2, MemberFields, Zenon
  <2> QED
    BY <2>3, SMTT(40)
<1>5. Taken(a) = {a[i].addr : i \in Areas \ FreeAreas}
  BY <1>2, <1>4, ZenonT(40) DEF Taken, FreeAreas, Areas
<1> QED
  BY <1>1, <1>3, <1>5, Zenon

(* ... its lists are exact, ... *)
LEMMA InvListsExact == ASSUME HeapInv(heap) PROVE ListsExact
<1>1. /\ FreeNodes(heap.areas) = {Node(heap.areas[i].addr, heap.areas[i].size) : i \in FreeAreas}
      /\ heap.allocated = {heap.areas[i].addr : i \in Areas \ FreeAreas}
  BY AreaNodes, Zenon
<1>2. ASSUME NEW k \in Lists
      PROVE  /\ Range(heap.free[k]) =
                  {Node(heap.areas[i].addr, heap.areas[i].size) :
                     i \in {i \in FreeAreas : get_list(heap.areas[i].size) = k}}
             /\ IsInjective(heap.free[k])
             /\ heap.total[k] = Total([i \in DOMAIN heap.free[k] |-> heap.free[k][i].size])
  <2> DEFINE M == {n \in FreeNodes(heap.areas) : get_list(n.size) = k}
  <2>1. ListOk(heap.free[k], heap.total[k], M)
    BY Zenon DEF HeapInv, ListsOk
  <2>2. Range(heap.free[k]) = M /\ IsInjective(heap.free[k]) /\ heap.total[k] = Total(SizesOf(heap.free[k]))
    BY <2>1, Zenon DEF ListOk
  <2>3. \A i : Node(heap.areas[i].addr, heap.areas[i].size).size = heap.areas[i].size
    BY DEF Node
  <2>4. M = {Node(heap.areas[i].addr, heap.areas[i].size) :
               i \in {i \in FreeAreas : get_list(heap.areas[i].size) = k}}
    BY <1>1, <2>3, Zenon
  <2> HIDE DEF M
  <2> QED
    BY <2>2, <2>4, Zenon DEF SizesOf
<1> QED
  BY <1>1, <1>2, Zenon DEF ListsExact

(* ... and no two neighbours are free. *)
LEMMA InvCoalesced == ASSUME HeapInv(heap) PROVE Coalesced
<1> DEFINE a == heap.areas
<1>1. NoPairs(a, 1, Len(a)) /\ Tiled(a, Base, Base + heap.shm_size)
  BY Zenon DEF HeapInv
<1>2. DOMAIN a = 1 .. Len(a) /\ Len(a) \in Nat
  BY <1>1, TiledMember, Zenon
<1> SUFFICES ASSUME NEW i \in FreeAreas, i + 1 \in FreeAreas PROVE FALSE
  BY Zenon DEF Coalesced
<1>3. i \in 1 .. Len(a) /\ i + 1 \in 1 .. Len(a) /\ a[i].tag = 0 /\ a[i + 1].tag = 0
  BY <1>2, Zenon DEF FreeAreas, Areas
<1>4. i \in 1 .. Len(a) - 1
  BY <1>2, <1>3, SMTT(40)
<1>5. a[i].tag = 1 \/ a[i + 1].tag = 1
  BY <1>1, <1>4, Zenon DEF NoPairs
<1>6. 0 # 1
  OBVIOUS
<1> QED
  BY <1>3, <1>5, <1>6, Zenon

-----------------------------------------------------------------------------
(* What the processes hold (d) against the heap h, unless the segment was    *)
(* initialised again under areas in use (m).                                 *)
Owned(h, d, m) ==
  /\ d \in [Procs -> SUBSET NodeType] /\ m \in BOOLEAN
  /\ ~m => /\ \A p \in Procs : \A n \in d[p] : Area(n.addr, n.size, 1) \in Range(h.areas)
           /\ \A p, q \in Procs : p # q => d[p] \cap d[q] = {}

(* The inductive invariant of the allocator and its users. *)
ShmInv == HeapInv(heap) /\ Owned(heap, held, mixed)

(* An initialisation under areas in use sets mixed. *)
LEMMA ForceInitOk ==
  ASSUME ShmInv, NEW size \in Nat \ {0}, ForceInit(size), UNCHANGED held
  PROVE  HeapInv(heap') /\ Owned(heap', held', mixed')
<1>1. HeapInv(heap')
  BY InitializeOk, Zenon DEF ForceInit
<1>2. held \in [Procs -> SUBSET NodeType] /\ mixed \in BOOLEAN
  BY Zenon DEF ShmInv, Owned
<1>3. mixed' = (mixed \/ \E p \in Procs : held[p] # {}) /\ held' = held
  BY Zenon DEF ForceInit
<1>4. mixed' \in BOOLEAN /\ (~mixed' => \A p \in Procs : held[p] = {})
  BY <1>2, <1>3, Zenon
<1>5. Owned(heap', held', mixed')
  BY <1>2, <1>3, <1>4, Zenon DEF Owned
<1> QED
  BY <1>1, <1>5, Zenon

(* The area a process is given is in use and nobody else has it. *)
LEMMA GiveOk ==
  ASSUME ShmInv, NEW p \in Procs, NEW size \in Nat \ {0}, NEW r, Granted(r, heap, size), Give(p, size, r)
  PROVE  HeapInv(heap') /\ Owned(heap', held', mixed')
<1> DEFINE x == Node(r.addr, size)
<1>1. HeapInv(heap') /\ heap' = r.heap /\ mixed' = mixed
  BY Zenon DEF Granted, Give
<1>2. /\ HeapInv(heap) /\ held \in [Procs -> SUBSET NodeType] /\ mixed \in BOOLEAN
      /\ ~mixed => /\ \A q \in Procs : \A n \in held[q] : Area(n.addr, n.size, 1) \in Range(heap.areas)
                   /\ \A q, o \in Procs : q # o => held[q] \cap held[o] = {}
  BY Zenon DEF ShmInv, Owned
<1>3. \A y \in Range(heap.areas) : y.tag = 1 => y \in Range(heap'.areas)
  BY <1>1, Zenon DEF Granted
<1>4. \A a, n : Area(a, n, 1).tag = 1
  BY DEF Area
<1>5. CASE r.addr = 0
  <2>1. held' = held
    BY <1>5, Zenon DEF Give
  <2> QED
    BY <1>1, <1>2, <1>3, <1>4, <2>1, Zenon DEF Owned
<1>6. CASE r.addr # 0
  <2>1. held' = [held EXCEPT ![p] = @ \cup {x}]
    BY <1>6, Zenon DEF Give
  <2>2. Area(r.addr, size, 1) \in Range(heap'.areas) /\ Area(r.addr, size, 1) \notin Range(heap.areas)
    BY <1>1, <1>6, Zenon DEF Granted
  <2>3. x \in NodeType /\ x.addr = r.addr /\ x.size = size
    <3>1. Tiled(heap'.areas, Base, Base + heap'.shm_size)
      BY <1>1, Zenon DEF HeapInv
    <3>2. Area(r.addr, size, 1) \in AreaType
      BY <2>2, <3>1, TiledMember, Zenon
    <3>3. r.addr \in Nat \ {0}
      BY <3>2, SMTT(40) DEF Area, AreaType
    <3> QED
      BY <3>3, SMTT(40) DEF NodeType, Node
  <2> HIDE DEF x
  <2>4. held' \in [Procs -> SUBSET NodeType]
    BY <1>2, <2>1, <2>3, SMTT(40)
  <2>5. /\ held'[p] = held[p] \cup {x}
        /\ \A q \in Procs : q # p => held'[q] = held[q]
    BY <1>2, <2>1, SMTT(40)
  <2>6. ASSUME ~mixed, NEW q \in Procs, NEW n \in held'[q]
        PROVE  Area(n.addr, n.size, 1) \in Range(heap'.areas)
    <3>1. CASE n \in held[q]
      BY <1>2, <1>3, <1>4, <2>6, <3>1, Zenon
    <3>2. CASE n = x
      BY <2>2, <2>3, <3>2, Zenon
    <3> QED
      BY <2>5, <2>6, <3>1, <3>2, Zenon
  <2>7. ASSUME ~mixed, NEW q \in Procs, x \in held[q] PROVE FALSE
    BY <1>2, <2>2, <2>3, <2>7, Zenon
  <2>8. ASSUME ~mixed, NEW q \in Procs, NEW o \in Procs, q # o PROVE held'[q] \cap held'[o] = {}
    <3>1. held[q] \cap held[o] = {} /\ x \notin held[q] /\ x \notin held[o]
      BY <1>2, <2>7, <2>8, Zenon
    <3>2. CASE q = p
      <4>1. held'[q] = held[q] \cup {x} /\ held'[o] = held[o]
        BY <2>5, <2>8, <3>2, Zenon
      <4> QED
        BY <3>1, <4>1, Zenon
    <3>3. CASE o = p
      <4>1. held'[o] = held[o] \cup {x} /\ held'[q] = held[q]
        BY <2>5, <2>8, <3>3, Zenon
      <4> QED
        BY <3>1, <4>1, Zenon
    <3>4. CASE q # p /\ o # p
      BY <2>5, <3>1, <3>4, Zenon
    <3> QED
      BY <3>2, <3>3, <3>4, Zenon
  <2>9. Owned(heap', held', mixed')
    BY <1>1, <1>2, <2>4, <2>6, <2>8, Zenon DEF Owned
  <2> QED
    BY <1>1, <2>9, Zenon
<1> QED
  BY <1>5, <1>6, Zenon

(* Freeing an area leaves those of all others in use. *)
LEMMA FreeStepOk ==
  ASSUME ShmInv, NEW p \in Procs, NEW n \in held[p], fsl_usmmgr_free(p, n)
  PROVE  HeapInv(heap') /\ Owned(heap', held', mixed')
<1>1. heap' = __free(heap, n.addr) /\ mixed' = mixed /\ held' = [held EXCEPT ![p] = @ \ {n}]
  BY Zenon DEF fsl_usmmgr_free
<1>2. /\ HeapInv(heap) /\ held \in [Procs -> SUBSET NodeType] /\ mixed \in BOOLEAN
      /\ ~mixed => /\ \A q \in Procs : \A m \in held[q] : Area(m.addr, m.size, 1) \in Range(heap.areas)
                   /\ \A q, o \in Procs : q # o => held[q] \cap held[o] = {}
  BY Zenon DEF ShmInv, Owned
<1>3. HeapInv(heap') /\ KeepsBut(heap', heap, n.addr)
  BY <1>1, <1>2, FreeOk, Zenon
<1>4. /\ held' \in [Procs -> SUBSET NodeType]
      /\ held'[p] = held[p] \ {n}
      /\ \A q \in Procs : q # p => held'[q] = held[q]
  BY <1>1, <1>2, SMTT(40)
<1>5. \A q \in Procs : held'[q] \subseteq held[q]
  BY <1>4, Zenon
<1>6. ASSUME ~mixed, NEW q \in Procs, NEW m \in held'[q]
      PROVE  Area(m.addr, m.size, 1) \in Range(heap'.areas)
  <2>1. m # n
    <3>1. CASE q = p
      BY <1>4, <1>6, <3>1, Zenon
    <3>2. CASE q # p
      <4>1. held[q] \cap held[p] = {}
        BY <1>2, <1>6, <3>2, Zenon
      <4> QED
        BY <1>5, <1>6, <4>1, Zenon
    <3> QED
      BY <3>1, <3>2, Zenon
  <2>2. m \in NodeType /\ n \in NodeType /\ m \in held[q]
    BY <1>2, <1>5, <1>6, Zenon
  <2>3. m = Node(m.addr, m.size) /\ n = Node(n.addr, n.size)
    BY <2>2, NodeFields, Zenon
  <2> DEFINE x == Area(m.addr, m.size, 1)
             y == Area(n.addr, n.size, 1)
  <2>4. x \in Range(heap.areas) /\ y \in Range(heap.areas)
    BY <1>2, <1>6, <2>2, Zenon
  <2>5. x.addr = m.addr /\ x.size = m.size /\ x.tag = 1 /\ y.addr = n.addr /\ y.size = n.size
    BY DEF Area
  <2> HIDE DEF x, y
  <2>6. x.addr # n.addr
    <3>1. Tiled(heap.areas, Base, Base + heap.shm_size)
      BY <1>2, Zenon DEF HeapInv
    <3>2. x.addr = y.addr => x = y
      BY <2>4, <3>1, TiledMember, ZenonT(40)
    <3> QED
      BY <2>1, <2>3, <2>5, <3>2, Zenon
  <2>7. x \in Range(heap'.areas)
    BY <1>3, <2>4, <2>5, <2>6, Zenon DEF KeepsBut
  <2> QED
    BY <2>7, Zenon DEF x
<1>7. ASSUME ~mixed, NEW q \in Procs, NEW o \in Procs, q # o PROVE held'[q] \cap held'[o] = {}
  <2>1. held[q] \cap held[o] = {}
    BY <1>2, <1>7, Zenon
  <2> QED
    BY <1>5, <2>1, Zenon
<1>8. Owned(heap', held', mixed')
  BY <1>1, <1>2, <1>4, <1>6, <1>7, Zenon DEF Owned
<1> QED
  BY <1>3, <1>8, Zenon

(* A process that ends leaves its areas in use, but nobody holds them. *)
LEMMA ExitOk ==
  ASSUME ShmInv, NEW p \in Procs, Exit(p)
  PROVE  HeapInv(heap') /\ Owned(heap', held', mixed')
<1>1. heap' = heap /\ mixed' = mixed /\ held' = [held EXCEPT ![p] = {}]
  BY Zenon DEF Exit
<1>2. /\ HeapInv(heap) /\ held \in [Procs -> SUBSET NodeType] /\ mixed \in BOOLEAN
      /\ ~mixed => /\ \A q \in Procs : \A m \in held[q] : Area(m.addr, m.size, 1) \in Range(heap.areas)
                   /\ \A q, o \in Procs : q # o => held[q] \cap held[o] = {}
  BY Zenon DEF ShmInv, Owned
<1>3. /\ held' \in [Procs -> SUBSET NodeType]
      /\ \A q \in Procs : held'[q] \subseteq held[q]
  BY <1>1, <1>2, SMTT(40)
<1>4. Owned(heap', held', mixed')
  BY <1>1, <1>2, <1>3, Zenon DEF Owned
<1> QED
  BY <1>1, <1>2, <1>4, Zenon

(* The invariant holds at first and every step keeps it. *)
LEMMA ShmInvInductive ==
  /\ ShmInit => ShmInv
  /\ ShmInv /\ [ShmNext]_shmVars => ShmInv'
<1>1. ASSUME ShmInit PROVE ShmInv
  <2>1. heap = NoLists /\ held = [p \in Procs |-> {}] /\ mixed = FALSE
    BY <1>1, Zenon DEF ShmInit
  <2>2. HeapInv(heap)
    BY <2>1, NoListsOk, Zenon
  <2>3. held \in [Procs -> SUBSET NodeType] /\ \A p \in Procs : held[p] = {}
    BY <2>1, SMTT(40)
  <2>4. Owned(heap, held, mixed)
    BY <2>1, <2>3, Zenon DEF Owned
  <2> QED
    BY <2>2, <2>4, Zenon DEF ShmInv
<1>2. ASSUME ShmInv, [ShmNext]_shmVars PROVE ShmInv'
  <2> SUFFICES HeapInv(heap') /\ Owned(heap', held', mixed')
    BY Zenon DEF ShmInv
  <2>a. HeapInv(heap)
    BY <1>2, Zenon DEF ShmInv
  <2>b. Sizes \subseteq Nat \ {0} /\ Aligns \subseteq Nat \ {0}
    BY ShmAssumption, Zenon
  <2>1. CASE BootInit
    <3>1. ForceInit(HugePage - DspShared) /\ UNCHANGED held
      BY <2>1, Zenon DEF BootInit
    <3> QED
      BY <1>2, <3>1, PageSizes, ForceInitOk, Zenon
  <2>2. ASSUME NEW p \in Procs, NEW works \in BOOLEAN, UsmmgrInit(p, works)
        PROVE  HeapInv(heap') /\ Owned(heap', held', mixed')
    <3>1. ForceInit(HugePage) /\ UNCHANGED held
      BY <2>2, Zenon DEF UsmmgrInit
    <3> QED
      BY <1>2, <3>1, PageSizes, ForceInitOk, Zenon
  <2>3. ASSUME NEW p \in Procs, NEW size \in Sizes, fsl_usmmgr_alloc(p, size)
        PROVE  HeapInv(heap') /\ Owned(heap', held', mixed')
    <3>1. PICK short \in Shortages : Give(p, size, __alloc(heap, size, short))
      BY <2>3, Zenon DEF fsl_usmmgr_alloc
    <3>2. Granted(__alloc(heap, size, short), heap, size)
      BY <2>a, <2>b, AllocOk, Zenon
    <3> QED
      BY <1>2, <2>b, <3>1, <3>2, GiveOk, Zenon
  <2>4. ASSUME NEW p \in Procs, NEW size \in Sizes, NEW align \in Aligns, fsl_usmmgr_memalign(p, size, align)
        PROVE  HeapInv(heap') /\ Owned(heap', held', mixed')
    <3>1. PICK short \in Shortages : Give(p, size, __memalign(heap, size, align, short))
      BY <2>4, Zenon DEF fsl_usmmgr_memalign
    <3>2. Granted(__memalign(heap, size, align, short), heap, size)
      BY <2>a, <2>b, MemalignOk, Zenon
    <3> QED
      BY <1>2, <2>b, <3>1, <3>2, GiveOk, Zenon
  <2>5. ASSUME NEW p \in Procs, NEW n \in held[p], fsl_usmmgr_free(p, n)
        PROVE  HeapInv(heap') /\ Owned(heap', held', mixed')
    BY <1>2, <2>5, FreeStepOk, Zenon
  <2>6. ASSUME NEW p \in Procs, Exit(p)
        PROVE  HeapInv(heap') /\ Owned(heap', held', mixed')
    BY <1>2, <2>6, ExitOk, Zenon
  <2>7. CASE UNCHANGED shmVars
    BY <1>2, <2>7, Zenon DEF ShmInv, shmVars
  <2> QED
    BY <1>2, <2>1, <2>2, <2>3, <2>4, <2>5, <2>6, <2>7, Zenon DEF ShmNext
<1> QED
  BY <1>1, <1>2, Zenon

(* In every state the global list tiles the segment, the free lists, their   *)
(* totals and the allocated addresses agree with it, and no two neighbours   *)
(* are free: for any segment, list sizes, requests and alignments, however   *)
(* often and by whom it is initialised, and wherever kmalloc fails in        *)
(* __alloc, __memalign and __free.                                           *)
THEOREM HeapSoundTheorem == ShmSpec => []HeapSound
<1>1. ShmInv => HeapSound
  BY InvTiles, InvListsExact, InvCoalesced, Zenon DEF ShmInv, HeapSound
<1> QED
  BY <1>1, ShmInvInductive, PTL DEF ShmSpec

(* Areas in use that are different have no address in common. *)
LEMMA InvOwners == ASSUME ShmInv PROVE OwnersDisjoint
<1> DEFINE a == heap.areas
<1> SUFFICES ASSUME ~mixed, NEW g \in Holdings, NEW h \in Holdings
             PROVE  /\ g # h => ~Overlap(g[2], h[2])
                    /\ \E i \in Areas : a[i] = Area(g[2].addr, g[2].size, 1)
  BY Zenon DEF OwnersDisjoint
<1>1. /\ Tiled(a, Base, Base + heap.shm_size) /\ held \in [Procs -> SUBSET NodeType]
      /\ \A p \in Procs : \A n \in held[p] : Area(n.addr, n.size, 1) \in Range(a)
      /\ \A p, q \in Procs : p # q => held[p] \cap held[q] = {}
  BY Zenon DEF ShmInv, Owned, HeapInv
<1>2. ASSUME NEW x \in Holdings
      PROVE  /\ x = <<x[1], x[2]>> /\ x[1] \in Procs /\ x[2] \in held[x[1]] /\ x[2] \in NodeType
             /\ \E i \in 1 .. Len(a) : a[i] = Area(x[2].addr, x[2].size, 1)
  <2>1. PICK p \in Procs : x \in {p} \X held[p]
    BY Zenon DEF Holdings
  <2>2. x = <<x[1], x[2]>> /\ x[1] = p /\ x[2] \in held[p]
    BY <2>1
  <2>3. x[2] \in NodeType /\ Area(x[2].addr, x[2].size, 1) \in Range(a)
    BY <1>1, <2>2
  <2>4. \E i \in 1 .. Len(a) : a[i] = Area(x[2].addr, x[2].size, 1)
    <3>1. \A y \in Range(a) : \E i \in 1 .. Len(a) : a[i] = y
      BY <1>1, TiledMember, Zenon
    <3> QED
      BY <2>3, <3>1, Zenon
  <2> QED
    BY <2>2, <2>3, <2>4, Zenon
<1>3. PICK i \in 1 .. Len(a) : a[i] = Area(g[2].addr, g[2].size, 1)
  BY <1>2, Zenon
<1>4. PICK j \in 1 .. Len(a) : a[j] = Area(h[2].addr, h[2].size, 1)
  BY <1>2, Zenon
<1>5. ASSUME g # h PROVE ~Overlap(g[2], h[2])
  <2> DEFINE m == g[2]
             n == h[2]
  <2>1. /\ g = <<g[1], g[2]>> /\ g[1] \in Procs /\ m \in held[g[1]] /\ m \in NodeType
        /\ h = <<h[1], h[2]>> /\ h[1] \in Procs /\ n \in held[h[1]] /\ n \in NodeType
    BY <1>2, Zenon
  <2>2. m # n
    <3> SUFFICES ASSUME m = n PROVE FALSE
      BY Zenon
    <3>1. g[1] # h[1]
      BY <1>5, <2>1, Zenon
    <3>2. held[g[1]] \cap held[h[1]] = {}
      BY <1>1, <2>1, <3>1, Zenon
    <3> QED
      BY <2>1, <3>2, Zenon
  <2> HIDE DEF m, n
  <2>3. /\ m = Node(m.addr, m.size) /\ n = Node(n.addr, n.size)
        /\ m.addr \in Nat /\ m.size \in Nat /\ n.addr \in Nat /\ n.size \in Nat
    BY <2>1, NodeFields, Zenon
  <2>4. a[i].addr = m.addr /\ a[i].size = m.size /\ a[j].addr = n.addr /\ a[j].size = n.size
    BY <1>3, <1>4, SMTT(40) DEF Area, m, n
  <2>5. i # j
    BY <2>2, <2>3, <2>4, Zenon
  <2>6. End(a[i]) <= a[j].addr \/ End(a[j]) <= a[i].addr
    BY <1>1, <2>5, TiledApart, Zenon
  <2>7. m.addr + m.size <= n.addr \/ n.addr + n.size <= m.addr
    BY <2>4, <2>6, Zenon DEF End
  <2>8. ~(m.addr < n.addr + n.size /\ n.addr < m.addr + m.size)
    BY <2>3, <2>7, SMTT(40)
  <2> QED
    BY <2>8, Zenon DEF Overlap, m, n
<1>6. \E k \in Areas : a[k] = Area(g[2].addr, g[2].size, 1)
  <2>1. DOMAIN a = 1 .. Len(a)
    BY <1>1, TiledMember, Zenon
  <2> QED
    BY <1>3, <2>1, Zenon DEF Areas
<1> QED
  BY <1>5, <1>6, Zenon

(* Unless initialize() ran under areas in use, no two areas that processes   *)
(* hold overlap, and each is an allocated area of the size it was asked for: *)
(* __alloc and __memalign never hand out what is in use, and __free of one   *)
(* area merges with none of them.                                            *)
THEOREM OwnersDisjointTheorem == ShmSpec => []OwnersDisjoint
<1>1. ShmInv => OwnersDisjoint
  BY InvOwners, Zenon
<1> QED
  BY <1>1, ShmInvInductive, PTL DEF ShmSpec

(* A request is served if a list it searches holds a node that is big        *)
(* enough.                                                                   *)
LEMMA ServedIfListed ==
  ASSUME NEW h, HeapInv(h), NEW size \in Nat \ {0},
         NEW k \in get_free_area_list(h, size), NEW i \in 1 .. Len(h.free[k]), h.free[k][i].size >= size
  PROVE  __alloc(h, size, {}).addr # 0
<1> DEFINE ks == get_free_area_list(h, size)
           fit == {p \in Places(h, ks) : h.free[p[1]][p[2]].size >= size}
           p == First(fit)
           n == h.free[p[1]][p[2]]
           r == [heap |-> Resort(allocate_free_area(h, n, size), SubSeq(h.free[p[1]], 1, p[2] - 1)),
                 addr |-> n.addr]
<1>1. ks \in SUBSET Lists
  BY FreeAreaList, Zenon
<1>2. fit # {}
  <2> DEFINE q == <<k, i>>
  <2>1. h.free[k] \in Seq(NodeType)
    BY <1>1, Zenon DEF HeapInv, HeapShape
  <2>2. i \in DOMAIN h.free[k]
    BY <2>1
  <2>3. q \in {k} \X DOMAIN h.free[k] /\ q[1] = k /\ q[2] = i
    BY <2>2
  <2> HIDE DEF q
  <2>4. q \in Places(h, ks)
    BY <2>3, Zenon DEF Places
  <2> QED
    BY <2>3, <2>4, Zenon
<1>3. __alloc(h, size, {}) = r
  <2>1. ~(fit = {} \/ (n.size # size /\ n.addr \in {}))
    BY <1>2, Zenon
  <2> QED
    BY <2>1, Zenon DEF __alloc
<1> HIDE DEF ks
<1>4. \A q \in fit : q \in Places(h, ks) /\ q[1] \in Nat /\ q[2] \in Nat
  BY <1>1, PlacesAre, Zenon
<1>5. p \in fit
  <2> HIDE DEF fit
  <2> QED
    BY <1>2, <1>4, FirstIs, Zenon
<1>6. p \in Places(h, ks)
  BY <1>5, Zenon
<1> HIDE DEF fit, p
<1>7. n \in FreeNodes(h.areas)
  BY <1>1, <1>6, PlacesAre, Zenon
<1>8. n.addr \in Nat \ {0}
  BY <1>7, FreeNodeIs, ZenonT(40)
<1>9. r.addr = n.addr
  BY Zenon
<1> HIDE DEF n, r
<1>10. r.addr # 0
  BY <1>8, <1>9
<1> QED
  BY <1>3, <1>10, Zenon

(* What list k of a sound heap holds. *)
Listed(h, k) ==
  LET l == h.free[k] IN
  /\ l \in Seq(NodeType) /\ Len(l) \in Nat
  /\ \A i \in 1 .. Len(l) : get_list(l[i].size) = k /\ l[i].size \in Nat /\ l[i].size <= h.total[k]
  /\ \A n \in FreeNodes(h.areas) : get_list(n.size) = k => \E i \in 1 .. Len(l) : l[i] = n
  /\ h.total[k] \in Nat /\ (Len(l) = 0 => h.total[k] = 0)

(* No member of a sequence exceeds the total. *)
LEMMA TotalBounds ==
  ASSUME NEW t \in Seq(Nat), NEW i \in 1 .. Len(t)
  PROVE  t[i] <= Total(t)
<1> DEFINE s == [j \in 1 .. Len(t) - 1 |-> IF j < i THEN t[j] ELSE t[j + 1]]
<1>1. s \in Seq(Nat) /\ Len(s) = Len(t) - 1
  OBVIOUS
<1>2. \A j \in 1 .. i - 1 : s[j] = t[j]
  OBVIOUS
<1>3. \A j \in i .. Len(t) - 1 : s[j] = t[j + 1]
  OBVIOUS
<1> HIDE DEF s
<1>4. Total(t) = Total(s) + t[i]
  BY <1>1, <1>2, <1>3, TotalRemove, Zenon
<1>5. Total(s) \in Nat /\ t[i] \in Nat
  BY <1>1, TotalNat
<1> QED
  BY <1>4, <1>5

(* The members of a list have its sizes and none exceeds its total. *)
LEMMA ListMember ==
  ASSUME NEW h, HeapInv(h), NEW k \in Lists
  PROVE  Listed(h, k)
<1> DEFINE l == h.free[k]
           M == {n \in FreeNodes(h.areas) : get_list(n.size) = k}
           s == SizesOf(l)
<1>1. ListOk(l, h.total[k], M)
  BY Zenon DEF HeapInv, ListsOk
<1>2. l \in Seq(NodeType) /\ Range(l) = M /\ h.total[k] = Total(s)
  BY <1>1, Zenon DEF ListOk
<1> HIDE DEF l, s
<1>3. s \in Seq(Nat) /\ Len(s) = Len(l) /\ \A i \in 1 .. Len(l) : s[i] = l[i].size
  BY <1>2, SizesSeq, Zenon DEF s
<1>4. DOMAIN l = 1 .. Len(l) /\ Len(l) \in Nat
  BY <1>2
<1>5. Total(s) \in Nat /\ (Len(s) = 0 => Total(s) = 0)
  BY <1>3, TotalNat, Zenon
<1>6. ASSUME NEW i \in 1 .. Len(l)
      PROVE  get_list(l[i].size) = k /\ l[i].size \in Nat /\ l[i].size <= h.total[k]
  <2>1. l[i] \in Range(l)
    BY <1>4, Zenon DEF Range
  <2>2. get_list(l[i].size) = k
    BY <1>2, <2>1, Zenon
  <2>3. l[i] \in NodeType
    BY <1>2
  <2>4. l[i].size \in Nat
    BY <2>3, NodeFields, Zenon
  <2>5. s[i] <= Total(s)
    BY <1>3, TotalBounds, Zenon
  <2> QED
    BY <1>2, <1>3, <2>2, <2>4, <2>5, Zenon
<1>7. ASSUME NEW n \in FreeNodes(h.areas), get_list(n.size) = k PROVE \E i \in 1 .. Len(l) : l[i] = n
  <2>1. n \in Range(l)
    BY <1>2, <1>7, Zenon
  <2> QED
    BY <1>4, <2>1, Zenon DEF Range
<1> QED
  BY <1>2, <1>3, <1>4, <1>5, <1>6, <1>7, Zenon DEF Listed, l

(* With a free area above MAX_FREE_SIZE_LIST the last list promises enough. *)
LEMMA LargestList ==
  ASSUME NEW h, HeapInv(h), NEW size \in Nat \ {0}, size <= MAX_FREE_SIZE_LIST,
         NEW n \in FreeNodes(h.areas), n.size \in Nat, n.size > size, n.size > MAX_FREE_SIZE_LIST
  PROVE  NUMBER_OF_LISTS \in Promising(h, size)
<1> DEFINE K == NUMBER_OF_LISTS
           l == h.free[K]
           z == l[Len(l)]
<1>1. K \in Lists /\ K \in Nat /\ MIN_FREE_SIZE_LIST \in Nat \ {0} /\ MAX_FREE_SIZE_LIST = MIN_FREE_SIZE_LIST * K
  BY ShmAssumption, SMTT(40) DEF Lists, MAX_FREE_SIZE_LIST
<1>2. /\ l \in Seq(NodeType) /\ Len(l) \in Nat
      /\ \A i \in 1 .. Len(l) : get_list(l[i].size) = K /\ l[i].size \in Nat /\ l[i].size <= h.total[K]
      /\ \A m \in FreeNodes(h.areas) : get_list(m.size) = K => \E i \in 1 .. Len(l) : l[i] = m
      /\ h.total[K] \in Nat
  <2>1. Listed(h, K)
    BY <1>1, ListMember, Zenon
  <2> QED
    BY <2>1, Zenon DEF Listed
<1>3. get_list(n.size) = K
  BY GetList, Zenon
<1>4. PICK i \in 1 .. Len(l) : l[i] = n
  BY <1>2, <1>3, Zenon
<1>5. h.total[K] > size
  <2>1. n.size <= h.total[K] /\ h.total[K] \in Nat
    BY <1>2, <1>4, Zenon
  <2> QED
    BY <2>1
<1>6. Len(l) \in 1 .. Len(l)
  <2>1. Len(l) \in Nat
    BY <1>2, Zenon
  <2> HIDE DEF l
  <2> QED
    BY <2>1
<1>7. get_list(z.size) = K /\ z.size \in Nat
  BY <1>2, <1>6, Zenon
<1> HIDE DEF z
<1>8. z.size >= MAX_FREE_SIZE_LIST
  BY <1>7, GetList, Zenon
<1>9. z.size >= size
  <2>1. MAX_FREE_SIZE_LIST \in Nat
    BY <1>1
  <2> QED
    BY <1>7, <1>8, <2>1, SMTT(40)
<1>10. size \div MIN_FREE_SIZE_LIST \in Nat /\ size \div MIN_FREE_SIZE_LIST <= K
  BY <1>1, DivLists, Zenon
<1>11. K \in size \div MIN_FREE_SIZE_LIST .. K
  BY <1>1, <1>10, SMTT(40)
<1> QED
  BY <1>5, <1>9, <1>11, Zenon DEF Promising, z

(* So a smaller request is served. *)
LEMMA LargeAlloc ==
  ASSUME NEW h, HeapInv(h), NEW size \in Nat \ {0},
         NEW n \in FreeNodes(h.areas), n.size \in Nat, n.size > size, n.size > MAX_FREE_SIZE_LIST
  PROVE  __alloc(h, size, {}).addr # 0
<1> DEFINE K == NUMBER_OF_LISTS
<1>0. K \in Lists /\ K \in Nat /\ MAX_FREE_SIZE_LIST \in Nat /\ MIN_FREE_SIZE_LIST \in Nat \ {0}
  BY ShmAssumption DEF Lists, MAX_FREE_SIZE_LIST
<1>1. CASE size > MAX_FREE_SIZE_LIST
  <2>1. K \in get_free_area_list(h, size)
    BY <1>1, Zenon DEF get_free_area_list
  <2>2. get_list(n.size) = K
    BY GetList, Zenon
  <2>3. \A m \in FreeNodes(h.areas) : get_list(m.size) = K => \E i \in 1 .. Len(h.free[K]) : h.free[K][i] = m
    <3>1. Listed(h, K)
      BY <1>0, ListMember, Zenon
    <3> QED
      BY <3>1, Zenon DEF Listed
  <2>4. PICK i \in 1 .. Len(h.free[K]) : h.free[K][i] = n
    BY <2>2, <2>3, Zenon
  <2>5. n.size >= size
    OBVIOUS
  <2>6. h.free[K][i].size >= size
    BY <2>4, <2>5, Zenon
  <2> QED
    BY <2>1, <2>6, ServedIfListed, Zenon
<1>2. CASE ~(size > MAX_FREE_SIZE_LIST)
  <2> DEFINE P == Promising(h, size)
  <2>1. size <= MAX_FREE_SIZE_LIST
    BY <1>0, <1>2, SMTT(40)
  <2>2. K \in P
    BY <2>1, LargestList, Zenon
  <2>3. size \div MIN_FREE_SIZE_LIST \in Nat
    BY <1>0, DivLists, Zenon
  <2>4. size \div MIN_FREE_SIZE_LIST .. K \subseteq Nat /\ size \div MIN_FREE_SIZE_LIST .. K \subseteq Lists
    BY <1>0, <2>3, SMTT(40) DEF Lists
  <2>5. P \subseteq Nat /\ P \subseteq Lists
    BY <2>4, Zenon DEF Promising
  <2>6. \A k \in P : h.total[k] > size /\ h.free[k][Len(h.free[k])].size >= size
    BY Zenon DEF Promising
  <2> HIDE DEF P
  <2>7. P # {}
    BY <2>2, Zenon
  <2>8. PICK k \in P : \A j \in P : k <= j
    BY <2>5, <2>7, LeastNat, Zenon
  <2>9. k \in get_free_area_list(h, size)
    BY <1>2, <2>8, Zenon DEF get_free_area_list, P
  <2>10. Len(h.free[k]) \in Nat /\ h.total[k] \in Nat /\ (Len(h.free[k]) = 0 => h.total[k] = 0)
    BY <2>5, ListMember, Zenon DEF Listed
  <2>11. h.total[k] > size /\ h.free[k][Len(h.free[k])].size >= size
    BY <2>6, Zenon
  <2>12. Len(h.free[k]) \in 1 .. Len(h.free[k])
    <3> DEFINE c == Len(h.free[k])
               t == h.total[k]
    <3>1. c \in Nat /\ t \in Nat /\ (c = 0 => t = 0) /\ t > size
      BY <2>10, <2>11, Zenon
    <3> HIDE DEF c, t
    <3>2. c \in 1 .. c
      BY <3>1, SMTT(40)
    <3> QED
      BY <3>2, Zenon DEF c
  <2> QED
    BY <2>9, <2>11, <2>12, ServedIfListed, Zenon
<1> QED
  BY <1>1, <1>2, Zenon

(* While there is a free area above MAX_FREE_SIZE_LIST, __alloc serves every *)
(* smaller request: get_free_area_list never overlooks the last list, and    *)
(* the total in its head never promises too little.                          *)
THEOREM LargeServedTheorem == ShmSpec => []LargeServed
<1>1. ShmInv => LargeServed
  <2> SUFFICES ASSUME ShmInv, NEW size \in Sizes, NEW i \in FreeAreas,
                      heap.areas[i].size > size, heap.areas[i].size > MAX_FREE_SIZE_LIST
               PROVE  __alloc(heap, size, {}).addr # 0
    BY Zenon DEF LargeServed
  <2> DEFINE n == Node(heap.areas[i].addr, heap.areas[i].size)
  <2>1. HeapInv(heap) /\ Tiled(heap.areas, Base, Base + heap.shm_size)
    BY Zenon DEF ShmInv, HeapInv
  <2>2. FreeNodes(heap.areas) = {Node(heap.areas[j].addr, heap.areas[j].size) : j \in FreeAreas}
    BY <2>1, AreaNodes, Zenon
  <2>3. n \in FreeNodes(heap.areas)
    BY <2>2, Zenon
  <2>4. n.size = heap.areas[i].size
    BY DEF Node
  <2> HIDE DEF n
  <2>5. n.size \in Nat
    BY <2>1, <2>3, FreeNodeIs, Zenon
  <2>6. n.size > size /\ n.size > MAX_FREE_SIZE_LIST
    BY <2>4, Zenon
  <2>7. size \in Nat \ {0}
    BY ShmAssumption, Zenon
  <2> QED
    BY <2>1, <2>3, <2>5, <2>6, <2>7, LargeAlloc, Zenon
<1> QED
  BY <1>1, ShmInvInductive, PTL DEF ShmSpec
=============================================================================
