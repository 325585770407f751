----------------------------- MODULE HeapLemmas -----------------------------
(***************************************************************************)
(* Lemmas about the heap of the shared-memory allocator (ShmAlloc): free   *)
(* lists and their totals, areas that tile the segment, what AddFree,      *)
(* RemoveFree and Replace make of them, and that __free with its two       *)
(* merges and carving a request out of a free area (Allocate, AlignValloc) *)
(* leave a sound heap (HeapInv).                                           *)
(***************************************************************************)
EXTENDS ShmAlloc, TotalsProofs

AreaType == [addr : Nat \ {0}, size : Nat \ {0}, tag : {0, 1}]

NodeType == [addr : Nat \ {0}, size : Nat \ {0}]

(* Two sequences, one after the other. *)
LEMMA Joined ==
  ASSUME NEW T, NEW r \in Seq(T), NEW q \in Seq(T)
  PROVE  /\ r \o q \in Seq(T) /\ Len(r \o q) = Len(r) + Len(q)
         /\ \A m \in 1 .. Len(r) : (r \o q)[m] = r[m]
         /\ \A m \in Len(r) + 1 .. Len(r) + Len(q) : (r \o q)[m] = q[m - Len(r)]
<1>1. r \o q \in Seq(T) /\ Len(r \o q) = Len(r) + Len(q)
  OBVIOUS
<1>2. \A m \in 1 .. Len(r) : (r \o q)[m] = r[m]
  OBVIOUS
<1>3. \A m \in Len(r) + 1 .. Len(r) + Len(q) : (r \o q)[m] = q[m - Len(r)]
  OBVIOUS
<1> QED
  BY <1>1, <1>2, <1>3, Zenon

(* b is l with s in the place of i to j. *)
SplicedAs(b, T, l, i, j, s) ==
  /\ b \in Seq(T)
  /\ Len(b) = Len(l) - (j - i + 1) + Len(s)
  /\ \A m \in 1 .. i - 1 : b[m] = l[m]
  /\ \A m \in i .. i - 1 + Len(s) : b[m] = s[m - i + 1]
  /\ \A m \in i + Len(s) .. Len(b) : b[m] = l[m + (j - i + 1) - Len(s)]

(* What is where in a list after a splice. *)
LEMMA SpliceIs ==
  ASSUME NEW T, NEW l \in Seq(T), NEW s \in Seq(T), NEW i \in 1 .. Len(l), NEW j \in i .. Len(l)
  PROVE  SplicedAs(Splice(l, i, j, s), T, l, i, j, s)
<1> DEFINE p == SubSeq(l, 1, i - 1)
           q == SubSeq(l, j + 1, Len(l))
           b == (p \o s) \o q
<1>1. /\ p \in Seq(T) /\ Len(p) = i - 1
      /\ \A m \in 1 .. i - 1 : p[m] = l[m]
  OBVIOUS
<1>2. /\ q \in Seq(T) /\ Len(q) = Len(l) - j
      /\ \A m \in 1 .. Len(l) - j : q[m] = l[m + j]
  OBVIOUS
<1> HIDE DEF p, q
<1>3. /\ p \o s \in Seq(T) /\ Len(p \o s) = i - 1 + Len(s)
      /\ \A m \in 1 .. i - 1 : (p \o s)[m] = p[m]
      /\ \A m \in i .. i - 1 + Len(s) : (p \o s)[m] = s[m - i + 1]
  <2>1. Len(s) \in Nat /\ Len(p) + 1 = i /\ Len(p) = i - 1
    BY <1>1
  <2>2. \A m \in i .. i - 1 + Len(s) : m \in Len(p) + 1 .. Len(p) + Len(s) /\ m - Len(p) = m - i + 1
    BY <2>1
  <2>3. p \in Seq(T)
    BY <1>1, Zenon
  <2>4. /\ p \o s \in Seq(T) /\ Len(p \o s) = Len(p) + Len(s)
        /\ \A m \in 1 .. Len(p) : (p \o s)[m] = p[m]
        /\ \A m \in Len(p) + 1 .. Len(p) + Len(s) : (p \o s)[m] = s[m - Len(p)]
    BY <2>3, Joined, Zenon
  <2> QED
    BY <2>1, <2>2, <2>4, ZenonT(40)
<1> DEFINE r == p \o s
<1>4. r \in Seq(T) /\ Len(r) = i - 1 + Len(s) /\ Len(r) \in Nat /\ Len(s) \in Nat /\ Len(l) \in Nat
  BY <1>3
<1> HIDE DEF r
<1>5. /\ r \o q \in Seq(T) /\ Len(r \o q) = Len(r) + Len(q)
      /\ \A m \in 1 .. Len(r) : (r \o q)[m] = r[m]
      /\ \A m \in Len(r) + 1 .. Len(r) + Len(q) : (r \o q)[m] = q[m - Len(r)]
  <2>1. r \in Seq(T) /\ q \in Seq(T)
    BY <1>2, <1>4, Zenon
  <2> QED
    BY <2>1, Joined, Zenon
<1>6. b = r \o q
  BY Zenon DEF r
<1>7. Splice(l, i, j, s) = b
  BY Zenon DEF Splice, p, q
<1> HIDE DEF b
<1>8. b \in Seq(T) /\ Len(b) = Len(l) - (j - i + 1) + Len(s)
  BY <1>2, <1>4, <1>5, <1>6
<1>9. ASSUME NEW m \in 1 .. i - 1 PROVE b[m] = l[m]
  <2>1. m \in 1 .. Len(r)
    BY <1>4
  <2> QED
    BY <1>1, <1>3, <1>5, <1>6, <2>1, Zenon DEF r
<1>10. ASSUME NEW m \in i .. i - 1 + Len(s) PROVE b[m] = s[m - i + 1]
  <2>1. m \in 1 .. Len(r)
    BY <1>4
  <2> QED
    BY <1>3, <1>5, <1>6, <2>1, Zenon DEF r
<1>11. ASSUME NEW m \in i + Len(s) .. Len(b) PROVE b[m] = l[m + (j - i + 1) - Len(s)]
  <2>1. /\ m \in Len(r) + 1 .. Len(r) + Len(q) /\ m - Len(r) \in 1 .. Len(l) - j
        /\ m - Len(r) + j = m + (j - i + 1) - Len(s)
    BY <1>2, <1>4, <1>8
  <2>2. b[m] = q[m - Len(r)]
    BY <1>5, <1>6, <2>1, Zenon
  <2>3. q[m - Len(r)] = l[m - Len(r) + j]
    BY <1>2, <2>1, Zenon
  <2> QED
    BY <2>1, <2>2, <2>3, Zenon
<1>12. SplicedAs(b, T, l, i, j, s)
  BY <1>8, <1>9, <1>10, <1>11, Zenon DEF SplicedAs
<1> QED
  BY <1>7, <1>12, Zenon

-----------------------------------------------------------------------------
(* The address after an area. *)
End(x) == x.addr + x.size

(* The areas of a follow each other from lo to hi. *)
Tiled(a, lo, hi) ==
  /\ a \in Seq(AreaType)
  /\ a # <<>> => a[1].addr = lo
  /\ \A i \in 1 .. Len(a) : End(a[i]) = IF i = Len(a) THEN hi ELSE a[i + 1].addr

(* The fields of an area. *)
LEMMA AreaFields ==
  ASSUME NEW x \in AreaType
  PROVE  /\ x.addr \in Nat \ {0} /\ x.size \in Nat \ {0} /\ x.tag \in {0, 1}
         /\ x = Area(x.addr, x.size, x.tag)
         /\ End(x) \in Nat /\ x.addr < End(x)
<1>1. x.addr \in Nat \ {0} /\ x.size \in Nat \ {0} /\ x.tag \in {0, 1}
  BY Zenon DEF AreaType
<1>2. x = Area(x.addr, x.size, x.tag)
  BY Zenon DEF AreaType, Area
<1>3. End(x) \in Nat /\ x.addr < End(x)
  BY <1>1 DEF End
<1> QED
  BY <1>1, <1>2, <1>3, Zenon

(* The fields of a member of a list of areas. *)
LEMMA MemberFields ==
  ASSUME NEW a \in Seq(AreaType), NEW i \in 1 .. Len(a)
  PROVE  /\ a[i] \in AreaType
         /\ a[i].addr \in Nat \ {0} /\ a[i].size \in Nat \ {0} /\ a[i].tag \in {0, 1}
         /\ End(a[i]) \in Nat /\ a[i].addr < End(a[i])
<1>1. a[i] \in AreaType
  OBVIOUS
<1> QED
  BY <1>1, AreaFields, Zenon

(* A later area begins behind an earlier one: the first that did not would  *)
(* begin where its predecessor ends, which does.                            *)
LEMMA TiledOrdered ==
  ASSUME NEW a, NEW lo, NEW hi, Tiled(a, lo, hi), NEW i \in 1 .. Len(a), NEW j \in 1 .. Len(a), i < j
  PROVE  End(a[i]) <= a[j].addr
<1> DEFINE T == {k \in 1 .. Len(a) : i < k /\ ~(End(a[i]) <= a[k].addr)}
<1>0. a \in Seq(AreaType) /\ Len(a) \in Nat
  BY DEF Tiled
<1>1. ASSUME T # {} PROVE FALSE
  <2>1. T \subseteq Nat
    OBVIOUS
  <2>2. PICK k \in T : \A y \in T : k <= y
    BY <1>1, <2>1, LeastNat, Zenon
  <2>3. k \in 1 .. Len(a) /\ i < k /\ ~(End(a[i]) <= a[k].addr)
    BY <2>2, Zenon
  <2>4. k - 1 \in 1 .. Len(a) /\ k - 1 # Len(a) /\ k - 1 + 1 = k /\ ~(k <= k - 1) /\ (k - 1 = i \/ i < k - 1)
    BY <1>0, <2>3
  <2>5. End(a[k - 1]) = a[k].addr
    BY <2>4, Zenon DEF Tiled
  <2>6. k - 1 # i
    <3>1. End(a[i]) \in Nat
      BY <1>0, MemberFields, Zenon
    <3> QED
      BY <2>3, <2>5, <3>1
  <2>7. End(a[i]) <= a[k - 1].addr
    BY <2>2, <2>4, <2>6, Zenon
  <2>8. End(a[i]) \in Nat /\ a[k - 1].addr \in Nat /\ End(a[k - 1]) \in Nat /\ a[k - 1].addr < End(a[k - 1])
    BY <1>0, <2>4, MemberFields, Zenon
  <2> QED
    BY <2>3, <2>5, <2>7, <2>8
<1> QED
  BY <1>1, Zenon

(* Two areas have no address in common. *)
LEMMA TiledApart ==
  ASSUME NEW a, NEW lo, NEW hi, Tiled(a, lo, hi), NEW i \in 1 .. Len(a), NEW j \in 1 .. Len(a), i # j
  PROVE  /\ a[i].addr # a[j].addr
         /\ End(a[i]) <= a[j].addr \/ End(a[j]) <= a[i].addr
<1>0. a \in Seq(AreaType) /\ Len(a) \in Nat
  BY DEF Tiled
<1>1. i < j \/ j < i
  BY <1>0
<1>2. End(a[i]) <= a[j].addr \/ End(a[j]) <= a[i].addr
  BY <1>1, TiledOrdered, Zenon
<1>3. /\ End(a[i]) \in Nat /\ a[i].addr \in Nat /\ a[i].addr < End(a[i])
      /\ End(a[j]) \in Nat /\ a[j].addr \in Nat /\ a[j].addr < End(a[j])
  BY <1>0, MemberFields, Zenon
<1> QED
  BY <1>2, <1>3

(* An area is found again by its address. *)
LEMMA AtIs ==
  ASSUME NEW a, NEW lo, NEW hi, Tiled(a, lo, hi), NEW i \in 1 .. Len(a)
  PROVE  At(a, a[i].addr) = i
<1>1. DOMAIN a = 1 .. Len(a)
  BY DEF Tiled
<1>2. \A j \in DOMAIN a : a[j].addr = a[i].addr => j = i
  BY <1>1, TiledApart, Zenon
<1> QED
  BY <1>1, <1>2, Zenon DEF At

(* Areas replaced by others that cover the same addresses. *)
LEMMA SpliceTiled ==
  ASSUME NEW a, NEW lo, NEW hi, Tiled(a, lo, hi), NEW i \in 1 .. Len(a), NEW j \in i .. Len(a),
         NEW s, s # <<>>, Tiled(s, a[i].addr, End(a[j]))
  PROVE  Tiled(Splice(a, i, j, s), lo, hi)
<1> DEFINE b == Splice(a, i, j, s)
           n == Len(a)
           l == Len(s)
           d == j - i + 1
<1>0. a \in Seq(AreaType) /\ n \in Nat /\ s \in Seq(AreaType) /\ l \in Nat \ {0} /\ d \in Nat \ {0}
  BY DEF Tiled
<1>1. /\ b \in Seq(AreaType)
      /\ Len(b) = n - d + l
      /\ \A m \in 1 .. i - 1 : b[m] = a[m]
      /\ \A m \in i .. i - 1 + l : b[m] = s[m - i + 1]
      /\ \A m \in i + l .. Len(b) : b[m] = a[m + d - l]
  <2>1. a \in Seq(AreaType) /\ s \in Seq(AreaType)
    BY <1>0, Zenon
  <2>2. SplicedAs(b, AreaType, a, i, j, s)
    BY <2>1, SpliceIs, Zenon
  <2> HIDE DEF b
  <2> QED
    BY <2>2, Zenon DEF SplicedAs
<1>2. /\ \A m \in 1 .. n : End(a[m]) = IF m = n THEN hi ELSE a[m + 1].addr
      /\ \A m \in 1 .. l : End(s[m]) = IF m = l THEN End(a[j]) ELSE s[m + 1].addr
      /\ a # <<>> => a[1].addr = lo
      /\ s[1].addr = a[i].addr
  BY Zenon DEF Tiled
<1>3. i \in Int /\ 1 <= i /\ i <= j /\ j \in Int /\ j <= n
  BY <1>0
<1>4. d = j - i + 1
  OBVIOUS
<1>5. a # <<>>
  BY <1>0, <1>3
<1> HIDE DEF b, n, l, d
<1>6. b[1].addr = lo
  <2>1. CASE i = 1
    <3>1. 1 \in i .. i - 1 + l /\ 1 - i + 1 = 1
      BY <1>0, <2>1
    <3>2. b[1] = s[1]
      BY <1>1, <3>1
    <3> QED
      BY <1>2, <1>5, <2>1, <3>2, Zenon
  <2>2. CASE i # 1
    <3>1. 1 \in 1 .. i - 1
      BY <1>3, <2>2
    <3> QED
      BY <1>1, <1>2, <1>5, <3>1, Zenon
  <2> QED
    BY <2>1, <2>2, Zenon
<1>7. ASSUME NEW m \in 1 .. Len(b)
      PROVE  End(b[m]) = IF m = Len(b) THEN hi ELSE b[m + 1].addr
  <2>1. CASE m < i - 1
    <3>1. m \in 1 .. i - 1 /\ m + 1 \in 1 .. i - 1 /\ m \in 1 .. n /\ m # n /\ m # Len(b)
      BY <1>0, <1>1, <1>3, <1>4, <2>1
    <3> QED
      BY <1>1, <1>2, <3>1, Zenon
  <2>2. CASE m = i - 1
    <3>1. m \in 1 .. i - 1 /\ m + 1 = i /\ m \in 1 .. n /\ m # n /\ m # Len(b) /\ i \in i .. i - 1 + l /\ i - i + 1 = 1
      BY <1>0, <1>1, <1>3, <1>4, <2>2
    <3>2. b[i] = s[i - i + 1]
      BY <1>1, <3>1, Zenon
    <3>3. b[m] = a[m]
      BY <1>1, <3>1, Zenon
    <3>4. End(a[m]) = a[m + 1].addr
      BY <1>2, <3>1, Zenon
    <3>5. b[m + 1].addr = a[m + 1].addr
      BY <1>2, <3>1, <3>2, Zenon
    <3> QED
      BY <3>1, <3>3, <3>4, <3>5, Zenon
  <2>3. CASE m \in i .. i - 1 + l /\ m # i - 1 + l
    <3>1. /\ m + 1 \in i .. i - 1 + l /\ m - i + 1 \in 1 .. l /\ m - i + 1 # l /\ m # Len(b)
          /\ m + 1 - i + 1 = m - i + 1 + 1
      BY <1>0, <1>1, <1>3, <1>4, <2>3
    <3>2. b[m] = s[m - i + 1]
      BY <1>1, <2>3, Zenon
    <3>3. End(s[m - i + 1]) = s[m - i + 1 + 1].addr
      BY <1>2, <3>1, Zenon
    <3>4. b[m + 1] = s[m - i + 1 + 1]
      <4>1. PICK k \in i .. i - 1 + l : k = m + 1 /\ k - i + 1 = m - i + 1 + 1
        BY <1>3, <3>1
      <4>2. b[k] = s[k - i + 1]
        BY <1>1, Zenon
      <4> QED
        BY <4>1, <4>2, Zenon
    <3> QED
      BY <3>1, <3>2, <3>3, <3>4, Zenon
  <2>4. CASE m = i - 1 + l
    <3>1. m \in i .. i - 1 + l /\ m - i + 1 = l /\ l \in 1 .. l /\ j \in 1 .. n
      BY <1>0, <1>3, <2>4
    <3>2. End(b[m]) = End(a[j])
      <4>1. b[m] = s[m - i + 1]
        BY <1>1, <3>1, Zenon
      <4> QED
        BY <1>2, <3>1, <4>1, Zenon
    <3>3. CASE m = Len(b)
      <4>1. j = n
        BY <1>0, <1>1, <1>3, <1>4, <2>4, <3>3
      <4> QED
        BY <1>2, <3>1, <3>2, <3>3, <4>1, Zenon
    <3>4. CASE m # Len(b)
      <4>1. j # n /\ m + 1 \in i + l .. Len(b) /\ m + 1 + d - l = j + 1
        BY <1>0, <1>1, <1>3, <1>4, <2>4, <3>4
      <4>2. b[m + 1] = a[m + 1 + d - l]
        BY <1>1, <4>1, Zenon
      <4>3. b[m + 1] = a[j + 1]
        BY <4>1, <4>2, Zenon
      <4>4. End(a[j]) = a[j + 1].addr
        BY <1>2, <3>1, <4>1, Zenon
      <4> QED
        BY <3>2, <3>4, <4>3, <4>4, Zenon
    <3> QED
      BY <3>3, <3>4, Zenon
  <2>5. CASE m \in i + l .. Len(b)
    <3>1. m + d - l \in 1 .. n /\ (m + d - l = n <=> m = Len(b))
      BY <1>0, <1>1, <1>3, <1>4, <2>5
    <3>2. b[m] = a[m + d - l]
      BY <1>1, <2>5, Zenon
    <3>3. CASE m = Len(b)
      BY <1>2, <3>1, <3>2, <3>3, Zenon
    <3>4. CASE m # Len(b)
      <4>1. m + 1 \in i + l .. Len(b) /\ m + 1 + d - l = m + d - l + 1
        BY <1>0, <1>1, <1>3, <1>4, <2>5, <3>4
      <4>2. b[m + 1] = a[m + d - l + 1]
        BY <1>1, <4>1
      <4>3. End(a[m + d - l]) = a[m + d - l + 1].addr
        BY <1>2, <3>1, <3>4, Zenon
      <4> QED
        BY <3>2, <3>4, <4>2, <4>3, Zenon
    <3> QED
      BY <3>3, <3>4, Zenon
  <2>6. \/ m < i - 1 \/ m = i - 1 \/ (m \in i .. i - 1 + l /\ m # i - 1 + l)
        \/ m = i - 1 + l \/ m \in i + l .. Len(b)
    BY <1>0, <1>1, <1>3
  <2> QED
    BY <2>1, <2>2, <2>3, <2>4, <2>5, <2>6, Zenon
<1> QED
  BY <1>1, <1>6, <1>7, Zenon DEF Tiled, b

(* What is in a list after a splice. *)
RangeSpliced(a, i, j, s) == Range(Splice(a, i, j, s)) = Range(s) \cup {a[m] : m \in 1 .. Len(a) \ i .. j}

(* The members of a list after a splice. *)
LEMMA SpliceSet ==
  ASSUME NEW T, NEW a \in Seq(T), NEW s \in Seq(T), NEW i \in 1 .. Len(a), NEW j \in i .. Len(a)
  PROVE  RangeSpliced(a, i, j, s)
<1> DEFINE b == Splice(a, i, j, s)
           n == Len(a)
           l == Len(s)
           d == j - i + 1
<1>0. n \in Nat /\ l \in Nat /\ d \in Nat \ {0} /\ DOMAIN s = 1 .. l
  OBVIOUS
<1>1. /\ b \in Seq(T)
      /\ Len(b) = n - d + l
      /\ \A m \in 1 .. i - 1 : b[m] = a[m]
      /\ \A m \in i .. i - 1 + l : b[m] = s[m - i + 1]
      /\ \A m \in i + l .. Len(b) : b[m] = a[m + d - l]
  <2>1. SplicedAs(b, T, a, i, j, s)
    BY SpliceIs, Zenon
  <2> HIDE DEF b
  <2> QED
    BY <2>1, Zenon DEF SplicedAs
<1>2. i \in Int /\ 1 <= i /\ i <= j /\ j \in Int /\ j <= n /\ d = j - i + 1
  BY <1>0
<1>3. DOMAIN b = 1 .. Len(b) /\ Len(b) \in Nat
  BY <1>1
<1> HIDE DEF b, n, l, d
<1>4. ASSUME NEW m \in 1 .. Len(b) PROVE b[m] \in Range(s) \cup {a[k] : k \in 1 .. n \ i .. j}
  <2>1. CASE m \in 1 .. i - 1
    <3>1. m \in 1 .. n /\ ~(m \in i .. j)
      BY <1>0, <1>2, <2>1
    <3> QED
      BY <1>1, <2>1, <3>1, Zenon
  <2>2. CASE m \in i .. i - 1 + l
    <3>1. m - i + 1 \in DOMAIN s
      BY <1>0, <1>2, <2>2
    <3> QED
      BY <1>1, <2>2, <3>1, Zenon DEF Range
  <2>3. CASE m \in i + l .. Len(b)
    <3>1. m + d - l \in 1 .. n \ i .. j
      BY <1>0, <1>1, <1>2, <2>3
    <3> QED
      BY <1>1, <2>3, <3>1, Zenon
  <2>4. m \in 1 .. i - 1 \/ m \in i .. i - 1 + l \/ m \in i + l .. Len(b)
    BY <1>0, <1>1, <1>2
  <2> QED
    BY <2>1, <2>2, <2>3, <2>4, Zenon
<1>5. ASSUME NEW k \in 1 .. l PROVE \E m \in 1 .. Len(b) : b[m] = s[k]
  <2> DEFINE m == k + i - 1
  <2>1. m \in i .. i - 1 + l /\ m \in 1 .. Len(b) /\ m - i + 1 = k
    BY <1>0, <1>1, <1>2
  <2> HIDE DEF m
  <2>2. b[m] = s[m - i + 1]
    BY <1>1, <2>1, Zenon
  <2> QED
    BY <2>1, <2>2, Zenon
<1>6. ASSUME NEW k \in 1 .. n \ i .. j PROVE \E m \in 1 .. Len(b) : b[m] = a[k]
  <2>1. CASE k < i
    <3>1. k \in 1 .. Len(b) /\ k \in 1 .. i - 1
      BY <1>0, <1>1, <1>2, <2>1
    <3> QED
      BY <1>1, <3>1, Zenon
  <2>2. CASE j < k
    <3>1. k + l - d \in 1 .. Len(b) /\ k + l - d \in i + l .. Len(b) /\ k + l - d + d - l = k
      BY <1>0, <1>1, <1>2, <2>2
    <3>2. b[k + l - d] = a[k + l - d + d - l]
      BY <1>1, <3>1, Zenon
    <3>3. b[k + l - d] = a[k]
      BY <3>1, <3>2, Zenon
    <3> QED
      BY <3>1, <3>3, Zenon
  <2>3. k < i \/ j < k
    BY <1>0, <1>2
  <2> QED
    BY <2>1, <2>2, <2>3, Zenon
<1>7. Range(b) = Range(s) \cup {a[k] : k \in 1 .. n \ i .. j}
  <2>1. \A x \in Range(b) : x \in Range(s) \cup {a[k] : k \in 1 .. n \ i .. j}
    BY <1>3, <1>4, Zenon DEF Range
  <2>2. \A x \in Range(s) : x \in Range(b)
    BY <1>0, <1>3, <1>5, Zenon DEF Range
  <2>3. \A x \in {a[k] : k \in 1 .. n \ i .. j} : x \in Range(b)
    BY <1>3, <1>6, Zenon DEF Range
  <2> QED
    BY <2>1, <2>2, <2>3, Zenon
<1> QED
  BY <1>7, Zenon DEF b, n, RangeSpliced

(* No two neighbours from place i to place j are free. *)
NoPairs(a, i, j) == \A m \in i .. j - 1 : a[m].tag = 1 \/ a[m + 1].tag = 1

(* A splice brings no two free neighbours together if its ends do not. *)
LEMMA SplicePairs ==
  ASSUME NEW a \in Seq(AreaType), NEW i \in 1 .. Len(a), NEW j \in i .. Len(a),
         NEW s \in Seq(AreaType), s # <<>>,
         NoPairs(a, 1, i - 1), NoPairs(a, j + 1, Len(a)), NoPairs(s, 1, Len(s)),
         i = 1 \/ a[i - 1].tag = 1 \/ s[1].tag = 1,
         j = Len(a) \/ a[j + 1].tag = 1 \/ s[Len(s)].tag = 1
  PROVE  NoPairs(Splice(a, i, j, s), 1, Len(Splice(a, i, j, s)))
<1> DEFINE b == Splice(a, i, j, s)
           n == Len(a)
           l == Len(s)
           d == j - i + 1
<1>0. n \in Nat /\ l \in Nat \ {0} /\ d \in Nat \ {0}
  OBVIOUS
<1>1. /\ b \in Seq(AreaType)
      /\ Len(b) = n - d + l
      /\ \A m \in 1 .. i - 1 : b[m] = a[m]
      /\ \A m \in i .. i - 1 + l : b[m] = s[m - i + 1]
      /\ \A m \in i + l .. Len(b) : b[m] = a[m + d - l]
  <2>1. SplicedAs(b, AreaType, a, i, j, s)
    BY SpliceIs, Zenon
  <2> HIDE DEF b
  <2> QED
    BY <2>1, Zenon DEF SplicedAs
<1>2. i \in Int /\ 1 <= i /\ i <= j /\ j \in Int /\ j <= n /\ d = j - i + 1
  BY <1>0
<1>3. /\ \A m \in 1 .. i - 1 - 1 : a[m].tag = 1 \/ a[m + 1].tag = 1
      /\ \A m \in j + 1 .. n - 1 : a[m].tag = 1 \/ a[m + 1].tag = 1
      /\ \A m \in 1 .. l - 1 : s[m].tag = 1 \/ s[m + 1].tag = 1
      /\ i = 1 \/ a[i - 1].tag = 1 \/ s[1].tag = 1
      /\ j = n \/ a[j + 1].tag = 1 \/ s[l].tag = 1
  BY Zenon DEF NoPairs
<1> HIDE DEF b, n, l, d
<1>4. ASSUME NEW m \in 1 .. Len(b) - 1 PROVE b[m].tag = 1 \/ b[m + 1].tag = 1
  <2>1. CASE m < i - 1
    <3>1. m \in 1 .. i - 1 /\ m + 1 \in 1 .. i - 1 /\ m \in 1 .. i - 1 - 1
      BY <1>2, <2>1
    <3> QED
      BY <1>1, <1>3, <3>1, Zenon
  <2>2. CASE m = i - 1
    <3>1. m \in 1 .. i - 1 /\ m + 1 = i /\ i \in i .. i - 1 + l /\ i - i + 1 = 1 /\ i # 1
      BY <1>0, <1>1, <1>2, <2>2
    <3>2. b[i] = s[i - i + 1]
      BY <1>1, <3>1, Zenon
    <3>3. b[m] = a[m]
      BY <1>1, <3>1, Zenon
    <3>4. b[m + 1] = s[1]
      BY <3>1, <3>2, Zenon
    <3> QED
      BY <1>3, <2>2, <3>1, <3>3, <3>4, Zenon
  <2>3. CASE m \in i .. i - 1 + l /\ m # i - 1 + l
    <3>1. /\ m + 1 \in i .. i - 1 + l /\ m - i + 1 \in 1 .. l - 1
          /\ m + 1 - i + 1 = m - i + 1 + 1
      BY <1>0, <1>1, <1>2, <2>3
    <3>2. b[m] = s[m - i + 1]
      BY <1>1, <2>3, Zenon
    <3>4. b[m + 1] = s[m - i + 1 + 1]
      <4>1. PICK k \in i .. i - 1 + l : k = m + 1 /\ k - i + 1 = m - i + 1 + 1
        BY <1>2, <3>1
      <4>2. b[k] = s[k - i + 1]
        BY <1>1, Zenon
      <4> QED
        BY <4>1, <4>2, Zenon
    <3> QED
      BY <1>3, <3>1, <3>2, <3>4, Zenon
  <2>4. CASE m = i - 1 + l
    <3>1. m \in i .. i - 1 + l /\ m - i + 1 = l
      BY <1>0, <1>2, <2>4
    <3>2. b[m] = s[l]
      <4>1. b[m] = s[m - i + 1]
        BY <1>1, <3>1, Zenon
      <4> QED
        BY <3>1, <4>1, Zenon
    <3>4. j # n /\ m + 1 \in i + l .. Len(b) /\ m + 1 + d - l = j + 1
      BY <1>0, <1>1, <1>2, <2>4
    <3>5. b[m + 1] = a[m + 1 + d - l]
      BY <1>1, <3>4, Zenon
    <3>6. b[m + 1] = a[j + 1]
      BY <3>4, <3>5, Zenon
    <3> QED
      BY <1>3, <3>2, <3>4, <3>6, Zenon
  <2>5. CASE m \in i + l .. Len(b)
    <3>1. m + d - l \in j + 1 .. n - 1 /\ m + 1 \in i + l .. Len(b) /\ m + 1 + d - l = m + d - l + 1
      BY <1>0, <1>1, <1>2, <2>5
    <3>2. b[m] = a[m + d - l] /\ b[m + 1] = a[m + 1 + d - l]
      BY <1>1, <2>5, <3>1, Zenon
    <3>3. b[m + 1] = a[m + d - l + 1]
      BY <3>1, <3>2, Zenon
    <3> QED
      BY <1>3, <3>1, <3>2, <3>3, Zenon
  <2>6. \/ m < i - 1 \/ m = i - 1 \/ (m \in i .. i - 1 + l /\ m # i - 1 + l)
        \/ m = i - 1 + l \/ m \in i + l .. Len(b)
    BY <1>0, <1>1, <1>2
  <2> QED
    BY <2>1, <2>2, <2>3, <2>4, <2>5, <2>6, Zenon
<1> QED
  BY <1>4, Zenon DEF NoPairs, b

-----------------------------------------------------------------------------
(* The sizes of the nodes of a list. *)
SizesOf(l) == [i \in DOMAIN l |-> l[i].size]

(* The list l holds the nodes of M, each once, and tot is the sum of their   *)
(* sizes.                                                                    *)
ListOk(l, tot, M) ==
  /\ l \in Seq(NodeType)
  /\ Range(l) = M
  /\ IsInjective(l)
  /\ tot = Total(SizesOf(l))

(* The fields of a node. *)
LEMMA NodeFields ==
  ASSUME NEW n \in NodeType
  PROVE  n.addr \in Nat \ {0} /\ n.size \in Nat \ {0} /\ n = Node(n.addr, n.size)
  BY Zenon DEF NodeType, Node

(* The sizes of the nodes of a list are as many numbers. *)
LEMMA SizesSeq ==
  ASSUME NEW l \in Seq(NodeType)
  PROVE  /\ SizesOf(l) \in Seq(Nat) /\ Len(SizesOf(l)) = Len(l)
         /\ \A i \in 1 .. Len(l) : SizesOf(l)[i] = l[i].size
<1>1. DOMAIN l = 1 .. Len(l) /\ Len(l) \in Nat
  OBVIOUS
<1>2. \A i \in 1 .. Len(l) : l[i] \in NodeType
  OBVIOUS
<1>3. \A n \in NodeType : n.size \in Nat
  BY NodeFields
<1>4. \A i \in 1 .. Len(l) : l[i].size \in Nat
  BY <1>2, <1>3, Zenon
<1>5. SizesOf(l) = [i \in 1 .. Len(l) |-> l[i].size]
  BY <1>1, Zenon DEF SizesOf
<1> QED
  BY <1>1, <1>4, <1>5

(* A node put into a list anywhere adds to it and to its total. *)
LEMMA PutIn ==
  ASSUME NEW l, NEW tot, NEW M, ListOk(l, tot, M), NEW n \in NodeType, n \notin M,
         NEW q \in 1 .. Len(l) + 1, NEW b \in Seq(NodeType), Len(b) = Len(l) + 1, b[q] = n,
         \A m \in 1 .. q - 1 : b[m] = l[m],
         \A m \in q + 1 .. Len(l) + 1 : b[m] = l[m - 1]
  PROVE  ListOk(b, tot + n.size, M \cup {n})
<1>0. l \in Seq(NodeType) /\ Range(l) = M /\ IsInjective(l) /\ tot = Total(SizesOf(l))
  BY Zenon DEF ListOk
<1>1. /\ Len(l) \in Nat /\ DOMAIN l = 1 .. Len(l) /\ DOMAIN b = 1 .. Len(b) /\ Len(b) \in Nat
      /\ q \in Int /\ 1 <= q /\ q <= Len(l) + 1
  BY <1>0
<1>2. \A m \in 1 .. Len(b) :
        \/ m \in 1 .. q - 1 /\ m \in 1 .. Len(l)
        \/ m = q
        \/ m \in q + 1 .. Len(l) + 1 /\ m - 1 \in 1 .. Len(l)
  BY <1>1
<1>3. \A m \in 1 .. Len(l) : l[m] # n
  BY <1>0, <1>1, Zenon DEF Range
<1>4. Range(b) = M \cup {n}
  <2>1. \A m \in 1 .. Len(b) : b[m] \in M \cup {n}
    BY <1>0, <1>1, <1>2, Zenon DEF Range
  <2>2. \A m \in 1 .. Len(l) : \E k \in 1 .. Len(b) : b[k] = l[m]
    <3> SUFFICES ASSUME NEW m \in 1 .. Len(l) PROVE \E k \in 1 .. Len(b) : b[k] = l[m]
      BY Zenon
    <3>1. CASE m < q
      <4>1. m \in 1 .. q - 1 /\ m \in 1 .. Len(b)
        BY <1>1, <3>1
      <4> QED
        BY <4>1, Zenon
    <3>2. CASE ~(m < q)
      <4> DEFINE k == m + 1
      <4>1. k \in q + 1 .. Len(l) + 1 /\ k \in 1 .. Len(b) /\ k - 1 = m
        BY <1>1, <3>2
      <4> HIDE DEF k
      <4>2. b[k] = l[k - 1]
        BY <4>1, Zenon
      <4> QED
        BY <4>1, <4>2, Zenon
    <3> QED
      BY <3>1, <3>2, Zenon
  <2>3. q \in 1 .. Len(b)
    BY <1>1
  <2>4. \A x \in Range(b) : x \in M \cup {n}
    BY <1>1, <2>1, Zenon DEF Range
  <2>5. \A x \in M : x \in Range(b)
    <3> SUFFICES ASSUME NEW x \in M PROVE x \in Range(b)
      BY Zenon
    <3>1. PICK m \in 1 .. Len(l) : x = l[m]
      BY <1>0, <1>1, Zenon DEF Range
    <3>2. PICK k \in 1 .. Len(b) : b[k] = l[m]
      BY <2>2, Zenon
    <3> QED
      BY <1>1, <3>1, <3>2, Zenon DEF Range
  <2>6. n \in Range(b)
    BY <1>1, <2>3, Zenon DEF Range
  <2> QED
    BY <2>4, <2>5, <2>6, Zenon
<1>5. IsInjective(b)
  <2>1. ASSUME NEW x \in 1 .. Len(b), NEW y \in 1 .. Len(b), b[x] = b[y], x < y PROVE FALSE
    <3>1. CASE y = q
      <4>1. x \in 1 .. q - 1 /\ x \in 1 .. Len(l)
        BY <1>1, <2>1, <3>1
      <4> QED
        BY <1>3, <2>1, <3>1, <4>1, Zenon
    <3>2. CASE x = q
      <4>1. y \in q + 1 .. Len(l) + 1 /\ y - 1 \in 1 .. Len(l)
        BY <1>1, <2>1, <3>2
      <4> QED
        BY <1>3, <2>1, <3>2, <4>1, Zenon
    <3>3. CASE x < q /\ y < q
      <4>1. x \in 1 .. q - 1 /\ y \in 1 .. q - 1 /\ x \in DOMAIN l /\ y \in DOMAIN l /\ x # y
        BY <1>1, <2>1, <3>3
      <4> QED
        BY <1>0, <2>1, <4>1, Zenon DEF IsInjective
    <3>4. CASE x < q /\ q < y
      <4>1. x \in 1 .. q - 1 /\ y \in q + 1 .. Len(l) + 1 /\ x \in DOMAIN l /\ y - 1 \in DOMAIN l /\ x # y - 1
        BY <1>1, <2>1, <3>4
      <4> QED
        BY <1>0, <2>1, <4>1, Zenon DEF IsInjective
    <3>5. CASE q < x /\ q < y
      <4>1. x \in q + 1 .. Len(l) + 1 /\ y \in q + 1 .. Len(l) + 1 /\ x - 1 \in DOMAIN l /\ y - 1 \in DOMAIN l /\ x - 1 # y - 1
        BY <1>1, <2>1, <3>5
      <4> QED
        BY <1>0, <2>1, <4>1, Zenon DEF IsInjective
    <3>6. y = q \/ x = q \/ (x < q /\ y < q) \/ (x < q /\ q < y) \/ (q < x /\ q < y)
      BY <1>1, <2>1
    <3> QED
      BY <3>1, <3>2, <3>3, <3>4, <3>5, <3>6, Zenon
  <2>2. \A x, y \in 1 .. Len(b) : x = y \/ x < y \/ y < x
    BY <1>1
  <2> QED
    BY <1>1, <2>1, <2>2, Zenon DEF IsInjective
<1>6. Total(SizesOf(b)) = Total(SizesOf(l)) + n.size
  <2>1. /\ SizesOf(l) \in Seq(Nat) /\ Len(SizesOf(l)) = Len(l)
        /\ \A i \in 1 .. Len(l) : SizesOf(l)[i] = l[i].size
    BY <1>0, SizesSeq, Zenon
  <2>2. /\ SizesOf(b) \in Seq(Nat) /\ Len(SizesOf(b)) = Len(b)
        /\ \A i \in 1 .. Len(b) : SizesOf(b)[i] = b[i].size
    BY SizesSeq, Zenon
  <2>3. n.size \in Nat
    BY NodeFields
  <2>4. q \in 1 .. Len(b) /\ \A m \in 1 .. q - 1 : m \in 1 .. Len(l) /\ m \in 1 .. Len(b)
    BY <1>1
  <2>5. \A m \in q + 1 .. Len(l) + 1 : m - 1 \in 1 .. Len(l) /\ m \in 1 .. Len(b)
    BY <1>1
  <2>6. SizesOf(b)[q] = n.size
    BY <2>2, <2>4, Zenon
  <2>7. \A m \in 1 .. q - 1 : SizesOf(b)[m] = SizesOf(l)[m]
    BY <2>1, <2>2, <2>4, Zenon
  <2>8. \A m \in q + 1 .. Len(l) + 1 : SizesOf(b)[m] = SizesOf(l)[m - 1]
    BY <2>1, <2>2, <2>5, Zenon
  <2> DEFINE s == SizesOf(l)
             t == SizesOf(b)
             x == n.size
  <2>9. /\ s \in Seq(Nat) /\ x \in Nat /\ q \in 1 .. Len(s) + 1 /\ t \in Seq(Nat) /\ Len(t) = Len(s) + 1 /\ t[q] = x
        /\ \A m \in 1 .. q - 1 : t[m] = s[m]
        /\ \A m \in q + 1 .. Len(s) + 1 : t[m] = s[m - 1]
    BY <2>1, <2>2, <2>3, <2>6, <2>7, <2>8, Zenon
  <2> HIDE DEF s, t, x
  <2>10. Total(t) = Total(s) + x
    BY <2>9, TotalInsert, ZenonT(40)
  <2> QED
    BY <2>10, Zenon DEF s, t, x
<1> QED
  BY <1>0, <1>4, <1>5, <1>6, Zenon DEF ListOk

(* A node taken out of a list is out of it and of its total. *)
LEMMA TakeOut ==
  ASSUME NEW l, NEW tot, NEW M, ListOk(l, tot, M), NEW q \in 1 .. Len(l)
  PROVE  ListOk(Splice(l, q, q, <<>>), tot - l[q].size, M \ {l[q]})
<1> DEFINE b == Splice(l, q, q, <<>>)
<1>0. l \in Seq(NodeType) /\ Range(l) = M /\ IsInjective(l) /\ tot = Total(SizesOf(l))
  BY Zenon DEF ListOk
<1>1. Len(l) \in Nat /\ DOMAIN l = 1 .. Len(l) /\ q \in Int /\ 1 <= q /\ q <= Len(l)
  BY <1>0
<1>2. /\ b \in Seq(NodeType) /\ Len(b) = Len(l) - 1
      /\ \A m \in 1 .. q - 1 : b[m] = l[m]
      /\ \A m \in q .. Len(l) - 1 : b[m] = l[m + 1]
  <2> DEFINE p == SubSeq(l, 1, q - 1)
             r == SubSeq(l, q + 1, Len(l))
  <2>0. l \in Seq(NodeType)
    BY <1>0, Zenon
  <2>1. p \in Seq(NodeType) /\ Len(p) = q - 1 /\ \A m \in 1 .. q - 1 : p[m] = l[m]
    BY <2>0
  <2>2. r \in Seq(NodeType) /\ Len(r) = Len(l) - q /\ \A m \in 1 .. Len(l) - q : r[m] = l[m + q]
    BY <2>0
  <2>3. b = p \o r
    <3>1. p \o <<>> = p
      BY <2>1
    <3> QED
      BY <3>1, Zenon DEF Splice
  <2> HIDE DEF p, r, b
  <2>a. p \in Seq(NodeType) /\ r \in Seq(NodeType)
    BY <2>1, <2>2, Zenon
  <2>4. /\ p \o r \in Seq(NodeType) /\ Len(p \o r) = Len(p) + Len(r)
        /\ \A m \in 1 .. Len(p) : (p \o r)[m] = p[m]
        /\ \A m \in Len(p) + 1 .. Len(p) + Len(r) : (p \o r)[m] = r[m - Len(p)]
    BY <2>a, Joined, Zenon
  <2>5. Len(b) = Len(l) - 1
    BY <1>1, <2>1, <2>2, <2>3, <2>4
  <2>6. ASSUME NEW m \in 1 .. q - 1 PROVE b[m] = l[m]
    BY <2>1, <2>3, <2>4, Zenon
  <2>7. ASSUME NEW m \in q .. Len(l) - 1 PROVE b[m] = l[m + 1]
    <3>1. m \in Len(p) + 1 .. Len(p) + Len(r) /\ m - Len(p) \in 1 .. Len(l) - q /\ m - Len(p) + q = m + 1
      BY <1>1, <2>1, <2>2
    <3>2. b[m] = r[m - Len(p)]
      BY <2>3, <2>4, <3>1, Zenon
    <3>3. r[m - Len(p)] = l[m - Len(p) + q]
      BY <2>2, <3>1, Zenon
    <3> QED
      BY <3>1, <3>2, <3>3, Zenon
  <2> QED
    BY <2>3, <2>4, <2>5, <2>6, <2>7, Zenon
<1> HIDE DEF b
<1>3. DOMAIN b = 1 .. Len(b) /\ Len(b) \in Nat
  BY <1>2
<1>4. \A m \in 1 .. Len(b) :
        \/ m \in 1 .. q - 1 /\ m \in 1 .. Len(l) /\ m # q
        \/ m \in q .. Len(l) - 1 /\ m + 1 \in 1 .. Len(l) /\ m + 1 # q
  BY <1>1, <1>2
<1>5. Range(b) = M \ {l[q]}
  <2>1. \A m \in 1 .. Len(b) : \E k \in 1 .. Len(l) : k # q /\ b[m] = l[k]
    BY <1>2, <1>4, Zenon
  <2>2. \A m \in 1 .. Len(l) : m # q => \E k \in 1 .. Len(b) : b[k] = l[m]
    <3> SUFFICES ASSUME NEW m \in 1 .. Len(l), m # q PROVE \E k \in 1 .. Len(b) : b[k] = l[m]
      BY Zenon
    <3>1. CASE m < q
      <4>1. m \in 1 .. q - 1 /\ m \in 1 .. Len(b)
        BY <1>1, <1>2, <3>1
      <4> QED
        BY <1>2, <4>1, Zenon
    <3>2. CASE ~(m < q)
      <4> DEFINE k == m - 1
      <4>1. k \in q .. Len(l) - 1 /\ k \in 1 .. Len(b) /\ k + 1 = m
        BY <1>1, <1>2, <3>2
      <4> HIDE DEF k
      <4>2. b[k] = l[k + 1]
        BY <1>2, <4>1, Zenon
      <4> QED
        BY <4>1, <4>2, Zenon
    <3> QED
      BY <3>1, <3>2, Zenon
  <2>3. \A x \in Range(b) : x \in M \ {l[q]}
    <3> SUFFICES ASSUME NEW m \in 1 .. Len(b) PROVE b[m] \in M \ {l[q]}
      BY <1>3, Zenon DEF Range
    <3>1. PICK k \in 1 .. Len(l) : k # q /\ b[m] = l[k]
      BY <2>1, Zenon
    <3>2. l[k] \in M
      BY <1>0, <1>1, Zenon DEF Range
    <3>3. l[k] # l[q]
      BY <1>0, <1>1, <3>1, Zenon DEF IsInjective
    <3> QED
      BY <3>1, <3>2, <3>3, Zenon
  <2>4. \A x \in M \ {l[q]} : x \in Range(b)
    BY <1>0, <1>1, <1>3, <2>2, Zenon DEF Range
  <2> QED
    BY <2>3, <2>4, Zenon
<1>6. IsInjective(b)
  <2>0. \A u, w \in 1 .. Len(l) : l[u] = l[w] => u = w
    BY <1>0, <1>1, Zenon DEF IsInjective
  <2>1. ASSUME NEW x \in 1 .. Len(b), NEW y \in 1 .. Len(b), b[x] = b[y] PROVE x = y
    <3>1. PICK u \in 1 .. Len(l) : b[x] = l[u] /\ ((x \in 1 .. q - 1 /\ u = x) \/ (x \in q .. Len(l) - 1 /\ u = x + 1))
      BY <1>2, <1>4, Zenon
    <3>2. PICK w \in 1 .. Len(l) : b[y] = l[w] /\ ((y \in 1 .. q - 1 /\ w = y) \/ (y \in q .. Len(l) - 1 /\ w = y + 1))
      BY <1>2, <1>4, Zenon
    <3>3. u = w
      BY <2>0, <2>1, <3>1, <3>2, Zenon
    <3>4. /\ (x \in 1 .. q - 1 /\ u = x) \/ (x \in q .. Len(l) - 1 /\ u = x + 1)
          /\ (y \in 1 .. q - 1 /\ u = y) \/ (y \in q .. Len(l) - 1 /\ u = y + 1)
      BY <3>1, <3>2, <3>3, Zenon
    <3> QED
      BY <1>1, <3>4
  <2> QED
    BY <1>3, <2>1, Zenon DEF IsInjective
<1>7. tot = Total(SizesOf(b)) + l[q].size /\ Total(SizesOf(b)) \in Nat /\ l[q].size \in Nat
  <2>1. /\ SizesOf(l) \in Seq(Nat) /\ Len(SizesOf(l)) = Len(l)
        /\ \A i \in 1 .. Len(l) : SizesOf(l)[i] = l[i].size
    BY <1>0, SizesSeq, Zenon
  <2>2. /\ SizesOf(b) \in Seq(Nat) /\ Len(SizesOf(b)) = Len(b)
        /\ \A i \in 1 .. Len(b) : SizesOf(b)[i] = b[i].size
    BY <1>2, SizesSeq, Zenon
  <2>3. \A m \in 1 .. q - 1 : m \in 1 .. Len(l) /\ m \in 1 .. Len(b)
    BY <1>1, <1>2
  <2>4. \A m \in q .. Len(l) - 1 : m + 1 \in 1 .. Len(l) /\ m \in 1 .. Len(b)
    BY <1>1, <1>2
  <2> DEFINE s == SizesOf(b)
             t == SizesOf(l)
  <2>5. \A m \in 1 .. q - 1 : s[m] = t[m]
    BY <1>2, <2>1, <2>2, <2>3, Zenon
  <2>6. \A m \in q .. Len(t) - 1 : s[m] = t[m + 1]
    BY <1>2, <2>1, <2>2, <2>4, Zenon
  <2>7. t \in Seq(Nat) /\ s \in Seq(Nat) /\ q \in 1 .. Len(t) /\ Len(s) = Len(t) - 1 /\ t[q] = l[q].size
    BY <1>2, <2>1, <2>2, Zenon
  <2> HIDE DEF s, t
  <2>8. Total(t) = Total(s) + t[q]
    BY <2>5, <2>6, <2>7, TotalRemove, Zenon
  <2>9. Total(s) \in Nat
    BY <2>7, TotalNat, Zenon
  <2>10. l[q] \in NodeType
    BY <1>0
  <2>11. l[q].size \in Nat
    BY <2>10, NodeFields
  <2> QED
    BY <1>0, <2>7, <2>8, <2>9, <2>11, Zenon DEF s, t
<1>8. tot - l[q].size = Total(SizesOf(b))
  BY <1>7
<1> QED
  BY <1>2, <1>5, <1>6, <1>8, Zenon DEF ListOk, b

(* The list of a size is one of the lists; the last holds the sizes from     *)
(* MAX_FREE_SIZE_LIST on.                                                    *)
LEMMA GetList ==
  ASSUME NEW size \in Nat
  PROVE  /\ get_list(size) \in Lists
         /\ get_list(size) = NUMBER_OF_LISTS => size >= MAX_FREE_SIZE_LIST
         /\ size > MAX_FREE_SIZE_LIST => get_list(size) = NUMBER_OF_LISTS
<1>1. MIN_FREE_SIZE_LIST \in Nat \ {0} /\ NUMBER_OF_LISTS \in Nat
  BY ShmAssumption
<1>2. /\ size \div MIN_FREE_SIZE_LIST \in Nat
      /\ size <= MAX_FREE_SIZE_LIST => size \div MIN_FREE_SIZE_LIST <= NUMBER_OF_LISTS
      /\ size \div MIN_FREE_SIZE_LIST = NUMBER_OF_LISTS => size >= MAX_FREE_SIZE_LIST
  BY <1>1, DivLists, Zenon DEF MAX_FREE_SIZE_LIST
<1>3. MAX_FREE_SIZE_LIST \in Nat
  BY <1>1 DEF MAX_FREE_SIZE_LIST
<1> DEFINE d == size \div MIN_FREE_SIZE_LIST
<1>4. get_list(size) = IF size > MAX_FREE_SIZE_LIST THEN NUMBER_OF_LISTS ELSE d
  BY Zenon DEF get_list
<1> HIDE DEF d
<1>5. d \in Nat /\ (size <= MAX_FREE_SIZE_LIST => d <= NUMBER_OF_LISTS)
        /\ (d = NUMBER_OF_LISTS => size >= MAX_FREE_SIZE_LIST)
  BY <1>2, Zenon DEF d
<1> QED
  BY <1>1, <1>3, <1>4, <1>5 DEF Lists

(* The fields of a heap. *)
HeapShape(h) ==
  /\ h = [shm_size |-> h.shm_size, areas |-> h.areas, allocated |-> h.allocated,
          free |-> h.free, total |-> h.total]
  /\ h.free \in [Lists -> Seq(NodeType)]
  /\ h.total \in [Lists -> Int]

(* The free lists of h hold the nodes of N. *)
ListsOk(h, N) ==
  \A k \in Lists : ListOk(h.free[k], h.total[k], {n \in N : get_list(n.size) = k})

(* The lists apart, g is h. *)
SameAreas(g, h) == g.shm_size = h.shm_size /\ g.areas = h.areas /\ g.allocated = h.allocated

(* The list l and the total t in the place of list k. *)
WithList(h, k, l, t) ==
  [shm_size |-> h.shm_size, areas |-> h.areas, allocated |-> h.allocated,
   free |-> [h.free EXCEPT ![k] = l], total |-> [h.total EXCEPT ![k] = t]]

(* g is h but for the list k, which is l with the total t. *)
Updated(g, h, k, l, t) ==
  /\ HeapShape(g) /\ SameAreas(g, h)
  /\ g.free[k] = l /\ g.total[k] = t
  /\ \A j \in Lists : j # k => g.free[j] = h.free[j] /\ g.total[j] = h.total[j]

(* The update of one list and its total leaves all the others alone. *)
LEMMA ListChange ==
  ASSUME NEW h, HeapShape(h), NEW k \in Lists, NEW l \in Seq(NodeType), NEW t \in Int,
         NEW g, g = [h EXCEPT !.free[k] = l, !.total[k] = t]
  PROVE  Updated(g, h, k, l, t)
<1>1. g = WithList(h, k, l, t)
  BY Zenon DEF HeapShape, WithList
<1>2. Updated(WithList(h, k, l, t), h, k, l, t)
  <2> DEFINE w == WithList(h, k, l, t)
  <2>2. w.free = [h.free EXCEPT ![k] = l] /\ w.total = [h.total EXCEPT ![k] = t] /\ SameAreas(w, h)
    BY Zenon DEF SameAreas, WithList
  <2>3. w = [shm_size |-> w.shm_size, areas |-> w.areas, allocated |-> w.allocated,
             free |-> w.free, total |-> w.total]
    BY Zenon DEF WithList
  <2>4. h.free \in [Lists -> Seq(NodeType)] /\ h.total \in [Lists -> Int]
    BY Zenon DEF HeapShape
  <2> HIDE DEF HeapShape, w
  <2>5. w.free \in [Lists -> Seq(NodeType)] /\ w.total \in [Lists -> Int]
    BY <2>2, <2>4
  <2>6. HeapShape(w)
    BY <2>3, <2>5, Zenon DEF HeapShape
  <2>7. /\ w.free[k] = l /\ w.total[k] = t
        /\ \A j \in Lists : j # k => w.free[j] = h.free[j] /\ w.total[j] = h.total[j]
    BY <2>2, <2>4, Zenon
  <2> QED
    BY <2>2, <2>6, <2>7, Zenon DEF w, Updated
<1> QED
  BY <1>1, <1>2, Zenon

(* The lists of g hold the nodes N, nothing else has changed since h. *)
Kept(g, h, N) == HeapShape(g) /\ SameAreas(g, h) /\ ListsOk(g, N)

(* AddFree puts the node into the list of its size and leaves the others. *)
LEMMA AddFreeOk ==
  ASSUME NEW h, HeapShape(h), NEW N, ListsOk(h, N), NEW n \in NodeType, n \notin N
  PROVE  Kept(AddFree(h, n), h, N \cup {n})
<1> DEFINE k == get_list(n.size)
           l == h.free[k]
           i == IF Head(l).size > n.size THEN 1 ELSE 2
           put == IF l = <<>> \/ l[Len(l)].size <= n.size THEN Append(l, n)
                  ELSE Splice(l, i, i - 1, <<n>>)
           g == [h EXCEPT !.free[k] = put, !.total[k] = @ + n.size]
           M == {x \in N : get_list(x.size) = k}
<1>0. k \in Lists /\ n.size \in Nat
  BY NodeFields, GetList, Zenon
<1>1. AddFree(h, n) = g
  BY Zenon DEF AddFree
<1>2. ListOk(l, h.total[k], M)
  BY <1>0, Zenon DEF ListsOk
<1>3. l \in Seq(NodeType) /\ Len(l) \in Nat
  <2>1. l \in Seq(NodeType)
    BY <1>2, Zenon DEF ListOk
  <2> QED
    BY <2>1
<1>4. h.total[k] \in Int
  BY <1>0, Zenon DEF HeapShape
<1> DEFINE Inserted(b, q) ==
      /\ b \in Seq(NodeType) /\ Len(b) = Len(l) + 1 /\ b[q] = n
      /\ \A m \in 1 .. q - 1 : b[m] = l[m]
      /\ \A m \in q + 1 .. Len(l) + 1 : b[m] = l[m - 1]
<1>5. ASSUME NEW q \in 1 .. Len(l) + 1 PROVE Inserted(Splice(l, q, q - 1, <<n>>), q)
  <2> DEFINE p == SubSeq(l, 1, q - 1)
             r == SubSeq(l, q - 1 + 1, Len(l))
             e == <<n>>
             c == p \o e
             b == c \o r
  <2> HIDE DEF k, l
  <2>1. p \in Seq(NodeType) /\ Len(p) = q - 1 /\ \A m \in 1 .. q - 1 : p[m] = l[m]
    BY <1>3
  <2>2. r \in Seq(NodeType) /\ Len(r) = Len(l) - q + 1 /\ \A m \in 1 .. Len(l) - q + 1 : r[m] = l[m + q - 1]
    BY <1>3
  <2>3. e \in Seq(NodeType) /\ Len(e) = 1 /\ e[1] = n
    OBVIOUS
  <2>4. Splice(l, q, q - 1, <<n>>) = b
    BY Zenon DEF Splice
  <2> HIDE DEF p, r, e
  <2>5. /\ c \in Seq(NodeType) /\ Len(c) = Len(p) + Len(e)
        /\ \A m \in 1 .. Len(p) : c[m] = p[m]
        /\ \A m \in Len(p) + 1 .. Len(p) + Len(e) : c[m] = e[m - Len(p)]
    <3>1. p \in Seq(NodeType) /\ e \in Seq(NodeType)
      BY <2>1, <2>3, Zenon
    <3> QED
      BY <3>1, Joined, Zenon
  <2> HIDE DEF c
  <2>6. /\ b \in Seq(NodeType) /\ Len(b) = Len(c) + Len(r)
        /\ \A m \in 1 .. Len(c) : b[m] = c[m]
        /\ \A m \in Len(c) + 1 .. Len(c) + Len(r) : b[m] = r[m - Len(c)]
    <3>1. c \in Seq(NodeType) /\ r \in Seq(NodeType)
      BY <2>2, <2>5, Zenon
    <3> QED
      BY <3>1, Joined, Zenon
  <2> HIDE DEF b
  <2>7. Len(c) = q /\ Len(p) = q - 1 /\ Len(b) = Len(l) + 1 /\ Len(c) + Len(r) = Len(l) + 1 /\ q \in Nat
    BY <1>3, <2>1, <2>2, <2>3, <2>5, <2>6
  <2>8. b[q] = n
    <3>1. q \in 1 .. Len(c) /\ q \in Len(p) + 1 .. Len(p) + Len(e) /\ q - Len(p) = 1
      BY <2>3, <2>7
    <3> QED
      BY <2>3, <2>5, <2>6, <3>1, Zenon
  <2>9. ASSUME NEW m \in 1 .. q - 1 PROVE b[m] = l[m]
    <3>1. m \in 1 .. Len(c) /\ m \in 1 .. Len(p)
      BY <2>7
    <3> QED
      BY <2>1, <2>5, <2>6, <3>1, Zenon
  <2>10. ASSUME NEW m \in q + 1 .. Len(l) + 1 PROVE b[m] = l[m - 1]
    <3>1. m \in Len(c) + 1 .. Len(c) + Len(r) /\ m - Len(c) \in 1 .. Len(l) - q + 1 /\ m - Len(c) + q - 1 = m - 1
      BY <1>3, <2>7
    <3>2. b[m] = r[m - Len(c)]
      BY <2>6, <3>1, Zenon
    <3>3. r[m - Len(c)] = l[m - Len(c) + q - 1]
      BY <2>2, <3>1, Zenon
    <3> QED
      BY <3>1, <3>2, <3>3, Zenon
  <2> QED
    BY <2>4, <2>6, <2>7, <2>8, <2>9, <2>10, Zenon
<1>6. \E q \in 1 .. Len(l) + 1 : Inserted(Append(l, n), q)
  <2> DEFINE b == Append(l, n)
             q == Len(l) + 1
  <2> HIDE DEF k, l
  <2>1. b \in Seq(NodeType) /\ Len(b) = Len(l) + 1 /\ b[q] = n /\ q \in 1 .. Len(l) + 1
    BY <1>3
  <2>2. \A m \in 1 .. q - 1 : b[m] = l[m]
    BY <1>3
  <2>3. \A m \in q + 1 .. Len(l) + 1 : b[m] = l[m - 1]
    BY <1>3
  <2> HIDE DEF q, b
  <2>4. Inserted(b, q)
    BY <2>1, <2>2, <2>3, Zenon
  <2> QED
    BY <2>1, <2>4, Zenon DEF b
<1>7. \E q \in 1 .. Len(l) + 1 : Inserted(put, q)
  <2> HIDE DEF k, l, Inserted
  <2>1. CASE l = <<>> \/ l[Len(l)].size <= n.size
    BY <1>6, <2>1, Zenon
  <2>2. CASE ~(l = <<>> \/ l[Len(l)].size <= n.size)
    <3>1. 1 \in 1 .. Len(l) + 1 /\ 2 \in 1 .. Len(l) + 1
      BY <1>3, <2>2
    <3> QED
      BY <1>5, <2>2, <3>1, Zenon
  <2> QED
    BY <2>1, <2>2, Zenon
<1> HIDE DEF put
<1>8. PICK q \in 1 .. Len(l) + 1 : Inserted(put, q)
  BY <1>7, Zenon
<1>9. n \notin M
  BY Zenon
<1>10. ListOk(put, h.total[k] + n.size, M \cup {n})
  <2> HIDE DEF k, l, M
  <2> QED
    BY <1>2, <1>8, <1>9, PutIn, Zenon
<1>11. put \in Seq(NodeType)
  BY <1>8, Zenon
<1>12. h.total[k] + n.size \in Int
  BY <1>0, <1>4
<1>13. /\ HeapShape(g) /\ SameAreas(g, h)
       /\ g.free[k] = put /\ g.total[k] = h.total[k] + n.size
       /\ \A j \in Lists : j # k => g.free[j] = h.free[j] /\ g.total[j] = h.total[j]
  <2> HIDE DEF k
  <2> DEFINE t == h.total[k] + n.size
  <2>1. g = [h EXCEPT !.free[k] = put, !.total[k] = t]
    BY DEF HeapShape
  <2>2. k \in Lists /\ t \in Int /\ put \in Seq(NodeType)
    BY <1>0, <1>11, <1>12, Zenon
  <2> HIDE DEF g, t
  <2>3. Updated(g, h, k, put, t)
    BY <2>1, <2>2, ListChange, Zenon
  <2> QED
    BY <2>3, Zenon DEF t, Updated
<1>14. ListsOk(g, N \cup {n})
  <2> SUFFICES ASSUME NEW j \in Lists
               PROVE  ListOk(g.free[j], g.total[j], {x \in N \cup {n} : get_list(x.size) = j})
    BY Zenon DEF ListsOk
  <2> HIDE DEF g
  <2>1. CASE j = k
    <3>1. {x \in N \cup {n} : get_list(x.size) = j} = M \cup {n}
      BY <2>1, Zenon
    <3> QED
      BY <1>10, <1>13, <2>1, <3>1, Zenon
  <2>2. CASE j # k
    <3>1. {x \in N \cup {n} : get_list(x.size) = j} = {x \in N : get_list(x.size) = j}
      BY <2>2, Zenon
    <3> QED
      BY <1>13, <2>2, <3>1, Zenon DEF ListsOk
  <2> QED
    BY <2>1, <2>2, Zenon
<1> QED
  BY <1>1, <1>13, <1>14, Zenon DEF Kept

(* RemoveFree takes the node with this address out of the list of its size. *)
LEMMA RemoveFreeOk ==
  ASSUME NEW h, HeapShape(h), NEW N, ListsOk(h, N), NEW n, Node(n.addr, n.size) \in N, N \subseteq NodeType,
         \A x, y \in N : x.addr = y.addr => x = y
  PROVE  Kept(RemoveFree(h, n), h, N \ {Node(n.addr, n.size)})
<1> DEFINE e == Node(n.addr, n.size)
           k == get_list(n.size)
           l == h.free[k]
           q == At(l, n.addr)
           put == Splice(l, q, q, <<>>)
           g == [h EXCEPT !.free[k] = Splice(@, q, q, <<>>), !.total[k] = @ - n.size]
           M == {x \in N : get_list(x.size) = k}
<1>0. e \in NodeType /\ e.addr = n.addr /\ e.size = n.size
  BY Zenon DEF Node
<1>a. n.size \in Nat /\ k \in Lists
  <2>1. n.size \in Nat
    BY <1>0, NodeFields, Zenon
  <2> QED
    BY <2>1, GetList, Zenon
<1>1. RemoveFree(h, n) = g
  BY Zenon DEF RemoveFree
<1>2. ListOk(l, h.total[k], M)
  BY <1>a, Zenon DEF ListsOk
<1>3. l \in Seq(NodeType) /\ Range(l) = M /\ DOMAIN l = 1 .. Len(l)
  <2>1. l \in Seq(NodeType) /\ Range(l) = M
    BY <1>2, Zenon DEF ListOk
  <2> QED
    BY <2>1
<1>4. e \in M
  BY <1>0, Zenon
<1>5. q \in 1 .. Len(l) /\ l[q] = e
  <2>1. \E i \in DOMAIN l : l[i].addr = n.addr
    <3>1. PICK i \in DOMAIN l : e = l[i]
      BY <1>3, <1>4, ZenonT(40) DEF Range
    <3> QED
      BY <1>0, <3>1, Zenon
  <2>2. q \in DOMAIN l /\ l[q].addr = n.addr
    BY <2>1, Zenon DEF At
  <2>3. l[q] \in N
    BY <1>3, <2>2, Zenon DEF Range
  <2> QED
    BY <1>0, <1>3, <2>2, <2>3, Zenon
<1>6. ListOk(put, h.total[k] - n.size, M \ {e})
  <2>1. ListOk(put, h.total[k] - l[q].size, M \ {l[q]})
    <3> HIDE DEF l, k, q, M
    <3> QED
      BY <1>2, <1>5, TakeOut, Zenon
  <2> QED
    BY <1>0, <1>5, <2>1, Zenon
<1>7. h.total[k] \in Int
  BY <1>a, Zenon DEF HeapShape
<1>8. h.total[k] - n.size \in Int
  BY <1>a, <1>7
<1>9. put \in Seq(NodeType)
  BY <1>6, Zenon DEF ListOk
<1>10. /\ HeapShape(g) /\ SameAreas(g, h)
       /\ g.free[k] = put /\ g.total[k] = h.total[k] - n.size
       /\ \A j \in Lists : j # k => g.free[j] = h.free[j] /\ g.total[j] = h.total[j]
  <2> HIDE DEF k
  <2> DEFINE t == h.total[k] - n.size
  <2>1. g = [h EXCEPT !.free[k] = put, !.total[k] = t]
    BY DEF HeapShape
  <2>2. k \in Lists /\ t \in Int /\ put \in Seq(NodeType)
    BY <1>a, <1>8, <1>9, Zenon
  <2> HIDE DEF g, put, t
  <2>3. Updated(g, h, k, put, t)
    BY <2>1, <2>2, ListChange, Zenon
  <2> QED
    BY <2>3, Zenon DEF t, Updated
<1>11. ListsOk(g, N \ {e})
  <2> SUFFICES ASSUME NEW j \in Lists
               PROVE  ListOk(g.free[j], g.total[j], {x \in N \ {e} : get_list(x.size) = j})
    BY Zenon DEF ListsOk
  <2> HIDE DEF g, put
  <2>1. CASE j = k
    <3>1. {x \in N \ {e} : get_list(x.size) = j} = M \ {e}
      BY <2>1, Zenon
    <3> QED
      BY <1>6, <1>10, <2>1, <3>1, Zenon
  <2>2. CASE j # k
    <3>1. {x \in N \ {e} : get_list(x.size) = j} = {x \in N : get_list(x.size) = j}
      BY <1>0, <2>2, Zenon
    <3> QED
      BY <1>10, <2>2, <3>1, Zenon DEF ListsOk
  <2> QED
    BY <2>1, <2>2, Zenon
<1> QED
  BY <1>1, <1>10, <1>11, Zenon DEF Kept

(* The free areas of a as nodes, and the addresses of the others. *)
FreeNodes(a) == {Node(x.addr, x.size) : x \in {y \in Range(a) : y.tag = 0}}

Taken(a) == {x.addr : x \in {y \in Range(a) : y.tag = 1}}

(* The members of a list of areas that follow each other. *)
LEMMA TiledMember ==
  ASSUME NEW a, NEW lo, NEW hi, Tiled(a, lo, hi)
  PROVE  /\ a \in Seq(AreaType) /\ DOMAIN a = 1 .. Len(a) /\ Len(a) \in Nat
         /\ \A x \in Range(a) : x \in AreaType
         /\ \A x \in Range(a) : \E i \in 1 .. Len(a) : a[i] = x
         /\ \A i \in 1 .. Len(a) : a[i] \in Range(a)
         /\ \A x, y \in Range(a) : x.addr = y.addr => x = y
<1>1. a \in Seq(AreaType)
  BY Zenon DEF Tiled
<1>2. DOMAIN a = 1 .. Len(a) /\ Len(a) \in Nat /\ \A i \in 1 .. Len(a) : a[i] \in AreaType
  BY <1>1
<1>3. \A i, j \in 1 .. Len(a) : a[i].addr = a[j].addr => i = j
  BY TiledApart, Zenon
<1> QED
  BY <1>1, <1>2, <1>3, Zenon DEF Range

(* Every node of a free list is a free area, and no two have one address. *)
LEMMA FreeNodesAre ==
  ASSUME NEW a, NEW lo, NEW hi, Tiled(a, lo, hi)
  PROVE  /\ FreeNodes(a) \subseteq NodeType
         /\ \A x, y \in FreeNodes(a) : x.addr = y.addr => x = y
         /\ \A n \in FreeNodes(a) : \E i \in 1 .. Len(a) : a[i] = Area(n.addr, n.size, 0)
         /\ \A i \in 1 .. Len(a) : a[i].tag = 0 => Node(a[i].addr, a[i].size) \in FreeNodes(a)
<1>1. /\ \A x \in Range(a) : x \in AreaType
      /\ \A x \in Range(a) : \E i \in 1 .. Len(a) : a[i] = x
      /\ \A i \in 1 .. Len(a) : a[i] \in Range(a)
      /\ \A x, y \in Range(a) : x.addr = y.addr => x = y
  BY TiledMember, Zenon
<1>2. \A n \in FreeNodes(a) : \E x \in Range(a) : x.tag = 0 /\ n = Node(x.addr, x.size)
  BY Zenon DEF FreeNodes
<1>3. \A x \in Range(a) : Node(x.addr, x.size) \in NodeType
  <2> SUFFICES ASSUME NEW x \in Range(a) PROVE Node(x.addr, x.size) \in NodeType
    BY Zenon
  <2>1. x.addr \in Nat \ {0} /\ x.size \in Nat \ {0}
    BY <1>1, AreaFields, Zenon
  <2> QED
    BY <2>1, Zenon DEF Node, NodeType
<1>4. \A x : Node(x.addr, x.size).addr = x.addr /\ Node(x.addr, x.size).size = x.size
  BY Zenon DEF Node
<1>5. FreeNodes(a) \subseteq NodeType
  BY <1>2, <1>3, Zenon
<1>6. ASSUME NEW m \in FreeNodes(a), NEW n \in FreeNodes(a), m.addr = n.addr PROVE m = n
  <2>1. PICK x \in Range(a) : x.tag = 0 /\ m = Node(x.addr, x.size)
    BY <1>2, Zenon
  <2>2. PICK y \in Range(a) : y.tag = 0 /\ n = Node(y.addr, y.size)
    BY <1>2, Zenon
  <2>3. x = y
    BY <1>1, <1>4, <1>6, <2>1, <2>2, Zenon
  <2> QED
    BY <2>1, <2>2, <2>3, Zenon
<1>7. ASSUME NEW n \in FreeNodes(a) PROVE \E i \in 1 .. Len(a) : a[i] = Area(n.addr, n.size, 0)
  <2>1. PICK x \in Range(a) : x.tag = 0 /\ n = Node(x.addr, x.size)
    BY <1>2, Zenon
  <2>2. x = Area(x.addr, x.size, x.tag)
    BY <1>1, AreaFields, Zenon
  <2>3. x = Area(n.addr, n.size, 0)
    BY <1>4, <2>1, <2>2, Zenon
  <2> QED
    BY <1>1, <2>3, Zenon
<1>8. \A i \in 1 .. Len(a) : a[i].tag = 0 => Node(a[i].addr, a[i].size) \in FreeNodes(a)
  BY <1>1, Zenon DEF FreeNodes
<1> QED
  BY <1>5, <1>6, <1>7, <1>8, Zenon

(* What a splice does to the free areas and to the others. *)
NodesSpliced(a, i, j, s) ==
  /\ FreeNodes(Splice(a, i, j, s)) =
       (FreeNodes(a) \ {Node(a[m].addr, a[m].size) : m \in i .. j}) \cup FreeNodes(s)
  /\ Taken(Splice(a, i, j, s)) = (Taken(a) \ {a[m].addr : m \in i .. j}) \cup Taken(s)

(* The free areas and the others after a splice. *)
LEMMA SpliceNodes ==
  ASSUME NEW a, NEW lo, NEW hi, Tiled(a, lo, hi), NEW i \in 1 .. Len(a), NEW j \in i .. Len(a),
         NEW s \in Seq(AreaType)
  PROVE  NodesSpliced(a, i, j, s)
<1> DEFINE b == Splice(a, i, j, s)
           R == {a[m] : m \in 1 .. Len(a) \ i .. j}
           Q == {a[m] : m \in i .. j}
<1>0. a \in Seq(AreaType) /\ i .. j \subseteq 1 .. Len(a)
  BY DEF Tiled
<1>1. Range(b) = Range(s) \cup R
  <2>1. RangeSpliced(a, i, j, s)
    BY <1>0, SpliceSet, Zenon
  <2> QED
    BY <2>1, Zenon DEF RangeSpliced
<1>2. /\ DOMAIN a = 1 .. Len(a)
      /\ \A x, y \in Range(a) : x.addr = y.addr => x = y
  BY TiledMember, Zenon
<1>3. Range(a) = R \cup Q
  BY <1>0, <1>2, Zenon DEF Range
<1>4. \A x \in R, y \in Q : x.addr # y.addr
  <2>1. \A m \in 1 .. Len(a) \ i .. j, k \in i .. j : a[m].addr # a[k].addr
    BY <1>0, TiledApart, Zenon
  <2> QED
    BY <2>1, Zenon
<1>5. \A x, y : Node(x.addr, x.size) = Node(y.addr, y.size) => x.addr = y.addr
  BY Zenon DEF Node
<1>6. {Node(a[m].addr, a[m].size) : m \in i .. j} = {Node(x.addr, x.size) : x \in Q}
  BY Zenon
<1>7. {a[m].addr : m \in i .. j} = {x.addr : x \in Q}
  BY Zenon
<1> HIDE DEF b, R, Q
<1>8. FreeNodes(b) = (FreeNodes(a) \ {Node(x.addr, x.size) : x \in Q}) \cup FreeNodes(s)
  <2>1. ASSUME NEW x \in Range(b), x.tag = 0
        PROVE  Node(x.addr, x.size) \in (FreeNodes(a) \ {Node(y.addr, y.size) : y \in Q}) \cup FreeNodes(s)
    <3>1. CASE x \in Range(s)
      BY <2>1, <3>1, Zenon DEF FreeNodes
    <3>2. CASE x \in R
      <4>1. Node(x.addr, x.size) \in FreeNodes(a)
        BY <1>3, <2>1, <3>2, Zenon DEF FreeNodes
      <4>2. \A y \in Q : Node(x.addr, x.size) # Node(y.addr, y.size)
        BY <1>4, <1>5, <3>2, Zenon
      <4> QED
        BY <4>1, <4>2, Zenon
    <3> QED
      BY <1>1, <3>1, <3>2, Zenon
  <2>2. ASSUME NEW n \in FreeNodes(s) PROVE n \in FreeNodes(b)
    BY <1>1, Zenon DEF FreeNodes
  <2>3. ASSUME NEW x \in Range(a), x.tag = 0, x \notin Q PROVE Node(x.addr, x.size) \in FreeNodes(b)
    BY <1>1, <1>3, <2>3, Zenon DEF FreeNodes
  <2>4. \A n \in FreeNodes(b) : \E x \in Range(b) : x.tag = 0 /\ n = Node(x.addr, x.size)
    BY Zenon DEF FreeNodes
  <2>5. \A n \in FreeNodes(a) : \E x \in Range(a) : x.tag = 0 /\ n = Node(x.addr, x.size)
    BY Zenon DEF FreeNodes
  <2>6. \A n \in FreeNodes(b) : n \in (FreeNodes(a) \ {Node(y.addr, y.size) : y \in Q}) \cup FreeNodes(s)
    BY <2>1, <2>4, Zenon
  <2>7. \A n \in FreeNodes(a) \ {Node(y.addr, y.size) : y \in Q} : n \in FreeNodes(b)
    BY <2>3, <2>5, Zenon
  <2> QED
    BY <2>2, <2>6, <2>7, Zenon
<1>9. Taken(b) = (Taken(a) \ {x.addr : x \in Q}) \cup Taken(s)
  <2>1. ASSUME NEW x \in Range(b), x.tag = 1
        PROVE  x.addr \in (Taken(a) \ {y.addr : y \in Q}) \cup Taken(s)
    <3>1. CASE x \in Range(s)
      BY <2>1, <3>1, Zenon DEF Taken
    <3>2. CASE x \in R
      <4>1. x.addr \in Taken(a)
        BY <1>3, <2>1, <3>2, Zenon DEF Taken
      <4>2. \A y \in Q : x.addr # y.addr
        BY <1>4, <3>2, Zenon
      <4> QED
        BY <4>1, <4>2, Zenon
    <3> QED
      BY <1>1, <3>1, <3>2, Zenon
  <2>2. ASSUME NEW n \in Taken(s) PROVE n \in Taken(b)
    BY <1>1, Zenon DEF Taken
  <2>3. ASSUME NEW x \in Range(a), x.tag = 1, x \notin Q PROVE x.addr \in Taken(b)
    BY <1>1, <1>3, <2>3, Zenon DEF Taken
  <2>4. \A n \in Taken(b) : \E x \in Range(b) : x.tag = 1 /\ n = x.addr
    BY Zenon DEF Taken
  <2>5. \A n \in Taken(a) : \E x \in Range(a) : x.tag = 1 /\ n = x.addr
    BY Zenon DEF Taken
  <2>6. \A n \in Taken(b) : n \in (Taken(a) \ {y.addr : y \in Q}) \cup Taken(s)
    BY <2>1, <2>4, Zenon
  <2>7. \A n \in Taken(a) \ {y.addr : y \in Q} : n \in Taken(b)
    BY <2>3, <2>5, Zenon
  <2> QED
    BY <2>2, <2>6, <2>7, Zenon
<1> QED
  BY <1>6, <1>7, <1>8, <1>9, Zenon DEF b, NodesSpliced

-----------------------------------------------------------------------------
(* The heap is sound: the inductive form of HeapSound. *)
HeapInv(h) ==
  /\ HeapShape(h)
  /\ Tiled(h.areas, Base, Base + h.shm_size)
  /\ ListsOk(h, FreeNodes(h.areas))
  /\ h.allocated = Taken(h.areas)
  /\ NoPairs(h.areas, 1, Len(h.areas))

(* The areas b come from the areas a by turning the free area i into s. *)
SplitInto(b, a, i, s) ==
  /\ Tiled(b, Base, a[Len(a)].addr + a[Len(a)].size)
  /\ NoPairs(b, 1, Len(b))
  /\ FreeNodes(b) = (FreeNodes(a) \ {Node(a[i].addr, a[i].size)}) \cup FreeNodes(s)
  /\ Taken(b) = Taken(a) \cup Taken(s)
  /\ \A x \in Range(a) : x.tag = 1 => x \in Range(b)
  /\ Range(s) \subseteq Range(b)

(* A place is the last or one before it. *)
LEMMA LastOrBefore ==
  ASSUME NEW n \in Nat, NEW i \in 1 .. n
  PROVE  i = n \/ i \in 1 .. n - 1
  OBVIOUS

(* A free area may be cut into areas of which no two neighbours are free. *)
LEMMA SplitArea ==
  ASSUME NEW a, NEW hi, Tiled(a, Base, hi), NoPairs(a, 1, Len(a)), NEW i \in 1 .. Len(a), a[i].tag = 0,
         NEW s, s # <<>>, Tiled(s, a[i].addr, End(a[i])), NoPairs(s, 1, Len(s))
  PROVE  SplitInto(Splice(a, i, i, s), a, i, s)
<1> DEFINE b == Splice(a, i, i, s)
<1>0. a \in Seq(AreaType) /\ s \in Seq(AreaType) /\ DOMAIN a = 1 .. Len(a) /\ i \in i .. Len(a) /\ Len(a) \in Nat
  BY DEF Tiled
<1>1. Tiled(b, Base, hi)
  BY <1>0, SpliceTiled, Zenon
<1>2. hi = a[Len(a)].addr + a[Len(a)].size
  <2>1. Len(a) \in 1 .. Len(a)
    BY <1>0
  <2> QED
    BY <2>1, Zenon DEF Tiled, End
<1>3. NoPairs(b, 1, Len(b))
  <2>1. NoPairs(a, 1, i - 1) /\ NoPairs(a, i + 1, Len(a))
    BY <1>0 DEF NoPairs
  <2>2. i = 1 \/ a[i - 1].tag = 1
    <3>1. ASSUME i # 1 PROVE i - 1 \in 1 .. Len(a) - 1 /\ i - 1 + 1 = i
      BY <1>0, <3>1
    <3>2. a[i].tag # 1
      OBVIOUS
    <3> QED
      BY <3>1, <3>2, Zenon DEF NoPairs
  <2>3. i = Len(a) \/ a[i + 1].tag = 1
    <3>1. i = Len(a) \/ i \in 1 .. Len(a) - 1
      BY <1>0, LastOrBefore, Zenon
    <3>2. a[i].tag # 1
      OBVIOUS
    <3> QED
      BY <3>1, <3>2, Zenon DEF NoPairs
  <2> QED
    BY <1>0, <2>1, <2>2, <2>3, SplicePairs, Zenon
<1>4. i .. i = {i}
  BY <1>0
<1>5. /\ FreeNodes(b) = (FreeNodes(a) \ {Node(a[m].addr, a[m].size) : m \in i .. i}) \cup FreeNodes(s)
      /\ Taken(b) = (Taken(a) \ {a[m].addr : m \in i .. i}) \cup Taken(s)
  <2>1. NodesSpliced(a, i, i, s)
    BY <1>0, SpliceNodes, Zenon
  <2> QED
    BY <2>1, Zenon DEF NodesSpliced
<1>6. {Node(a[m].addr, a[m].size) : m \in i .. i} = {Node(a[i].addr, a[i].size)} /\ {a[m].addr : m \in i .. i} = {a[i].addr}
  BY <1>4, Zenon
<1>7. a[i].addr \notin Taken(a)
  <2>1. a[i] \in Range(a) /\ \A x, y \in Range(a) : x.addr = y.addr => x = y
    BY TiledMember, Zenon
  <2>2. a[i].tag # 1
    OBVIOUS
  <2> QED
    BY <2>1, <2>2, Zenon DEF Taken
<1>8. Range(b) = Range(s) \cup {a[m] : m \in 1 .. Len(a) \ i .. i}
  <2>1. RangeSpliced(a, i, i, s)
    BY <1>0, SpliceSet, Zenon
  <2> QED
    BY <2>1, Zenon DEF RangeSpliced
<1>9. \A x \in Range(a) : x.tag = 1 => x \in Range(b)
  <2> SUFFICES ASSUME NEW m \in 1 .. Len(a), a[m].tag = 1 PROVE a[m] \in Range(b)
    BY <1>0, Zenon DEF Range
  <2>1. m # i
    OBVIOUS
  <2> QED
    BY <1>4, <1>8, <2>1, Zenon
<1>10. FreeNodes(b) = (FreeNodes(a) \ {Node(a[i].addr, a[i].size)}) \cup FreeNodes(s)
  BY <1>5, <1>6, Zenon
<1>11. Taken(b) = Taken(a) \cup Taken(s)
  BY <1>5, <1>6, <1>7, Zenon
<1>12. Range(s) \subseteq Range(b)
  BY <1>8, Zenon
<1> HIDE DEF b
<1>13. SplitInto(b, a, i, s)
  BY <1>1, <1>2, <1>3, <1>9, <1>10, <1>11, <1>12, Zenon DEF SplitInto
<1> QED
  BY <1>13, Zenon DEF b

(* One area, ... *)
LEMMA OneArea ==
  ASSUME NEW x \in AreaType
  PROVE  /\ <<x>> \in Seq(AreaType) /\ <<x>> # <<>> /\ Len(<<x>>) = 1 /\ <<x>>[1] = x
         /\ Range(<<x>>) = {x}
         /\ Tiled(<<x>>, x.addr, End(x)) /\ NoPairs(<<x>>, 1, Len(<<x>>))
<1>1. <<x>> \in Seq(AreaType) /\ <<x>> # <<>> /\ Len(<<x>>) = 1 /\ <<x>>[1] = x /\ DOMAIN <<x>> = {1} /\ 1 .. 1 = {1}
  OBVIOUS
<1>2. Range(<<x>>) = {x}
  BY <1>1, Zenon DEF Range
<1>3. Tiled(<<x>>, x.addr, End(x))
  BY <1>1, Zenon DEF Tiled
<1>4. 1 .. 1 - 1 = {}
  OBVIOUS
<1>5. NoPairs(<<x>>, 1, Len(<<x>>))
  BY <1>1, <1>4, Zenon DEF NoPairs
<1> QED
  BY <1>1, <1>2, <1>3, <1>5, Zenon

(* ... two of which one is in use, ... *)
LEMMA TwoAreas ==
  ASSUME NEW x \in AreaType, NEW y \in AreaType, y.addr = End(x), x.tag = 1 \/ y.tag = 1
  PROVE  /\ <<x, y>> \in Seq(AreaType) /\ <<x, y>> # <<>>
         /\ Range(<<x, y>>) = {x, y}
         /\ Tiled(<<x, y>>, x.addr, End(y)) /\ NoPairs(<<x, y>>, 1, Len(<<x, y>>))
<1>1. /\ <<x, y>> \in Seq(AreaType) /\ <<x, y>> # <<>> /\ Len(<<x, y>>) = 2 /\ <<x, y>>[1] = x /\ <<x, y>>[2] = y
      /\ DOMAIN <<x, y>> = {1, 2} /\ 1 .. 2 = {1, 2} /\ 1 .. 2 - 1 = {1} /\ 1 # 2 /\ 1 + 1 = 2
  OBVIOUS
<1>2. Range(<<x, y>>) = {x, y}
  BY <1>1, Zenon DEF Range
<1>3. Tiled(<<x, y>>, x.addr, End(y))
  BY <1>1, Zenon DEF Tiled
<1>5. NoPairs(<<x, y>>, 1, Len(<<x, y>>))
  BY <1>1, Zenon DEF NoPairs
<1> QED
  BY <1>1, <1>2, <1>3, <1>5, Zenon

(* ... and three with the one in use in the middle. *)
LEMMA ThreeAreas ==
  ASSUME NEW x \in AreaType, NEW y \in AreaType, NEW z \in AreaType, y.addr = End(x), z.addr = End(y), y.tag = 1
  PROVE  /\ <<x, y, z>> \in Seq(AreaType) /\ <<x, y, z>> # <<>>
         /\ Range(<<x, y, z>>) = {x, y, z}
         /\ Tiled(<<x, y, z>>, x.addr, End(z)) /\ NoPairs(<<x, y, z>>, 1, Len(<<x, y, z>>))
<1>1. /\ <<x, y, z>> \in Seq(AreaType) /\ <<x, y, z>> # <<>> /\ Len(<<x, y, z>>) = 3
      /\ <<x, y, z>>[1] = x /\ <<x, y, z>>[2] = y /\ <<x, y, z>>[3] = z
      /\ DOMAIN <<x, y, z>> = {1, 2, 3} /\ 1 .. 3 = {1, 2, 3} /\ 1 .. 3 - 1 = {1, 2}
      /\ 1 # 3 /\ 2 # 3 /\ 1 + 1 = 2 /\ 2 + 1 = 3
  OBVIOUS
<1>2. Range(<<x, y, z>>) = {x, y, z}
  BY <1>1, Zenon DEF Range
<1>3. Tiled(<<x, y, z>>, x.addr, End(z))
  BY <1>1, Zenon DEF Tiled
<1>5. NoPairs(<<x, y, z>>, 1, Len(<<x, y, z>>))
  BY <1>1, Zenon DEF NoPairs
<1> QED
  BY <1>1, <1>2, <1>3, <1>5, Zenon

(* g has the areas b and the allocated addresses t, and the lists of h. *)
Relaid(g, h, b, t) ==
  /\ HeapShape(g) /\ g.shm_size = h.shm_size /\ g.areas = b /\ g.allocated = t
  /\ g.free = h.free /\ g.total = h.total

(* New areas or new allocated addresses leave the lists alone. *)
LEMMA RelaidIs ==
  ASSUME NEW h, HeapShape(h), NEW b, NEW t
  PROVE  Relaid([h EXCEPT !.areas = b], h, b, h.allocated) /\ Relaid([h EXCEPT !.allocated = t], h, h.areas, t)
<1>1. ASSUME NEW g, g = [h EXCEPT !.areas = b] PROVE Relaid(g, h, b, h.allocated)
  <2>1. g = [shm_size |-> h.shm_size, areas |-> b, allocated |-> h.allocated, free |-> h.free, total |-> h.total]
    BY <1>1 DEF HeapShape
  <2> QED
    BY <2>1, Zenon DEF Relaid, HeapShape
<1>2. ASSUME NEW g, g = [h EXCEPT !.allocated = t] PROVE Relaid(g, h, h.areas, t)
  <2>1. g = [shm_size |-> h.shm_size, areas |-> h.areas, allocated |-> t, free |-> h.free, total |-> h.total]
    BY <1>2 DEF HeapShape
  <2> QED
    BY <2>1, Zenon DEF Relaid, HeapShape
<1> QED
  BY <1>1, <1>2, Zenon

(* So the lists hold what they held. *)
LEMMA RelaidLists ==
  ASSUME NEW g, NEW h, NEW b, NEW t, Relaid(g, h, b, t), NEW N, ListsOk(h, N)
  PROVE  ListsOk(g, N)
  BY Zenon DEF Relaid, ListsOk

(* Replace is a splice at the place of the node. *)
LEMMA ReplaceIs ==
  ASSUME NEW h, HeapShape(h), NEW lo, NEW hi, Tiled(h.areas, lo, hi), NEW i \in 1 .. Len(h.areas),
         NEW n, n.addr = h.areas[i].addr, NEW s
  PROVE  Relaid(Replace(h, n, s), h, Splice(h.areas, i, i, s), h.allocated)
<1>1. At(h.areas, n.addr) = i
  BY AtIs, Zenon
<1> DEFINE b == Splice(h.areas, i, i, s)
<1>2. Replace(h, n, s) = [h EXCEPT !.areas = b]
  BY <1>1, Zenon DEF Replace
<1> HIDE DEF b
<1>3. Relaid([h EXCEPT !.areas = b], h, b, h.allocated)
  BY RelaidIs, Zenon
<1>4. Relaid(Replace(h, n, s), h, b, h.allocated)
  BY <1>2, <1>3, Zenon
<1> QED
  BY <1>4, Zenon DEF b

(* Allocated adds an address. *)
LEMMA AllocatedIs ==
  ASSUME NEW h, HeapShape(h), NEW a
  PROVE  Relaid(Allocated(h, a), h, h.areas, h.allocated \cup {a})
<1>1. Allocated(h, a) = [h EXCEPT !.allocated = h.allocated \cup {a}]
  BY Zenon DEF Allocated
<1> QED
  BY <1>1, RelaidIs, Zenon

(* A node that starts inside a free area is none of the other free areas. *)
LEMMA FreshNode ==
  ASSUME NEW a, NEW lo, NEW hi, Tiled(a, lo, hi), NEW i \in 1 .. Len(a),
         NEW m \in NodeType, a[i].addr <= m.addr, m.addr < End(a[i])
  PROVE  m \notin FreeNodes(a) \ {Node(a[i].addr, a[i].size)}
<1> SUFFICES ASSUME m \in FreeNodes(a) PROVE m = Node(a[i].addr, a[i].size)
  BY Zenon
<1>1. PICK j \in 1 .. Len(a) : a[j] = Area(m.addr, m.size, 0)
  BY FreeNodesAre, Zenon
<1>2. m = Node(m.addr, m.size) /\ m.addr \in Nat /\ a[j].addr = m.addr /\ a[j].size = m.size
  <2>1. a[j].addr = m.addr /\ a[j].size = m.size
    BY <1>1 DEF Area
  <2> QED
    BY <2>1, Zenon DEF NodeType, Node
<1>3. CASE j = i
  BY <1>2, <1>3, Zenon
<1>4. CASE j # i
  <2>1. End(a[i]) <= a[j].addr \/ End(a[j]) <= a[i].addr
    BY <1>4, TiledApart, Zenon
  <2>2. a[i] \in AreaType /\ a[j] \in AreaType
    BY Zenon, TiledMember
  <2>3. End(a[i]) \in Nat /\ End(a[j]) \in Nat /\ a[j].addr < End(a[j]) /\ a[i].addr \in Nat
    BY <2>2, AreaFields, Zenon
  <2> QED
    BY <1>2, <2>1, <2>3
<1> QED
  BY <1>3, <1>4, Zenon

(* Two sequences with the same members in the same places are the same. *)
LEMMA SameSeq ==
  ASSUME NEW T, NEW s \in Seq(T), NEW t \in Seq(T), Len(s) = Len(t), \A i \in 1 .. Len(s) : s[i] = t[i]
  PROVE  s = t
  OBVIOUS

-----------------------------------------------------------------------------

(* A change at one place, as a splice. *)
IsPoint(a, i, x) == [a EXCEPT ![i] = x] = Splice(a, i, i, <<x>>)

(* A change at one place is a splice. *)
LEMMA PointSplice ==
  ASSUME NEW T, NEW a \in Seq(T), NEW i \in 1 .. Len(a), NEW x \in T
  PROVE  IsPoint(a, i, x)
<1> DEFINE s == <<x>>
           b == [a EXCEPT ![i] = x]
           c == Splice(a, i, i, s)
           n == Len(a)
<1>1. /\ b \in Seq(T) /\ Len(b) = n /\ b[i] = x /\ \A m \in 1 .. n : m # i => b[m] = a[m]
  OBVIOUS
<1>2. s \in Seq(T) /\ Len(s) = 1 /\ s[1] = x /\ n \in Nat /\ i \in i .. n /\ i \in Int
  OBVIOUS
<1>3. /\ c \in Seq(T)
      /\ Len(c) = n - (i - i + 1) + Len(s)
      /\ \A m \in 1 .. i - 1 : c[m] = a[m]
      /\ \A m \in i .. i - 1 + Len(s) : c[m] = s[m - i + 1]
      /\ \A m \in i + Len(s) .. Len(c) : c[m] = a[m + (i - i + 1) - Len(s)]
  <2>1. s \in Seq(T) /\ i \in i .. n
    BY <1>2, Zenon
  <2> HIDE DEF s
  <2>2. SplicedAs(c, T, a, i, i, s)
    BY <2>1, SpliceIs, Zenon
  <2> HIDE DEF c
  <2> QED
    BY <2>2, Zenon DEF SplicedAs
<1> HIDE DEF b, c, s
<1>4. Len(c) = n /\ i \in i .. i - 1 + Len(s) /\ i - i + 1 = 1
  BY <1>2, <1>3
<1>5. c[i] = x
  BY <1>2, <1>3, <1>4, Zenon
<1>6. ASSUME NEW m \in 1 .. n, m # i PROVE c[m] = a[m]
  <2>1. m \in 1 .. i - 1 \/ m \in i + Len(s) .. Len(c)
    BY <1>2, <1>4, <1>6
  <2>2. m + (i - i + 1) - Len(s) = m
    BY <1>2
  <2> QED
    BY <1>3, <2>1, <2>2, Zenon
<1>7. \A m \in 1 .. n : b[m] = c[m]
  BY <1>1, <1>5, <1>6, Zenon
<1>8. b = c
  BY <1>1, <1>3, <1>4, <1>7, SameSeq, Zenon
<1> QED
  BY <1>8, Zenon DEF b, c, s, IsPoint

(* The node of an area. *)
NodeOf(x) == Node(x.addr, x.size)

(* A heap on the way through __free: area i is free but in no list yet. *)
Mid(h, i) ==
  /\ HeapShape(h)
  /\ Tiled(h.areas, Base, Base + h.shm_size)
  /\ i \in 1 .. Len(h.areas) /\ h.areas[i].tag = 0
  /\ ListsOk(h, FreeNodes(h.areas) \ {NodeOf(h.areas[i])})
  /\ h.allocated = Taken(h.areas)
  /\ NoPairs(h.areas, 1, i - 1) /\ NoPairs(h.areas, i + 1, Len(h.areas))

(* All areas in use but the one at a are still there. *)
KeepsBut(g, h, a) == \A x \in Range(h.areas) : x.tag = 1 /\ x.addr # a => x \in Range(g.areas)

(* The first step of __free, field by field. *)
LEMMA UntagIs ==
  ASSUME NEW h, HeapShape(h), NEW a, NEW i, NEW g, g = [h EXCEPT !.allocated = @ \ {a}, !.areas[i].tag = 0]
  PROVE  g = [shm_size |-> h.shm_size, areas |-> [h.areas EXCEPT ![i].tag = 0], allocated |-> h.allocated \ {a},
              free |-> h.free, total |-> h.total]
  BY Zenon DEF HeapShape

(* After it the area is free, but in no list and not yet joined with its     *)
(* neighbours.                                                               *)
LEMMA FreeBegins ==
  ASSUME NEW h, HeapInv(h), NEW a \in h.allocated
  PROVE  LET i == At(h.areas, a)
             g == [h EXCEPT !.allocated = @ \ {a}, !.areas[i].tag = 0]
         IN  Mid(g, i) /\ KeepsBut(g, h, a)
<1> DEFINE b == h.areas
           N == FreeNodes(b)
           i == At(b, a)
           g == [h EXCEPT !.allocated = @ \ {a}, !.areas[i].tag = 0]
<1>1. /\ HeapShape(h) /\ Tiled(b, Base, Base + h.shm_size) /\ ListsOk(h, N)
      /\ h.allocated = Taken(b) /\ NoPairs(b, 1, Len(b))
  BY Zenon DEF HeapInv
<1>2. b \in Seq(AreaType) /\ DOMAIN b = 1 .. Len(b) /\ Len(b) \in Nat /\ \A m \in 1 .. Len(b) : b[m] \in AreaType
  BY <1>1 DEF Tiled
<1>3. PICK j \in 1 .. Len(b) : b[j].tag = 1 /\ b[j].addr = a
  BY <1>1, <1>2, Zenon DEF Taken, Range
<1>4. i = j
  BY <1>1, <1>3, AtIs, Zenon
<1> HIDE DEF i
<1>5. i \in 1 .. Len(b) /\ b[i].tag = 1 /\ b[i].addr = a /\ b[i] \in AreaType
  BY <1>2, <1>3, <1>4, Zenon
<1> DEFINE x == Area(a, b[i].size, 0)
           s == <<x>>
           c == Splice(b, i, i, s)
<1>6. x \in AreaType /\ x.addr = a /\ x.size = b[i].size /\ x.tag = 0 /\ End(x) = End(b[i]) /\ [b[i] EXCEPT !.tag = 0] = x
  <2>1. a \in Nat \ {0} /\ b[i].size \in Nat \ {0} /\ b[i] = Area(a, b[i].size, b[i].tag)
    BY <1>5, AreaFields, Zenon
  <2>2. x \in AreaType /\ x.addr = a /\ x.size = b[i].size /\ x.tag = 0
    BY <2>1, Zenon DEF Area, AreaType
  <2>3. End(x) = End(b[i])
    BY <1>5, <2>2, Zenon DEF End
  <2>4. [b[i] EXCEPT !.tag = 0] = x
    BY <2>1 DEF Area
  <2> QED
    BY <2>2, <2>3, <2>4, Zenon
<1> HIDE DEF x
<1>7. [b EXCEPT ![i] = x] = c
  <2>1. b \in Seq(AreaType) /\ i \in 1 .. Len(b) /\ x \in AreaType
    BY <1>2, <1>5, <1>6, Zenon
  <2> HIDE DEF b
  <2>2. IsPoint(b, i, x)
    BY <2>1, PointSplice, Zenon
  <2> QED
    BY <2>2, Zenon DEF IsPoint
<1>8. /\ HeapShape(g) /\ g.shm_size = h.shm_size /\ g.areas = c /\ g.allocated = h.allocated \ {a}
      /\ g.free = h.free /\ g.total = h.total
  <2>0. [b EXCEPT ![i].tag = 0] = [b EXCEPT ![i] = x]
    <3>1. [b EXCEPT ![i].tag = 0] = [b EXCEPT ![i] = [b[i] EXCEPT !.tag = 0]]
      BY <1>2, <1>5
    <3> QED
      BY <1>6, <3>1, Zenon
  <2>1. g = [shm_size |-> h.shm_size, areas |-> [b EXCEPT ![i].tag = 0], allocated |-> h.allocated \ {a},
             free |-> h.free, total |-> h.total]
    <3>1. g = [h EXCEPT !.allocated = @ \ {a}, !.areas[i].tag = 0]
      BY Zenon
    <3> HIDE DEF g
    <3> QED
      BY <1>1, <3>1, UntagIs, Zenon
  <2>2. g = [shm_size |-> h.shm_size, areas |-> c, allocated |-> h.allocated \ {a}, free |-> h.free, total |-> h.total]
    BY <1>7, <2>0, <2>1, Zenon
  <2>3. h.free \in [Lists -> Seq(NodeType)] /\ h.total \in [Lists -> Int]
    BY <1>1, Zenon DEF HeapShape
  <2> HIDE DEF c, g
  <2>4. /\ g.shm_size = h.shm_size /\ g.areas = c /\ g.allocated = h.allocated \ {a}
        /\ g.free = h.free /\ g.total = h.total
    BY <2>2, Zenon
  <2>5. g = [shm_size |-> g.shm_size, areas |-> g.areas, allocated |-> g.allocated, free |-> g.free, total |-> g.total]
    BY <2>2, Zenon
  <2> QED
    BY <2>3, <2>4, <2>5, Zenon DEF HeapShape
<1> HIDE DEF g
<1>9. <<x>> \in Seq(AreaType) /\ <<x>> # <<>> /\ Len(<<x>>) = 1 /\ <<x>>[1] = x /\ Range(<<x>>) = {x}
      /\ Tiled(<<x>>, x.addr, End(x))
  BY <1>6, OneArea, Zenon
<1>10. i \in i .. Len(b) /\ i .. i = {i}
  BY <1>2, <1>5
<1>11. Tiled(c, Base, Base + h.shm_size)
  <2>1. Tiled(s, b[i].addr, End(b[i])) /\ s # <<>>
    BY <1>5, <1>6, <1>9, Zenon
  <2> HIDE DEF s
  <2> QED
    BY <1>1, <1>5, <1>10, <2>1, SpliceTiled, Zenon
<1>12. Len(c) = Len(b) /\ c[i] = x /\ \A m \in 1 .. Len(b) : m # i => c[m] = b[m]
  <2> DEFINE d == [b EXCEPT ![i] = x]
  <2>1. Len(d) = Len(b) /\ d[i] = x /\ \A m \in 1 .. Len(b) : m # i => d[m] = b[m]
    BY <1>2, <1>5
  <2> HIDE DEF c, d
  <2>2. d = c
    BY <1>7, Zenon DEF d
  <2> QED
    BY <2>1, <2>2, Zenon
<1>13. /\ FreeNodes(c) = (N \ {Node(b[m].addr, b[m].size) : m \in i .. i}) \cup FreeNodes(s)
       /\ Taken(c) = (Taken(b) \ {b[m].addr : m \in i .. i}) \cup Taken(s)
  <2> HIDE DEF s
  <2>1. s \in Seq(AreaType)
    BY <1>9, Zenon DEF s
  <2>2. NodesSpliced(b, i, i, s)
    BY <1>1, <1>5, <1>10, <2>1, SpliceNodes, Zenon
  <2> QED
    BY <2>2, Zenon DEF NodesSpliced
<1>14. FreeNodes(s) = {NodeOf(x)} /\ Taken(s) = {}
  <2>1. 0 # 1
    OBVIOUS
  <2>2. {y \in Range(s) : y.tag = 0} = {x} /\ {y \in Range(s) : y.tag = 1} = {}
    BY <1>6, <1>9, <2>1, Zenon
  <2> QED
    BY <2>2, Zenon DEF FreeNodes, Taken, NodeOf
<1> HIDE DEF s, c
<1>15. {Node(b[m].addr, b[m].size) : m \in i .. i} = {NodeOf(x)} /\ {b[m].addr : m \in i .. i} = {a}
  <2>1. {Node(b[m].addr, b[m].size) : m \in i .. i} = {Node(b[i].addr, b[i].size)} /\ {b[m].addr : m \in i .. i} = {b[i].addr}
    BY <1>10, Zenon
  <2>2. Node(b[i].addr, b[i].size) = NodeOf(x) /\ b[i].addr = a
    BY <1>5, <1>6, Zenon DEF NodeOf
  <2> QED
    BY <2>1, <2>2, Zenon
<1>16. Taken(c) = Taken(b) \ {a}
  BY <1>13, <1>14, <1>15, Zenon
<1>17. FreeNodes(c) \ {NodeOf(x)} = N
  <2>1. NodeOf(x) \notin N
    <3> SUFFICES ASSUME NodeOf(x) \in N PROVE FALSE
      BY Zenon
    <3>1. PICK m \in 1 .. Len(b) : b[m] = Area(NodeOf(x).addr, NodeOf(x).size, 0)
      BY <1>1, FreeNodesAre, Zenon
    <3>2. NodeOf(x).addr = a
      BY <1>6, Zenon DEF NodeOf, Node
    <3>3. b[m].addr = a /\ b[m].tag = 0
      <4>1. b[m] = Area(a, NodeOf(x).size, 0)
        BY <3>1, <3>2, Zenon
      <4> QED
        BY <4>1 DEF Area
    <3>4. m = i
      <4>1. At(b, b[m].addr) = m
        BY <1>1, AtIs, Zenon
      <4> QED
        BY <3>3, <4>1, Zenon DEF i
    <3>5. 0 # 1
      OBVIOUS
    <3> QED
      BY <1>5, <3>3, <3>4, <3>5, Zenon
  <2>2. FreeNodes(c) = (N \ {NodeOf(x)}) \cup {NodeOf(x)}
    BY <1>13, <1>14, <1>15, Zenon
  <2> QED
    BY <2>1, <2>2, Zenon
<1>18. ListsOk(g, FreeNodes(g.areas) \ {NodeOf(g.areas[i])})
  <2>1. ListsOk(g, N)
    BY <1>1, <1>8, Zenon DEF ListsOk
  <2>2. g.areas[i] = x /\ g.areas = c
    BY <1>8, <1>12, Zenon
  <2> QED
    BY <1>17, <2>1, <2>2, Zenon
<1>19. NoPairs(c, 1, i - 1) /\ NoPairs(c, i + 1, Len(c))
  <2>1. NoPairs(c, 1, i - 1)
    <3> SUFFICES ASSUME NEW m \in 1 .. i - 1 - 1 PROVE c[m].tag = 1 \/ c[m + 1].tag = 1
      BY Zenon DEF NoPairs
    <3>1. m \in 1 .. Len(b) - 1 /\ m \in 1 .. Len(b) /\ m + 1 \in 1 .. Len(b) /\ m # i /\ m + 1 # i
      BY <1>2, <1>5
    <3>2. b[m].tag = 1 \/ b[m + 1].tag = 1
      BY <1>1, <3>1, Zenon DEF NoPairs
    <3> QED
      BY <1>12, <3>1, <3>2, Zenon
  <2>2. NoPairs(c, i + 1, Len(c))
    <3> SUFFICES ASSUME NEW m \in i + 1 .. Len(b) - 1 PROVE c[m].tag = 1 \/ c[m + 1].tag = 1
      BY <1>12, Zenon DEF NoPairs
    <3>1. m \in 1 .. Len(b) - 1 /\ m \in 1 .. Len(b) /\ m + 1 \in 1 .. Len(b) /\ m # i /\ m + 1 # i
      BY <1>2, <1>5
    <3>2. b[m].tag = 1 \/ b[m + 1].tag = 1
      BY <1>1, <3>1, Zenon DEF NoPairs
    <3> QED
      BY <1>12, <3>1, <3>2, Zenon
  <2> QED
    BY <2>1, <2>2, Zenon
<1>20. Mid(g, i)
  <2>1. i \in 1 .. Len(g.areas) /\ g.areas[i].tag = 0
    BY <1>5, <1>6, <1>8, <1>12, Zenon
  <2>2. HeapShape(g) /\ Tiled(g.areas, Base, Base + g.shm_size) /\ g.allocated = Taken(g.areas)
    BY <1>1, <1>8, <1>11, <1>16, Zenon
  <2>3. NoPairs(g.areas, 1, i - 1) /\ NoPairs(g.areas, i + 1, Len(g.areas))
    BY <1>8, <1>19, Zenon
  <2> QED
    BY <1>18, <2>1, <2>2, <2>3, Zenon DEF Mid
<1>21. KeepsBut(g, h, a)
  <2> SUFFICES ASSUME NEW y \in Range(b), y.addr # a PROVE y \in Range(c)
    BY <1>8, Zenon DEF KeepsBut
  <2>1. PICK m \in 1 .. Len(b) : b[m] = y
    BY <1>2, Zenon DEF Range
  <2>2. m # i /\ c[m] = y
    BY <1>5, <1>12, <2>1, Zenon
  <2>3. DOMAIN c = 1 .. Len(b)
    <3>1. c \in Seq(AreaType)
      BY <1>11, Zenon DEF Tiled
    <3>2. DOMAIN c = 1 .. Len(c)
      BY <3>1
    <3> QED
      BY <1>12, <3>2, Zenon
  <2> QED
    BY <2>2, <2>3, Zenon DEF Range
<1> QED
  BY <1>20, <1>21, Zenon DEF g, i

(* All areas in use are still there. *)
Keeps(c, a) == \A x \in Range(a) : x.tag = 1 => x \in Range(c)

(* c is a with the free areas k and k + 1 as one. *)
Joins(c, a, k, hi) ==
  LET big == Merged(a[k], a[k + 1]) IN
  /\ Tiled(c, Base, hi) /\ Len(c) = Len(a) - 1
  /\ c[k] = big /\ big.tag = 0 /\ big.addr = a[k].addr
  /\ \A m \in 1 .. k - 1 : c[m] = a[m]
  /\ \A m \in k + 1 .. Len(c) : c[m] = a[m + 1]
  /\ FreeNodes(c) = (FreeNodes(a) \ {NodeOf(a[k]), NodeOf(a[k + 1])}) \cup {NodeOf(big)}
  /\ NodeOf(big) \in NodeType /\ NodeOf(big) \notin FreeNodes(a) \ {NodeOf(a[k]), NodeOf(a[k + 1])}
  /\ Taken(c) = Taken(a) /\ Keeps(c, a)

(* Two free neighbours may be joined. *)
LEMMA JoinTwo ==
  ASSUME NEW a, NEW hi, Tiled(a, Base, hi), NEW k \in 1 .. Len(a) - 1, a[k].tag = 0, a[k + 1].tag = 0
  PROVE  Joins(Splice(a, k, k + 1, <<Merged(a[k], a[k + 1])>>), a, k, hi)
<1> DEFINE x == a[k]
           y == a[k + 1]
           big == Merged(x, y)
           s == <<big>>
           c == Splice(a, k, k + 1, s)
           n == Len(a)
<1>0. /\ a \in Seq(AreaType) /\ n \in Nat /\ DOMAIN a = 1 .. n
      /\ k \in 1 .. n /\ k + 1 \in 1 .. n /\ k + 1 \in k .. n /\ k .. k + 1 = {k, k + 1}
      /\ k \in Nat /\ k # n
  <2>1. a \in Seq(AreaType) /\ n \in Nat /\ DOMAIN a = 1 .. n /\ k \in 1 .. n - 1
    BY TiledMember, Zenon
  <2> HIDE DEF n
  <2>2. k \in 1 .. n /\ k + 1 \in 1 .. n /\ k + 1 \in k .. n /\ k \in Nat /\ k # n
    BY <2>1
  <2>3. k .. k + 1 = {k, k + 1}
    BY <2>2
  <2> QED
    BY <2>1, <2>2, <2>3, Zenon
<1>1. x \in AreaType /\ y \in AreaType
  BY <1>0, TiledMember, Zenon
<1>2. y.addr = End(x)
  BY <1>0, Zenon DEF Tiled
<1>3. big = [addr |-> x.addr, size |-> x.size + y.size, tag |-> x.tag]
  <2> HIDE DEF x, y
  <2> QED
    BY <1>1 DEF Merged, AreaType
<1>4. big \in AreaType /\ big.addr = x.addr /\ big.tag = 0 /\ End(big) = End(y) /\ big.size = x.size + y.size
  <2>0. x.tag = 0
    OBVIOUS
  <2> HIDE DEF x, y, big
  <2>1. x.addr \in Nat \ {0} /\ x.size \in Nat \ {0} /\ y.addr \in Nat \ {0} /\ y.size \in Nat \ {0}
    BY <1>1, AreaFields, Zenon
  <2>2. big.addr = x.addr /\ big.size = x.size + y.size /\ big.tag = 0
    BY <1>3, <2>0, Zenon
  <2>3. x.size + y.size \in Nat \ {0} /\ x.addr + (x.size + y.size) = (x.addr + x.size) + y.size
    BY <2>1, SMTT(40)
  <2>4. big \in AreaType
    BY <1>3, <2>0, <2>1, <2>3, Zenon DEF AreaType
  <2>5. End(big) = End(y)
    BY <1>2, <2>2, <2>3, Zenon DEF End
  <2> QED
    BY <2>2, <2>4, <2>5, Zenon
<1> HIDE DEF big
<1>5. s \in Seq(AreaType) /\ s # <<>> /\ Len(s) = 1 /\ s[1] = big /\ Range(s) = {big} /\ Tiled(s, big.addr, End(big))
  BY <1>4, OneArea, Zenon
<1> HIDE DEF s
<1>6. Tiled(c, Base, hi)
  <2>1. Tiled(s, a[k].addr, End(a[k + 1])) /\ s # <<>>
    BY <1>4, <1>5, Zenon
  <2> QED
    BY <1>0, <2>1, SpliceTiled, Zenon
<1>7. /\ Len(c) = n - 1
      /\ \A m \in 1 .. k - 1 : c[m] = a[m]
      /\ c[k] = big
      /\ \A m \in k + 1 .. Len(c) : c[m] = a[m + 1]
  <2> DEFINE j == k + 1
             b == Splice(a, k, j, s)
  <2>1. j \in k .. n /\ j = k + 1 /\ s \in Seq(AreaType) /\ Len(s) = 1 /\ s[1] = big
    BY <1>0, <1>5, Zenon
  <2> HIDE DEF j
  <2>2. /\ Len(b) = n - (j - k + 1) + Len(s)
        /\ \A m \in 1 .. k - 1 : b[m] = a[m]
        /\ \A m \in k .. k - 1 + Len(s) : b[m] = s[m - k + 1]
        /\ \A m \in k + Len(s) .. Len(b) : b[m] = a[m + (j - k + 1) - Len(s)]
    <3>1. j \in k .. n /\ s \in Seq(AreaType) /\ a \in Seq(AreaType) /\ k \in 1 .. Len(a)
      BY <1>0, <2>1, Zenon
    <3>2. SplicedAs(b, AreaType, a, k, j, s)
      BY <3>1, SpliceIs, Zenon
    <3> HIDE DEF b
    <3> QED
      BY <3>2, Zenon DEF SplicedAs
  <2> HIDE DEF b
  <2>3. n \in Nat /\ k \in Nat
    BY <1>0, Zenon
  <2> HIDE DEF n
  <2>4. n - (j - k + 1) + Len(s) = n - 1 /\ k \in k .. k - 1 + Len(s) /\ k - k + 1 = 1
    BY <2>1, <2>3
  <2>5. \A m \in k + 1 .. Len(b) : m \in k + Len(s) .. Len(b) /\ m + (j - k + 1) - Len(s) = m + 1
    BY <2>1, <2>3
  <2>6. b = c
    BY Zenon DEF b, j
  <2>7. Len(b) = n - 1 /\ b[k] = big
    BY <2>1, <2>2, <2>4, Zenon
  <2>8. \A m \in k + 1 .. Len(b) : b[m] = a[m + 1]
    BY <2>2, <2>5, Zenon
  <2> QED
    BY <2>2, <2>6, <2>7, <2>8, Zenon
<1>8. NodesSpliced(a, k, k + 1, s)
  BY <1>0, <1>5, SpliceNodes, Zenon
<1>9. Range(c) = Range(s) \cup {a[m] : m \in 1 .. n \ k .. k + 1}
  <2>1. RangeSpliced(a, k, k + 1, s)
    BY <1>0, <1>5, SpliceSet, Zenon
  <2> QED
    BY <2>1, Zenon DEF RangeSpliced
<1>10. /\ FreeNodes(c) = (FreeNodes(a) \ {Node(a[m].addr, a[m].size) : m \in k .. k + 1}) \cup FreeNodes(s)
       /\ Taken(c) = (Taken(a) \ {a[m].addr : m \in k .. k + 1}) \cup Taken(s)
  BY <1>8, Zenon DEF NodesSpliced
<1> HIDE DEF c
<1>14. 0 # 1
  OBVIOUS
<1>15. FreeNodes(s) = {NodeOf(big)} /\ Taken(s) = {}
  <2>1. {z \in Range(s) : z.tag = 0} = {big} /\ {z \in Range(s) : z.tag = 1} = {}
    BY <1>4, <1>5, <1>14, Zenon
  <2> QED
    BY <2>1, Zenon DEF FreeNodes, Taken, NodeOf
<1>16. FreeNodes(c) = (FreeNodes(a) \ {NodeOf(x), NodeOf(y)}) \cup {NodeOf(big)}
  <2>1. {Node(a[m].addr, a[m].size) : m \in k .. k + 1} = {NodeOf(x), NodeOf(y)}
    BY <1>0, Zenon DEF NodeOf
  <2> QED
    BY <1>10, <1>15, <2>1, Zenon
<1>17. Taken(c) = Taken(a)
  <2>1. x \in Range(a) /\ y \in Range(a) /\ \A u, v \in Range(a) : u.addr = v.addr => u = v
    BY <1>0, TiledMember, Zenon
  <2>2. x.tag # 1 /\ y.tag # 1
    BY <1>14, Zenon
  <2>3. x.addr \notin Taken(a) /\ y.addr \notin Taken(a)
    BY <2>1, <2>2, Zenon DEF Taken
  <2>4. {a[m].addr : m \in k .. k + 1} = {x.addr, y.addr}
    BY <1>0, Zenon
  <2>5. Taken(a) \ {a[m].addr : m \in k .. k + 1} = Taken(a)
    BY <2>3, <2>4, Zenon
  <2> QED
    BY <1>10, <1>15, <2>5, Zenon
<1>18. Keeps(c, a)
  <2> SUFFICES ASSUME NEW m \in 1 .. n, a[m].tag = 1 PROVE a[m] \in Range(c)
    BY <1>0, Zenon DEF Keeps, Range
  <2>1. m # k /\ m # k + 1
    BY <1>14, Zenon
  <2> QED
    BY <1>0, <1>9, <2>1, Zenon
<1>19. NodeOf(big) \in NodeType /\ NodeOf(big).addr = big.addr
  <2>1. big.addr \in Nat \ {0} /\ big.size \in Nat \ {0}
    BY <1>4, AreaFields, Zenon
  <2> QED
    BY <2>1, Zenon DEF NodeOf, Node, NodeType
<1>20. NodeOf(big) \notin FreeNodes(a) \ {NodeOf(x), NodeOf(y)}
  <2>1. x.addr <= NodeOf(big).addr /\ NodeOf(big).addr < End(x)
    <3>1. NodeOf(big).addr = x.addr
      BY <1>4, <1>19, Zenon
    <3>2. x.addr \in Nat /\ x.addr < End(x)
      BY <1>1, AreaFields, Zenon
    <3>3. x.addr <= x.addr
      BY <3>2
    <3> QED
      BY <3>1, <3>2, <3>3, Zenon
  <2>2. NodeOf(big) \notin FreeNodes(a) \ {Node(a[k].addr, a[k].size)}
    BY <1>0, <1>19, <2>1, FreshNode, Zenon
  <2> QED
    BY <2>2, Zenon DEF NodeOf
<1>22. big = Merged(a[k], a[k + 1])
  BY Zenon DEF big
<1>23. Joins(c, a, k, hi)
  BY <1>4, <1>6, <1>7, <1>16, <1>17, <1>18, <1>19, <1>20, <1>22, Zenon DEF Joins
<1> QED
  BY <1>23, Zenon DEF c, s, big

(* A free area other than the one being freed leaves its list. *)
LEMMA RemoveOther ==
  ASSUME NEW h, NEW i, Mid(h, i), NEW k \in 1 .. Len(h.areas), k # i, h.areas[k].tag = 0
  PROVE  Kept(RemoveFree(h, h.areas[k]), h, FreeNodes(h.areas) \ {NodeOf(h.areas[i]), NodeOf(h.areas[k])})
<1> DEFINE a == h.areas
           N == FreeNodes(a) \ {NodeOf(a[i])}
           e == NodeOf(a[k])
<1>1. HeapShape(h) /\ Tiled(a, Base, Base + h.shm_size) /\ ListsOk(h, N) /\ i \in 1 .. Len(a)
  BY Zenon DEF Mid
<1>2. FreeNodes(a) \subseteq NodeType /\ (\A x, y \in FreeNodes(a) : x.addr = y.addr => x = y)
      /\ (\A m \in 1 .. Len(a) : a[m].tag = 0 => Node(a[m].addr, a[m].size) \in FreeNodes(a))
  BY <1>1, FreeNodesAre, Zenon
<1>3. e \in N
  <2>1. a[k].addr # a[i].addr
    BY <1>1, TiledApart, Zenon
  <2>2. NodeOf(a[k]).addr = a[k].addr /\ NodeOf(a[i]).addr = a[i].addr
    BY Zenon DEF NodeOf, Node
  <2>3. e # NodeOf(a[i])
    BY <2>1, <2>2, Zenon
  <2>4. e \in FreeNodes(a)
    BY <1>2, Zenon DEF NodeOf
  <2> QED
    BY <2>3, <2>4, Zenon
<1>4. N \subseteq NodeType /\ \A x, y \in N : x.addr = y.addr => x = y
  BY <1>2, Zenon
<1>5. Kept(RemoveFree(h, a[k]), h, N \ {e})
  <2>1. Node(a[k].addr, a[k].size) \in N
    BY <1>3, Zenon DEF NodeOf
  <2> HIDE DEF N
  <2>2. Kept(RemoveFree(h, a[k]), h, N \ {Node(a[k].addr, a[k].size)})
    BY <1>1, <1>4, <2>1, RemoveFreeOk, Zenon
  <2> QED
    BY <2>2, Zenon DEF NodeOf
<1>6. N \ {e} = FreeNodes(a) \ {NodeOf(a[i]), e}
  BY Zenon
<1> QED
  BY <1>5, <1>6, Zenon

(* The free area i has been joined with the one behind it, if that is free. *)
MergedDown(g, h, i) ==
  /\ Mid(g, i) /\ (i = Len(g.areas) \/ g.areas[i + 1].tag = 1)
  /\ Keeps(g.areas, h.areas)

(* try_merge_downward keeps the heap as it is in the middle of __free. *)
LEMMA MergeDown ==
  ASSUME NEW h, NEW i, Mid(h, i)
  PROVE  MergedDown(try_merge_downward(h, i), h, i)
<1> DEFINE a == h.areas
<1>0. /\ HeapShape(h) /\ Tiled(a, Base, Base + h.shm_size) /\ h.allocated = Taken(a)
      /\ i \in 1 .. Len(a) /\ a[i].tag = 0 /\ NoPairs(a, 1, i - 1) /\ NoPairs(a, i + 1, Len(a))
  BY Zenon DEF Mid
<1>a. a \in Seq(AreaType) /\ Len(a) \in Nat /\ DOMAIN a = 1 .. Len(a)
  BY <1>0 DEF Tiled
<1>1. CASE i = Len(a) \/ a[i + 1].tag = 1
  <2>1. try_merge_downward(h, i) = h
    BY <1>1, Zenon DEF try_merge_downward
  <2> QED
    BY <1>1, <2>1, Zenon DEF MergedDown, Keeps
<1>2. CASE ~(i = Len(a) \/ a[i + 1].tag = 1)
  <2> DEFINE next == a[i + 1]
             f == RemoveFree(h, next)
             c == Splice(a, i, i + 1, <<Merged(a[i], next)>>)
             g == [f EXCEPT !.areas = Splice(@, i, i + 1, <<Merged(@[i], next)>>)]
             N == FreeNodes(a) \ {NodeOf(a[i]), NodeOf(next)}
  <2>1. try_merge_downward(h, i) = g
    BY <1>2, Zenon DEF try_merge_downward
  <2>2. i \in 1 .. Len(a) - 1 /\ i + 1 \in 1 .. Len(a) /\ i + 1 # i
    <3>1. i # Len(a)
      BY <1>2, Zenon
    <3>2. i \in 1 .. Len(a) - 1
      BY <1>0, <1>a, <3>1, LastOrBefore, Zenon
    <3> QED
      BY <1>a, <3>2
  <2>3. a[i + 1].tag = 0
    <3>1. a[i + 1] \in AreaType
      BY <1>0, <2>2, TiledMember, Zenon
    <3>2. a[i + 1].tag \in {0, 1}
      BY <3>1, AreaFields, Zenon
    <3> QED
      BY <1>2, <3>2, Zenon
  <2>4. Kept(f, h, N)
    BY <2>2, <2>3, RemoveOther, Zenon
  <2>5. Joins(c, a, i, Base + h.shm_size)
    BY <1>0, <2>2, <2>3, JoinTwo, Zenon
  <2> HIDE DEF f, N
  <2>6. HeapShape(f) /\ f.areas = a /\ f.shm_size = h.shm_size /\ f.allocated = h.allocated /\ ListsOk(f, N)
    BY <2>4, Zenon DEF Kept, SameAreas
  <2>7. g = [f EXCEPT !.areas = c]
    BY <2>6, Zenon
  <2> HIDE DEF g, c
  <2>8. Relaid(g, f, c, f.allocated)
    BY <2>6, <2>7, RelaidIs, Zenon
  <2>9. /\ HeapShape(g) /\ g.areas = c /\ g.shm_size = h.shm_size /\ g.allocated = h.allocated
        /\ ListsOk(g, N)
    BY <2>6, <2>8, RelaidLists, Zenon DEF Relaid
  <2> DEFINE big == Merged(a[i], a[i + 1])
  <2>10. /\ Tiled(c, Base, Base + h.shm_size) /\ Len(c) = Len(a) - 1
         /\ c[i] = big /\ big.tag = 0
         /\ (\A m \in 1 .. i - 1 : c[m] = a[m])
         /\ (\A m \in i + 1 .. Len(c) : c[m] = a[m + 1])
         /\ FreeNodes(c) = N \cup {NodeOf(big)}
         /\ NodeOf(big) \notin N
         /\ Taken(c) = Taken(a) /\ Keeps(c, a)
    BY <2>5, Zenon DEF Joins, N
  <2> HIDE DEF big
  <2>11. i \in 1 .. Len(c) /\ c[i].tag = 0
    <3>1. i \in 1 .. Len(c)
      BY <2>2, <2>10, Zenon
    <3> QED
      BY <2>10, <3>1, Zenon
  <2>12. FreeNodes(c) \ {NodeOf(c[i])} = N
    BY <2>10, Zenon
  <2>13. NoPairs(c, 1, i - 1)
    <3> SUFFICES ASSUME NEW m \in 1 .. i - 1 - 1 PROVE c[m].tag = 1 \/ c[m + 1].tag = 1
      BY Zenon DEF NoPairs
    <3>1. m \in 1 .. i - 1 /\ m + 1 \in 1 .. i - 1
      BY <1>0, <1>a, SMTT(40)
    <3>2. a[m].tag = 1 \/ a[m + 1].tag = 1
      BY <1>0, Zenon DEF NoPairs
    <3> QED
      BY <2>10, <3>1, <3>2, Zenon
  <2>14. NoPairs(c, i + 1, Len(c))
    <3> SUFFICES ASSUME NEW m \in i + 1 .. Len(c) - 1 PROVE c[m].tag = 1 \/ c[m + 1].tag = 1
      BY Zenon DEF NoPairs
    <3> DEFINE k == m + 1
    <3>0. Len(c) = Len(a) - 1
      BY <2>10, Zenon
    <3>1. m \in i + 1 .. Len(c) /\ k \in i + 1 .. Len(c) /\ k \in i + 1 .. Len(a) - 1
      BY <1>0, <1>a, <3>0, SMTT(40)
    <3>2. c[m] = a[k]
      BY <2>10, <3>1, Zenon
    <3> HIDE DEF k
    <3>3. c[k] = a[k + 1]
      BY <2>10, <3>1, Zenon
    <3>4. a[k].tag = 1 \/ a[k + 1].tag = 1
      BY <1>0, <3>1, Zenon DEF NoPairs
    <3> QED
      BY <3>2, <3>3, <3>4, Zenon DEF k
  <2>15. i = Len(c) \/ c[i + 1].tag = 1
    <3> SUFFICES ASSUME i # Len(c) PROVE c[i + 1].tag = 1
      BY Zenon
    <3>0. Len(c) = Len(a) - 1
      BY <2>10, Zenon
    <3> DEFINE k == i + 1
    <3>1. k \in i + 1 .. Len(a) - 1 /\ k \in i + 1 .. Len(c)
      <4>1. Len(c) \in Nat /\ i \in 1 .. Len(c)
        BY <1>a, <2>2, <3>0, SMTT(40)
      <4>2. i \in 1 .. Len(c) - 1
        BY <4>1, LastOrBefore, Zenon
      <4> QED
        BY <1>a, <3>0, <4>1, <4>2, SMTT(40)
    <3>2. a[k].tag = 0
      BY <2>3, Zenon
    <3>3. c[k] = a[k + 1]
      <4> HIDE DEF k
      <4> QED
        BY <2>10, <3>1, Zenon
    <3>4. a[k].tag = 1 \/ a[k + 1].tag = 1
      <4> HIDE DEF k
      <4> QED
        BY <1>0, <3>1, Zenon DEF NoPairs
    <3>5. 0 # 1
      OBVIOUS
    <3> QED
      BY <3>2, <3>3, <3>4, <3>5, ZenonT(40)
  <2>16. Mid(g, i)
    <3>1. ListsOk(g, FreeNodes(g.areas) \ {NodeOf(g.areas[i])})
      BY <2>9, <2>12, Zenon
    <3>2. g.allocated = Taken(g.areas)
      BY <1>0, <2>9, <2>10, Zenon
    <3>3. Tiled(g.areas, Base, Base + g.shm_size)
      BY <2>9, <2>10, Zenon
    <3>4. HeapShape(g) /\ g.areas = c
      BY <2>9, Zenon
    <3> QED
      BY <2>11, <2>13, <2>14, <3>1, <3>2, <3>3, <3>4, Zenon DEF Mid
  <2>17. g.areas = c /\ Keeps(c, a)
    BY <2>9, <2>10, Zenon
  <2> QED
    BY <2>1, <2>15, <2>16, <2>17, Zenon DEF MergedDown
<1> QED
  BY <1>1, <1>2, Zenon

(* The heap is sound and all areas in use are still there. *)
MergedUp(g, h) == HeapInv(g) /\ Keeps(g.areas, h.areas)

(* try_merge_upward makes the heap sound again. *)
LEMMA MergeUp ==
  ASSUME NEW h, NEW i, Mid(h, i), i = Len(h.areas) \/ h.areas[i + 1].tag = 1
  PROVE  MergedUp(try_merge_upward(h, i), h)
<1> DEFINE a == h.areas
           prev == a[i - 1]
<1>0. /\ HeapShape(h) /\ Tiled(a, Base, Base + h.shm_size) /\ h.allocated = Taken(a)
      /\ i \in 1 .. Len(a) /\ a[i].tag = 0 /\ NoPairs(a, 1, i - 1) /\ NoPairs(a, i + 1, Len(a))
      /\ ListsOk(h, FreeNodes(a) \ {NodeOf(a[i])})
  BY Zenon DEF Mid
<1>a. a \in Seq(AreaType) /\ Len(a) \in Nat /\ DOMAIN a = 1 .. Len(a)
  BY <1>0 DEF Tiled
<1>b. /\ FreeNodes(a) \subseteq NodeType /\ (\A x, y \in FreeNodes(a) : x.addr = y.addr => x = y)
      /\ (\A m \in 1 .. Len(a) : a[m].tag = 0 => Node(a[m].addr, a[m].size) \in FreeNodes(a))
  BY <1>0, FreeNodesAre, Zenon
<1>1. CASE i = 1 \/ prev.tag = 1
  <2> DEFINE e == Node(a[i].addr, a[i].size)
             g == AddFree(h, e)
             N == FreeNodes(a) \ {NodeOf(a[i])}
  <2>1. try_merge_upward(h, i) = g
    BY <1>1, Zenon DEF try_merge_upward
  <2>2. e \in FreeNodes(a) /\ e \in NodeType /\ e \notin N /\ N \cup {e} = FreeNodes(a)
    <3>1. e \in FreeNodes(a)
      BY <1>0, <1>b, Zenon
    <3>2. NodeOf(a[i]) = e
      BY Zenon DEF NodeOf
    <3> HIDE DEF e
    <3> QED
      BY <1>b, <3>1, <3>2, Zenon
  <2> HIDE DEF e
  <2>3. Kept(g, h, N \cup {e})
    <3>1. ListsOk(h, N) /\ e \notin N /\ e \in NodeType
      BY <1>0, <2>2, Zenon
    <3> HIDE DEF N
    <3> QED
      BY <1>0, <3>1, AddFreeOk, Zenon
  <2> HIDE DEF g, N
  <2>4. HeapShape(g) /\ g.areas = a /\ g.shm_size = h.shm_size /\ g.allocated = h.allocated /\ ListsOk(g, FreeNodes(a))
    BY <2>2, <2>3, Zenon DEF Kept, SameAreas
  <2>5. NoPairs(a, 1, Len(a))
    <3> SUFFICES ASSUME NEW m \in 1 .. Len(a) - 1 PROVE a[m].tag = 1 \/ a[m + 1].tag = 1
      BY Zenon DEF NoPairs
    <3>1. m \in 1 .. i - 1 - 1 \/ m = i - 1 \/ m = i \/ m \in i + 1 .. Len(a) - 1
      BY <1>0, <1>a
    <3>2. CASE m \in 1 .. i - 1 - 1
      BY <1>0, <3>2, Zenon DEF NoPairs
    <3>3. CASE m = i - 1
      <4>1. i # 1
        BY <1>a, <3>3
      <4> QED
        BY <1>1, <3>3, <4>1, Zenon
    <3>4. CASE m = i
      <4>1. i # Len(a)
        BY <1>a, <3>4, SMTT(40)
      <4> QED
        BY <3>4, <4>1, Zenon
    <3>5. CASE m \in i + 1 .. Len(a) - 1
      BY <1>0, <3>5, Zenon DEF NoPairs
    <3> QED
      BY <3>1, <3>2, <3>3, <3>4, <3>5, Zenon
  <2>6. HeapInv(g)
    BY <1>0, <2>4, <2>5, Zenon DEF HeapInv
  <2> QED
    BY <2>1, <2>4, <2>6, Zenon DEF MergedUp, Keeps
<1>2. CASE ~(i = 1 \/ prev.tag = 1)
  <2> DEFINE big == Merged(prev, a[i])
             f == RemoveFree(h, prev)
             e == Node(big.addr, big.size)
             r == AddFree(f, e)
             g == [r EXCEPT !.areas = Splice(@, i - 1, i, <<big>>)]
             c == Splice(a, i - 1, i, <<big>>)
             N == FreeNodes(a) \ {NodeOf(a[i]), NodeOf(prev)}
             k == i - 1
  <2>1. try_merge_upward(h, i) = g
    BY <1>2, Zenon DEF try_merge_upward
  <2>2. k \in 1 .. Len(a) - 1 /\ k \in 1 .. Len(a) /\ k # i /\ k + 1 = i /\ k \in Nat
    <3>1. i # 1
      BY <1>2, Zenon
    <3>2. i - 1 \in 1 .. Len(a) - 1
      BY <1>0, <1>a, <3>1, SMTT(40)
    <3> QED
      BY <1>0, <1>a, <3>2, SMTT(40)
  <2>3. a[k].tag = 0
    <3> HIDE DEF k
    <3>1. a[k] \in AreaType
      BY <1>0, <2>2, TiledMember, Zenon
    <3>2. a[k].tag \in {0, 1}
      BY <3>1, AreaFields, Zenon
    <3> QED
      BY <1>2, <3>2, Zenon DEF k
  <2>4. Kept(f, h, N)
    <3> HIDE DEF k
    <3>1. Kept(RemoveFree(h, a[k]), h, FreeNodes(a) \ {NodeOf(a[i]), NodeOf(a[k])})
      BY <2>2, <2>3, RemoveOther, Zenon
    <3> QED
      BY <3>1, Zenon DEF k
  <2>5. Joins(c, a, k, Base + h.shm_size)
    <3> HIDE DEF k
    <3>1. a[k + 1].tag = 0
      BY <1>0, <2>2, Zenon
    <3>2. Joins(Splice(a, k, k + 1, <<Merged(a[k], a[k + 1])>>), a, k, Base + h.shm_size)
      BY <1>0, <2>2, <2>3, <3>1, JoinTwo, Zenon
    <3>3. Splice(a, k, k + 1, <<Merged(a[k], a[k + 1])>>) = c
      BY <2>2, Zenon DEF k
    <3> QED
      BY <3>2, <3>3, Zenon
  <2>a. prev = a[k] /\ k = i - 1
    BY Zenon
  <2> HIDE DEF k, prev
  <2>b. big = Merged(a[k], a[k + 1])
    BY <2>2, <2>a, Zenon
  <2>c. a[k + 1] = a[i]
    BY <2>2, Zenon
  <2> HIDE DEF big
  <2>10. /\ Tiled(c, Base, Base + h.shm_size) /\ Len(c) = Len(a) - 1
         /\ c[k] = big /\ big.tag = 0
         /\ (\A m \in 1 .. k - 1 : c[m] = a[m])
         /\ (\A m \in k + 1 .. Len(c) : c[m] = a[m + 1])
         /\ FreeNodes(c) = (FreeNodes(a) \ {NodeOf(a[k]), NodeOf(a[k + 1])}) \cup {NodeOf(big)}
         /\ NodeOf(big) \in NodeType /\ NodeOf(big) \notin FreeNodes(a) \ {NodeOf(a[k]), NodeOf(a[k + 1])}
         /\ Taken(c) = Taken(a) /\ Keeps(c, a)
    <3> HIDE DEF c
    <3> QED
      BY <2>5, <2>b, Zenon DEF Joins
  <2>11. N = FreeNodes(a) \ {NodeOf(a[k]), NodeOf(a[k + 1])}
    <3>1. {NodeOf(a[i]), NodeOf(prev)} = {NodeOf(a[k]), NodeOf(a[k + 1])}
      BY <2>a, <2>c, Zenon
    <3> QED
      BY <3>1, Zenon
  <2> HIDE DEF N
  <2>12. e = NodeOf(big) /\ e \in NodeType /\ e \notin N /\ FreeNodes(c) = N \cup {e}
    <3>1. e = NodeOf(big)
      BY Zenon DEF NodeOf
    <3> HIDE DEF e, c
    <3> QED
      BY <2>10, <2>11, <3>1, Zenon
  <2> HIDE DEF e, f
  <2>13. HeapShape(f) /\ ListsOk(f, N) /\ SameAreas(f, h)
    BY <2>4, Zenon DEF Kept
  <2>14. Kept(r, f, N \cup {e})
    BY <2>12, <2>13, AddFreeOk, Zenon
  <2> HIDE DEF r
  <2>15. HeapShape(r) /\ r.areas = a /\ r.shm_size = h.shm_size /\ r.allocated = h.allocated /\ ListsOk(r, N \cup {e})
    BY <2>13, <2>14, Zenon DEF Kept, SameAreas
  <2>16. g = [r EXCEPT !.areas = c]
    BY <2>15, Zenon
  <2> HIDE DEF g, c
  <2>17. Relaid(g, r, c, r.allocated)
    BY <2>15, <2>16, RelaidIs, Zenon
  <2>18. /\ HeapShape(g) /\ g.areas = c /\ g.shm_size = h.shm_size /\ g.allocated = h.allocated
         /\ ListsOk(g, N \cup {e})
    BY <2>15, <2>17, RelaidLists, Zenon DEF Relaid
  <2>19. NoPairs(c, 1, Len(c))
    <3> SUFFICES ASSUME NEW m \in 1 .. Len(c) - 1 PROVE c[m].tag = 1 \/ c[m + 1].tag = 1
      BY Zenon DEF NoPairs
    <3>0. Len(c) = Len(a) - 1 /\ Len(a) \in Nat /\ k \in Nat /\ i = k + 1
      BY <1>a, <2>2, <2>10, Zenon
    <3>a. NoPairs(a, 1, k) /\ NoPairs(a, i + 1, Len(a)) /\ (i = Len(a) \/ a[i + 1].tag = 1)
      BY <1>0, <2>a, Zenon
    <3> DEFINE j == m + 1
    <3>1. m \in 1 .. k - 1 - 1 \/ j = k \/ m = k \/ m \in k + 1 .. Len(c) - 1
      BY <3>0, SMTT(40)
    <3>2. CASE m \in 1 .. k - 1 - 1
      <4>1. m \in 1 .. k - 1 /\ j \in 1 .. k - 1
        BY <3>0, <3>2, SMTT(40)
      <4>2. a[m].tag = 1 \/ a[j].tag = 1
        BY <3>a, <4>1, Zenon DEF NoPairs
      <4> HIDE DEF j
      <4>3. c[m] = a[m] /\ c[j] = a[j]
        BY <2>10, <4>1, ZenonT(40)
      <4> QED
        BY <4>2, <4>3, Zenon DEF j
    <3>3. CASE j = k
      <4>1. m \in 1 .. k - 1
        BY <3>0, <3>3, SMTT(40)
      <4>2. a[m].tag = 1 \/ a[j].tag = 1
        BY <3>a, <4>1, Zenon DEF NoPairs
      <4>3. a[j].tag = 0 /\ c[m] = a[m]
        BY <2>3, <2>10, <3>3, <4>1, Zenon
      <4>4. 0 # 1
        OBVIOUS
      <4> QED
        BY <4>2, <4>3, <4>4, Zenon
    <3>4. CASE m = k
      <4>1. j = i /\ i # Len(a) /\ j \in k + 1 .. Len(c)
        BY <3>0, <3>4, SMTT(40)
      <4>2. c[j] = a[j + 1]
        <5> HIDE DEF j
        <5> QED
          BY <2>10, <4>1, Zenon
      <4>3. a[i + 1].tag = 1
        BY <3>a, <4>1, Zenon
      <4>4. a[j + 1].tag = 1
        <5> HIDE DEF j
        <5> QED
          BY <4>1, <4>3, Zenon
      <4> QED
        BY <4>2, <4>4, Zenon
    <3>5. CASE m \in k + 1 .. Len(c) - 1
      <4>1. m \in k + 1 .. Len(c) /\ j \in k + 1 .. Len(c) /\ j \in i + 1 .. Len(a) - 1
        BY <3>0, <3>5, SMTT(40)
      <4>2. c[m] = a[j]
        BY <2>10, <4>1, Zenon
      <4>3. c[j] = a[j + 1] /\ (a[j].tag = 1 \/ a[j + 1].tag = 1)
        <5> HIDE DEF j
        <5> QED
          BY <2>10, <3>a, <4>1, Zenon DEF NoPairs
      <4> QED
        BY <4>2, <4>3, Zenon
    <3> QED
      BY <3>1, <3>2, <3>3, <3>4, <3>5, Zenon
  <2>20. HeapInv(g)
    <3>1. ListsOk(g, FreeNodes(g.areas))
      BY <2>12, <2>18, Zenon
    <3>2. g.allocated = Taken(g.areas) /\ Tiled(g.areas, Base, Base + g.shm_size)
      BY <1>0, <2>10, <2>18, Zenon
    <3>3. HeapShape(g) /\ NoPairs(g.areas, 1, Len(g.areas))
      BY <2>18, <2>19, Zenon
    <3> QED
      BY <3>1, <3>2, <3>3, Zenon DEF HeapInv
  <2>21. Keeps(g.areas, a)
    BY <2>10, <2>18, Zenon
  <2> QED
    BY <2>1, <2>20, <2>21, Zenon DEF MergedUp
<1> QED
  BY <1>1, <1>2, Zenon

(* What __free leaves behind: a sound heap with all other areas in use. *)
LEMMA FreeOk ==
  ASSUME NEW h, HeapInv(h), NEW a
  PROVE  HeapInv(__free(h, a)) /\ KeepsBut(__free(h, a), h, a)
<1>1. CASE a \notin h.allocated
  <2>1. __free(h, a) = h
    BY <1>1, Zenon DEF __free
  <2> QED
    BY <2>1, Zenon DEF KeepsBut
<1>2. CASE a \in h.allocated
  <2> DEFINE i == At(h.areas, a)
             g == [h EXCEPT !.allocated = @ \ {a}, !.areas[i].tag = 0]
             d == try_merge_downward(g, i)
             u == try_merge_upward(d, i)
  <2>1. __free(h, a) = u
    BY <1>2, Zenon DEF __free
  <2>2. Mid(g, i) /\ KeepsBut(g, h, a)
    BY <1>2, FreeBegins, Zenon
  <2> HIDE DEF g, i
  <2>3. MergedDown(d, g, i)
    BY <2>2, MergeDown, Zenon
  <2> HIDE DEF d
  <2>4. Mid(d, i) /\ (i = Len(d.areas) \/ d.areas[i + 1].tag = 1) /\ Keeps(d.areas, g.areas)
    BY <2>3, Zenon DEF MergedDown
  <2>5. MergedUp(u, d)
    BY <2>4, MergeUp, Zenon
  <2> HIDE DEF u
  <2>6. HeapInv(u) /\ KeepsBut(u, h, a)
    BY <2>2, <2>4, <2>5, Zenon DEF MergedUp, Keeps, KeepsBut
  <2> QED
    BY <2>1, <2>6, Zenon
<1> QED
  BY <1>1, <1>2, Zenon

-----------------------------------------------------------------------------

(* g comes from h by serving a request from the free node n. *)
Served(g, h, n) ==
  /\ HeapInv(g) /\ g.shm_size = h.shm_size
  /\ FreeNodes(h.areas) \ {n} \subseteq FreeNodes(g.areas)
  /\ \A x \in Range(h.areas) : x.tag = 1 => x \in Range(g.areas)

(* The same, and the pieces s are areas of g. *)
ServedBy(g, h, n, s) == Served(g, h, n) /\ Range(s) \subseteq Range(g.areas)

(* A heap whose free area i was cut into s, with the lists to match, is      *)
(* sound.                                                                    *)
LEMMA Serve ==
  ASSUME NEW h, HeapInv(h), NEW i \in 1 .. Len(h.areas), h.areas[i].tag = 0,
         NEW s, s # <<>>, Tiled(s, h.areas[i].addr, End(h.areas[i])), NoPairs(s, 1, Len(s)),
         NEW n, n = Node(h.areas[i].addr, h.areas[i].size),
         NEW g, HeapShape(g), g.shm_size = h.shm_size, g.areas = Splice(h.areas, i, i, s),
         g.allocated = h.allocated \cup Taken(s),
         ListsOk(g, (FreeNodes(h.areas) \ {n}) \cup FreeNodes(s))
  PROVE  ServedBy(g, h, n, s)
<1> DEFINE a == h.areas
<1>1. Tiled(a, Base, Base + h.shm_size) /\ NoPairs(a, 1, Len(a)) /\ h.allocated = Taken(a)
  BY Zenon DEF HeapInv
<1>2. SplitInto(g.areas, a, i, s)
  BY <1>1, SplitArea, Zenon
<1>3. a[Len(a)].addr + a[Len(a)].size = Base + h.shm_size
  <2>1. a \in Seq(AreaType)
    BY <1>1, Zenon DEF Tiled
  <2>2. Len(a) \in 1 .. Len(a)
    BY <2>1
  <2> QED
    BY <1>1, <2>2, Zenon DEF Tiled, End
<1>4. /\ Tiled(g.areas, Base, Base + g.shm_size) /\ NoPairs(g.areas, 1, Len(g.areas))
      /\ FreeNodes(g.areas) = (FreeNodes(a) \ {n}) \cup FreeNodes(s)
      /\ Taken(g.areas) = Taken(a) \cup Taken(s)
      /\ \A x \in Range(a) : x.tag = 1 => x \in Range(g.areas)
      /\ Range(s) \subseteq Range(g.areas)
  BY <1>2, <1>3, Zenon DEF SplitInto
<1>5. HeapInv(g)
  BY <1>1, <1>4, Zenon DEF HeapInv
<1> QED
  BY <1>4, <1>5, Zenon DEF Served, ServedBy

(* What a free node is: an area of the global list with the tag 0. *)
LEMMA FreeNodeIs ==
  ASSUME NEW h, HeapInv(h), NEW n \in FreeNodes(h.areas)
  PROVE  \E i \in 1 .. Len(h.areas) :
           /\ h.areas[i].addr = n.addr /\ h.areas[i].size = n.size /\ h.areas[i].tag = 0
           /\ n = Node(h.areas[i].addr, h.areas[i].size) /\ n \in NodeType
           /\ n.addr \in Nat \ {0} /\ n.size \in Nat \ {0} /\ End(h.areas[i]) = n.addr + n.size
<1>0. Tiled(h.areas, Base, Base + h.shm_size)
  BY Zenon DEF HeapInv
<1>1. n \in NodeType
  BY <1>0, FreeNodesAre, Zenon
<1>2. n = Node(n.addr, n.size) /\ n.addr \in Nat \ {0} /\ n.size \in Nat \ {0}
  BY <1>1, Zenon DEF NodeType, Node
<1>3. PICK i \in 1 .. Len(h.areas) : h.areas[i] = Area(n.addr, n.size, 0)
  BY <1>0, FreeNodesAre, Zenon
<1>4. h.areas[i].addr = n.addr /\ h.areas[i].size = n.size /\ h.areas[i].tag = 0
  BY <1>3 DEF Area
<1> QED
  BY <1>1, <1>2, <1>4, Zenon DEF End

(* The node that serves a request is taken out of its list first. *)
LEMMA RemoveServed ==
  ASSUME NEW h, HeapInv(h), NEW n \in FreeNodes(h.areas)
  PROVE  Kept(RemoveFree(h, n), h, FreeNodes(h.areas) \ {n})
<1>0. Tiled(h.areas, Base, Base + h.shm_size) /\ HeapShape(h) /\ ListsOk(h, FreeNodes(h.areas))
  BY Zenon DEF HeapInv
<1>1. FreeNodes(h.areas) \subseteq NodeType /\ \A x, y \in FreeNodes(h.areas) : x.addr = y.addr => x = y
  BY <1>0, FreeNodesAre, Zenon
<1>2. n = Node(n.addr, n.size)
  BY <1>1, Zenon DEF NodeType, Node
<1>3. Node(n.addr, n.size) \in FreeNodes(h.areas)
  BY <1>2, Zenon
<1>4. Kept(RemoveFree(h, n), h, FreeNodes(h.areas) \ {Node(n.addr, n.size)})
  BY <1>0, <1>1, <1>3, RemoveFreeOk, Zenon
<1> QED
  BY <1>2, <1>4, Zenon

(* The areas b in the place of those of h, with the nodes N in the lists. *)
Laid(r, h, b, N) ==
  /\ HeapShape(r) /\ r.shm_size = h.shm_size /\ r.areas = b /\ r.allocated = h.allocated
  /\ ListsOk(r, N)

(* Then the areas are replaced, ... *)
LEMMA LaidReplace ==
  ASSUME NEW h, HeapInv(h), NEW f, NEW N, Kept(f, h, N), NEW i \in 1 .. Len(h.areas),
         NEW n, n.addr = h.areas[i].addr, NEW s
  PROVE  Laid(Replace(f, n, s), h, Splice(h.areas, i, i, s), N)
<1> DEFINE r == Replace(f, n, s)
<1>1. HeapShape(f) /\ f.areas = h.areas /\ f.shm_size = h.shm_size /\ f.allocated = h.allocated /\ ListsOk(f, N)
  BY Zenon DEF Kept, SameAreas
<1>2. Tiled(f.areas, Base, Base + h.shm_size) /\ i \in 1 .. Len(f.areas) /\ n.addr = f.areas[i].addr
  BY <1>1, Zenon DEF HeapInv
<1>3. Relaid(r, f, Splice(f.areas, i, i, s), f.allocated)
  BY <1>1, <1>2, ReplaceIs, Zenon
<1> HIDE DEF r
<1>4. ListsOk(r, N)
  BY <1>1, <1>3, RelaidLists, Zenon
<1>5. Laid(r, h, Splice(h.areas, i, i, s), N)
  BY <1>1, <1>3, <1>4, Zenon DEF Relaid, Laid
<1> QED
  BY <1>5, Zenon DEF r

(* ... what is left over is put into the lists, ... *)
LEMMA LaidAdd ==
  ASSUME NEW r, NEW h, NEW b, NEW N, Laid(r, h, b, N), NEW n \in NodeType, n \notin N
  PROVE  Laid(AddFree(r, n), h, b, N \cup {n})
<1>1. HeapShape(r) /\ ListsOk(r, N)
  BY Zenon DEF Laid
<1>2. Kept(AddFree(r, n), r, N \cup {n})
  BY <1>1, AddFreeOk, Zenon
<1> QED
  BY <1>2, Zenon DEF Laid, Kept, SameAreas

(* ... and the address is recorded: the heap is sound again. *)
LEMMA LaidDone ==
  ASSUME NEW h, HeapInv(h), NEW i \in 1 .. Len(h.areas), h.areas[i].tag = 0,
         NEW s, s # <<>>, Tiled(s, h.areas[i].addr, End(h.areas[i])), NoPairs(s, 1, Len(s)),
         NEW n, n = Node(h.areas[i].addr, h.areas[i].size),
         NEW r, Laid(r, h, Splice(h.areas, i, i, s), (FreeNodes(h.areas) \ {n}) \cup FreeNodes(s)),
         NEW a, Taken(s) = {a}
  PROVE  ServedBy(Allocated(r, a), h, n, s)
<1> DEFINE g == Allocated(r, a)
           N == (FreeNodes(h.areas) \ {n}) \cup FreeNodes(s)
<1>1. HeapShape(r) /\ ListsOk(r, N)
  BY Zenon DEF Laid
<1>2. Relaid(g, r, r.areas, r.allocated \cup {a})
  BY <1>1, AllocatedIs, Zenon
<1> HIDE DEF g, N
<1>3. ListsOk(g, N)
  BY <1>1, <1>2, Zenon DEF Relaid, ListsOk
<1>4. /\ HeapShape(g) /\ g.shm_size = h.shm_size /\ g.areas = Splice(h.areas, i, i, s)
      /\ g.allocated = h.allocated \cup Taken(s)
  BY <1>2, Zenon DEF Relaid, Laid
<1>5. ListsOk(g, (FreeNodes(h.areas) \ {n}) \cup FreeNodes(s))
  BY <1>3, Zenon DEF N
<1>6. ServedBy(g, h, n, s)
  BY <1>4, <1>5, Serve, Zenon
<1> QED
  BY <1>6, Zenon DEF g

(* An area of size units at a has been handed out, from the free node n. *)
HandedOut(g, h, n, a, size) == Served(g, h, n) /\ Area(a, size, 1) \in Range(g.areas)

(* allocate_free_area of a node taken whole, ... *)
LEMMA AllocateWhole ==
  ASSUME NEW h, HeapInv(h), NEW n \in FreeNodes(h.areas), NEW size, n.size = size
  PROVE  HandedOut(allocate_free_area(h, n, size), h, n, n.addr, size)
<1> DEFINE a == h.areas
           x == Area(n.addr, size, 1)
           s == <<x>>
           f == RemoveFree(h, n)
           r == Replace(f, n, s)
           g == Allocated(r, n.addr)
           N == FreeNodes(a) \ {n}
<1>0. allocate_free_area(h, n, size) = g
  BY Zenon DEF allocate_free_area
<1>1. PICK i \in 1 .. Len(a) :
        /\ a[i].addr = n.addr /\ a[i].size = n.size /\ a[i].tag = 0
        /\ n = Node(a[i].addr, a[i].size) /\ n \in NodeType
        /\ n.addr \in Nat \ {0} /\ n.size \in Nat \ {0} /\ End(a[i]) = n.addr + n.size
  BY FreeNodeIs, Zenon
<1>2. Kept(f, h, N)
  BY RemoveServed, Zenon
<1>4. x \in AreaType /\ x.addr = n.addr /\ x.tag = 1 /\ End(x) = n.addr + n.size
  BY <1>1 DEF Area, AreaType, End
<1> HIDE DEF x, f, N
<1>5. s # <<>> /\ Range(s) = {x} /\ Tiled(s, x.addr, End(x)) /\ NoPairs(s, 1, Len(s))
  BY <1>4, OneArea, Zenon
<1> HIDE DEF s
<1>7. FreeNodes(s) = {} /\ Taken(s) = {n.addr}
  <2>1. 0 # 1
    OBVIOUS
  <2> QED
    BY <1>4, <1>5, <2>1, Zenon DEF FreeNodes, Taken
<1>8. Laid(r, h, Splice(a, i, i, s), N)
  BY <1>1, <1>2, LaidReplace, Zenon
<1> HIDE DEF r
<1>9. N = (FreeNodes(a) \ {n}) \cup FreeNodes(s)
  BY <1>7, Zenon DEF N
<1>10. Tiled(s, a[i].addr, End(a[i])) /\ s # <<>> /\ NoPairs(s, 1, Len(s))
  BY <1>1, <1>4, <1>5, Zenon
<1>11. a[i].tag = 0 /\ n = Node(a[i].addr, a[i].size) /\ Taken(s) = {n.addr}
  BY <1>1, <1>7, Zenon
<1>12. Laid(r, h, Splice(a, i, i, s), (FreeNodes(a) \ {n}) \cup FreeNodes(s))
  BY <1>8, <1>9, Zenon
<1>13. ServedBy(g, h, n, s)
  BY <1>10, <1>11, <1>12, LaidDone, Zenon
<1> QED
  BY <1>0, <1>5, <1>13, Zenon DEF x, ServedBy, HandedOut

(* ... of the front of a node, ... *)
LEMMA AllocateFront ==
  ASSUME NEW h, HeapInv(h), NEW n \in FreeNodes(h.areas), NEW size \in Nat \ {0}, size < n.size
  PROVE  HandedOut(allocate_free_area(h, n, size), h, n, n.addr, size)
<1> DEFINE a == h.areas
           rest == Node(n.addr + size, n.size - size)
           x == Area(n.addr, size, 1)
           y == Area(rest.addr, rest.size, 0)
           s == <<x, y>>
           f == AddFree(RemoveFree(h, n), rest)
           r == Replace(f, n, s)
           g == Allocated(r, n.addr)
           N == FreeNodes(a) \ {n}
<1>1. PICK i \in 1 .. Len(a) :
        /\ a[i].addr = n.addr /\ a[i].size = n.size /\ a[i].tag = 0
        /\ n = Node(a[i].addr, a[i].size) /\ n \in NodeType
        /\ n.addr \in Nat \ {0} /\ n.size \in Nat \ {0} /\ End(a[i]) = n.addr + n.size
  BY FreeNodeIs, ZenonT(40)
<1>0. allocate_free_area(h, n, size) = g
  <2>1. n.size # size
    BY <1>1
  <2> QED
    BY <2>1, Zenon DEF allocate_free_area
<1>2. Kept(RemoveFree(h, n), h, N)
  BY RemoveServed, Zenon
<1>3. /\ rest \in NodeType /\ a[i].addr <= rest.addr /\ rest.addr < End(a[i])
      /\ rest.addr = n.addr + size /\ rest.size = n.size - size /\ rest = Node(rest.addr, rest.size)
  BY <1>1, SMTT(40) DEF Node, NodeType
<1>4. /\ x \in AreaType /\ x.addr = n.addr /\ x.tag = 1 /\ End(x) = n.addr + size
      /\ y \in AreaType /\ y.addr = n.addr + size /\ y.tag = 0 /\ End(y) = n.addr + n.size
      /\ y.addr = rest.addr /\ y.size = rest.size
  <2> HIDE DEF rest
  <2>1. rest.addr \in Nat \ {0} /\ rest.size \in Nat \ {0} /\ rest.addr + rest.size = n.addr + n.size
    BY <1>1, <1>3, SMTT(40)
  <2> QED
    BY <1>1, <1>3, <2>1, SMTT(40) DEF Area, AreaType, End
<1> HIDE DEF x, y, rest
<1>5. s # <<>> /\ Range(s) = {x, y} /\ Tiled(s, x.addr, End(y)) /\ NoPairs(s, 1, Len(s))
  BY <1>4, TwoAreas, Zenon
<1>6. rest \notin N
  <2>1. Tiled(a, Base, Base + h.shm_size)
    BY Zenon DEF HeapInv
  <2>2. n = Node(a[i].addr, a[i].size)
    BY <1>1, Zenon
  <2>3. rest \in NodeType /\ a[i].addr <= rest.addr /\ rest.addr < End(a[i])
    BY <1>3, Zenon
  <2> QED
    BY <2>1, <2>2, <2>3, FreshNode, Zenon
<1> HIDE DEF s, N
<1>7. FreeNodes(s) = {rest} /\ Taken(s) = {n.addr}
  <2>1. 0 # 1
    OBVIOUS
  <2>2. Node(y.addr, y.size) = rest
    BY <1>3, <1>4, Zenon
  <2> QED
    BY <1>4, <1>5, <2>1, <2>2, Zenon DEF FreeNodes, Taken
<1>8. Laid(r, h, Splice(a, i, i, s), N \cup {rest})
  <2>1. HeapShape(RemoveFree(h, n)) /\ ListsOk(RemoveFree(h, n), N)
    BY <1>2, Zenon DEF Kept
  <2>2. Kept(f, RemoveFree(h, n), N \cup {rest})
    BY <1>3, <1>6, <2>1, AddFreeOk, Zenon
  <2> HIDE DEF f
  <2>3. Kept(f, h, N \cup {rest})
    BY <1>2, <2>2, Zenon DEF Kept, SameAreas
  <2> QED
    BY <1>1, <2>3, LaidReplace, Zenon
<1> HIDE DEF r
<1>9. N \cup {rest} = (FreeNodes(a) \ {n}) \cup FreeNodes(s)
  BY <1>7, Zenon DEF N
<1>10. Tiled(s, a[i].addr, End(a[i])) /\ s # <<>> /\ NoPairs(s, 1, Len(s))
  BY <1>1, <1>4, <1>5, Zenon
<1>11. a[i].tag = 0 /\ n = Node(a[i].addr, a[i].size) /\ Taken(s) = {n.addr}
  BY <1>1, <1>7, Zenon
<1>12. Laid(r, h, Splice(a, i, i, s), (FreeNodes(a) \ {n}) \cup FreeNodes(s))
  BY <1>8, <1>9, Zenon
<1>13. ServedBy(g, h, n, s)
  BY <1>10, <1>11, <1>12, LaidDone, Zenon
<1> QED
  BY <1>0, <1>5, <1>13, Zenon DEF x, ServedBy, HandedOut

(* ... and of either. *)
LEMMA AllocateOk ==
  ASSUME NEW h, HeapInv(h), NEW n \in FreeNodes(h.areas), NEW size \in Nat \ {0}, size <= n.size
  PROVE  HandedOut(allocate_free_area(h, n, size), h, n, n.addr, size)
<1>1. n.size \in Nat
  BY FreeNodeIs, Zenon
<1>2. size = n.size \/ size < n.size
  BY <1>1
<1> QED
  BY <1>2, AllocateWhole, AllocateFront, Zenon

(* The aligned address is not below the node. *)
LEMMA AlignUpIs ==
  ASSUME NEW n, n.addr \in Nat, NEW align \in Nat \ {0}
  PROVE  AlignUp(n, align) \in Nat /\ n.addr <= AlignUp(n, align)
<1> DEFINE x == n.addr + align
           y == x % align
<1>1. x \in Nat /\ x = n.addr + align
  OBVIOUS
<1> HIDE DEF x
<1>2. y \in Nat /\ y < align
  <2>1. x \in Int /\ align \in Nat \ {0}
    BY <1>1
  <2>2. y \in 0 .. align - 1
    BY <2>1, ModRange, Zenon
  <2> HIDE DEF y
  <2> QED
    BY <2>2
<1>3. AlignUp(n, align) = IF n.addr % align = 0 THEN n.addr ELSE x - y
  BY Zenon DEF AlignUp, x
<1> HIDE DEF y
<1>4. x - y \in Nat /\ n.addr <= x - y
  BY <1>1, <1>2
<1>5. n.addr <= n.addr
  OBVIOUS
<1> QED
  BY <1>3, <1>4, <1>5, Zenon

(* The node in front of an area of size units at a, and the one behind it,   *)
(* when it is cut out of q units at p; x, y and z are the three as areas.      *)
Cut(p, q, a, size, up, low, x, y, z) ==
  /\ up \in NodeType /\ up.addr = p /\ up = Node(up.addr, up.size)
  /\ low = Node(low.addr, low.size) /\ p < low.addr
  /\ low.size > 0 => low \in NodeType /\ low.addr < p + q
  /\ x \in AreaType /\ x.addr = p /\ x.tag = 0 /\ End(x) = a /\ x.addr = up.addr /\ x.size = up.size
  /\ y \in AreaType /\ y.addr = a /\ y.tag = 1
  /\ z.addr = low.addr /\ z.size = low.size /\ z.tag = 0
  /\ low.size > 0 => z \in AreaType /\ z.addr = End(y) /\ End(z) = p + q
  /\ ~(low.size > 0) => End(y) = p + q

(* The arithmetic of do_align_valloc: the three pieces cover the node. *)
LEMMA CutIs ==
  ASSUME NEW p \in Nat \ {0}, NEW q \in Nat \ {0}, NEW size \in Nat \ {0}, NEW a \in Nat,
         p < a, a + size <= p + q,
         NEW up, up = Node(p, a - p), NEW low, low = Node(a + size, p + q - (a + size))
  PROVE  Cut(p, q, a, size, up, low, Area(up.addr, up.size, 0), Area(a, size, 1), Area(low.addr, low.size, 0))
<1> DEFINE x == Area(up.addr, up.size, 0)
           y == Area(a, size, 1)
           z == Area(low.addr, low.size, 0)
<1>1. /\ up \in NodeType /\ up.addr = p /\ up.size = a - p /\ up = Node(up.addr, up.size)
      /\ low.addr = a + size /\ low.size = p + q - (a + size) /\ low = Node(low.addr, low.size)
      /\ low.size \in Nat /\ (low.size > 0 => low \in NodeType)
  BY DEF Node, NodeType
<1>2. /\ x.addr = up.addr /\ x.size = up.size /\ x.tag = 0 /\ x = Area(x.addr, x.size, x.tag)
      /\ y.addr = a /\ y.size = size /\ y.tag = 1 /\ y = Area(y.addr, y.size, y.tag)
      /\ z.addr = low.addr /\ z.size = low.size /\ z.tag = 0 /\ z = Area(z.addr, z.size, z.tag)
  BY Zenon DEF Area
<1> HIDE DEF x, y, z
<1>3. \A u \in Nat \ {0}, v \in Nat \ {0}, t \in {0, 1} : Area(u, v, t) \in AreaType
  BY Zenon DEF Area, AreaType
<1>4. up.size \in Nat \ {0} /\ End(x) = a /\ End(y) = a + size
  BY <1>1, <1>2, SMTT(40) DEF End
<1>5. /\ p < low.addr
      /\ low.size > 0 => low.addr < p + q /\ low.addr \in Nat \ {0} /\ low.size \in Nat \ {0} /\ End(z) = p + q
      /\ ~(low.size > 0) => a + size = p + q
  BY <1>1, <1>2 DEF End
<1>6. a \in Nat \ {0} /\ 0 \in {0, 1} /\ 1 \in {0, 1}
  OBVIOUS
<1>7. x \in AreaType /\ y \in AreaType
  BY <1>1, <1>2, <1>3, <1>4, <1>6, ZenonT(40)
<1>8. low.size > 0 => z \in AreaType
  BY <1>2, <1>3, <1>5, <1>6, ZenonT(40)
<1>9. Cut(p, q, a, size, up, low, x, y, z)
  BY <1>1, <1>2, <1>4, <1>5, <1>7, <1>8, ZenonT(40) DEF Cut
<1> QED
  BY <1>9, Zenon DEF x, y, z

(* The list of pieces with and without the lower one. *)
LEMMA TwoAndOne ==
  ASSUME NEW x, NEW y, NEW z
  PROVE  <<x, y>> \o <<z>> = <<x, y, z>> /\ <<x, y>> \o <<>> = <<x, y>>
<1> DEFINE T == {x, y, z}
           p == <<x, y>>
           q == <<z>>
           r == <<x, y, z>>
<1>0. x \in T /\ y \in T /\ z \in T
  BY Zenon
<1> HIDE DEF T
<1>1. /\ p \in Seq(T) /\ Len(p) = 2 /\ p[1] = x /\ p[2] = y /\ q \in Seq(T) /\ Len(q) = 1 /\ q[1] = z
      /\ r \in Seq(T) /\ Len(r) = 3 /\ r[1] = x /\ r[2] = y /\ r[3] = z
  BY <1>0
<1>2. p \o <<>> = p
  OBVIOUS
<1> HIDE DEF p, q, r
<1>3. /\ p \o q \in Seq(T) /\ Len(p \o q) = Len(p) + Len(q)
      /\ \A m \in 1 .. Len(p) : (p \o q)[m] = p[m]
      /\ \A m \in Len(p) + 1 .. Len(p) + Len(q) : (p \o q)[m] = q[m - Len(p)]
  BY <1>1, Joined, ZenonT(40)
<1>4. 1 \in 1 .. Len(p) /\ 2 \in 1 .. Len(p) /\ 3 \in Len(p) + 1 .. Len(p) + Len(q) /\ 3 - Len(p) = 1 /\ Len(p) + Len(q) = 3
  BY <1>1
<1>5. (p \o q)[1] = x /\ (p \o q)[2] = y /\ (p \o q)[3] = z /\ Len(p \o q) = 3
  BY <1>1, <1>3, <1>4, Zenon
<1>6. 1 .. 3 = {1, 2, 3}
  OBVIOUS
<1>7. \A i \in 1 .. 3 : (p \o q)[i] = r[i]
  BY <1>1, <1>5, <1>6, Zenon
<1>8. p \o q = r
  BY <1>1, <1>3, <1>5, <1>7, SameSeq, ZenonT(40)
<1> QED
  BY <1>2, <1>8, Zenon DEF p, q, r

(* do_align_valloc with padding in front. *)
LEMMA AlignInside ==
  ASSUME NEW h, HeapInv(h), NEW n \in FreeNodes(h.areas), NEW size \in Nat \ {0}, NEW align \in Nat \ {0},
         NEW a \in Nat, a = AlignUp(n, align), n.addr < a, a + size <= n.addr + n.size
  PROVE  HandedOut(do_align_valloc(h, n, align, size), h, n, a, size)
<1> DEFINE b == h.areas
           N == FreeNodes(b) \ {n}
           up == Node(n.addr, a - n.addr)
           low == Node(a + size, n.addr + n.size - (a + size))
           f == AddFree(RemoveFree(h, n), up)
           x == Area(up.addr, up.size, 0)
           y == Area(a, size, 1)
           z == Area(low.addr, low.size, 0)
           s == <<x, y>> \o (IF low.size > 0 THEN <<z>> ELSE <<>>)
           r == Replace(f, n, s)
           g == Allocated(IF low.size > 0 THEN AddFree(r, low) ELSE r, a)
<1>1. PICK i \in 1 .. Len(b) :
        /\ b[i].addr = n.addr /\ b[i].size = n.size /\ b[i].tag = 0
        /\ n = Node(b[i].addr, b[i].size) /\ n \in NodeType
        /\ n.addr \in Nat \ {0} /\ n.size \in Nat \ {0} /\ End(b[i]) = n.addr + n.size
  BY FreeNodeIs, Zenon
<1>0. do_align_valloc(h, n, align, size) = g
  <2>1. n.addr # a
    BY <1>1
  <2> QED
    BY <2>1, Zenon DEF do_align_valloc
<1>2. Kept(RemoveFree(h, n), h, N)
  BY RemoveServed, Zenon
<1>3. Cut(n.addr, n.size, a, size, up, low, x, y, z)
  <2>1. n.addr \in Nat \ {0} /\ n.size \in Nat \ {0}
    BY <1>1, Zenon
  <2>2. up = Node(n.addr, a - n.addr) /\ low = Node(a + size, n.addr + n.size - (a + size))
    BY Zenon
  <2> HIDE DEF up, low
  <2> QED
    BY <2>1, <2>2, CutIs, Zenon
<1> HIDE DEF up, low, x, y, z
<1>4. /\ up \in NodeType /\ up = Node(up.addr, up.size) /\ low = Node(low.addr, low.size)
      /\ x \in AreaType /\ x.addr = n.addr /\ x.tag = 0 /\ End(x) = a /\ x.addr = up.addr /\ x.size = up.size
      /\ y \in AreaType /\ y.addr = a /\ y.tag = 1
  BY <1>3, Zenon DEF Cut
<1>5. /\ z.addr = low.addr /\ z.size = low.size /\ z.tag = 0
      /\ low.size > 0 => z \in AreaType /\ z.addr = End(y) /\ End(z) = n.addr + n.size
      /\ ~(low.size > 0) => End(y) = n.addr + n.size
  BY <1>3, Zenon DEF Cut
<1>6. Tiled(b, Base, Base + h.shm_size)
  BY Zenon DEF HeapInv
<1>7. up \notin N
  <2>1. n = Node(b[i].addr, b[i].size)
    BY <1>1, ZenonT(40)
  <2>2. b[i].addr <= up.addr /\ up.addr < End(b[i])
    BY <1>1, <1>3 DEF Cut
  <2> QED
    BY <1>4, <1>6, <2>1, <2>2, FreshNode, Zenon
<1>8. ASSUME low.size > 0 PROVE low \in NodeType /\ low \notin N \cup {up}
  <2>0. low \in NodeType
    BY <1>3, <1>8, ZenonT(40) DEF Cut
  <2>1. n = Node(b[i].addr, b[i].size)
    BY <1>1, Zenon
  <2>2. b[i].addr <= low.addr /\ low.addr < End(b[i])
    <3>1. n.addr < low.addr /\ low.addr < n.addr + n.size /\ low.addr \in Nat
      BY <1>3, <1>8, <2>0, SMTT(40) DEF Cut, NodeType
    <3> QED
      BY <1>1, <3>1, SMTT(40)
  <2>3. low \notin N
    BY <2>0, <1>6, <2>1, <2>2, FreshNode, ZenonT(40)
  <2>4. low.addr # up.addr
    <3>1. n.addr < low.addr /\ up.addr = n.addr /\ low.addr \in Nat
      BY <1>3, <2>0 DEF Cut, NodeType
    <3> QED
      BY <1>1, <3>1, SMTT(40)
  <2> QED
    BY <2>0, <2>3, <2>4, Zenon
<1>9. Laid(r, h, Splice(b, i, i, s), N \cup {up})
  <2>1. HeapShape(RemoveFree(h, n)) /\ ListsOk(RemoveFree(h, n), N)
    BY <1>2, Zenon DEF Kept
  <2> HIDE DEF N
  <2>2. Kept(f, RemoveFree(h, n), N \cup {up})
    <3>1. up \in NodeType /\ up \notin N
      BY <1>4, <1>7, Zenon
    <3> QED
      BY <2>1, <3>1, AddFreeOk, Zenon
  <2>3. n.addr = b[i].addr
    BY <1>1, Zenon
  <2> HIDE DEF f
  <2>5. Kept(f, h, N \cup {up})
    BY <1>2, <2>2, Zenon DEF Kept, SameAreas
  <2> HIDE DEF s
  <2> QED
    BY <2>3, <2>5, LaidReplace, Zenon
<1> HIDE DEF N, f, r, s, g
<1>10. 0 # 1
  OBVIOUS
<1>a. b[i].tag = 0 /\ n = Node(b[i].addr, b[i].size)
  BY <1>1, Zenon
<1>11. Node(x.addr, x.size) = up /\ Node(z.addr, z.size) = low
  BY <1>4, <1>5, Zenon
<1>12. CASE low.size > 0
  <2>1. s = <<x, y, z>>
    <3>1. s = <<x, y>> \o <<z>>
      BY <1>12, Zenon DEF s
    <3> QED
      BY <3>1, TwoAndOne, Zenon
  <2>2. <<x, y, z>> # <<>> /\ Range(<<x, y, z>>) = {x, y, z} /\ Tiled(<<x, y, z>>, x.addr, End(z)) /\ NoPairs(<<x, y, z>>, 1, Len(<<x, y, z>>))
    <3>1. x \in AreaType /\ y \in AreaType /\ z \in AreaType /\ y.addr = End(x) /\ z.addr = End(y) /\ y.tag = 1
      BY <1>4, <1>5, <1>12, Zenon
    <3> QED
      BY <3>1, ThreeAreas, Zenon
  <2>3. s # <<>> /\ Range(s) = {x, y, z} /\ Tiled(s, b[i].addr, End(b[i])) /\ NoPairs(s, 1, Len(s))
    BY <1>1, <1>4, <1>5, <1>12, <2>1, <2>2, ZenonT(40)
  <2>4. FreeNodes(s) = {up, low} /\ Taken(s) = {a}
    <3>1. {q \in Range(s) : q.tag = 0} = {x, z} /\ {q \in Range(s) : q.tag = 1} = {y}
      BY <1>4, <1>5, <1>10, <2>3, ZenonT(40)
    <3>2. FreeNodes(s) = {Node(q.addr, q.size) : q \in {x, z}} /\ Taken(s) = {q.addr : q \in {y}}
      BY <3>1, Zenon DEF FreeNodes, Taken
    <3>3. y.addr = a
      BY <1>4, Zenon
    <3> QED
      BY <1>11, <3>2, <3>3, Zenon
  <2>5. Laid(AddFree(r, low), h, Splice(b, i, i, s), (N \cup {up}) \cup {low})
    BY <1>8, <1>9, <1>12, LaidAdd, ZenonT(40)
  <2>6. (N \cup {up}) \cup {low} = (FreeNodes(b) \ {n}) \cup FreeNodes(s)
    BY <2>4, Zenon DEF N
  <2>7. Laid(AddFree(r, low), h, Splice(b, i, i, s), (FreeNodes(b) \ {n}) \cup FreeNodes(s))
    BY <2>5, <2>6, Zenon
  <2>8. Taken(s) = {a}
    BY <2>4, Zenon
  <2>9. ServedBy(Allocated(AddFree(r, low), a), h, n, s)
    BY <1>a, <2>3, <2>7, <2>8, LaidDone, ZenonT(40)
  <2>10. g = Allocated(AddFree(r, low), a)
    BY <1>12, Zenon DEF g
  <2> QED
    BY <2>3, <2>9, <2>10, <1>0, Zenon DEF y, ServedBy, HandedOut
<1>13. CASE ~(low.size > 0)
  <2>1. s = <<x, y>>
    <3>1. s = <<x, y>> \o <<>>
      BY <1>13, Zenon DEF s
    <3> QED
      BY <3>1, TwoAndOne, Zenon
  <2>2. <<x, y>> # <<>> /\ Range(<<x, y>>) = {x, y} /\ Tiled(<<x, y>>, x.addr, End(y)) /\ NoPairs(<<x, y>>, 1, Len(<<x, y>>))
    <3>1. x \in AreaType /\ y \in AreaType /\ y.addr = End(x) /\ y.tag = 1
      BY <1>4, Zenon
    <3> QED
      BY <3>1, TwoAreas, Zenon
  <2>3. s # <<>> /\ Range(s) = {x, y} /\ Tiled(s, b[i].addr, End(b[i])) /\ NoPairs(s, 1, Len(s))
    <3>1. End(y) = End(b[i]) /\ x.addr = b[i].addr
      BY <1>1, <1>4, <1>5, <1>13, Zenon
    <3> QED
      BY <2>1, <2>2, <3>1, Zenon
  <2>4. FreeNodes(s) = {up} /\ Taken(s) = {a}
    <3>1. {q \in Range(s) : q.tag = 0} = {x} /\ {q \in Range(s) : q.tag = 1} = {y}
      BY <1>4, <1>10, <2>3, Zenon
    <3>2. FreeNodes(s) = {Node(q.addr, q.size) : q \in {x}} /\ Taken(s) = {q.addr : q \in {y}}
      BY <3>1, Zenon DEF FreeNodes, Taken
    <3>3. y.addr = a
      BY <1>4, Zenon
    <3> QED
      BY <1>11, <3>2, <3>3, Zenon
  <2>6. N \cup {up} = (FreeNodes(b) \ {n}) \cup FreeNodes(s)
    BY <2>4, Zenon DEF N
  <2>7. Laid(r, h, Splice(b, i, i, s), (FreeNodes(b) \ {n}) \cup FreeNodes(s))
    BY <1>9, <2>6, Zenon
  <2>8. Taken(s) = {a}
    BY <2>4, Zenon
  <2>9. ServedBy(Allocated(r, a), h, n, s)
    BY <1>a, <2>3, <2>7, <2>8, LaidDone, ZenonT(40)
  <2>10. g = Allocated(r, a)
    BY <1>13, Zenon DEF g
  <2> QED
    BY <2>3, <2>9, <2>10, <1>0, ZenonT(40) DEF y, ServedBy, HandedOut
<1> QED
  BY <1>12, <1>13, Zenon

(* do_align_valloc in any node that can hold the aligned area. *)
LEMMA AlignVallocOk ==
  ASSUME NEW h, HeapInv(h), NEW n \in FreeNodes(h.areas), NEW size \in Nat \ {0}, NEW align \in Nat \ {0},
         AlignFits(n, align, size)
  PROVE  HandedOut(do_align_valloc(h, n, align, size), h, n, AlignUp(n, align), size)
<1> DEFINE a == AlignUp(n, align)
<1>1. n.addr \in Nat /\ n.size \in Nat
  BY FreeNodeIs, Zenon
<1>2. a \in Nat /\ n.addr <= a
  BY <1>1, AlignUpIs, Zenon
<1>3. a + size <= n.addr + n.size
  BY Zenon DEF AlignFits
<1>4. CASE a = n.addr
  <2>1. size <= n.size
    <3> HIDE DEF a
    <3> QED
      BY <1>1, <1>3, <1>4, SMTT(40)
  <2>2. do_align_valloc(h, n, align, size) = allocate_free_area(h, n, size)
    BY <1>4, Zenon DEF do_align_valloc
  <2> QED
    BY <1>4, <2>1, <2>2, AllocateOk, Zenon
<1>5. CASE a # n.addr
  <2> HIDE DEF a
  <2>1. n.addr < a
    BY <1>1, <1>2, <1>5, SMTT(40)
  <2>2. a = AlignUp(n, align)
    BY Zenon DEF a
  <2>3. HandedOut(do_align_valloc(h, n, align, size), h, n, a, size)
    BY <1>2, <1>3, <2>1, <2>2, AlignInside, Zenon
  <2> QED
    BY <2>3, Zenon DEF a
<1> QED
  BY <1>4, <1>5, Zenon
=============================================================================
