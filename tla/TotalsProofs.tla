--------------------------- MODULE TotalsProofs ---------------------------
(***************************************************************************)
(* Sums of sequences and remainders: what the proofs about the length kept *)
(* by a queue (BlockQueue) and about the totals and lists of the shared-   *)
(* memory allocator (ShmAlloc) need.                                       *)
(***************************************************************************)
EXTENDS Totals, TLAPS
LOCAL INSTANCE WellFoundedInduction

(* A set of natural numbers has a least member. *)
LEMMA LeastNat ==
  ASSUME NEW T, T \subseteq Nat, T # {}
  PROVE  \E x \in T : \A y \in T : x <= y
<1> DEFINE R == OpToRel(<, Nat)
<1>1. IsWellFoundedOn(R, Nat)
  BY NatLessThanWellFounded, Zenon
<1> HIDE DEF R
<1>2. PICK x \in T : \A y \in T : ~(<<y, x>> \in R)
  BY <1>1, WFMin, Zenon
<1>3. ASSUME NEW y \in T PROVE x <= y
  <2>1. ~(<<y, x>> \in R)
    BY <1>2, Zenon
  <2>2. x \in Nat /\ y \in Nat
    BY Zenon
  <2>3. ~(y < x)
    BY <2>1, <2>2, Zenon DEF R, OpToRel
  <2> QED
    BY <2>2, <2>3
<1> QED
  BY <1>3, Zenon

(* f holds the partial sums of the first n numbers of s. *)
PartialSums(f, s, n) ==
  f = [i \in 0 .. n |-> IF i = 0 THEN 0 ELSE f[i - 1] + s[i]]

(* There is only one way to form the partial sums, so whatever holds them    *)
(* ends in the total.                                                        *)
LEMMA TotalIs ==
  ASSUME NEW n \in Nat, NEW s \in Seq(Nat), Len(s) = n, NEW f, PartialSums(f, s, n)
  PROVE  Total(s) = f[n]
<1> DEFINE g == CHOOSE h : h = [i \in 0 .. n |-> IF i = 0 THEN 0 ELSE h[i - 1] + s[i]]
<1>1. PartialSums(g, s, n)
  BY Zenon DEF PartialSums
<1>2. f = g
  <2> HIDE DEF g
  <2> DEFINE T == {i \in 0 .. n : f[i] # g[i]}
  <2>1. /\ \A i \in 0 .. n : f[i] = IF i = 0 THEN 0 ELSE f[i - 1] + s[i]
        /\ \A i \in 0 .. n : g[i] = IF i = 0 THEN 0 ELSE g[i - 1] + s[i]
    BY <1>1, Zenon DEF PartialSums
  <2>2. ASSUME T # {} PROVE FALSE
    <3>1. T \subseteq Nat
      OBVIOUS
    <3>2. PICK l \in T : \A y \in T : l <= y
      BY <2>2, <3>1, LeastNat, Zenon
    <3>3. l # 0
      BY <2>1, <3>2, Zenon
    <3>4. l - 1 \in 0 .. n /\ l - 1 \notin T
      BY <3>2, <3>3
    <3>5. f[l - 1] = g[l - 1]
      BY <3>4, Zenon
    <3> QED
      BY <2>1, <3>2, <3>3, <3>5, Zenon
  <2>3. \A i \in 0 .. n : f[i] = g[i]
    BY <2>2, Zenon
  <2>4. f = [i \in 0 .. n |-> f[i]] /\ g = [i \in 0 .. n |-> g[i]]
    BY <1>1, Zenon DEF PartialSums
  <2> QED
    BY <2>3, <2>4, Zenon
<1> QED
  BY <1>2, Zenon DEF Total

(* The total of a sequence of natural numbers is the last partial sum.  The  *)
(* partial sums exist, by taking the first place where they would not.       *)
LEMMA TotalSums ==
  ASSUME NEW s \in Seq(Nat)
  PROVE  \E f \in [0 .. Len(s) -> Nat] : PartialSums(f, s, Len(s)) /\ Total(s) = f[Len(s)]
<1>1. Len(s) \in Nat /\ s \in [1 .. Len(s) -> Nat]
  OBVIOUS
<1>2. PICK f \in [0 .. Len(s) -> Nat] : PartialSums(f, s, Len(s))
  <2> DEFINE n == Len(s)
             T == {l \in Nat : l <= n /\ ~\E f \in [0 .. l -> Nat] : PartialSums(f, s, l)}
  <2>0. n \in Nat /\ s \in [1 .. n -> Nat]
    OBVIOUS
  <2> HIDE DEF n
  <2>1. ASSUME T # {} PROVE FALSE
    <3>1. PICK l \in T : \A y \in T : l <= y
      BY <2>1, LeastNat, Zenon
    <3>2. l \in Nat /\ l <= n /\ ~\E f \in [0 .. l -> Nat] : PartialSums(f, s, l)
      BY <3>1, Zenon
    <3>3. CASE l = 0
      <4> DEFINE f == [i \in 0 .. 0 |-> 0]
      <4>1. f \in [0 .. l -> Nat] /\ PartialSums(f, s, l)
        BY <3>3 DEF PartialSums
      <4> QED
        BY <3>2, <4>1, Zenon
    <3>4. CASE l # 0
      <4>0. l - 1 \in Nat /\ l - 1 <= n /\ ~(l <= l - 1)
        BY <2>0, <3>2, <3>4
      <4>1. l - 1 \in Nat /\ l - 1 <= n /\ l - 1 \notin T
        BY <3>1, <4>0, Zenon
      <4>2. PICK f \in [0 .. l - 1 -> Nat] : PartialSums(f, s, l - 1)
        BY <4>1, Zenon
      <4> DEFINE g == [i \in 0 .. l |-> IF i = l THEN f[l - 1] + s[l] ELSE f[i]]
      <4>3. \A i \in 0 .. l - 1 : f[i] = IF i = 0 THEN 0 ELSE f[i - 1] + s[i]
        BY <4>2, Zenon DEF PartialSums
      <4>4. g \in [0 .. l -> Nat]
        BY <2>0, <3>2, <3>4
      <4>5. \A i \in 0 .. l : g[i] = IF i = 0 THEN 0 ELSE g[i - 1] + s[i]
        <5> SUFFICES ASSUME NEW i \in 0 .. l PROVE g[i] = IF i = 0 THEN 0 ELSE g[i - 1] + s[i]
          BY Zenon
        <5>1. CASE i = l
          <6>1. l - 1 \in 0 .. l /\ l - 1 # l /\ l \in 0 .. l
            BY <3>2, <3>4
          <6>2. g[l - 1] = f[l - 1] /\ g[l] = f[l - 1] + s[l]
            BY <6>1, Zenon
          <6> QED
            BY <3>4, <5>1, <6>2, Zenon
        <5>2. CASE i # l
          <6>1. i \in 0 .. l - 1 /\ (i # 0 => i - 1 \in 0 .. l /\ i - 1 # l)
            BY <3>2, <5>2
          <6>2. g[i] = f[i] /\ (i # 0 => g[i - 1] = f[i - 1])
            BY <5>2, <6>1, Zenon
          <6> QED
            BY <4>3, <6>1, <6>2, Zenon
        <5> QED
          BY <5>1, <5>2, Zenon
      <4>6. PartialSums(g, s, l)
        <5> HIDE DEF g
        <5> QED BY <4>4, <4>5, Zenon DEF PartialSums
      <4> QED
        BY <3>2, <4>4, <4>6, Zenon
    <3> QED
      BY <3>3, <3>4, Zenon
  <2>2. n \notin T
    BY <2>1, Zenon
  <2> QED
    BY <2>0, <2>2 DEF n
<1> QED
  BY <1>1, <1>2, TotalIs, Zenon

(* A total is a natural number, and that of nothing is 0. *)
LEMMA TotalNat ==
  ASSUME NEW s \in Seq(Nat)
  PROVE  Total(s) \in Nat /\ (Len(s) = 0 => Total(s) = 0)
<1>1. PICK f \in [0 .. Len(s) -> Nat] : PartialSums(f, s, Len(s)) /\ Total(s) = f[Len(s)]
  BY TotalSums, Zenon
<1>2. Len(s) \in 0 .. Len(s) /\ Len(s) \in Nat
  OBVIOUS
<1>3. f[Len(s)] = IF Len(s) = 0 THEN 0 ELSE f[Len(s) - 1] + s[Len(s)]
  BY <1>1, <1>2, Zenon DEF PartialSums
<1> QED
  BY <1>1, <1>2, <1>3, Zenon

(* A number put in anywhere adds to the total. *)
LEMMA TotalInsert ==
  ASSUME NEW s \in Seq(Nat), NEW x \in Nat, NEW i \in 1 .. Len(s) + 1,
         NEW t \in Seq(Nat), Len(t) = Len(s) + 1, t[i] = x,
         \A j \in 1 .. i - 1 : t[j] = s[j],
         \A j \in i + 1 .. Len(s) + 1 : t[j] = s[j - 1]
  PROVE  Total(t) = Total(s) + x
<1> DEFINE n == Len(s)
<1>1. n \in Nat /\ Len(t) \in Nat /\ Len(t) = n + 1 /\ i \in 1 .. n + 1
  OBVIOUS
<1>2. PICK f \in [0 .. n -> Nat] : PartialSums(f, s, n) /\ Total(s) = f[n]
  BY TotalSums, Zenon
<1>3. \A j \in 0 .. n : f[j] = IF j = 0 THEN 0 ELSE f[j - 1] + s[j]
  BY <1>2, Zenon DEF PartialSums
<1>4. \A j \in 1 .. n : s[j] \in Nat
  BY SMTT(40)
<1> HIDE DEF n
<1> DEFINE g == [j \in 0 .. n + 1 |-> IF j < i THEN f[j] ELSE f[j - 1] + x]
<1>5. \A j \in 0 .. n + 1 : g[j] = IF j < i THEN f[j] ELSE f[j - 1] + x
  BY Zenon
<1>6. g = [j \in 0 .. n + 1 |-> g[j]]
  BY Zenon
<1> HIDE DEF g
<1>7. ASSUME NEW j \in 0 .. n + 1 PROVE g[j] = IF j = 0 THEN 0 ELSE g[j - 1] + t[j]
  <2>1. CASE j = 0
    <3>1. 0 < i /\ 0 \in 0 .. n /\ 0 \in 0 .. n + 1
      BY <1>1
    <3> QED
      BY <1>3, <1>5, <2>1, <3>1, Zenon
  <2>2. CASE j # 0 /\ j < i
    <3>1. j \in 0 .. n /\ j - 1 \in 0 .. n + 1 /\ j - 1 < i /\ j \in 1 .. i - 1
      BY <1>1, <2>2
    <3>2. f[j] = f[j - 1] + s[j] /\ t[j] = s[j]
      BY <1>3, <2>2, <3>1, Zenon
    <3> QED
      BY <1>5, <2>2, <3>1, <3>2, Zenon
  <2>3. CASE j = i
    <3>1. i - 1 \in 0 .. n + 1 /\ i - 1 < i /\ ~(i < i) /\ i # 0 /\ i \in 0 .. n + 1
      BY <1>1
    <3>2. g[i - 1] = f[i - 1] /\ g[i] = f[i - 1] + x
      BY <1>5, <3>1, Zenon
    <3> QED
      BY <2>3, <3>1, <3>2, Zenon
  <2>4. CASE j > i
    <3>0. i \in Int /\ i >= 1 /\ j \in Int /\ j <= n + 1 /\ n \in Nat
      BY <1>1
    <3>1. /\ j - 1 \in 0 .. n + 1 /\ ~(j - 1 < i) /\ ~(j < i) /\ j # 0 /\ j - 1 # 0
          /\ j - 1 \in 0 .. n /\ j - 1 \in 1 .. n /\ j \in i + 1 .. n + 1 /\ j - 1 - 1 \in 0 .. n
      BY <2>4, <3>0
    <3>2. t[j] = s[j - 1]
      BY <3>1, Zenon DEF n
    <3>3. g[j] = f[j - 1] + x /\ g[j - 1] = f[j - 1 - 1] + x
      BY <1>5, <3>1, Zenon
    <3>4. f[j - 1] = f[j - 1 - 1] + s[j - 1]
      BY <1>3, <3>1, Zenon
    <3>5. f[j - 1 - 1] \in Nat /\ s[j - 1] \in Nat
      BY <1>2, <1>4, <3>1, Zenon
    <3> QED
      BY <3>1, <3>2, <3>3, <3>4, <3>5, SMTT(40)
  <2> QED
    BY <1>1, <2>1, <2>2, <2>3, <2>4
<1>8. PartialSums(g, t, n + 1)
  BY <1>6, <1>7, Zenon DEF PartialSums
<1>9. Total(t) = g[n + 1]
  <2>1. n + 1 \in Nat /\ Len(t) = n + 1
    BY <1>1, Zenon
  <2> QED
    BY <1>8, <2>1, TotalIs, Zenon
<1>10. PICK m \in 0 .. n + 1 : m = n + 1 /\ ~(m < i) /\ m - 1 = n
  BY <1>1
<1>11. g[m] = f[m - 1] + x
  BY <1>5, <1>10, Zenon
<1> QED
  BY <1>2, <1>9, <1>10, <1>11, Zenon

(* No number exceeds the total it is part of, and taking it out takes it     *)
(* from the total.                                                           *)
LEMMA TotalRemove ==
  ASSUME NEW t \in Seq(Nat), NEW i \in 1 .. Len(t),
         NEW s \in Seq(Nat), Len(s) = Len(t) - 1,
         \A j \in 1 .. i - 1 : s[j] = t[j],
         \A j \in i .. Len(t) - 1 : s[j] = t[j + 1]
  PROVE  Total(t) = Total(s) + t[i]
<1>1. t[i] \in Nat /\ i \in 1 .. Len(s) + 1 /\ Len(t) = Len(s) + 1
  OBVIOUS
<1>2. \A j \in 1 .. i - 1 : t[j] = s[j]
  OBVIOUS
<1>3. \A j \in i + 1 .. Len(s) + 1 : t[j] = s[j - 1]
  <2> SUFFICES ASSUME NEW j \in i + 1 .. Len(s) + 1 PROVE t[j] = s[j - 1]
    BY Zenon
  <2>1. j - 1 \in i .. Len(t) - 1 /\ j - 1 + 1 = j
    BY <1>1
  <2> QED
    BY <2>1, Zenon
<1> QED
  BY <1>1, <1>2, <1>3, TotalInsert, Zenon

(* A remainder lies below the divisor. *)
LEMMA ModRange ==
  ASSUME NEW m \in Nat \ {0}, NEW a \in Int
  PROVE  a % m \in 0 .. m - 1 /\ a \div m \in Int
  OBVIOUS

(* The list of a size: a quotient is bounded by that of the bound. *)
LEMMA DivLists ==
  ASSUME NEW m \in Nat \ {0}, NEW a \in Nat, NEW l \in Nat
  PROVE  /\ a \div m \in Nat 
         /\ (a <= m * l => a \div m <= l)
         /\ (a \div m = l => a >= m * l)
OBVIOUS
=============================================================================
