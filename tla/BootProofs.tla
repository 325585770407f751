----------------------------- MODULE BootProofs -----------------------------
(***************************************************************************)
(* Proofs about the reset sequences of a B4860 (DspBoot), for any number   *)
(* of cores and any images and requests, and wherever a load or restart    *)
(* breaks off.                                                             *)
(***************************************************************************)
EXTENDS DspBoot, WellFoundedInduction, TLAPS

-----------------------------------------------------------------------------
(* The reset sequences of a B4860: types. *)
BtRecord == bt = [pc |-> bt.pc, call |-> bt.call, k |-> bt.k, ret |-> bt.ret, strobe |-> bt.strobe,
                  mapped |-> bt.mapped, mask |-> bt.mask, corrupt |-> bt.corrupt]
RegsRecord == regs = [brr |-> regs.brr, pir |-> regs.pir, ph15 |-> regs.ph15, vnmi |-> regs.vnmi,
                      safe |-> regs.safe, strobe |-> regs.strobe, l2 |-> regs.l2]
CtlRecord == ctl = [pa |-> ctl.pa, shared |-> ctl.shared, mode |-> ctl.mode, status |-> ctl.status]

Stopped == {"off", "held", "reset"}
CoreStates == Stopped \cup {"init", "run", "hung", "debug", "ready", "ph15"}
Loaded == {"whole", "torn"}

HwType ==
  /\ RegsRecord /\ CtlRecord
  /\ core \in [Cores -> CoreStates]
  /\ ctl.pa \in BOOLEAN /\ ctl.shared \in BOOLEAN
  /\ ctl.status \in [Cores -> {"none", "BEGIN", "SUCCESS", "READY"}]
  /\ image \in [Cores \cup {Shared} -> {"none", "part"} \cup Loaded]

BootType ==
  /\ BtRecord /\ HwType
  /\ bt.call \in BootCalls \cup {NoCall}
  /\ bt.k \in Int /\ bt.ret \in {0, 1} /\ bt.corrupt \in BOOLEAN /\ bt.mask \subseteq Cores

(* What a core needs before it is released, its image apart. *)
Provided(c) == ctl.pa = TRUE /\ ctl.shared = TRUE /\ c \div 2 \in regs.l2

(* A core that was ever released has been provided for, and so has every    *)
(* flagged core once it has answered the VNMI or stood in debug mode.       *)
ProvidedInv ==
  /\ \A c \in Cores : c \in regs.brr \/ core[c] \notin Stopped \/ ctl.status[c] # "none" => Provided(c)
  /\ AtPc("open") => bt.k = 0
  /\ AtPc("ack") => bt.k \in F
  /\ bt.pc \in {"vnmi", "ack"} => \A c \in F : c < bt.k => Provided(c)
  /\ bt.pc \in {"strobe", "reack", "ph15", "ipc", "pir", "hold", "clear", "shared", "load", "release"} =>
       \A c \in F : Provided(c)

(* Through a reset, a flagged core is in reset, then held and not released, *)
(* then released; what it reports from then on is about this start.         *)
RestartInv ==
  bt.corrupt = FALSE =>
    /\ AtPc("hold") => \A c \in F : core[c] = "reset"
    /\ AtPc("clear") => \A c \in F : core[c] = "reset" /\ c \notin regs.brr
    /\ bt.pc \in {"shared", "load", "release"} => \A c \in F : core[c] = "held" /\ c \notin regs.brr
    /\ bt.pc \in {"hold", "clear", "shared", "load", "release", "crstsr", "sem", "status", "end"} =>
         ctl.mode # 0
    /\ bt.pc \in {"crstsr", "sem", "status", "end"} =>
         \A c \in F : /\ core[c] = "held" => AtPc("crstsr")
                      /\ core[c] \notin {"off", "reset"}
                      /\ core[c] # "held" /\ ctl.status[c] = "SUCCESS" => c \in restarted
    /\ AtPc("status") /\ bt.ret = 0 => \A c \in F : c < bt.k => c \in restarted
    /\ AtPc("end") /\ bt.ret = 0 => F \subseteq restarted

ColdPcs == {"n_ph15", "n_pir", "n_hold", "n_clear", "c_load", "c_release"}

(* The images of the call so far, the caches of an initial load, and the    *)
(* cores while a load of new images runs.                                   *)
LoadInv ==
  /\ AtPc("load") /\ Aligned(bt.call) => \A c \in F : c < bt.k => image[c] \in Loaded
  /\ AtPc("release") /\ Aligned(bt.call) => \A c \in F : image[c] \in Loaded
  /\ AtPc("c_open") => bt.mask = {}
  /\ bt.pc \in ColdPcs \cup {"c_open"} => bt.call.api \in {"dsp_boot", "load_new"}
  /\ bt.pc \in ColdPcs =>
       /\ ctl.shared = TRUE
       /\ \A i \in 1 .. Len(bt.call.ids) :
            bubble_sort(bt.call.ids)[i] \in Cores => bubble_sort(bt.call.ids)[i] \div 2 \in regs.l2
       /\ \A c \in bt.mask : image[c] \in Loaded /\ Provided(c)
  /\ AtPc("c_load") => bt.k \in 0 .. Len(bt.call.ids)
  /\ bt.call.api = "load_new" =>
       /\ bt.pc \in ColdPcs \cup {"c_open", "c_sem"}
       /\ bt.pc \in {"n_hold", "n_clear"} => \A c \in Cores : core[c] = "reset"
       /\ AtPc("c_load") => \A c \in Cores : core[c] = "held"
       /\ bt.pc \in {"n_clear", "c_load"} => regs.brr = {}

BootInv == BootType /\ ProvidedInv /\ RestartInv /\ LoadInv

-----------------------------------------------------------------------------
LEMMA LeastNat ==
  ASSUME NEW T, T \subseteq Nat, T # {}
  PROVE  \E x \in T : \A y \in T : x <= y
<1> DEFINE R == OpToRel(<, Nat)
<1>1. IsWellFoundedOn(R, Nat)
  BY NatLessThanWellFounded, Zenon
<1> HIDE DEF R
<1>2. PICK x \in T : \A y \in T : ~(<<y, x>> \in R)
  BY <1>1, WFMin, Zenon
<1>3. ASSUME NEW y \in T PROVE x <= y
  <2>1. ~(<<y, x>> \in R)
    BY <1>2, Zenon
  <2>2. x \in Nat /\ y \in Nat
    BY Zenon
  <2>3. ~(y < x)
    BY <2>1, <2>2, Zenon DEF R, OpToRel
  <2> QED
    BY <2>2, <2>3
<1> QED
  BY <1>3, Zenon

(* p puts the n numbers s in order. *)
Orders(p, s, n) ==
  /\ p \in [1 .. n -> 1 .. n]
  /\ \A i, j \in 1 .. n : i < j => p[i] # p[j] /\ s[p[i]] <= s[p[j]]

(* There is such an order, by insertion: the smallest n without one would   *)
(* have one, that of its first n - 1 numbers with the last put in its place. *)
LEMMA OrderExists ==
  ASSUME NEW n \in Nat, NEW s \in [1 .. n -> Int]
  PROVE  \E p : Orders(p, s, n)
<1> DEFINE T == {l \in Nat : \E t \in [1 .. l -> Int] : ~\E p : Orders(p, t, l)}
<1>1. ASSUME T # {} PROVE FALSE
  <2>1. PICK l \in T : \A y \in T : l <= y
    BY <1>1, LeastNat, Zenon
  <2>2. l \in Nat
    BY Zenon
  <2>3. PICK t \in [1 .. l -> Int] : ~\E p : Orders(p, t, l)
    BY <2>1, Zenon
  <2>4. l # 0
    <3> SUFFICES ASSUME l = 0 PROVE FALSE
      BY Zenon
    <3>1. Orders([i \in 1 .. 0 |-> i], t, 0)
      BY DEF Orders
    <3> QED
      BY <2>3, <3>1, Zenon
  <2> DEFINE h == l - 1
             u == [i \in 1 .. h |-> t[i]]
  <2>5. h \in Nat /\ ~(l <= h) /\ h < l
    BY <2>2, <2>4
  <2>6. h \notin T
    BY <2>1, <2>5, Zenon
  <2>7. u \in [1 .. h -> Int]
    BY <2>2, <2>5
  <2>8. PICK p : Orders(p, u, h)
    BY <2>5, <2>6, <2>7, Zenon
  <2> HIDE DEF T
  <2>9. /\ p \in [1 .. h -> 1 .. h]
        /\ \A i, j \in 1 .. h : i < j => p[i] # p[j] /\ t[p[i]] <= t[p[j]]
    <3>1. /\ p \in [1 .. h -> 1 .. h]
          /\ \A i, j \in 1 .. h : i < j => p[i] # p[j] /\ u[p[i]] <= u[p[j]]
      BY <2>8, Zenon DEF Orders
    <3>2. \A i \in 1 .. h : u[p[i]] = t[p[i]]
      BY <3>1, Zenon
    <3> QED
      BY <3>1, <3>2, Zenon
  <2> HIDE DEF u
  <2>10. l = h + 1
    BY <2>2
  <2> HIDE DEF h
  <2>11. \A i \in 1 .. h : p[i] \in 1 .. h
    BY <2>9, Zenon
  <2>12. \A i \in 1 .. h : i \in 1 .. l
    BY <2>5, <2>10
  <2>13. l \in 1 .. l /\ t[l] \in Int
    BY <2>5, <2>10
  <2>14. \A i \in 1 .. h : t[p[i]] \in Int
    BY <2>11, <2>12, Zenon
  <2> DEFINE C == {i \in 1 .. l : i = l \/ t[p[i]] > t[l]}
  <2>15. C \subseteq Nat /\ l \in C
    BY <2>2, <2>13
  <2>16. PICK z \in C : \A y \in C : z <= y
    BY <2>15, LeastNat, Zenon
  <2>17. z \in 1 .. l /\ (z = l \/ t[p[z]] > t[l])
    BY Zenon
  <2>18. ASSUME NEW i \in 1 .. h, i < z PROVE t[p[i]] <= t[l]
    <3>1. i \notin C /\ i \in 1 .. l
      BY <2>2, <2>5, <2>12, <2>16, <2>17, <2>18
    <3> QED
      BY <2>13, <2>14, <3>1
  <2> HIDE DEF C
  <2>19. ASSUME NEW i \in 1 .. h, z <= i PROVE t[l] <= t[p[i]]
    <3>1. z \in 1 .. h /\ t[p[z]] > t[l]
      BY <2>5, <2>10, <2>17, <2>19
    <3>2. t[p[z]] <= t[p[i]]
      BY <2>9, <2>14, <2>19, <3>1
    <3> QED
      BY <2>13, <2>14, <3>1, <3>2
  <2> DEFINE q == [i \in 1 .. l |-> IF i < z THEN p[i] ELSE IF i = z THEN l ELSE p[i - 1]]
  <2>20. \A i \in 1 .. l : /\ i < z => i \in 1 .. h /\ q[i] = p[i]
                           /\ i = z => q[i] = l
                           /\ z < i => i - 1 \in 1 .. h /\ z <= i - 1 /\ q[i] = p[i - 1]
    BY <2>5, <2>10, <2>17
  <2>21. q \in [1 .. l -> 1 .. l]
    <3>1. \A i \in 1 .. l : q[i] \in 1 .. l
      BY <2>11, <2>12, <2>13, <2>17, <2>20
    <3> QED
      BY <3>1, Zenon
  <2>22. \A i \in 1 .. h : p[i] \in 1 .. h /\ p[i] # l
    BY <2>5, <2>10, <2>11
  <2> HIDE DEF q
  <2>23. ASSUME NEW i \in 1 .. l, NEW j \in 1 .. l, i < j
         PROVE  q[i] # q[j] /\ t[q[i]] <= t[q[j]]
    <3>1. CASE j < z
      <4>1. i < z
        BY <2>17, <2>23, <3>1
      <4>2. i \in 1 .. h /\ j \in 1 .. h /\ q[i] = p[i] /\ q[j] = p[j]
        BY <2>20, <3>1, <4>1, Zenon
      <4> QED
        BY <2>9, <2>23, <4>2, Zenon
    <3>2. CASE j = z
      <4>1. i \in 1 .. h /\ i < z /\ q[i] = p[i] /\ q[j] = l
        BY <2>20, <2>23, <3>2, Zenon
      <4> QED
        BY <2>18, <2>22, <4>1, Zenon
    <3>3. CASE z < j /\ i = z
      <4>1. j - 1 \in 1 .. h /\ z <= j - 1 /\ q[j] = p[j - 1] /\ q[i] = l
        BY <2>20, <3>3, Zenon
      <4> QED
        BY <2>19, <2>22, <4>1, Zenon
    <3>4. CASE z < j /\ i < z
      <4>1. /\ j - 1 \in 1 .. h /\ z <= j - 1 /\ q[j] = p[j - 1]
            /\ i \in 1 .. h /\ q[i] = p[i] /\ i < j - 1
        BY <2>5, <2>17, <2>20, <2>23, <3>4
      <4> QED
        BY <2>9, <4>1, Zenon
    <3>5. CASE z < i
      <4>1. z < j
        BY <2>17, <2>23, <3>5
      <4>2. /\ i - 1 \in 1 .. h /\ q[i] = p[i - 1]
            /\ j - 1 \in 1 .. h /\ q[j] = p[j - 1] /\ i - 1 < j - 1
        BY <2>20, <2>23, <3>5, <4>1
      <4> QED
        BY <2>9, <4>2, Zenon
    <3> QED
      BY <2>17, <2>23, <3>1, <3>2, <3>3, <3>4, <3>5
  <2>24. Orders(q, t, l)
    BY <2>21, <2>23, Zenon DEF Orders
  <2> QED
    BY <2>3, <2>24, Zenon
<1> QED
  BY <1>1, Zenon

(* A sorted list has the elements of the list, the largest at its end. *)
LEMMA SortFacts ==
  ASSUME NEW S \in SUBSET Int, NEW ids \in Seq(S)
  PROVE  \A i \in 1 .. Len(ids) : /\ bubble_sort(ids)[i] \in S
                                  /\ bubble_sort(ids)[Len(ids)] \in S
                                  /\ bubble_sort(ids)[i] <= bubble_sort(ids)[Len(ids)]
<1> DEFINE n == Len(ids)
           Good(p) == \A i, j \in DOMAIN ids : i < j => p[i] # p[j] /\ ids[p[i]] <= ids[p[j]]
           order == CHOOSE p \in [DOMAIN ids -> DOMAIN ids] : Good(p)
<1>1. n \in Nat /\ DOMAIN ids = 1 .. n /\ ids \in [1 .. n -> Int] /\ ids \in [1 .. n -> S]
  <2>1. n \in Nat /\ DOMAIN ids = 1 .. n /\ ids \in [1 .. n -> S]
    OBVIOUS
  <2> HIDE DEF n
  <2> QED
    BY <2>1, Zenon
<1>2. PICK p : Orders(p, ids, n)
  BY <1>1, OrderExists, Zenon
<1>3. \E o \in [DOMAIN ids -> DOMAIN ids] : Good(o)
  BY <1>1, <1>2, Zenon DEF Orders
<1>4. order \in [DOMAIN ids -> DOMAIN ids] /\ Good(order)
  BY <1>3, Zenon
<1>5. \A i, j \in 1 .. n : i < j => ids[order[i]] <= ids[order[j]]
  BY <1>1, <1>4, Zenon
<1>6. bubble_sort(ids) = [i \in DOMAIN ids |-> ids[order[i]]]
  BY Zenon DEF bubble_sort
<1> HIDE DEF order, n
<1>7. ASSUME NEW i \in 1 .. n
      PROVE  /\ bubble_sort(ids)[i] \in S /\ bubble_sort(ids)[n] \in S
             /\ bubble_sort(ids)[i] <= bubble_sort(ids)[n]
  <2>1. n \in 1 .. n /\ (i < n \/ i = n)
    BY <1>1
  <2>2. order[i] \in 1 .. n /\ order[n] \in 1 .. n
    BY <1>1, <1>4, <2>1, Zenon
  <2>3. bubble_sort(ids)[i] = ids[order[i]] /\ bubble_sort(ids)[n] = ids[order[n]]
    BY <1>1, <1>6, <2>1, Zenon
  <2>4. ids[order[i]] \in S /\ ids[order[n]] \in S /\ ids[order[i]] \in Int
    BY <1>1, <2>2, Zenon
  <2>5. ids[order[i]] <= ids[order[n]]
    BY <1>5, <2>1, <2>4
  <2> QED
    BY <2>3, <2>4, <2>5, Zenon
<1> QED
  BY <1>7, Zenon DEF n

LEMMA CallFacts ==
  ASSUME bt.call \in BootCalls \cup {NoCall}
  PROVE  /\ F \subseteq Cores /\ Cores \subseteq Nat /\ bt.call.mode # 0
         /\ bt.call.api \in {"dsp_boot", "load_new"} => bt.call.ids \in Seq(Cores \cup {Shared})
         /\ bt.call.api = "load_new" => F = {}
<1>1. Cores \subseteq Nat
  BY DEF Cores
<1>2. CASE bt.call = NoCall
  BY <1>1, <1>2 DEF NoCall, F, Flagged
<1>3. CASE bt.call \in BootCalls
  <2>1. /\ bt.call.mode \in 1 .. 3
        /\ \/ bt.call.api \in {"dsp_boot", "load_new"} /\ bt.call.ids \in Seq(Cores \cup {Shared})
           \/ bt.call.api = "defense" /\ bt.call.flags \subseteq Cores
    BY <1>3, BootAssumption, Zenon
  <2>2. F \subseteq Cores
    BY <2>1, Zenon DEF F, Flagged
  <2> QED
    BY <1>1, <2>1, <2>2 DEF F, Flagged
<1> QED
  BY <1>2, <1>3, Zenon

(* The next flagged core. *)
LEMMA NxtFacts ==
  ASSUME bt.call \in BootCalls \cup {NoCall}, Rest # {}
  PROVE  Nxt \in F /\ Nxt \in Cores /\ Nxt \in Nat /\ Nxt >= bt.k /\ \A c \in F : c < Nxt => ~(c >= bt.k)
<1>1. Rest \subseteq F /\ F \subseteq Cores /\ Cores \subseteq Nat
  BY CallFacts, Zenon DEF Rest
<1>2. \E c \in Rest : \A d \in Rest : c <= d
  BY <1>1, LeastNat, Zenon
<1>3. Nxt \in Rest /\ \A d \in Rest : Nxt <= d
  BY <1>2, Zenon DEF Nxt
<1>4. Nxt \in F /\ Nxt >= bt.k
  BY <1>3, Zenon DEF Rest
<1>5. ASSUME NEW c \in F, c < Nxt PROVE ~(c >= bt.k)
  BY <1>1, <1>3, <1>4, <1>5 DEF Rest
<1> QED
  BY <1>1, <1>4, <1>5, Zenon

(* The process after a step: everything an invariant speaks of. *)
BtTo(p, b, k, r, m, x) ==
  BtRecord' /\ bt'.pc = p /\ bt'.call = b /\ bt'.k = k /\ bt'.ret = r /\ bt'.mask = m /\ bt'.corrupt = x

LEMMA GotoTo ==
  ASSUME BtRecord, NEW l, Goto(l)
  PROVE  BtTo(l, bt.call, 0, bt.ret, bt.mask, bt.corrupt)
<1>1. bt' = [pc |-> l, call |-> bt.call, k |-> 0, ret |-> bt.ret, strobe |-> bt.strobe,
             mapped |-> bt.mapped, mask |-> bt.mask, corrupt |-> bt.corrupt]
  BY Zenon DEF Goto, BtRecord
<1> QED
  BY <1>1, Zenon DEF BtTo, BtRecord

LEMMA IdleTo ==
  ASSUME bt' = Idle
  PROVE  BtTo("idle", NoCall, 0, 0, {}, FALSE)
  BY Zenon DEF Idle, BtTo, BtRecord

(* Registers, control area and images that the invariants see unchanged. *)
RegsSame == RegsRecord' /\ regs'.brr = regs.brr /\ regs'.l2 = regs.l2
HwSame == RegsSame /\ core' = core /\ ctl' = ctl /\ image' = image

LEMMA HwVarsSame ==
  ASSUME BootType, UNCHANGED hwVars
  PROVE  HwSame
  BY Zenon DEF BootType, HwType, hwVars, HwSame, RegsSame, RegsRecord

(* What has been provided stays. *)
LEMMA ProvidedStays ==
  ASSUME ctl.pa = TRUE => ctl'.pa = TRUE, ctl.shared = TRUE => ctl'.shared = TRUE,
         regs.l2 \subseteq regs'.l2
  PROVE  \A c : Provided(c) => Provided(c)'
  BY Zenon DEF Provided

LEMMA SameCall ==
  ASSUME bt'.call = bt.call
  PROVE  F' = F /\ Aligned(bt.call)' = Aligned(bt.call)
  BY Zenon DEF F, Flagged, Aligned, Target

(* A call that ends asks for no more than what every core must show. *)
LEMMA EndsKeeps ==
  ASSUME BootInv, bt' = Idle, RegsRecord', CtlRecord', core' = core,
         image' \in [Cores \cup {Shared} -> {"none", "part"} \cup Loaded],
         ctl'.pa \in BOOLEAN, ctl'.shared \in BOOLEAN, ctl'.status = ctl.status,
         ctl.pa = TRUE => ctl'.pa = TRUE, ctl.shared = TRUE => ctl'.shared = TRUE,
         regs'.brr = regs.brr, regs.l2 \subseteq regs'.l2
  PROVE  BootInv'
<1>1. BtTo("idle", NoCall, 0, 0, {}, FALSE)
  BY IdleTo, Zenon
<1>2. \A c : Provided(c) => Provided(c)'
  BY ProvidedStays, Zenon
<1>3. BootType'
  <2>1. bt'.k \in Int
    BY <1>1 DEF BtTo
  <2> QED
    BY <1>1, <2>1, Zenon DEF BtTo, BootInv, BootType, HwType
<1>4. ProvidedInv'
  BY <1>1, <1>2, Zenon DEF BootInv, ProvidedInv, BtTo, AtPc
<1>5. RestartInv'
  BY <1>1, Zenon DEF RestartInv, BtTo, AtPc
<1>6. LoadInv'
  BY <1>1 DEF LoadInv, BtTo, AtPc, ColdPcs, NoCall
<1> QED
  BY <1>3, <1>4, <1>5, <1>6, Zenon DEF BootInv

LEMMA BootTypeKept ==
  ASSUME BootType, HwType', NEW p, NEW b, NEW k, NEW r, NEW m, NEW x, BtTo(p, b, k, r, m, x),
         b \in BootCalls \cup {NoCall}, k \in Int, r \in {0, 1}, m \subseteq Cores, x \in BOOLEAN
  PROVE  BootType'
  BY Zenon DEF BootType, BtTo

LEMMA GotoType ==
  ASSUME BootType, HwType', NEW l, BtTo(l, bt.call, 0, bt.ret, bt.mask, bt.corrupt)
  PROVE  BootType'
<1>1. 0 \in Int
  OBVIOUS
<1> QED
  BY <1>1, Zenon DEF BootType, BtTo

LEMMA HwTyped ==
  ASSUME HwType, HwSame
  PROVE  HwType'
  BY Zenon DEF HwType, HwSame, RegsSame, CtlRecord

(* The first part of a reset, up to the point where the cores are stopped,  *)
(* owes only what ProvidedInv says.                                         *)
WarmOwes(p, k, x) ==
  /\ k \in Int /\ x \in BOOLEAN
  /\ \/ p \in {"vnmi", "ack", "strobe", "reack", "ph15", "ipc", "pir", "fail"}
     \/ p = "clear" /\ x = TRUE
  /\ p \in {"vnmi", "ack"} => \A c \in F : c < k => Provided(c)
  /\ p = "ack" => k \in F
  /\ p \in {"strobe", "reack", "ph15", "ipc", "pir", "clear"} => \A c \in F : Provided(c)

LEMMA WarmStep ==
  ASSUME BootInv, HwSame, restarted' = restarted, bt.call.api # "load_new",
         NEW p, NEW k, NEW x, BtTo(p, bt.call, k, bt.ret, bt.mask, x), WarmOwes(p, k, x)
  PROVE  BootInv'
<1>1. BootType /\ F' = F
  BY SameCall, Zenon DEF BootInv, BtTo
<1>2. \A c : Provided(c) <=> Provided(c)'
  BY Zenon DEF HwSame, RegsSame, Provided
<1>3. BootType'
  BY <1>1, BootTypeKept, HwTyped, Zenon DEF BootType, WarmOwes
<1>4. ProvidedInv'
  <2>1. \A c \in Cores : (c \in regs.brr \/ core[c] \notin Stopped \/ ctl.status[c] # "none" => Provided(c))'
    BY <1>2, Zenon DEF BootInv, ProvidedInv, HwSame, RegsSame
  <2> QED
    BY <1>1, <1>2, <2>1, Zenon DEF ProvidedInv, BtTo, AtPc, WarmOwes
<1>5. RestartInv'
  <2>1. CASE p = "clear" /\ x = TRUE
    BY <2>1, Zenon DEF RestartInv, BtTo
  <2>2. CASE p # "clear"
    BY <2>2, Zenon DEF RestartInv, BtTo, AtPc, WarmOwes
  <2> QED
    BY <2>1, <2>2, Zenon DEF WarmOwes
<1>6. LoadInv'
  BY Zenon DEF LoadInv, BtTo, AtPc, ColdPcs, WarmOwes
<1> QED
  BY <1>3, <1>4, <1>5, <1>6, Zenon DEF BootInv

LEMMA OpenKeeps == BootInv /\ pre_Reload_open => BootInv'
<1> SUFFICES ASSUME BootInv, pre_Reload_open PROVE BootInv'
  BY Zenon
<1>1. BootType /\ BtRecord /\ bt.k = 0 /\ bt.call.api # "load_new"
  BY Zenon DEF pre_Reload_open, BootInv, BootType, HwType, ProvidedInv, LoadInv, AtPc, ColdPcs
<1>2. HwSame /\ restarted' = restarted
  BY <1>1, HwVarsSame, Zenon DEF pre_Reload_open, Only, Quiet
<1>3. PICK ok \in BOOLEAN : bt' = [bt EXCEPT !.pc = IF ok THEN "vnmi" ELSE "fail", !.mapped = ok]
  BY Zenon DEF pre_Reload_open, AreasAssigned
<1> DEFINE p == IF ok THEN "vnmi" ELSE "fail"
<1>4. BtTo(p, bt.call, 0, bt.ret, bt.mask, bt.corrupt)
  <2> HIDE DEF p
  <2>1. bt' = [bt EXCEPT !.pc = p, !.mapped = ok]
    BY <1>3, Zenon DEF p
  <2>2. bt' = [pc |-> p, call |-> bt.call, k |-> 0, ret |-> bt.ret, strobe |-> bt.strobe,
               mapped |-> ok, mask |-> bt.mask, corrupt |-> bt.corrupt]
    BY <1>1, <2>1, Zenon DEF BtRecord
  <2> QED
    BY <2>2, Zenon DEF BtTo, BtRecord
<1>5. p \in {"vnmi", "fail"} /\ bt.corrupt \in BOOLEAN
  BY <1>1, Zenon DEF BootType, HwType
<1>6. \A c \in F : ~(c < 0)
  BY <1>1, CallFacts DEF BootType, HwType
<1> HIDE DEF p
<1>7. WarmOwes(p, 0, bt.corrupt)
  BY <1>5, <1>6 DEF WarmOwes
<1> QED
  BY <1>1, <1>2, <1>4, <1>7, WarmStep, Zenon

LEMMA VnmiKeeps == BootInv /\ send_vnmi_func => BootInv'
<1> SUFFICES ASSUME BootInv, send_vnmi_func PROVE BootInv'
  BY Zenon
<1>1. /\ BootType /\ BtRecord /\ RegsRecord /\ bt.call \in BootCalls \cup {NoCall} /\ bt.k \in Int
      /\ bt.call.api # "load_new" /\ \A c \in F : c < bt.k => Provided(c)
  BY Zenon DEF send_vnmi_func, BootInv, BootType, HwType, ProvidedInv, LoadInv, AtPc, ColdPcs
<1>2. bt.corrupt \in BOOLEAN /\ F \subseteq Nat
  BY <1>1, CallFacts, Zenon DEF BootType, HwType
<1>3. restarted' = restarted /\ core' = core /\ ctl' = ctl /\ image' = image
  BY Zenon DEF send_vnmi_func, Only, Quiet
<1>4. CASE Rest = {}
  <2>1. regs' = regs /\ (Goto("strobe") \/ Goto("ph15"))
    BY <1>4, Zenon DEF send_vnmi_func
  <2>2. HwSame
    BY <1>1, <1>3, <2>1, Zenon DEF HwSame, RegsSame, RegsRecord
  <2>3. \A c \in F : Provided(c)
    BY <1>1, <1>2, <1>4 DEF Rest
  <2>4. ASSUME NEW l \in {"strobe", "ph15"}, Goto(l) PROVE BootInv'
    <3>1. BtTo(l, bt.call, 0, bt.ret, bt.mask, bt.corrupt)
      BY <1>1, <2>4, GotoTo, Zenon
    <3>2. WarmOwes(l, 0, bt.corrupt)
      BY <1>2, <2>3 DEF WarmOwes
    <3> QED
      BY <1>1, <1>3, <2>2, <3>1, <3>2, WarmStep, Zenon
  <2> QED
    BY <2>1, <2>4, Zenon
<1>5. CASE Rest # {}
  <2> DEFINE n == Nxt
  <2>1. n \in F /\ n \in Nat /\ \A c \in F : c < n => ~(c >= bt.k)
    BY <1>1, <1>5, NxtFacts, Zenon
  <2>2. regs' = [regs EXCEPT !.vnmi = @ \cup {n}] /\ bt' = [bt EXCEPT !.pc = "ack", !.k = n]
    BY <1>5, Zenon DEF send_vnmi_func
  <2> HIDE DEF n
  <2>3. HwSame
    BY <1>1, <1>3, <2>2, Zenon DEF HwSame, RegsSame, RegsRecord
  <2>4. BtTo("ack", bt.call, n, bt.ret, bt.mask, bt.corrupt)
    <3>1. bt' = [pc |-> "ack", call |-> bt.call, k |-> n, ret |-> bt.ret, strobe |-> bt.strobe,
                 mapped |-> bt.mapped, mask |-> bt.mask, corrupt |-> bt.corrupt]
      BY <1>1, <2>2, Zenon DEF BtRecord
    <3> QED
      BY <3>1, Zenon DEF BtTo, BtRecord
  <2>5. n \in Int /\ \A c \in F : c < n => Provided(c)
    BY <1>1, <1>2, <2>1
  <2>6. WarmOwes("ack", n, bt.corrupt)
    BY <1>2, <2>1, <2>5, Zenon DEF WarmOwes
  <2> QED
    BY <1>1, <1>3, <2>3, <2>4, <2>6, WarmStep, Zenon
<1> QED
  BY <1>4, <1>5, Zenon

LEMMA AckKeeps == BootInv /\ check_vnmi_ack => BootInv'
<1> SUFFICES ASSUME BootInv, check_vnmi_ack PROVE BootInv'
  BY Zenon
<1>1. /\ BootType /\ BtRecord /\ RegsRecord /\ bt.call \in BootCalls \cup {NoCall} /\ bt.k \in Int
      /\ bt.call.api # "load_new" /\ bt.k \in F /\ \A c \in F : c < bt.k => Provided(c)
  BY Zenon DEF check_vnmi_ack, BootInv, BootType, HwType, ProvidedInv, LoadInv, AtPc, ColdPcs
<1>2. bt.corrupt \in BOOLEAN /\ F \subseteq Nat /\ F \subseteq Cores
  BY <1>1, CallFacts, Zenon DEF BootType, HwType
<1>3. restarted' = restarted /\ core' = core /\ ctl' = ctl /\ image' = image
  BY Zenon DEF check_vnmi_ack, Only, Quiet
<1> DEFINE n == bt.k + 1
<1>4. ASSUME Provided(bt.k), RegsSame, NEW s,
             bt' = [pc |-> "vnmi", call |-> bt.call, k |-> n, ret |-> bt.ret, strobe |-> s,
                    mapped |-> bt.mapped, mask |-> bt.mask, corrupt |-> bt.corrupt]
      PROVE  BootInv'
  <2>1. BtTo("vnmi", bt.call, n, bt.ret, bt.mask, bt.corrupt)
    BY <1>4, Zenon DEF BtTo, BtRecord
  <2>2. n \in Int /\ \A c \in F : c < n => Provided(c)
    BY <1>1, <1>2, <1>4
  <2>3. HwSame
    BY <1>3, <1>4, Zenon DEF HwSame
  <2> HIDE DEF n
  <2>4. WarmOwes("vnmi", n, bt.corrupt)
    BY <1>2, <2>2, Zenon DEF WarmOwes
  <2> QED
    BY <1>1, <1>3, <2>1, <2>3, <2>4, WarmStep, Zenon
<1>5. CASE ctl.status[bt.k] = "READY"
  <2>1. Provided(bt.k)
    BY <1>1, <1>2, <1>5, Zenon DEF BootInv, ProvidedInv
  <2>2. regs' = regs /\ bt' = [bt EXCEPT !.pc = "vnmi", !.k = n]
    BY <1>5, Zenon DEF check_vnmi_ack
  <2> HIDE DEF n
  <2>3. bt' = [pc |-> "vnmi", call |-> bt.call, k |-> n, ret |-> bt.ret, strobe |-> bt.strobe,
               mapped |-> bt.mapped, mask |-> bt.mask, corrupt |-> bt.corrupt]
    BY <1>1, <2>2, Zenon DEF BtRecord
  <2>4. RegsSame
    BY <1>1, <2>2, Zenon DEF RegsSame, RegsRecord
  <2> QED
    BY <1>4, <2>1, <2>3, <2>4, Zenon
<1>6. CASE ctl.status[bt.k] # "READY" /\ core[bt.k] = "debug"
  <2>1. Provided(bt.k)
    BY <1>1, <1>2, <1>6, Zenon DEF BootInv, ProvidedInv, Stopped
  <2>2. /\ regs' = [regs EXCEPT !.safe = @ \cup {bt.k}]
        /\ bt' = [bt EXCEPT !.pc = "vnmi", !.k = n, !.strobe = TRUE]
    BY <1>6, Zenon DEF check_vnmi_ack, set_safe_addr_DTU
  <2> HIDE DEF n
  <2>3. bt' = [pc |-> "vnmi", call |-> bt.call, k |-> n, ret |-> bt.ret, strobe |-> TRUE,
               mapped |-> bt.mapped, mask |-> bt.mask, corrupt |-> bt.corrupt]
    BY <1>1, <2>2, Zenon DEF BtRecord
  <2>4. RegsSame
    BY <1>1, <2>2, Zenon DEF RegsSame, RegsRecord
  <2> QED
    BY <1>4, <2>1, <2>3, <2>4, Zenon
<1>7. CASE ctl.status[bt.k] # "READY" /\ core[bt.k] # "debug"
  <2>1. Goto("fail") /\ regs' = regs
    BY <1>7, Zenon DEF check_vnmi_ack, set_safe_addr_DTU
  <2>2. BtTo("fail", bt.call, 0, bt.ret, bt.mask, bt.corrupt)
    BY <1>1, <2>1, GotoTo, Zenon
  <2>3. HwSame
    BY <1>1, <1>3, <2>1, Zenon DEF HwSame, RegsSame, RegsRecord
  <2>4. WarmOwes("fail", 0, bt.corrupt)
    BY <1>2 DEF WarmOwes
  <2> QED
    BY <1>1, <1>3, <2>2, <2>3, <2>4, WarmStep, Zenon
<1> QED
  BY <1>5, <1>6, <1>7, Zenon

(* The steps from the strobe to the channels. *)
LEMMA StrobeKeeps ==
  BootInv /\ (set_soc_strobe \/ recheck_vnmi_ack \/ set_PH15) => BootInv'
<1> SUFFICES ASSUME BootInv, set_soc_strobe \/ recheck_vnmi_ack \/ set_PH15 PROVE BootInv'
  BY Zenon
<1>1. BootType /\ BtRecord /\ RegsRecord /\ bt.corrupt \in BOOLEAN
  BY Zenon DEF BootInv, BootType, HwType
<1>2. bt.call.api # "load_new" /\ \A c \in F : Provided(c)
  BY Zenon DEF set_soc_strobe, recheck_vnmi_ack, set_PH15, BootInv, ProvidedInv, LoadInv, AtPc, ColdPcs
<1>3. restarted' = restarted /\ core' = core /\ ctl' = ctl /\ image' = image
  BY Zenon DEF set_soc_strobe, recheck_vnmi_ack, set_PH15, Only, Quiet, hwVars
<1>4. \/ regs' = regs
      \/ regs' = [regs EXCEPT !.strobe = TRUE]
      \/ regs' = [regs EXCEPT !.ph15 = @ \cup F]
  BY Zenon DEF set_soc_strobe, recheck_vnmi_ack, set_PH15, Only, hwVars
<1>5. HwSame
  BY <1>1, <1>3, <1>4, Zenon DEF HwSame, RegsSame, RegsRecord
<1>6. PICK l \in {"reack", "ph15", "ipc", "fail"} : Goto(l)
  BY Zenon DEF set_soc_strobe, recheck_vnmi_ack, set_PH15
<1>7. BtTo(l, bt.call, 0, bt.ret, bt.mask, bt.corrupt)
  BY <1>1, <1>6, GotoTo, Zenon
<1>8. WarmOwes(l, 0, bt.corrupt)
  BY <1>1, <1>2 DEF WarmOwes
<1> QED
  BY <1>2, <1>3, <1>5, <1>7, <1>8, WarmStep, Zenon

LEMMA IpcKeeps == BootInv /\ reinit_or_validate => BootInv'
<1> SUFFICES ASSUME BootInv, reinit_or_validate PROVE BootInv'
  BY Zenon
<1>1. BootType /\ BtRecord
  BY Zenon DEF BootInv, BootType, HwType
<1>2. bt.call.api # "load_new" /\ \A c \in F : Provided(c)
  BY Zenon DEF reinit_or_validate, BootInv, ProvidedInv, LoadInv, AtPc, ColdPcs
<1>3. HwSame /\ restarted' = restarted
  BY <1>1, HwVarsSame, Zenon DEF reinit_or_validate, Only, Quiet
<1> DEFINE p(ret) == CASE ret = 0 -> "pir" [] ret < 0 -> "fail" [] OTHER -> "clear"
<1>4. PICK ret \in {0, -1, 1} : bt' = [bt EXCEPT !.pc = p(ret), !.k = 0, !.corrupt = ret > 0]
  BY Zenon DEF reinit_or_validate, fsl_B4_ipc_reinit, check_validation_fields, MEMORY_CORRUPTED
<1> DEFINE l == p(ret)
           x == ret > 0
<1>5. x \in BOOLEAN /\ (l = "pir" \/ l = "fail" \/ (l = "clear" /\ x = TRUE))
  OBVIOUS
<1> HIDE DEF p, l, x
<1>6. BtTo(l, bt.call, 0, bt.ret, bt.mask, x)
  <2>1. bt' = [bt EXCEPT !.pc = l, !.k = 0, !.corrupt = x]
    BY <1>4, Zenon DEF l, x
  <2>2. bt' = [pc |-> l, call |-> bt.call, k |-> 0, ret |-> bt.ret, strobe |-> bt.strobe,
               mapped |-> bt.mapped, mask |-> bt.mask, corrupt |-> x]
    BY <1>1, <2>1, Zenon DEF BtRecord
  <2> QED
    BY <2>2, Zenon DEF BtTo, BtRecord
<1>7. WarmOwes(l, 0, x)
  BY <1>2, <1>5 DEF WarmOwes
<1> QED
  BY <1>2, <1>3, <1>6, <1>7, WarmStep, Zenon

LEMMA PirKeeps == BootInv /\ set_PIR => BootInv'
<1> SUFFICES ASSUME BootInv, set_PIR PROVE BootInv'
  BY Zenon
<1>1. /\ BootType /\ BtRecord /\ RegsRecord /\ CtlRecord /\ core \in [Cores -> CoreStates]
      /\ bt.call \in BootCalls \cup {NoCall}
  BY Zenon DEF BootInv, BootType, HwType
<1>2. bt.call.api # "load_new" /\ \A c \in F : Provided(c)
  BY Zenon DEF set_PIR, BootInv, ProvidedInv, LoadInv, AtPc, ColdPcs
<1>3. BtTo("hold", bt.call, 0, bt.ret, bt.mask, bt.corrupt) /\ restarted' = restarted /\ image' = image
  BY <1>1, GotoTo, Zenon DEF set_PIR, Only, Quiet
<1>4. RegsSame
  <2>1. regs' = [regs EXCEPT !.pir = @ \cup F, !.vnmi = @ \ F, !.safe = @ \ F]
    BY Zenon DEF set_PIR
  <2> QED
    BY <1>1, <2>1, Zenon DEF RegsSame, RegsRecord
<1>5. /\ CtlRecord' /\ ctl'.mode = bt.call.mode /\ ctl'.pa = ctl.pa /\ ctl'.shared = ctl.shared
      /\ ctl'.status = ctl.status
  <2>1. ctl' = [ctl EXCEPT !.mode = bt.call.mode]
    BY Zenon DEF set_PIR
  <2> QED
    BY <1>1, <2>1, Zenon DEF CtlRecord
<1>6. core' = [c \in Cores |-> IF c \in F THEN "reset" ELSE core[c]]
  BY Zenon DEF set_PIR
<1>7. F' = F /\ F \subseteq Cores /\ bt.call.mode # 0
  BY <1>1, <1>3, SameCall, CallFacts, Zenon DEF BtTo
<1>8. \A c : Provided(c) <=> Provided(c)'
  BY <1>4, <1>5, Zenon DEF Provided, RegsSame
<1>9. BootType'
  <2>1. core' \in [Cores -> CoreStates]
    BY <1>1, <1>6, Zenon DEF CoreStates, Stopped
  <2>2. HwType'
    BY <1>1, <1>3, <1>4, <1>5, <2>1, Zenon DEF BootType, HwType, RegsSame
  <2> QED
    BY <1>1, <1>3, <2>2, GotoType, Zenon
<1>10. ProvidedInv'
  BY <1>2, <1>3, <1>4, <1>5, <1>6, <1>7, <1>8, ZenonT(30) DEF BootInv, ProvidedInv, BtTo, AtPc, RegsSame, Stopped
<1>11. RestartInv'
  BY <1>3, <1>5, <1>6, <1>7, Zenon DEF RestartInv, BtTo, AtPc
<1>12. LoadInv'
  BY <1>2, <1>3, ZenonT(30) DEF LoadInv, BtTo, AtPc, ColdPcs
<1> QED
  BY <1>9, <1>10, <1>11, <1>12, Zenon DEF BootInv

LEMMA HoldKeeps == BootInv /\ l1d_hold_starcore => BootInv'
<1> SUFFICES ASSUME BootInv, l1d_hold_starcore PROVE BootInv'
  BY Zenon
<1>1. BootType /\ BtRecord /\ RegsRecord /\ CtlRecord /\ bt.corrupt \in BOOLEAN
  BY Zenon DEF BootInv, BootType, HwType
<1>2. bt.call.api # "load_new" /\ \A c \in F : Provided(c)
  BY Zenon DEF l1d_hold_starcore, BootInv, ProvidedInv, LoadInv, AtPc, ColdPcs
<1>3. /\ BtTo("clear", bt.call, 0, bt.ret, bt.mask, bt.corrupt)
      /\ restarted' = restarted /\ image' = image /\ core' = core /\ ctl' = ctl
  BY <1>1, GotoTo, Zenon DEF l1d_hold_starcore, Only, Quiet
<1>4. RegsRecord' /\ regs'.brr = regs.brr \ F /\ regs'.l2 = regs.l2
  <2>1. regs' = [regs EXCEPT !.brr = @ \ F]
    BY Zenon DEF l1d_hold_starcore
  <2> QED
    BY <1>1, <2>1, Zenon DEF RegsRecord
<1>5. F' = F
  BY <1>3, SameCall, Zenon DEF BtTo
<1>6. \A c : Provided(c) <=> Provided(c)'
  BY <1>3, <1>4, Zenon DEF Provided
<1>7. BootType'
  <2>1. HwType'
    BY <1>1, <1>3, <1>4, Zenon DEF BootType, HwType, CtlRecord
  <2> QED
    BY <1>1, <1>3, <2>1, GotoType, Zenon
<1>8. ProvidedInv'
  BY <1>2, <1>3, <1>4, <1>5, <1>6, Zenon DEF BootInv, ProvidedInv, BtTo, AtPc
<1>9. RestartInv'
  <2>1. ASSUME bt.corrupt = FALSE
        PROVE  ctl.mode # 0 /\ \A c \in F : core[c] = "reset"
    BY <2>1, Zenon DEF BootInv, RestartInv, AtPc, l1d_hold_starcore
  <2> QED
    BY <1>3, <1>4, <1>5, <2>1, Zenon DEF RestartInv, BtTo, AtPc
<1>10. LoadInv'
  BY <1>2, <1>3, Zenon DEF LoadInv, BtTo, AtPc, ColdPcs
<1> QED
  BY <1>7, <1>8, <1>9, <1>10, Zenon DEF BootInv

LEMMA ClearKeeps == BootInv /\ Reset_PIR_PH15 => BootInv'
<1> SUFFICES ASSUME BootInv, Reset_PIR_PH15 PROVE BootInv'
  BY Zenon
<1>1. /\ BootType /\ BtRecord /\ RegsRecord /\ CtlRecord /\ core \in [Cores -> CoreStates]
      /\ bt.call \in BootCalls \cup {NoCall}
  BY Zenon DEF BootInv, BootType, HwType
<1>2. bt.call.api # "load_new" /\ \A c \in F : Provided(c)
  BY Zenon DEF Reset_PIR_PH15, BootInv, ProvidedInv, LoadInv, AtPc, ColdPcs
<1>3. /\ BtTo("shared", bt.call, 0, bt.ret, bt.mask, bt.corrupt)
      /\ restarted' = restarted /\ image' = image /\ ctl' = ctl
  BY <1>1, GotoTo, Zenon DEF Reset_PIR_PH15, Only, Quiet
<1>4. RegsSame
  <2>1. regs' = [regs EXCEPT !.pir = @ \ F, !.ph15 = @ \ F]
    BY Zenon DEF Reset_PIR_PH15
  <2> QED
    BY <1>1, <2>1, Zenon DEF RegsSame, RegsRecord
<1>5. core' = [c \in Cores |-> IF c \in F THEN Resumed(c) ELSE core[c]]
  BY Zenon DEF Reset_PIR_PH15
<1>6. F' = F /\ F \subseteq Cores
  BY <1>1, <1>3, SameCall, CallFacts, Zenon DEF BtTo
<1>7. \A c : Provided(c) <=> Provided(c)'
  BY <1>3, <1>4, Zenon DEF Provided, RegsSame
<1>8. \A c \in Cores : /\ Resumed(c) \in CoreStates
                       /\ core[c] \in Stopped => Resumed(c) \in Stopped
                       /\ core[c] = "reset" => Resumed(c) = "held"
  BY <1>1, Zenon DEF Resumed, CoreStates, Stopped
<1>9. BootType'
  <2>1. core' \in [Cores -> CoreStates]
    BY <1>1, <1>5, <1>8, Zenon
  <2>2. HwType'
    BY <1>1, <1>3, <1>4, <2>1, Zenon DEF BootType, HwType, RegsSame, CtlRecord
  <2> QED
    BY <1>1, <1>3, <2>2, GotoType, Zenon
<1>10. ProvidedInv'
  BY <1>2, <1>3, <1>4, <1>5, <1>6, <1>7, <1>8, ZenonT(30) DEF BootInv, ProvidedInv, BtTo, AtPc, RegsSame
<1>11. RestartInv'
  <2>1. ASSUME bt.corrupt = FALSE
        PROVE  ctl.mode # 0 /\ \A c \in F : core[c] = "reset" /\ c \notin regs.brr
    BY <2>1, Zenon DEF BootInv, RestartInv, AtPc, Reset_PIR_PH15
  <2> QED
    BY <1>3, <1>4, <1>5, <1>6, <1>8, <2>1, Zenon DEF RestartInv, BtTo, AtPc, RegsSame
<1>12. LoadInv'
  BY <1>2, <1>3, Zenon DEF LoadInv, BtTo, AtPc, ColdPcs
<1> QED
  BY <1>9, <1>10, <1>11, <1>12, Zenon DEF BootInv

LEMMA LoadResult ==
  ASSUME HwType, NEW t, NEW r \in load_dsp_image(t)
  PROVE  /\ [image EXCEPT ![t] = r.got] \in [Cores \cup {Shared} -> {"none", "part"} \cup Loaded]
         /\ r.ok \in BOOLEAN /\ (r.ok = TRUE => r.got \in Loaded)
<1>1. image \in [Cores \cup {Shared} -> {"none", "part"} \cup Loaded]
  BY Zenon DEF HwType
<1>2. CASE \E g \in {"whole", "torn"} : r = [ok |-> TRUE, got |-> g]
  <2>1. PICK g \in {"whole", "torn"} : r = [ok |-> TRUE, got |-> g]
    BY <1>2, Zenon
  <2>2. r.ok = TRUE /\ r.got \in Loaded
    BY <2>1, Zenon DEF Loaded
  <2> QED
    BY <1>1, <2>2, Zenon
<1>3. CASE \E g \in {image[t], "part"} : r = [ok |-> FALSE, got |-> g]
  <2>1. PICK g \in {image[t], "part"} : r = [ok |-> FALSE, got |-> g]
    BY <1>3, Zenon
  <2>2. r.ok = FALSE /\ r.got \in {image[t], "part"}
    BY <2>1, Zenon
  <2>3. t \in Cores \cup {Shared} => r.got \in {"none", "part"} \cup Loaded
    BY <1>1, <2>2, Zenon
  <2> QED
    BY <1>1, <2>2, <2>3, Zenon
<1> QED
  BY <1>2, <1>3, Zenon DEF load_dsp_image

(* SetPaInit, and the other steps that write the control area's flags. *)
LEMMA PaFields ==
  ASSUME HwType, NEW y \in BOOLEAN, SetPaInit(y)
  PROVE  /\ CtlRecord' /\ ctl'.pa \in BOOLEAN /\ (ctl.pa = TRUE => ctl'.pa = TRUE)
         /\ (y = TRUE => ctl'.pa = TRUE) /\ ctl'.shared = ctl.shared /\ ctl'.mode = ctl.mode
         /\ ctl'.status = ctl.status
<1> DEFINE v == ctl.pa \/ y
<1>1. ctl' = [ctl EXCEPT !.pa = v]
  BY Zenon DEF SetPaInit
<1>2. v \in BOOLEAN /\ (ctl.pa = TRUE => v = TRUE) /\ (y = TRUE => v = TRUE)
  BY Zenon
<1> HIDE DEF v
<1>3. ctl' = [pa |-> v, shared |-> ctl.shared, mode |-> ctl.mode, status |-> ctl.status]
  BY <1>1, Zenon DEF HwType, CtlRecord
<1>4. /\ CtlRecord' /\ ctl'.pa = v /\ ctl'.shared = ctl.shared /\ ctl'.mode = ctl.mode
      /\ ctl'.status = ctl.status
  BY <1>3, Zenon DEF CtlRecord
<1> QED
  BY <1>2, <1>4, Zenon

(* A step of the second part of a reset: registers and cores stay, images   *)
(* are written, PASTATE may be announced.                                   *)
LEMMA LoadStep ==
  ASSUME BootInv, bt.pc \in {"shared", "load"}, RegsSame, core' = core, restarted' = restarted, HwType',
         ctl.pa = TRUE => ctl'.pa = TRUE, ctl'.shared = ctl.shared, ctl'.mode = ctl.mode,
         ctl'.status = ctl.status,
         NEW p \in {"load", "release", "fail"}, NEW k \in Int,
         BtTo(p, bt.call, k, bt.ret, bt.mask, bt.corrupt),
         Aligned(bt.call) => /\ p = "load" => \A c \in F : c < k => image'[c] \in Loaded
                             /\ p = "release" => \A c \in F : image'[c] \in Loaded
  PROVE  BootInv'
<1>1. BootType /\ bt.call.api # "load_new" /\ \A c \in F : Provided(c)
  BY ZenonT(30) DEF BootInv, ProvidedInv, LoadInv, AtPc, ColdPcs
<1>2. F' = F /\ Aligned(bt.call)' = Aligned(bt.call)
  BY SameCall, ZenonT(30) DEF BtTo
<1>3. regs.l2 \subseteq regs'.l2 /\ (ctl.shared = TRUE => ctl'.shared = TRUE)
  BY Zenon DEF RegsSame
<1>4. \A c : Provided(c) => Provided(c)'
  BY <1>3, ProvidedStays, Zenon
<1>5. BootType'
  BY <1>1, BootTypeKept, Zenon DEF BootType
<1>6. ProvidedInv'
  BY <1>1, <1>2, <1>4, ZenonT(30) DEF BootInv, ProvidedInv, BtTo, AtPc, RegsSame
<1>7. RestartInv'
  <2>1. ASSUME bt.corrupt = FALSE
        PROVE  ctl.mode # 0 /\ \A c \in F : core[c] = "held" /\ c \notin regs.brr
    BY <2>1, ZenonT(30) DEF BootInv, RestartInv, AtPc
  <2>2. p \notin {"hold", "clear", "crstsr", "sem", "status", "end"}
    BY Zenon
  <2> QED
    BY <1>2, <2>1, <2>2, Zenon DEF RestartInv, BtTo, AtPc, RegsSame
<1>8. LoadInv'
  BY <1>1, <1>2, Zenon DEF LoadInv, BtTo, AtPc, ColdPcs
<1> QED
  BY <1>5, <1>6, <1>7, <1>8, Zenon DEF BootInv

LEMMA SharedKeeps == BootInv /\ Reload_shared => BootInv'
<1> SUFFICES ASSUME BootInv, Reload_shared PROVE BootInv'
  BY Zenon
<1>1. BootType /\ HwType /\ BtRecord /\ RegsRecord /\ bt.pc = "shared"
  BY Zenon DEF BootInv, BootType, HwType, Reload_shared, AtPc
<1>2. restarted' = restarted /\ core' = core /\ ctl' = ctl /\ RegsSame
  BY <1>1, Zenon DEF Reload_shared, Only, Quiet, RegsSame, RegsRecord
<1>3. /\ image' \in [Cores \cup {Shared} -> {"none", "part"} \cup Loaded]
      /\ \E l \in {"load", "fail"} : Goto(l)
  <2>1. CASE image' = image /\ Goto("load")
    BY <1>1, <2>1, Zenon DEF HwType
  <2>2. ASSUME NEW r \in load_dsp_image(Shared), image' = [image EXCEPT ![Shared] = r.got],
               Goto(IF r.ok THEN "load" ELSE "fail")
        PROVE  /\ image' \in [Cores \cup {Shared} -> {"none", "part"} \cup Loaded]
               /\ \E l \in {"load", "fail"} : Goto(l)
    BY <1>1, <2>2, LoadResult, Zenon
  <2> QED
    BY <2>1, <2>2, Zenon DEF Reload_shared
<1>4. HwType'
  BY <1>1, <1>2, <1>3, Zenon DEF HwType, RegsSame, CtlRecord
<1>5. PICK l \in {"load", "fail"} : Goto(l)
  BY <1>3, Zenon
<1>6. BtTo(l, bt.call, 0, bt.ret, bt.mask, bt.corrupt)
  BY <1>1, <1>5, GotoTo, Zenon
<1>7. (\A c \in F : ~(c < 0)) /\ 0 \in Int /\ l # "release"
  BY <1>1, CallFacts DEF BootType
<1>8. \A c \in F : c < 0 => image'[c] \in Loaded
  BY <1>7, Zenon
<1> QED
  BY <1>1, <1>2, <1>4, <1>6, <1>7, <1>8, LoadStep, ZenonT(30)

LEMMA ReloadKeeps == BootInv /\ Reload_B4 => BootInv'
<1> SUFFICES ASSUME BootInv, Reload_B4 PROVE BootInv'
  BY Zenon
<1>1. /\ BootType /\ HwType /\ BtRecord /\ RegsRecord /\ CtlRecord /\ bt.pc = "load" /\ bt.k \in Int
      /\ bt.call \in BootCalls \cup {NoCall}
  BY Zenon DEF BootInv, BootType, HwType, Reload_B4, AtPc
<1>2. restarted' = restarted /\ core' = core /\ RegsSame
  BY <1>1, Zenon DEF Reload_B4, Only, Quiet, RegsSame, RegsRecord
<1>3. Aligned(bt.call) => \A c \in F : c < bt.k => image[c] \in Loaded
  BY <1>1, ZenonT(30) DEF BootInv, LoadInv, AtPc
<1>4. F \subseteq Nat /\ F \subseteq Cores
  BY <1>1, CallFacts, Zenon
<1>5. CASE Rest = {}
  <2>1. Goto("release") /\ image' = image /\ ctl' = ctl
    BY <1>5, Zenon DEF Reload_B4
  <2>2. BtTo("release", bt.call, 0, bt.ret, bt.mask, bt.corrupt)
    BY <1>1, <2>1, GotoTo, Zenon
  <2>3. HwType'
    BY <1>1, <1>2, <2>1, Zenon DEF HwType, RegsSame, CtlRecord
  <2>4. Aligned(bt.call) => \A c \in F : image'[c] \in Loaded
    BY <1>1, <1>3, <1>4, <1>5, <2>1 DEF Rest
  <2>5. 0 \in Int /\ "release" # "load"
    OBVIOUS
  <2> QED
    BY <1>1, <1>2, <2>1, <2>2, <2>3, <2>4, <2>5, LoadStep, ZenonT(30)
<1>6. CASE Rest # {}
  <2> DEFINE n == Nxt
             t == Target(bt.call, n)
  <2>1. n \in F /\ n \in Nat /\ \A c \in F : c < n => ~(c >= bt.k)
    BY <1>1, <1>6, NxtFacts, Zenon
  <2>2. PICK r \in load_dsp_image(t) :
          /\ image' = [image EXCEPT ![t] = r.got] /\ SetPaInit(r.ok /\ n = 0)
          /\ IF r.ok THEN bt' = [bt EXCEPT !.k = n + 1] ELSE Goto("fail")
    BY <1>6, Zenon DEF Reload_B4
  <2>3. Aligned(bt.call) => t = n
    BY <2>1, Zenon DEF Aligned, F
  <2> HIDE DEF n, t
  <2>4. /\ image' \in [Cores \cup {Shared} -> {"none", "part"} \cup Loaded]
        /\ r.ok \in BOOLEAN /\ (r.ok = TRUE => r.got \in Loaded)
    BY <1>1, <2>2, LoadResult, Zenon
  <2>5. /\ CtlRecord' /\ ctl'.pa \in BOOLEAN /\ (ctl.pa = TRUE => ctl'.pa = TRUE)
        /\ ctl'.shared = ctl.shared /\ ctl'.mode = ctl.mode /\ ctl'.status = ctl.status
    <3> DEFINE y == r.ok /\ n = 0
    <3>1. y \in BOOLEAN /\ SetPaInit(y)
      BY <2>2, Zenon
    <3> HIDE DEF y
    <3> QED
      BY <1>1, <3>1, PaFields, Zenon
  <2>6. HwType'
    BY <1>1, <1>2, <2>4, <2>5, Zenon DEF HwType, RegsSame
  <2>7. CASE r.ok = TRUE
    <3> DEFINE m == n + 1
    <3>1. bt' = [bt EXCEPT !.k = m]
      BY <2>2, <2>7, Zenon
    <3>2. m \in Int
      BY <2>1
    <3>3. Aligned(bt.call) => \A c \in F : c < m => image'[c] \in Loaded
      <4> SUFFICES ASSUME Aligned(bt.call), NEW c \in F, c < m PROVE image'[c] \in Loaded
        BY Zenon
      <4>1. c = n \/ c < bt.k
        BY <1>1, <1>4, <2>1
      <4>2. c \in Cores \cup {Shared} /\ image \in [Cores \cup {Shared} -> {"none", "part"} \cup Loaded]
        BY <1>1, <1>4, Zenon DEF HwType
      <4> QED
        BY <1>3, <2>2, <2>3, <2>4, <2>7, <4>1, <4>2, Zenon
    <3> HIDE DEF m
    <3>4. BtTo("load", bt.call, m, bt.ret, bt.mask, bt.corrupt)
      <4>1. bt' = [pc |-> "load", call |-> bt.call, k |-> m, ret |-> bt.ret, strobe |-> bt.strobe,
                   mapped |-> bt.mapped, mask |-> bt.mask, corrupt |-> bt.corrupt]
        BY <1>1, <3>1, Zenon DEF BtRecord
      <4> QED
        BY <4>1, Zenon DEF BtTo, BtRecord
    <3>5. "load" # "release"
      BY Zenon
    <3> QED
      BY <1>1, <1>2, <2>5, <2>6, <3>2, <3>3, <3>4, <3>5, LoadStep, ZenonT(30)
  <2>8. CASE r.ok = FALSE
    <3>1. Goto("fail")
      BY <2>2, <2>8, Zenon
    <3>2. BtTo("fail", bt.call, 0, bt.ret, bt.mask, bt.corrupt)
      BY <1>1, <3>1, GotoTo, Zenon
    <3>3. 0 \in Int /\ "fail" # "load" /\ "fail" # "release"
      OBVIOUS
    <3> QED
      BY <1>1, <1>2, <2>5, <2>6, <3>2, <3>3, LoadStep, ZenonT(30)
  <2> QED
    BY <2>4, <2>7, <2>8, Zenon
<1> QED
  BY <1>5, <1>6, Zenon

LEMMA ReleaseKeeps == BootInv /\ l1d_release_starcore => BootInv'
<1> SUFFICES ASSUME BootInv, l1d_release_starcore PROVE BootInv'
  BY Zenon
<1>1. BootType /\ HwType /\ BtRecord /\ RegsRecord /\ bt.pc = "release"
  BY Zenon DEF BootInv, BootType, HwType, l1d_release_starcore, AtPc
<1>2. bt.call.api # "load_new" /\ \A c \in F : Provided(c)
  BY <1>1, Zenon DEF BootInv, ProvidedInv, LoadInv, AtPc, ColdPcs
<1>3. /\ BtTo("crstsr", bt.call, 0, bt.ret, bt.mask, bt.corrupt)
      /\ image' = image /\ core' = core /\ ctl' = ctl
  BY <1>1, GotoTo, Zenon DEF l1d_release_starcore
<1>4. RegsRecord' /\ regs'.brr = regs.brr \cup F /\ regs'.l2 = regs.l2
  <2>1. regs' = [regs EXCEPT !.brr = @ \cup F]
    BY Zenon DEF l1d_release_starcore
  <2> QED
    BY <1>1, <2>1, Zenon DEF RegsRecord
<1>5. F' = F
  BY <1>3, SameCall, Zenon DEF BtTo
<1>6. \A c : Provided(c) <=> Provided(c)'
  BY <1>3, <1>4, Zenon DEF Provided
<1>7. BootType'
  <2>1. HwType'
    BY <1>1, <1>3, <1>4, Zenon DEF HwType, CtlRecord
  <2> QED
    BY <1>1, <1>3, <2>1, GotoType, Zenon
<1>8. ProvidedInv'
  BY <1>2, <1>3, <1>4, <1>5, <1>6, Zenon DEF BootInv, ProvidedInv, BtTo, AtPc
<1>9. RestartInv'
  <2>1. ASSUME bt.corrupt = FALSE
        PROVE  ctl.mode # 0 /\ \A c \in F : core[c] = "held"
    BY <1>1, <2>1, ZenonT(30) DEF BootInv, RestartInv, AtPc
  <2>2. "held" \notin {"off", "reset"}
    BY Zenon
  <2> QED
    BY <1>3, <1>5, <2>1, <2>2, Zenon DEF RestartInv, BtTo, AtPc
<1>10. LoadInv'
  BY <1>2, <1>3, ZenonT(30) DEF LoadInv, BtTo, AtPc, ColdPcs
<1> QED
  BY <1>7, <1>8, <1>9, <1>10, Zenon DEF BootInv

(* The waiting part of a reset: nothing but the process moves. *)
LEMMA WaitStep ==
  ASSUME BootInv, HwSame, restarted' = restarted, bt.call.api # "load_new",
         NEW p \in {"sem", "status", "end", "fail"}, NEW k \in Int, NEW r \in {0, 1},
         BtTo(p, bt.call, k, r, bt.mask, bt.corrupt),
         bt.corrupt = FALSE /\ p # "fail" =>
           /\ ctl.mode # 0
           /\ \A c \in F : /\ core[c] \notin {"held", "off", "reset"}
                           /\ ctl.status[c] = "SUCCESS" => c \in restarted
           /\ p = "status" /\ r = 0 => \A c \in F : c < k => c \in restarted
           /\ p = "end" /\ r = 0 => F \subseteq restarted
  PROVE  BootInv'
<1>1. BootType /\ F' = F /\ HwType
  BY SameCall, Zenon DEF BootInv, BootType, BtTo
<1>2. \A c : Provided(c) <=> Provided(c)'
  BY Zenon DEF HwSame, RegsSame, Provided
<1>3. BootType'
  BY <1>1, BootTypeKept, HwTyped, Zenon DEF BootType
<1>4. ProvidedInv'
  <2>1. \A c \in Cores : (c \in regs.brr \/ core[c] \notin Stopped \/ ctl.status[c] # "none" => Provided(c))'
    BY <1>2, Zenon DEF BootInv, ProvidedInv, HwSame, RegsSame
  <2> QED
    BY <1>1, <1>2, <2>1, Zenon DEF ProvidedInv, BtTo, AtPc
<1>5. RestartInv'
  <2>1. p \notin {"hold", "clear", "shared", "load", "release", "crstsr"}
    BY Zenon
  <2>2. CASE p = "fail"
    BY <2>2, Zenon DEF RestartInv, BtTo, AtPc
  <2>3. CASE p # "fail"
    BY <1>1, <2>1, <2>3, ZenonT(30) DEF RestartInv, BtTo, AtPc, HwSame
  <2> QED
    BY <2>2, <2>3, Zenon
<1>6. LoadInv'
  BY Zenon DEF LoadInv, BtTo, AtPc, ColdPcs
<1> QED
  BY <1>3, <1>4, <1>5, <1>6, Zenon DEF BootInv

LEMMA CrstsrKeeps == BootInv /\ check_dsp_ready_CRSTSR => BootInv'
<1> SUFFICES ASSUME BootInv, check_dsp_ready_CRSTSR PROVE BootInv'
  BY Zenon
<1>1. BootType /\ HwType /\ BtRecord /\ bt.pc = "crstsr" /\ bt.ret \in {0, 1}
  BY Zenon DEF BootInv, BootType, HwType, check_dsp_ready_CRSTSR, AtPc
<1>2. bt.call.api # "load_new" /\ 0 \in Int /\ \A c \in F : ~(c < 0)
  BY <1>1, CallFacts DEF BootInv, BootType, LoadInv, AtPc, ColdPcs
<1>3. HwSame /\ restarted' = restarted
  BY <1>1, HwVarsSame, Zenon DEF check_dsp_ready_CRSTSR, Only, Quiet
<1>4. CASE bt' = Idle
  BY <1>1, <1>3, <1>4, EndsKeeps, Zenon DEF HwSame, RegsSame, HwType, CtlRecord
<1>5. ASSUME NEW l \in {"sem", "status"}, Goto(l), \A c \in F : Ready(c) PROVE BootInv'
  <2>1. BtTo(l, bt.call, 0, bt.ret, bt.mask, bt.corrupt)
    BY <1>1, <1>5, GotoTo, Zenon
  <2>2. ASSUME bt.corrupt = FALSE
        PROVE  /\ ctl.mode # 0
               /\ \A c \in F : /\ core[c] \notin {"held", "off", "reset"}
                               /\ ctl.status[c] = "SUCCESS" => c \in restarted
    BY <1>1, <1>5, <2>2, Zenon DEF BootInv, RestartInv, AtPc, Ready
  <2>3. l # "end" /\ \A c \in F : c < 0 => c \in restarted
    BY <1>2, Zenon
  <2> QED
    BY <1>1, <1>2, <1>3, <2>1, <2>2, <2>3, WaitStep, ZenonT(30)
<1>6. CASE Goto("fail")
  <2>1. BtTo("fail", bt.call, 0, bt.ret, bt.mask, bt.corrupt)
    BY <1>1, <1>6, GotoTo, Zenon
  <2> QED
    BY <1>1, <1>2, <1>3, <2>1, WaitStep, ZenonT(30)
<1> QED
  BY <1>4, <1>5, <1>6, Zenon DEF check_dsp_ready_CRSTSR

LEMMA SemKeeps == BootInv /\ check_dsp_boot => BootInv'
<1> SUFFICES ASSUME BootInv, check_dsp_boot PROVE BootInv'
  BY Zenon
<1>1. BootType /\ HwType /\ BtRecord /\ RegsRecord /\ bt.pc = "sem" /\ bt.ret \in {0, 1}
  BY Zenon DEF BootInv, BootType, HwType, check_dsp_boot, AtPc
<1>2. bt.call.api # "load_new" /\ 0 \in Int /\ \A c \in F : ~(c < 0)
  BY <1>1, CallFacts DEF BootInv, BootType, LoadInv, AtPc, ColdPcs
<1>3. HwSame /\ restarted' = restarted
  BY <1>1, Zenon DEF check_dsp_boot, Only, Quiet, HwSame, RegsSame, RegsRecord
<1>4. BtTo("status", bt.call, 0, bt.ret, bt.mask, bt.corrupt)
  BY <1>1, GotoTo, ZenonT(30) DEF check_dsp_boot
<1>5. ASSUME bt.corrupt = FALSE
      PROVE  /\ ctl.mode # 0
             /\ \A c \in F : /\ core[c] \notin {"held", "off", "reset"}
                             /\ ctl.status[c] = "SUCCESS" => c \in restarted
  BY <1>1, <1>5, ZenonT(30) DEF BootInv, RestartInv, AtPc
<1>6. "status" # "end" /\ \A c \in F : c < 0 => c \in restarted
  BY <1>2, Zenon
<1> QED
  BY <1>1, <1>2, <1>3, <1>4, <1>5, <1>6, WaitStep, ZenonT(30)

LEMMA StatusKeeps == BootInv /\ check_status => BootInv'
<1> SUFFICES ASSUME BootInv, check_status PROVE BootInv'
  BY Zenon
<1>1. /\ BootType /\ HwType /\ BtRecord /\ bt.pc = "status" /\ bt.ret \in {0, 1} /\ bt.k \in Int
      /\ bt.call \in BootCalls \cup {NoCall}
  BY Zenon DEF BootInv, BootType, HwType, check_status, AtPc
<1>2. bt.call.api # "load_new" /\ F \subseteq Nat
  BY <1>1, CallFacts, Zenon DEF BootInv, LoadInv, AtPc, ColdPcs
<1>3. HwSame /\ restarted' = restarted
  BY <1>1, HwVarsSame, Zenon DEF check_status, Only, Quiet
<1>4. ASSUME bt.corrupt = FALSE
      PROVE  /\ ctl.mode # 0
             /\ \A c \in F : /\ core[c] \notin {"held", "off", "reset"}
                             /\ ctl.status[c] = "SUCCESS" => c \in restarted
             /\ bt.ret = 0 => \A c \in F : c < bt.k => c \in restarted
  BY <1>1, <1>4, Zenon DEF BootInv, RestartInv, AtPc
<1>5. CASE Rest = {}
  <2>1. Goto("end")
    BY <1>5, Zenon DEF check_status
  <2>2. BtTo("end", bt.call, 0, bt.ret, bt.mask, bt.corrupt)
    BY <1>1, <2>1, GotoTo, Zenon
  <2>3. bt.corrupt = FALSE /\ bt.ret = 0 => F \subseteq restarted
    <3>1. \A c \in F : c < bt.k
      BY <1>1, <1>2, <1>5 DEF Rest
    <3> QED
      BY <1>4, <3>1, Zenon
  <2>4. "end" # "status" /\ 0 \in Int
    OBVIOUS
  <2> QED
    BY <1>1, <1>2, <1>3, <1>4, <2>2, <2>3, <2>4, WaitStep, ZenonT(30)
<1>6. CASE Rest # {}
  <2> DEFINE n == Nxt
             m == n + 1
             r == IF ctl.status[n] = "SUCCESS" THEN bt.ret ELSE 1
  <2>1. n \in F /\ n \in Nat /\ \A c \in F : c < n => ~(c >= bt.k)
    BY <1>1, <1>6, NxtFacts, Zenon
  <2>2. bt' = [bt EXCEPT !.k = m, !.ret = r]
    BY <1>6, Zenon DEF check_status
  <2> HIDE DEF n
  <2>3. m \in Int /\ r \in {0, 1} /\ (r = 0 => bt.ret = 0 /\ ctl.status[n] = "SUCCESS")
    BY <1>1, <2>1
  <2>4. ASSUME NEW c \in F, c < m PROVE c = n \/ c < bt.k
    <3>1. c \in Int /\ n \in Int /\ bt.k \in Int
      BY <1>1, <1>2, <2>1
    <3>2. ~(c < n) \/ ~(c >= bt.k)
      BY <2>1, Zenon
    <3> HIDE DEF F
    <3> QED
      BY <2>4, <3>1, <3>2
  <2> HIDE DEF m, r
  <2>5. BtTo("status", bt.call, m, r, bt.mask, bt.corrupt)
    <3>1. bt' = [pc |-> "status", call |-> bt.call, k |-> m, ret |-> r, strobe |-> bt.strobe,
                 mapped |-> bt.mapped, mask |-> bt.mask, corrupt |-> bt.corrupt]
      BY <1>1, <2>2, Zenon DEF BtRecord
    <3> QED
      BY <3>1, Zenon DEF BtTo, BtRecord
  <2>6. bt.corrupt = FALSE /\ r = 0 => \A c \in F : c < m => c \in restarted
    BY <1>4, <2>1, <2>3, <2>4, Zenon
  <2>7. "end" # "status"
    BY Zenon
  <2> QED
    BY <1>1, <1>2, <1>3, <1>4, <2>3, <2>5, <2>6, <2>7, WaitStep, ZenonT(30)
<1> QED
  BY <1>5, <1>6, Zenon

LEMMA EndKeeps == BootInv /\ fsl_start_L1_defense_end => BootInv'
<1> SUFFICES ASSUME BootInv, fsl_start_L1_defense_end PROVE BootInv'
  BY Zenon
<1>1. BootType /\ HwType /\ bt.call \in BootCalls \cup {NoCall}
  BY Zenon DEF BootInv, BootType
<1>2. HwSame /\ restarted' = restarted
  BY <1>1, HwVarsSame, Zenon DEF fsl_start_L1_defense_end, Only, Quiet
<1>3. CASE bt' = Idle
  BY <1>1, <1>2, <1>3, EndsKeeps, Zenon DEF HwSame, RegsSame, HwType, CtlRecord
<1>4. CASE bt.call.api = "dsp_boot" /\ bt' = [Idle EXCEPT !.pc = "c_open", !.call = bt.call]
  <2>1. BtTo("c_open", bt.call, 0, 0, {}, FALSE)
    BY <1>4, Zenon DEF BtTo, BtRecord, Idle
  <2>2. BootType'
    <3>1. 0 \in Int
      OBVIOUS
    <3>2. HwType'
      BY <1>1, <1>2, HwTyped, Zenon
    <3> QED
      BY <1>1, <2>1, <3>1, <3>2, Zenon DEF BootType, BtTo
  <2>3. ProvidedInv'
    <3>1. \A c : Provided(c) <=> Provided(c)'
      BY <1>2, Zenon DEF HwSame, RegsSame, Provided
    <3>2. \A c \in Cores : (c \in regs.brr \/ core[c] \notin Stopped \/ ctl.status[c] # "none" => Provided(c))'
      BY <1>2, <3>1, Zenon DEF BootInv, ProvidedInv, HwSame, RegsSame
    <3> QED
      BY <2>1, <3>2, Zenon DEF ProvidedInv, BtTo, AtPc
  <2>4. RestartInv'
    BY <2>1, Zenon DEF RestartInv, BtTo, AtPc
  <2>5. LoadInv'
    BY <1>4, <2>1, Zenon DEF LoadInv, BtTo, AtPc, ColdPcs
  <2> QED
    BY <2>2, <2>3, <2>4, <2>5, Zenon DEF BootInv
<1> QED
  BY <1>3, <1>4, Zenon DEF fsl_start_L1_defense_end

LEMMA CallKeeps == BootInv /\ (BootCall \/ BootDies) => BootInv'
<1> SUFFICES ASSUME BootInv, BootCall \/ BootDies PROVE BootInv'
  BY Zenon
<1>1. BootType /\ HwType
  BY Zenon DEF BootInv, BootType
<1>2. HwSame /\ restarted' = restarted
  BY <1>1, HwVarsSame, Zenon DEF BootCall, BootDies, hwVars, Only, Quiet
<1>3. CASE BootDies
  BY <1>1, <1>2, <1>3, EndsKeeps, Zenon DEF BootDies, HwSame, RegsSame, HwType, CtlRecord
<1>4. CASE BootCall
  <2>1. PICK b \in BootCalls :
          bt' = [Idle EXCEPT !.pc = IF b.api = "load_new" THEN "c_open" ELSE "open", !.call = b]
    BY <1>4, Zenon DEF BootCall
  <2> DEFINE l == IF b.api = "load_new" THEN "c_open" ELSE "open"
  <2>2. \/ l = "open" /\ b.api # "load_new"
        \/ l = "c_open" /\ b.api = "load_new"
    BY Zenon
  <2> HIDE DEF l
  <2>3. BtTo(l, b, 0, 0, {}, FALSE)
    <3>1. bt' = [Idle EXCEPT !.pc = l, !.call = b]
      BY <2>1, Zenon DEF l
    <3> QED
      BY <3>1, Zenon DEF BtTo, BtRecord, Idle
  <2>4. BootType'
    <3>1. 0 \in Int
      OBVIOUS
    <3>2. HwType'
      BY <1>1, <1>2, HwTyped, Zenon
    <3> QED
      BY <2>3, <3>1, <3>2, Zenon DEF BootType, BtTo
  <2>5. ProvidedInv'
    <3>1. \A c : Provided(c) <=> Provided(c)'
      BY <1>2, Zenon DEF HwSame, RegsSame, Provided
    <3>2. \A c \in Cores : (c \in regs.brr \/ core[c] \notin Stopped \/ ctl.status[c] # "none" => Provided(c))'
      BY <1>2, <3>1, Zenon DEF BootInv, ProvidedInv, HwSame, RegsSame
    <3> QED
      BY <2>2, <2>3, <3>2, Zenon DEF ProvidedInv, BtTo, AtPc
  <2>6. RestartInv'
    BY <2>2, <2>3, Zenon DEF RestartInv, BtTo, AtPc
  <2>7. LoadInv'
    BY <2>2, <2>3, ZenonT(30) DEF LoadInv, BtTo, AtPc, ColdPcs
  <2> QED
    BY <2>4, <2>5, <2>6, <2>7, Zenon DEF BootInv
<1> QED
  BY <1>3, <1>4, Zenon

-----------------------------------------------------------------------------
(* Initial loads.  What the caches cover, for the sorted list. *)
CachesCover(ids, l2) ==
  \A i \in 1 .. Len(ids) : bubble_sort(ids)[i] \in Cores => bubble_sort(ids)[i] \div 2 \in l2

(* A step of an initial load. *)
LEMMA ColdStep ==
  ASSUME BootInv, restarted' = restarted, HwType', bt.call.api \in {"dsp_boot", "load_new"},
         NEW p \in ColdPcs \cup {"c_sem"}, NEW k \in Int, NEW m \in SUBSET Cores,
         BtTo(p, bt.call, k, bt.ret, m, bt.corrupt),
         ctl.pa = TRUE => ctl'.pa = TRUE, ctl'.shared = TRUE, ctl'.status = ctl.status,
         regs.l2 \subseteq regs'.l2, CachesCover(bt.call.ids, regs'.l2),
         \A c \in regs'.brr \ regs.brr : Provided(c),
         \A c \in Cores : core'[c] \notin Stopped => core[c] \notin Stopped,
         p # "c_sem" => \A c \in m : image'[c] \in Loaded /\ Provided(c)',
         p = "c_load" => k \in 0 .. Len(bt.call.ids),
         bt.call.api = "load_new" =>
           /\ p \in {"n_hold", "n_clear"} => \A c \in Cores : core'[c] = "reset"
           /\ p = "c_load" => \A c \in Cores : core'[c] = "held"
           /\ p \in {"n_clear", "c_load"} => regs'.brr = {}
  PROVE  BootInv'
<1>1. BootType /\ (ctl.shared = TRUE => ctl'.shared = TRUE)
  BY Zenon DEF BootInv
<1>2. \A c : Provided(c) => Provided(c)'
  BY <1>1, ProvidedStays, Zenon
<1>3. BootType'
  BY <1>1, BootTypeKept, Zenon DEF BootType
<1>4. ProvidedInv'
  <2>1. p \notin {"open", "ack", "vnmi", "strobe", "reack", "ph15", "ipc", "pir", "hold", "clear",
                  "shared", "load", "release"}
    BY Zenon DEF ColdPcs
  <2>2. \A c \in Cores : (c \in regs.brr \/ core[c] \notin Stopped \/ ctl.status[c] # "none" => Provided(c))'
    BY <1>2, Zenon DEF BootInv, ProvidedInv
  <2> QED
    BY <2>1, <2>2, ZenonT(30) DEF ProvidedInv, BtTo, AtPc
<1>5. RestartInv'
  BY Zenon DEF RestartInv, BtTo, AtPc, ColdPcs
<1>6. LoadInv'
  <2>1. p \notin {"load", "release", "c_open"}
    BY ZenonT(30) DEF ColdPcs
  <2>2. p \in ColdPcs => p # "c_sem"
    BY ZenonT(30) DEF ColdPcs
  <2> QED
    BY <2>1, <2>2, ZenonT(30) DEF LoadInv, BtTo, AtPc, CachesCover
<1> QED
  BY <1>3, <1>4, <1>5, <1>6, ZenonT(30) DEF BootInv

(* The caches enabled for the last of the sorted list cover the whole list. *)
LEMMA CoverFacts ==
  ASSUME NEW ids \in Seq(Cores \cup {Shared}), NEW l2,
         0 .. dsp_cluster_count_f(bubble_sort(ids)[Len(ids)]) - 1 \subseteq l2
  PROVE  CachesCover(ids, l2)
<1> DEFINE z == bubble_sort(ids)[Len(ids)]
<1> SUFFICES ASSUME NEW i \in 1 .. Len(ids), bubble_sort(ids)[i] \in Cores
             PROVE  bubble_sort(ids)[i] \div 2 \in l2
  BY Zenon DEF CachesCover
<1> DEFINE c == bubble_sort(ids)[i]
<1>1. Cores \cup {Shared} \in SUBSET Int /\ NR_DSP_CORE \in Nat
  BY BootAssumption DEF Cores, Shared
<1>2. z \in Cores \cup {Shared} /\ c <= z
  BY <1>1, SortFacts, Zenon
<1>3. 0 .. dsp_cluster_count_f(z) - 1 \subseteq l2
  BY Zenon
<1> HIDE DEF z, c
<1>4. c \in Cores
  BY Zenon DEF c
<1>5. z \in Cores /\ z # Shared
  BY <1>1, <1>2, <1>4 DEF Cores, Shared
<1>6. dsp_cluster_count_f(z) = z \div 2 + 1
  BY <1>5, Zenon DEF dsp_cluster_count_f
<1>7. c \div 2 \in 0 .. (z \div 2 + 1) - 1
  BY <1>1, <1>2, <1>4, <1>5 DEF Cores
<1> QED
  BY <1>3, <1>6, <1>7, Zenon DEF c

LEMMA PreLoadKeeps == BootInv /\ pre_load_B4 => BootInv'
<1> SUFFICES ASSUME BootInv, pre_load_B4 PROVE BootInv'
  BY Zenon
<1>1. /\ BootType /\ HwType /\ BtRecord /\ RegsRecord /\ CtlRecord /\ bt.pc = "c_open"
      /\ bt.call \in BootCalls \cup {NoCall}
  BY Zenon DEF BootInv, BootType, HwType, pre_load_B4, AtPc
<1>2. bt.mask = {} /\ bt.call.api \in {"dsp_boot", "load_new"} /\ bt.call.ids \in Seq(Cores \cup {Shared})
  BY <1>1, CallFacts, ZenonT(30) DEF BootInv, LoadInv, AtPc
<1>3. restarted' = restarted /\ core' = core /\ image' = image
  BY Zenon DEF pre_load_B4, Only, Quiet
<1>4. ASSUME NEW ok \in BOOLEAN, ctl' = [ctl EXCEPT !.shared = @ \/ ok], bt' = Idle, regs' = regs
      PROVE  BootInv'
  <2> DEFINE v == ctl.shared \/ ok
  <2>1. v \in BOOLEAN /\ (ctl.shared = TRUE => v = TRUE)
    BY Zenon
  <2>2. ctl' = [ctl EXCEPT !.shared = v]
    BY <1>4, Zenon
  <2> HIDE DEF v
  <2>3. ctl' = [pa |-> ctl.pa, shared |-> v, mode |-> ctl.mode, status |-> ctl.status]
    BY <1>1, <2>2, Zenon DEF CtlRecord
  <2>4. CtlRecord' /\ ctl'.pa = ctl.pa /\ ctl'.shared = v /\ ctl'.status = ctl.status
    BY <2>3, Zenon DEF CtlRecord
  <2>5. RegsRecord' /\ regs'.brr = regs.brr /\ regs.l2 \subseteq regs'.l2
    BY <1>1, <1>4, Zenon DEF RegsRecord
  <2> QED
    BY <1>1, <1>3, <1>4, <2>1, <2>4, <2>5, EndsKeeps, Zenon DEF HwType
<1> DEFINE N == 0 .. dsp_cluster_count_f(bubble_sort(bt.call.ids)[Len(bt.call.ids)]) - 1
<1>5. ASSUME ctl' = [ctl EXCEPT !.shared = TRUE], regs' = [regs EXCEPT !.l2 = @ \cup N],
             NEW l \in {"n_ph15", "c_load"}, Goto(l), bt.call.api = "load_new" => l # "c_load"
      PROVE  BootInv'
  <2>1. N \subseteq regs.l2 \cup N
    BY Zenon
  <2>2. CachesCover(bt.call.ids, regs.l2 \cup N)
    BY <1>2, <2>1, CoverFacts, Zenon
  <2> HIDE DEF N
  <2>3. CtlRecord' /\ ctl'.pa = ctl.pa /\ ctl'.shared = TRUE /\ ctl'.status = ctl.status
    <3>1. ctl' = [pa |-> ctl.pa, shared |-> TRUE, mode |-> ctl.mode, status |-> ctl.status]
      BY <1>1, <1>5, Zenon DEF CtlRecord
    <3> QED
      BY <3>1, Zenon DEF CtlRecord
  <2>4. RegsRecord' /\ regs'.brr = regs.brr /\ regs'.l2 = regs.l2 \cup N
    BY <1>1, <1>5, Zenon DEF RegsRecord
  <2>5. BtTo(l, bt.call, 0, bt.ret, {}, bt.corrupt)
    BY <1>1, <1>2, <1>5, GotoTo, Zenon DEF BtTo
  <2>6. HwType'
    BY <1>1, <1>3, <2>3, <2>4, Zenon DEF HwType
  <2>7. l \in ColdPcs \cup {"c_sem"} /\ l \notin {"n_hold", "n_clear"} /\ 0 \in Int
    BY DEF ColdPcs
  <2>8. /\ regs.l2 \subseteq regs'.l2 /\ CachesCover(bt.call.ids, regs'.l2)
        /\ regs'.brr \ regs.brr = {} /\ 0 \in 0 .. Len(bt.call.ids)
    BY <1>2, <2>2, <2>4
  <2> QED
    BY <1>2, <1>3, <1>5, <2>3, <2>4, <2>5, <2>6, <2>7, <2>8, ColdStep, ZenonT(40)
<1> QED
  BY <1>4, <1>5, Zenon DEF pre_load_B4, AreasAssigned, dsp_L2_cache_init

LEMMA ColdFacts ==
  ASSUME BootInv, bt.pc \in ColdPcs
  PROVE  /\ BootType /\ HwType /\ BtRecord /\ RegsRecord /\ CtlRecord /\ core \in [Cores -> CoreStates]
         /\ bt.call.api \in {"dsp_boot", "load_new"} /\ bt.call.ids \in Seq(Cores \cup {Shared})
         /\ ctl.shared = TRUE /\ CachesCover(bt.call.ids, regs.l2)
         /\ bt.mask \in SUBSET Cores /\ \A c \in bt.mask : image[c] \in Loaded /\ Provided(c)
<1>1. /\ BootType /\ HwType /\ BtRecord /\ RegsRecord /\ CtlRecord /\ core \in [Cores -> CoreStates]
      /\ bt.call \in BootCalls \cup {NoCall} /\ bt.mask \in SUBSET Cores
  BY Zenon DEF BootInv, BootType, HwType
<1>2. /\ bt.call.api \in {"dsp_boot", "load_new"}
      /\ ctl.shared = TRUE /\ CachesCover(bt.call.ids, regs.l2)
      /\ \A c \in bt.mask : image[c] \in Loaded /\ Provided(c)
  BY Zenon DEF BootInv, LoadInv, CachesCover
<1> QED
  BY <1>1, <1>2, CallFacts, Zenon

(* Steps of b4860_load_dsp_image_new that put all cores in reset. *)
LEMMA Ph15SimpleKeeps == BootInv /\ set_PH15_simple => BootInv'
<1> SUFFICES ASSUME BootInv, set_PH15_simple PROVE BootInv'
  BY Zenon
<1>1. bt.pc = "n_ph15" /\ bt.pc \in ColdPcs
  BY Zenon DEF set_PH15_simple, AtPc, ColdPcs
<1>2. restarted' = restarted /\ core' = core /\ image' = image /\ ctl' = ctl
  BY Zenon DEF set_PH15_simple, Only, Quiet
<1>3. RegsRecord' /\ regs'.brr = regs.brr /\ regs'.l2 = regs.l2
  <2>1. regs' = [regs EXCEPT !.ph15 = Cores]
    BY Zenon DEF set_PH15_simple
  <2> QED
    BY <1>1, <2>1, ColdFacts, Zenon DEF RegsRecord
<1>4. HwType'
  BY <1>1, <1>2, <1>3, ColdFacts, Zenon DEF HwType, CtlRecord
<1>5. CASE bt' = Idle
  BY <1>1, <1>2, <1>3, <1>4, <1>5, ColdFacts, EndsKeeps, Zenon DEF HwType
<1>6. CASE Goto("n_pir")
  <2>1. BtTo("n_pir", bt.call, 0, bt.ret, bt.mask, bt.corrupt)
    BY <1>1, <1>6, ColdFacts, GotoTo, ZenonT(30)
  <2>2. "n_pir" \in ColdPcs \cup {"c_sem"} /\ "n_pir" \notin {"n_hold", "n_clear", "c_load"} /\ 0 \in Int
    BY DEF ColdPcs
  <2>3. regs'.brr \ regs.brr = {} /\ \A c : Provided(c) <=> Provided(c)'
    BY <1>2, <1>3, Zenon DEF Provided
  <2> QED
    BY <1>1, <1>2, <1>3, <1>4, <2>1, <2>2, <2>3, ColdFacts, ColdStep, ZenonT(30)
<1> QED
  BY <1>5, <1>6, Zenon DEF set_PH15_simple

LEMMA PirSimpleKeeps == BootInv /\ set_PIR_simple => BootInv'
<1> SUFFICES ASSUME BootInv, set_PIR_simple PROVE BootInv'
  BY Zenon
<1>1. bt.pc \in ColdPcs
  BY Zenon DEF set_PIR_simple, AtPc, ColdPcs
<1>2. restarted' = restarted /\ image' = image /\ ctl' = ctl /\ core' = [c \in Cores |-> "reset"]
  BY Zenon DEF set_PIR_simple, Only, Quiet
<1>3. RegsRecord' /\ regs'.brr = regs.brr /\ regs'.l2 = regs.l2
  <2>1. regs' = [regs EXCEPT !.pir = Cores, !.vnmi = {}, !.safe = {}]
    BY Zenon DEF set_PIR_simple
  <2> QED
    BY <1>1, <2>1, ColdFacts, Zenon DEF RegsRecord
<1>4. core' \in [Cores -> CoreStates] /\ \A c \in Cores : core'[c] = "reset" /\ "reset" \in Stopped
  BY <1>2, Zenon DEF CoreStates, Stopped
<1>5. HwType'
  BY <1>1, <1>2, <1>3, <1>4, ColdFacts, Zenon DEF HwType, CtlRecord
<1>6. BtTo("n_hold", bt.call, 0, bt.ret, bt.mask, bt.corrupt)
  BY <1>1, ColdFacts, GotoTo, ZenonT(30) DEF set_PIR_simple
<1>7. "n_hold" \in ColdPcs \cup {"c_sem"} /\ "n_hold" \notin {"n_clear", "c_load"} /\ 0 \in Int
  BY DEF ColdPcs
<1>8. regs'.brr \ regs.brr = {} /\ \A c : Provided(c) <=> Provided(c)'
  BY <1>2, <1>3, Zenon DEF Provided
<1> QED
  BY <1>1, <1>2, <1>3, <1>4, <1>5, <1>6, <1>7, <1>8, ColdFacts, ColdStep, ZenonT(30)

LEMMA HoldSimpleKeeps == BootInv /\ l1d_hold_starcore_simple => BootInv'
<1> SUFFICES ASSUME BootInv, l1d_hold_starcore_simple PROVE BootInv'
  BY Zenon
<1>1. bt.pc = "n_hold" /\ bt.pc \in ColdPcs
  BY Zenon DEF l1d_hold_starcore_simple, AtPc, ColdPcs
<1>2. restarted' = restarted /\ image' = image /\ ctl' = ctl /\ core' = core
  BY Zenon DEF l1d_hold_starcore_simple, Only, Quiet
<1>3. RegsRecord' /\ regs'.brr = {} /\ regs'.l2 = regs.l2
  <2>1. regs' = [regs EXCEPT !.brr = {}]
    BY Zenon DEF l1d_hold_starcore_simple
  <2> QED
    BY <1>1, <2>1, ColdFacts, Zenon DEF RegsRecord
<1>4. bt.call.api = "load_new" => \A c \in Cores : core'[c] = "reset"
  BY <1>1, <1>2, Zenon DEF BootInv, LoadInv
<1>5. HwType'
  BY <1>1, <1>2, <1>3, ColdFacts, Zenon DEF HwType, CtlRecord
<1>6. BtTo("n_clear", bt.call, 0, bt.ret, bt.mask, bt.corrupt)
  BY <1>1, ColdFacts, GotoTo, Zenon DEF l1d_hold_starcore_simple
<1>7. "n_clear" \in ColdPcs \cup {"c_sem"} /\ "n_clear" # "c_load" /\ 0 \in Int
  BY DEF ColdPcs
<1>8. regs'.brr \ regs.brr = {} /\ \A c : Provided(c) <=> Provided(c)'
  BY <1>2, <1>3, Zenon DEF Provided
<1> QED
  BY <1>1, <1>2, <1>3, <1>4, <1>5, <1>6, <1>7, <1>8, ColdFacts, ColdStep, ZenonT(30)

LEMMA ClearSimpleKeeps == BootInv /\ Reset_PIR_PH15_simple => BootInv'
<1> SUFFICES ASSUME BootInv, Reset_PIR_PH15_simple PROVE BootInv'
  BY Zenon
<1>1. bt.pc = "n_clear" /\ bt.pc \in ColdPcs
  BY Zenon DEF Reset_PIR_PH15_simple, AtPc, ColdPcs
<1>2. restarted' = restarted /\ image' = image /\ ctl' = ctl /\ core' = [c \in Cores |-> Resumed(c)]
  BY Zenon DEF Reset_PIR_PH15_simple, Only, Quiet
<1>3. RegsRecord' /\ regs'.brr = regs.brr /\ regs'.l2 = regs.l2
  <2>1. regs' = [regs EXCEPT !.pir = {}, !.ph15 = {}]
    BY Zenon DEF Reset_PIR_PH15_simple
  <2> QED
    BY <1>1, <2>1, ColdFacts, Zenon DEF RegsRecord
<1>4. \A c \in Cores : /\ Resumed(c) \in CoreStates
                       /\ core[c] \in Stopped => Resumed(c) \in Stopped
                       /\ core[c] = "reset" => Resumed(c) = "held"
  BY <1>1, ColdFacts, Zenon DEF Resumed, CoreStates, Stopped
<1>5. /\ core' \in [Cores -> CoreStates]
      /\ \A c \in Cores : core'[c] \notin Stopped => core[c] \notin Stopped
      /\ bt.call.api = "load_new" => regs'.brr = {} /\ \A c \in Cores : core'[c] = "held"
  BY <1>1, <1>2, <1>3, <1>4, ZenonT(40) DEF BootInv, LoadInv
<1>6. HwType'
  BY <1>1, <1>2, <1>3, <1>5, ColdFacts, Zenon DEF HwType, CtlRecord
<1>7. BtTo("c_load", bt.call, 0, bt.ret, bt.mask, bt.corrupt)
  BY <1>1, ColdFacts, GotoTo, Zenon DEF Reset_PIR_PH15_simple
<1>8. /\ "c_load" \in ColdPcs \cup {"c_sem"} /\ "c_load" \notin {"n_hold", "n_clear"}
      /\ 0 \in Int /\ 0 \in 0 .. Len(bt.call.ids)
  BY <1>1, ColdFacts DEF ColdPcs
<1>9. regs'.brr \ regs.brr = {} /\ \A c : Provided(c) <=> Provided(c)'
  BY <1>2, <1>3, Zenon DEF Provided
<1> QED
  BY <1>1, <1>2, <1>3, <1>5, <1>6, <1>7, <1>8, <1>9, ColdFacts, ColdStep, ZenonT(30)

(* load_B4: what it has put in the mask has an image and is provided for. *)
LEMMA LoadB4Keeps == BootInv /\ load_B4 => BootInv'
<1> SUFFICES ASSUME BootInv, load_B4 PROVE BootInv'
  BY Zenon
<1> DEFINE t == bubble_sort(bt.call.ids)[bt.k + 1]
           m == bt.mask \cup ({t} \cap Cores)
<1>1. bt.pc = "c_load" /\ bt.pc \in ColdPcs /\ bt.k \in 0 .. Len(bt.call.ids)
  BY Zenon DEF load_B4, AtPc, ColdPcs, BootInv, LoadInv
<1>2. restarted' = restarted /\ core' = core /\ regs' = regs /\ RegsRecord'
  BY <1>1, ColdFacts, Zenon DEF load_B4, Only, Quiet, RegsRecord
<1>3. bt.call.api = "load_new" => regs.brr = {} /\ \A c \in Cores : core[c] = "held"
  BY <1>1, ZenonT(30) DEF BootInv, LoadInv, AtPc
<1>4. /\ "c_load" \in ColdPcs \cup {"c_sem"} /\ "c_load" \notin {"n_hold", "n_clear", "c_sem"}
      /\ "c_release" \in ColdPcs \cup {"c_sem"} /\ "c_release" \notin {"n_hold", "n_clear", "c_load"}
      /\ regs'.brr \ regs.brr = {} /\ regs'.brr = regs.brr /\ regs'.l2 = regs.l2 /\ 0 \in Int
  BY <1>2 DEF ColdPcs
<1>5. CASE bt.k = Len(bt.call.ids)
  <2>1. Goto("c_release") /\ image' = image /\ ctl' = ctl
    BY <1>5, Zenon DEF load_B4
  <2>2. BtTo("c_release", bt.call, 0, bt.ret, bt.mask, bt.corrupt)
    BY <1>1, <2>1, ColdFacts, GotoTo, ZenonT(30)
  <2>3. HwType'
    BY <1>1, <1>2, <2>1, ColdFacts, Zenon DEF HwType, CtlRecord
  <2>4. \A c : Provided(c) <=> Provided(c)'
    BY <1>2, <2>1, Zenon DEF Provided
  <2> QED
    BY <1>1, <1>2, <1>4, <2>1, <2>2, <2>3, <2>4, ColdFacts, ColdStep, ZenonT(30)
<1>6. CASE bt.k # Len(bt.call.ids)
  <2>1. PICK r \in load_dsp_image(t) :
          /\ image' = [image EXCEPT ![t] = r.got]
          /\ SetPaInit(r.ok)
          /\ bt' = IF r.ok THEN [bt EXCEPT !.k = @ + 1, !.mask = @ \cup ({t} \cap Cores)] ELSE Idle
    BY <1>6, Zenon DEF load_B4
  <2>2. /\ image' \in [Cores \cup {Shared} -> {"none", "part"} \cup Loaded]
        /\ r.ok \in BOOLEAN /\ (r.ok = TRUE => r.got \in Loaded)
    BY <1>1, <2>1, ColdFacts, LoadResult, Zenon
  <2>3. /\ CtlRecord' /\ ctl'.pa \in BOOLEAN /\ (ctl.pa = TRUE => ctl'.pa = TRUE)
        /\ (r.ok = TRUE => ctl'.pa = TRUE) /\ ctl'.shared = TRUE /\ ctl'.status = ctl.status
    BY <1>1, <2>1, <2>2, ColdFacts, PaFields, Zenon
  <2>4. HwType'
    BY <1>1, <1>2, <2>2, <2>3, ColdFacts, Zenon DEF HwType
  <2>5. CASE r.ok = FALSE
    <3>1. bt' = Idle
      BY <2>1, <2>5, Zenon
    <3> QED
      BY <1>1, <1>2, <1>4, <2>2, <2>3, <3>1, ColdFacts, EndsKeeps, ZenonT(30)
  <2>6. CASE r.ok = TRUE
    <3>1. bt' = [bt EXCEPT !.k = bt.k + 1, !.mask = m]
      BY <2>1, <2>6, Zenon
    <3>2. m \in SUBSET Cores
      BY <1>1, ColdFacts, ZenonT(40)
    <3>3. bt.k + 1 \in Int /\ bt.k + 1 \in 1 .. Len(bt.call.ids) /\ bt.k + 1 \in 0 .. Len(bt.call.ids)
      BY <1>1, <1>6, ColdFacts
    <3>4. ASSUME NEW c \in m PROVE image'[c] \in Loaded /\ Provided(c)'
      <4>1. image \in [Cores \cup {Shared} -> {"none", "part"} \cup Loaded]
        BY <1>1, ColdFacts, Zenon DEF HwType
      <4>2. CASE c = t
        <5>1. c \in Cores
          BY <3>2, Zenon
        <5>2. c \div 2 \in regs.l2
          BY <1>1, <3>3, <4>2, <5>1, ColdFacts, Zenon DEF CachesCover
        <5>3. image'[c] = r.got
          BY <2>1, <4>1, <4>2, <5>1, Zenon
        <5> QED
          BY <1>4, <2>2, <2>3, <2>6, <5>2, <5>3, Zenon DEF Provided
      <4>3. CASE c # t
        <5>1. c \in bt.mask
          BY <4>3, Zenon
        <5>2. image[c] \in Loaded /\ Provided(c)
          BY <1>1, <5>1, ColdFacts, Zenon
        <5>3. image'[c] = image[c]
          BY <1>1, <2>1, <4>1, <4>3, <5>1, ColdFacts, Zenon
        <5> QED
          BY <1>4, <2>3, <5>2, <5>3, Zenon DEF Provided
      <4> QED
        BY <4>2, <4>3, Zenon
    <3> DEFINE j == bt.k + 1
    <3> HIDE DEF m, j
    <3>5. bt' = [pc |-> bt.pc, call |-> bt.call, k |-> j, ret |-> bt.ret, strobe |-> bt.strobe,
                 mapped |-> bt.mapped, mask |-> m, corrupt |-> bt.corrupt]
      BY <1>1, <3>1, ColdFacts, ZenonT(40) DEF BtRecord, j
    <3>6. BtTo("c_load", bt.call, j, bt.ret, m, bt.corrupt)
      BY <1>1, <3>5, Zenon DEF BtTo, BtRecord
    <3>7. j \in Int /\ j \in 0 .. Len(bt.call.ids)
      BY <3>3, Zenon DEF j
    <3> QED
      BY <1>1, <1>2, <1>3, <1>4, <2>3, <2>4, <3>2, <3>4, <3>6, <3>7, ColdFacts, ColdStep, ZenonT(40)
  <2> QED
    BY <2>2, <2>5, <2>6, Zenon
<1> QED
  BY <1>5, <1>6, Zenon

LEMMA ReleaseB4Keeps == BootInv /\ release_starcore => BootInv'
<1> SUFFICES ASSUME BootInv, release_starcore PROVE BootInv'
  BY Zenon
<1> DEFINE b == regs.brr \cup bt.mask
<1>1. bt.pc \in ColdPcs
  BY Zenon DEF release_starcore, AtPc, ColdPcs
<1>2. restarted' = restarted /\ image' = image /\ ctl' = ctl /\ core' = core
  BY Zenon DEF release_starcore, Only, Quiet
<1>3. RegsRecord' /\ regs'.brr = b /\ regs'.l2 = regs.l2
  <2>1. regs' = [regs EXCEPT !.brr = b]
    BY Zenon DEF release_starcore
  <2> HIDE DEF b
  <2> QED
    BY <1>1, <2>1, ColdFacts, Zenon DEF RegsRecord
<1>4. HwType'
  BY <1>1, <1>2, <1>3, ColdFacts, Zenon DEF HwType, CtlRecord
<1>5. BtTo("c_sem", bt.call, 0, bt.ret, bt.mask, bt.corrupt)
  BY <1>1, ColdFacts, GotoTo, ZenonT(30) DEF release_starcore
<1>6. "c_sem" \in ColdPcs \cup {"c_sem"} /\ "c_sem" \notin {"n_hold", "n_clear", "c_load"} /\ 0 \in Int
  OBVIOUS
<1>7. \A c \in regs'.brr \ regs.brr : Provided(c)
  BY <1>1, <1>3, ColdFacts, Zenon
<1> QED
  BY <1>1, <1>2, <1>3, <1>4, <1>5, <1>6, <1>7, ColdFacts, ColdStep, ZenonT(30)

LEMMA PostLoadKeeps == BootInv /\ post_load_B4 => BootInv'
<1> SUFFICES ASSUME BootInv, post_load_B4 PROVE BootInv'
  BY Zenon
<1>1. HwType
  BY Zenon DEF BootInv, BootType
<1>2. bt' = Idle /\ regs' = regs /\ core' = core /\ ctl' = ctl /\ image' = image
  BY Zenon DEF post_load_B4, Only, Quiet
<1>3. RegsRecord' /\ CtlRecord'
  BY <1>1, <1>2, Zenon DEF HwType, RegsRecord, CtlRecord
<1> QED
  BY <1>1, <1>2, <1>3, EndsKeeps, Zenon DEF HwType

-----------------------------------------------------------------------------
(* A core takes a step: only one that runs, or that is released from hold.  *)
(* No flagged core does between its reset and its release.                  *)
LEMMA CoreStep ==
  ASSUME BootInv, bt' = bt, image' = image, NEW c \in Cores, NEW s \in CoreStates \ Stopped,
         core' = [core EXCEPT ![c] = s], core[c] \in Stopped => c \in regs.brr /\ core[c] # "reset",
         RegsSame, CtlRecord', ctl'.pa = ctl.pa, ctl'.shared = ctl.shared, ctl'.mode = ctl.mode,
         ctl'.status \in [Cores -> {"none", "BEGIN", "SUCCESS", "READY"}],
         \A d \in Cores \ {c} : ctl'.status[d] = ctl.status[d],
         restarted \subseteq restarted',
         ctl.mode # 0 /\ ctl'.status[c] = "SUCCESS" =>
           c \in restarted' \/ (core[c] \notin Stopped /\ ctl.status[c] = "SUCCESS")
  PROVE  BootInv'
<1>1. BootType /\ HwType /\ core \in [Cores -> CoreStates] /\ "held" \in Stopped
  BY Zenon DEF BootInv, BootType, HwType, Stopped
<1>2. /\ core' \in [Cores -> CoreStates] /\ core'[c] = s /\ \A d \in Cores \ {c} : core'[d] = core[d]
      /\ s \notin Stopped
  BY <1>1, Zenon
<1>3. BootType'
  <2>1. HwType'
    BY <1>1, <1>2, Zenon DEF HwType, RegsSame
  <2> QED
    BY <1>1, <2>1, Zenon DEF BootType, BtRecord
<1>4. F' = F /\ Aligned(bt.call)' = Aligned(bt.call) /\ \A d : Provided(d)' <=> Provided(d)
  BY SameCall, Zenon DEF Provided, RegsSame
<1>5. regs'.brr = regs.brr /\ regs'.l2 = regs.l2
  BY Zenon DEF RegsSame
<1>6. ProvidedInv'
  <2>1. Provided(c)
    BY Zenon DEF BootInv, ProvidedInv
  <2>2. \A d \in Cores : (d \in regs.brr \/ core[d] \notin Stopped \/ ctl.status[d] # "none" => Provided(d))'
    BY <1>2, <1>4, <1>5, <2>1, Zenon DEF BootInv, ProvidedInv
  <2> QED
    BY <1>4, <2>2, Zenon DEF BootInv, ProvidedInv, AtPc
<1>7. RestartInv'
  <2> SUFFICES ASSUME bt.corrupt = FALSE
               PROVE  RestartInv'
    BY Zenon DEF RestartInv
  <2>1. AtPc("hold") => \A d \in F : core[d] = "reset"
    BY Zenon DEF BootInv, RestartInv
  <2>2. AtPc("clear") => \A d \in F : core[d] = "reset" /\ d \notin regs.brr
    BY Zenon DEF BootInv, RestartInv
  <2>3. bt.pc \in {"shared", "load", "release"} => \A d \in F : core[d] = "held" /\ d \notin regs.brr
    BY Zenon DEF BootInv, RestartInv
  <2>4. bt.pc \in {"hold", "clear", "shared", "load", "release"} => c \notin F
    BY <1>1, <2>1, <2>2, <2>3, Zenon DEF Stopped, AtPc
  <2>5. F \subseteq Cores
    BY <1>1, CallFacts, Zenon DEF BootType
  <2>6. bt.pc \in {"hold", "clear", "shared", "load", "release"} => \A d \in F : core'[d] = core[d]
    BY <1>2, <2>4, <2>5, Zenon
  <2>7. bt.pc \in {"hold", "clear", "shared", "load", "release", "crstsr", "sem", "status", "end"} =>
          ctl'.mode # 0 /\ ctl.mode # 0
    BY Zenon DEF BootInv, RestartInv
  <2>8. bt.pc \in {"crstsr", "sem", "status", "end"} =>
          \A d \in F : /\ core[d] = "held" => AtPc("crstsr")
                       /\ core[d] \notin {"off", "reset"}
                       /\ core[d] # "held" /\ ctl.status[d] = "SUCCESS" => d \in restarted
    BY Zenon DEF BootInv, RestartInv
  <2>9. bt.pc \in {"crstsr", "sem", "status", "end"} =>
          \A d \in F : /\ core'[d] = "held" => AtPc("crstsr")
                       /\ core'[d] \notin {"off", "reset"}
                       /\ core'[d] # "held" /\ ctl'.status[d] = "SUCCESS" => d \in restarted'
    <3> SUFFICES ASSUME bt.pc \in {"crstsr", "sem", "status", "end"}, NEW d \in F
                 PROVE  /\ core'[d] = "held" => AtPc("crstsr")
                        /\ core'[d] \notin {"off", "reset"}
                        /\ core'[d] # "held" /\ ctl'.status[d] = "SUCCESS" => d \in restarted'
      BY Zenon
    <3>1. CASE d # c
      BY <1>2, <2>5, <2>8, <3>1, Zenon
    <3>2. CASE d = c
      BY <1>2, <2>7, <2>8, <3>2, ZenonT(30) DEF Stopped
    <3> QED
      BY <3>1, <3>2, ZenonT(30)
  <2>10. /\ AtPc("status") /\ bt.ret = 0 => \A d \in F : d < bt.k => d \in restarted
         /\ AtPc("end") /\ bt.ret = 0 => F \subseteq restarted
    BY Zenon DEF BootInv, RestartInv
  <2>11. /\ AtPc("status") /\ bt.ret = 0 => \A d \in F : d < bt.k => d \in restarted'
         /\ AtPc("end") /\ bt.ret = 0 => F \subseteq restarted'
    BY <2>10, Zenon
  <2>12. (AtPc("hold") => \A d \in F : core[d] = "reset")'
    BY <1>4, <2>1, <2>6, Zenon DEF AtPc
  <2>13. (AtPc("clear") => \A d \in F : core[d] = "reset" /\ d \notin regs.brr)'
    BY <1>4, <1>5, <2>2, <2>6, ZenonT(40) DEF AtPc
  <2>14. (bt.pc \in {"shared", "load", "release"} => \A d \in F : core[d] = "held" /\ d \notin regs.brr)'
    BY <1>4, <1>5, <2>3, <2>6, ZenonT(40)
  <2>15. (bt.pc \in {"crstsr", "sem", "status", "end"} =>
            \A d \in F : /\ core[d] = "held" => AtPc("crstsr")
                         /\ core[d] \notin {"off", "reset"}
                         /\ core[d] # "held" /\ ctl.status[d] = "SUCCESS" => d \in restarted)'
    BY <1>4, <2>9, Zenon DEF AtPc
  <2>16. (AtPc("status") /\ bt.ret = 0 => \A d \in F : d < bt.k => d \in restarted)'
    BY <1>4, <2>11, Zenon DEF AtPc
  <2>17. (AtPc("end") /\ bt.ret = 0 => F \subseteq restarted)'
    BY <1>4, <2>11, Zenon DEF AtPc
  <2>18. (bt.pc \in {"hold", "clear", "shared", "load", "release", "crstsr", "sem", "status", "end"} =>
            ctl.mode # 0)'
    BY <2>7, Zenon
  <2> QED
    BY <2>12, <2>13, <2>14, <2>15, <2>16, <2>17, <2>18, Zenon DEF RestartInv
<1>8. LoadInv'
  <2>1. bt.call.api = "load_new" =>
          /\ bt.pc \in ColdPcs \cup {"c_open", "c_sem"}
          /\ bt.pc \notin {"n_hold", "n_clear", "c_load"}
    <3>1. bt.call.api = "load_new" =>
            /\ bt.pc \in ColdPcs \cup {"c_open", "c_sem"}
            /\ bt.pc \in {"n_hold", "n_clear"} => \A d \in Cores : core[d] = "reset"
            /\ AtPc("c_load") => \A d \in Cores : core[d] = "held"
            /\ bt.pc \in {"n_clear", "c_load"} => regs.brr = {}
      BY Zenon DEF BootInv, LoadInv
    <3> QED
      BY <3>1, Zenon DEF Stopped, AtPc
  <2>2. /\ AtPc("load") /\ Aligned(bt.call) => \A d \in F : d < bt.k => image[d] \in Loaded
        /\ AtPc("release") /\ Aligned(bt.call) => \A d \in F : image[d] \in Loaded
        /\ AtPc("c_open") => bt.mask = {}
        /\ bt.pc \in ColdPcs \cup {"c_open"} => bt.call.api \in {"dsp_boot", "load_new"}
        /\ bt.pc \in ColdPcs => /\ ctl.shared = TRUE /\ CachesCover(bt.call.ids, regs.l2)
                                /\ \A d \in bt.mask : image[d] \in Loaded /\ Provided(d)
        /\ AtPc("c_load") => bt.k \in 0 .. Len(bt.call.ids)
    BY Zenon DEF BootInv, LoadInv, CachesCover
  <2> QED
    BY <1>4, <1>5, <2>1, <2>2, ZenonT(30) DEF LoadInv, AtPc, CachesCover
<1> QED
  BY <1>3, <1>6, <1>7, <1>8, Zenon DEF BootInv

(* What Status and an untouched control area leave. *)
LEMMA StatusFields ==
  ASSUME HwType, NEW c \in Cores, NEW v \in {"BEGIN", "SUCCESS", "READY"}, Status(c, v)
  PROVE  /\ CtlRecord' /\ ctl'.pa = ctl.pa /\ ctl'.shared = ctl.shared /\ ctl'.mode = ctl.mode
         /\ ctl'.status \in [Cores -> {"none", "BEGIN", "SUCCESS", "READY"}]
         /\ ctl'.status[c] = v /\ \A d \in Cores \ {c} : ctl'.status[d] = ctl.status[d]
<1> DEFINE t == [ctl.status EXCEPT ![c] = v]
<1>1. ctl' = [ctl EXCEPT !.status = t]
  BY Zenon DEF Status
<1>2. /\ t \in [Cores -> {"none", "BEGIN", "SUCCESS", "READY"}]
      /\ t[c] = v /\ \A d \in Cores \ {c} : t[d] = ctl.status[d]
  BY Zenon DEF HwType
<1> HIDE DEF t
<1>3. ctl' = [pa |-> ctl.pa, shared |-> ctl.shared, mode |-> ctl.mode, status |-> t]
  BY <1>1, Zenon DEF HwType, CtlRecord
<1>4. /\ CtlRecord' /\ ctl'.pa = ctl.pa /\ ctl'.shared = ctl.shared /\ ctl'.mode = ctl.mode
      /\ ctl'.status = t
  BY <1>3, Zenon DEF CtlRecord
<1> QED
  BY <1>2, <1>4, Zenon

LEMMA CoresKeep ==
  ASSUME BootInv, NEW c \in Cores,
         CoreBegins(c) \/ CoreUp(c) \/ CoreFaults(c) \/ CoreAcks(c) \/ CoreDozes(c)
  PROVE  BootInv'
<1>1. HwType /\ RegsRecord /\ CtlRecord /\ ctl.status \in [Cores -> {"none", "BEGIN", "SUCCESS", "READY"}]
  BY Zenon DEF BootInv, BootType, HwType
<1>2. /\ {"init", "run", "hung", "debug", "ready", "ph15"} \subseteq CoreStates \ Stopped
      /\ "off" \in Stopped /\ "held" \in Stopped /\ "off" # "reset" /\ "held" # "reset"
      /\ "BEGIN" # "SUCCESS" /\ "READY" # "SUCCESS"
      /\ {"init", "run", "debug", "ready"} \cap Stopped = {}
  BY Zenon DEF CoreStates, Stopped
<1>3. regs' = regs => RegsSame
  BY <1>1, Zenon DEF RegsSame, RegsRecord
<1>4. ctl' = ctl => /\ CtlRecord' /\ ctl'.pa = ctl.pa /\ ctl'.shared = ctl.shared /\ ctl'.mode = ctl.mode
                    /\ ctl'.status = ctl.status
  BY <1>1, Zenon DEF CtlRecord
<1>5. CASE CoreBegins(c)
  <2>1. /\ core[c] \in {"off", "held"} /\ c \in regs.brr /\ core' = [core EXCEPT ![c] = "init"]
        /\ bt' = bt /\ regs' = regs /\ image' = image /\ restarted' = restarted
    BY <1>5, Zenon DEF CoreBegins, CoreGoes
  <2>2. CASE ctl.mode # 0
    <3>1. Status(c, "BEGIN")
      BY <1>5, <2>2, Zenon DEF CoreBegins
    <3> QED
      BY <1>1, <1>2, <1>3, <2>1, <3>1, StatusFields, CoreStep, ZenonT(30)
  <2>3. CASE ctl.mode = 0
    <3>1. ctl' = ctl
      BY <1>5, <2>3, Zenon DEF CoreBegins
    <3> QED
      BY <1>1, <1>2, <1>3, <1>4, <2>1, <2>3, <3>1, CoreStep, ZenonT(30)
  <2> QED
    BY <2>2, <2>3, Zenon
<1>6. CASE CoreUp(c)
  <2>1. /\ core[c] = "init" /\ core' = [core EXCEPT ![c] = "run"]
        /\ bt' = bt /\ regs' = regs /\ image' = image
        /\ c \in restarted' /\ restarted \subseteq restarted' /\ core[c] \notin Stopped
    BY <1>6, Zenon DEF CoreUp, CoreGoes, Stopped
  <2>2. CASE ctl.mode # 0
    <3>1. Status(c, "SUCCESS")
      BY <1>6, <2>2, Zenon DEF CoreUp
    <3> QED
      BY <1>1, <1>2, <1>3, <2>1, <3>1, StatusFields, CoreStep, ZenonT(30)
  <2>3. CASE ctl.mode = 0
    <3>1. ctl' = ctl
      BY <1>6, <2>3, Zenon DEF CoreUp
    <3> QED
      BY <1>1, <1>2, <1>3, <1>4, <2>1, <2>3, <3>1, CoreStep, ZenonT(30)
  <2> QED
    BY <2>2, <2>3, Zenon
<1>7. CASE CoreFaults(c)
  <2>1. /\ core[c] \in {"run", "init"} /\ core[c] \notin Stopped
        /\ core' = [core EXCEPT ![c] = "hung"] \/ core' = [core EXCEPT ![c] = "debug"]
        /\ bt' = bt /\ regs' = regs /\ image' = image /\ restarted' = restarted /\ ctl' = ctl
    BY <1>7, Zenon DEF CoreFaults, CoreGoes, Stopped
  <2> QED
    BY <1>1, <1>2, <1>3, <1>4, <2>1, CoreStep, ZenonT(30)
<1>8. CASE CoreAcks(c)
  <2>1. /\ core[c] \in {"run", "init", "debug"} /\ core[c] \notin Stopped
        /\ core' = [core EXCEPT ![c] = "ready"]
        /\ bt' = bt /\ image' = image /\ restarted' = restarted /\ Status(c, "READY")
    BY <1>8, Zenon DEF CoreAcks, CoreGoes, Stopped
  <2>2. RegsSame
    <3>1. regs' = [regs EXCEPT !.vnmi = regs.vnmi \ {c}, !.safe = regs.safe \ {c}]
      BY <1>8, Zenon DEF CoreAcks
    <3> QED
      BY <1>1, <3>1, Zenon DEF RegsSame, RegsRecord
  <2> QED
    BY <1>1, <1>2, <2>1, <2>2, StatusFields, CoreStep, ZenonT(30)
<1>9. CASE CoreDozes(c)
  <2>1. /\ core[c] \in {"run", "ready"} /\ core[c] \notin Stopped
        /\ core' = [core EXCEPT ![c] = "ph15"]
        /\ bt' = bt /\ regs' = regs /\ image' = image /\ restarted' = restarted /\ ctl' = ctl
    BY <1>9, Zenon DEF CoreDozes, CoreGoes, Stopped, Only, Quiet
  <2> QED
    BY <1>1, <1>2, <1>3, <1>4, <2>1, CoreStep, ZenonT(30)
<1> QED
  BY <1>5, <1>6, <1>7, <1>8, <1>9, Zenon

LEMMA BootInvInit == BootInitState => BootInv
<1> SUFFICES ASSUME BootInitState PROVE BootInv
  BY Zenon
<1>1. /\ bt = [pc |-> "idle", call |-> NoCall, k |-> 0, ret |-> 0, strobe |-> FALSE,
               mapped |-> FALSE, mask |-> {}, corrupt |-> FALSE]
      /\ NoCall = [api |-> "none", mode |-> 3, sem |-> 0]
  BY Zenon DEF BootInitState, Idle, NoCall
<1> HIDE DEF NoCall
<1>2. /\ BtRecord /\ bt.pc = "idle" /\ bt.call = NoCall /\ bt.k = 0 /\ bt.ret = 0 /\ bt.mask = {}
      /\ bt.corrupt = FALSE
  BY <1>1, Zenon DEF BtRecord
<1>3. NoCall.api # "load_new"
  BY <1>1, Zenon
<1>4. RegsRecord /\ regs.brr = {}
  BY Zenon DEF BootInitState, RegsRecord
<1>5. /\ CtlRecord /\ ctl.pa \in BOOLEAN /\ ctl.shared \in BOOLEAN
      /\ ctl.status = [c \in Cores |-> "none"]
  BY Zenon DEF BootInitState, CtlRecord
<1>6. /\ core \in [Cores -> CoreStates] /\ \A c \in Cores : core[c] \in Stopped
      /\ image \in [Cores \cup {Shared} -> {"none", "part"} \cup Loaded]
      /\ ctl.status \in [Cores -> {"none", "BEGIN", "SUCCESS", "READY"}]
      /\ \A c \in Cores : ctl.status[c] = "none"
  BY <1>5, Zenon DEF BootInitState, CoreStates, Stopped
<1>7. BootType
  <2>1. 0 \in Int /\ 0 \in {0, 1} /\ {} \subseteq Cores /\ FALSE \in BOOLEAN
    OBVIOUS
  <2> QED
    BY <1>2, <1>4, <1>5, <1>6, <2>1, Zenon DEF BootType, HwType
<1>8. ProvidedInv
  BY <1>2, <1>4, <1>6, ZenonT(30) DEF ProvidedInv, AtPc
<1>9. RestartInv
  BY <1>2, Zenon DEF RestartInv, AtPc
<1>10. LoadInv
  BY <1>2, <1>3, Zenon DEF LoadInv, AtPc, ColdPcs
<1> QED
  BY <1>7, <1>8, <1>9, <1>10, Zenon DEF BootInv

LEMMA BootInvNext == BootInv /\ [DspNext]_bootVars => BootInv'
<1> SUFFICES ASSUME BootInv, [DspNext]_bootVars PROVE BootInv'
  BY Zenon
<1>1. CASE UNCHANGED bootVars
  <2>1. /\ bt' = bt /\ regs' = regs /\ core' = core /\ ctl' = ctl /\ image' = image
        /\ restarted' = restarted
    BY <1>1, Zenon DEF bootVars
  <2>2. F' = F /\ Aligned(bt.call)' = Aligned(bt.call) /\ \A d : Provided(d)' <=> Provided(d)
    BY <2>1, SameCall, Zenon DEF Provided
  <2>3. BootType'
    BY <2>1, Zenon DEF BootInv, BootType, HwType, BtRecord, RegsRecord, CtlRecord
  <2>4. ProvidedInv'
    BY <2>1, <2>2, Zenon DEF BootInv, ProvidedInv, AtPc
  <2>5. RestartInv'
    <3>1. RestartInv
      BY Zenon DEF BootInv
    <3> QED
      BY <2>1, <2>2, <3>1, ZenonT(30) DEF RestartInv, AtPc
  <2>6. LoadInv'
    <3>1. LoadInv
      BY Zenon DEF BootInv
    <3> QED
      BY <2>1, <2>2, <3>1, ZenonT(30) DEF LoadInv, AtPc
  <2> QED
    BY <2>3, <2>4, <2>5, <2>6, Zenon DEF BootInv
<1>2. CASE \E c \in Cores : CoreBegins(c) \/ CoreUp(c) \/ CoreFaults(c) \/ CoreAcks(c) \/ CoreDozes(c)
  BY <1>2, CoresKeep, Zenon
<1>3. CASE \/ BootCall \/ BootDies \/ pre_Reload_open \/ send_vnmi_func \/ check_vnmi_ack \/ set_soc_strobe
           \/ recheck_vnmi_ack \/ set_PH15 \/ reinit_or_validate \/ set_PIR \/ l1d_hold_starcore
           \/ Reset_PIR_PH15
  BY <1>3, CallKeeps, OpenKeeps, VnmiKeeps, AckKeeps, StrobeKeeps, IpcKeeps, PirKeeps, HoldKeeps, ClearKeeps,
     Zenon
<1>4. CASE \/ Reload_shared \/ Reload_B4 \/ l1d_release_starcore \/ check_dsp_ready_CRSTSR \/ check_dsp_boot
           \/ check_status \/ fsl_start_L1_defense_end
  BY <1>4, SharedKeeps, ReloadKeeps, ReleaseKeeps, CrstsrKeeps, SemKeeps, StatusKeeps, EndKeeps, Zenon
<1>5. CASE \/ pre_load_B4 \/ set_PH15_simple \/ set_PIR_simple \/ l1d_hold_starcore_simple
           \/ Reset_PIR_PH15_simple \/ load_B4 \/ release_starcore \/ post_load_B4
  BY <1>5, PreLoadKeeps, Ph15SimpleKeeps, PirSimpleKeeps, HoldSimpleKeeps, ClearSimpleKeeps, LoadB4Keeps,
     ReleaseB4Keeps, PostLoadKeeps, Zenon
<1> QED
  BY <1>1, <1>2, <1>3, <1>4, <1>5, Zenon DEF DspNext

LEMMA BootInvAlways == BootSpec => []BootInv
  BY BootInvInit, BootInvNext, PTL DEF BootSpec

(* fsl_start_L1_defense reports success only if every core it was asked to  *)
(* reset has come up again since this call released it: for any number of   *)
(* cores, any list of calls, any failure and death of the process on the    *)
(* way and whatever the cores do in between.  The argument follows each     *)
(* flagged core through the call: in reset from set_PIR on, so its earlier  *)
(* status is only overwritten by its next start, held and not released from *)
(* l1d_hold_starcore to l1d_release_starcore, and after that a SUCCESS can  *)
(* only have been written by this start (RestartInv).                       *)
THEOREM SuccessIsRestartTheorem == BootSpec => []SuccessIsRestart
<1>1. BootInv => SuccessIsRestart
  <2> SUFFICES ASSUME BootInv, AtPc("end"), bt.ret = 0, ~bt.corrupt PROVE F \subseteq restarted
    BY Zenon DEF SuccessIsRestart
  <2>1. bt.corrupt = FALSE
    BY Zenon DEF BootInv, BootType
  <2> QED
    BY <2>1, Zenon DEF BootInv, RestartInv
<1> QED
  BY <1>1, BootInvAlways, PTL

-----------------------------------------------------------------------------
(* Only three steps write images, and only two release cores. *)
LEMMA ImageWriters ==
  ASSUME DspNext, image' # image
  PROVE  Reload_shared \/ Reload_B4 \/ load_B4
<1>1. ~(BootCall \/ BootDies \/ pre_Reload_open \/ send_vnmi_func \/ check_vnmi_ack \/ set_soc_strobe)
  BY Zenon DEF BootCall, BootDies, pre_Reload_open, send_vnmi_func, check_vnmi_ack, set_soc_strobe, Only, hwVars
<1>2. ~(recheck_vnmi_ack \/ set_PH15 \/ reinit_or_validate \/ set_PIR \/ l1d_hold_starcore \/ Reset_PIR_PH15)
  BY Zenon DEF recheck_vnmi_ack, set_PH15, reinit_or_validate, set_PIR, l1d_hold_starcore, Reset_PIR_PH15, Only, hwVars
<1>3. ~(l1d_release_starcore \/ check_dsp_ready_CRSTSR \/ check_dsp_boot \/ check_status
        \/ fsl_start_L1_defense_end)
  BY Zenon DEF l1d_release_starcore, check_dsp_ready_CRSTSR, check_dsp_boot, check_status, fsl_start_L1_defense_end,
     Only, hwVars
<1>4. ~(pre_load_B4 \/ set_PH15_simple \/ set_PIR_simple \/ l1d_hold_starcore_simple
        \/ Reset_PIR_PH15_simple \/ release_starcore \/ post_load_B4)
  BY Zenon DEF pre_load_B4, set_PH15_simple, set_PIR_simple, l1d_hold_starcore_simple, Reset_PIR_PH15_simple,
     release_starcore, post_load_B4, Only, hwVars
<1>5. ~\E c \in Cores : CoreBegins(c) \/ CoreUp(c) \/ CoreFaults(c) \/ CoreAcks(c) \/ CoreDozes(c)
  BY Zenon DEF CoreBegins, CoreUp, CoreFaults, CoreAcks, CoreDozes, Only
<1> QED
  BY <1>1, <1>2, <1>3, <1>4, <1>5, Zenon DEF DspNext

LEMMA BrrWriters ==
  ASSUME RegsRecord, DspNext, ~(regs'.brr \subseteq regs.brr)
  PROVE  l1d_release_starcore \/ release_starcore
<1>1. regs' # regs
  BY Zenon
<1>2. ~(BootCall \/ BootDies \/ pre_Reload_open \/ recheck_vnmi_ack \/ reinit_or_validate \/ Reload_shared
        \/ Reload_B4)
  BY <1>1, Zenon DEF BootCall, BootDies, pre_Reload_open, recheck_vnmi_ack, reinit_or_validate, Reload_shared,
     Reload_B4, Only, hwVars
<1>3. ~(check_dsp_ready_CRSTSR \/ check_dsp_boot \/ check_status \/ fsl_start_L1_defense_end \/ load_B4
        \/ post_load_B4)
  BY <1>1, Zenon DEF check_dsp_ready_CRSTSR, check_dsp_boot, check_status, fsl_start_L1_defense_end, load_B4,
     post_load_B4, Only, hwVars
<1>4. ~(send_vnmi_func \/ check_vnmi_ack \/ set_soc_strobe \/ set_PH15)
  <2>1. ASSUME NEW v, NEW w, \/ regs' = [regs EXCEPT !.vnmi = v] \/ regs' = [regs EXCEPT !.safe = v]
                             \/ regs' = [regs EXCEPT !.strobe = v] \/ regs' = [regs EXCEPT !.ph15 = v]
        PROVE  FALSE
    BY <2>1, Zenon DEF RegsRecord
  <2> QED
    BY <1>1, <2>1, Zenon DEF send_vnmi_func, check_vnmi_ack, set_safe_addr_DTU, set_soc_strobe, set_PH15
<1>5. ~(set_PIR \/ Reset_PIR_PH15 \/ set_PIR_simple \/ Reset_PIR_PH15_simple)
  <2>1. ASSUME NEW u, NEW v, NEW w, \/ regs' = [regs EXCEPT !.pir = u, !.vnmi = v, !.safe = w]
                                    \/ regs' = [regs EXCEPT !.pir = u, !.ph15 = v]
        PROVE  FALSE
    BY <2>1, ZenonT(30) DEF RegsRecord
  <2>2. ~(set_PIR \/ set_PIR_simple)
    <3>1. set_PIR => regs' = [regs EXCEPT !.pir = regs.pir \cup F, !.vnmi = regs.vnmi \ F,
                                          !.safe = regs.safe \ F]
      BY Zenon DEF set_PIR
    <3>2. set_PIR_simple => regs' = [regs EXCEPT !.pir = Cores, !.vnmi = {}, !.safe = {}]
      BY Zenon DEF set_PIR_simple
    <3> QED
      BY <2>1, <3>1, <3>2, ZenonT(40)
  <2>3. ~(Reset_PIR_PH15 \/ Reset_PIR_PH15_simple)
    BY <2>1, Zenon DEF Reset_PIR_PH15, Reset_PIR_PH15_simple
  <2> QED
    BY <2>2, <2>3, Zenon
<1>6. ~(l1d_hold_starcore \/ l1d_hold_starcore_simple)
  <2>1. ASSUME NEW v, regs' = [regs EXCEPT !.brr = v] PROVE regs'.brr = v
    BY <2>1, Zenon DEF RegsRecord
  <2>2. ~l1d_hold_starcore
    BY <2>1, Zenon DEF l1d_hold_starcore
  <2>3. ~l1d_hold_starcore_simple
    BY <2>1, Zenon DEF l1d_hold_starcore_simple
  <2> QED
    BY <2>2, <2>3, Zenon
<1>7. ~(pre_load_B4 \/ set_PH15_simple)
  <2>1. ASSUME NEW v, regs' = [regs EXCEPT !.l2 = v] \/ regs' = [regs EXCEPT !.ph15 = v] PROVE FALSE
    BY <2>1, Zenon DEF RegsRecord
  <2> QED
    BY <1>1, <2>1, Zenon DEF pre_load_B4, dsp_L2_cache_init, set_PH15_simple
<1>8. ~\E c \in Cores : CoreBegins(c) \/ CoreUp(c) \/ CoreFaults(c) \/ CoreAcks(c) \/ CoreDozes(c)
  <2>1. ASSUME NEW v, NEW w, regs' = [regs EXCEPT !.vnmi = v, !.safe = w] PROVE FALSE
    BY <2>1, Zenon DEF RegsRecord
  <2>2. ASSUME NEW c \in Cores PROVE ~(CoreBegins(c) \/ CoreUp(c) \/ CoreFaults(c) \/ CoreDozes(c))
    BY <1>1, <2>2, ZenonT(30) DEF CoreBegins, CoreUp, CoreFaults, CoreDozes, Only
  <2> QED
    BY <2>1, <2>2, Zenon DEF CoreAcks
<1> QED
  BY <1>2, <1>3, <1>4, <1>5, <1>6, <1>7, <1>8, Zenon DEF DspNext

(* The step form of LoadedStopped. *)
LEMMA WrittenStopped ==
  ASSUME BootInv, [DspNext]_bootVars, NEW c \in Cores, image'[c] # image[c], Aligned(bt.call), ~bt.corrupt,
         AtPc("load") \/ bt.call.api = "load_new"
  PROVE  ~Executing(c)
<1>1. Reload_shared \/ Reload_B4 \/ load_B4
  <2>1. image' # image /\ ~UNCHANGED bootVars
    BY Zenon DEF bootVars
  <2> QED
    BY <2>1, ImageWriters, Zenon
<1>2. bt.corrupt = FALSE /\ BootType /\ F \subseteq Cores
  BY CallFacts, Zenon DEF BootInv, BootType
<1>3. image \in [Cores \cup {Shared} -> {"none", "part"} \cup Loaded]
  BY <1>2, Zenon DEF BootType, HwType
<1>4. bt.call.api = "load_new" => /\ bt.pc \notin {"shared", "load"}
                                  /\ AtPc("c_load") => core[c] = "held"
  BY Zenon DEF BootInv, LoadInv, ColdPcs
<1>5. AtPc("load") => \A d \in F : core[d] = "held"
  BY <1>2, Zenon DEF BootInv, RestartInv, AtPc
<1>6. CASE Reload_shared
  BY <1>4, <1>6, ZenonT(30) DEF Reload_shared, AtPc
<1>7. CASE load_B4
  BY <1>4, <1>7, Zenon DEF load_B4, AtPc, Executing
<1>8. CASE Reload_B4
  <2>1. AtPc("load")
    BY <1>8, Zenon DEF Reload_B4
  <2>2. Rest # {}
    BY <1>8, Zenon DEF Reload_B4
  <2>3. PICK g : image' = [image EXCEPT ![Target(bt.call, Nxt)] = g]
    BY <1>8, <2>2, Zenon DEF Reload_B4
  <2>4. Nxt \in F
    BY <1>2, <2>2, NxtFacts, Zenon DEF BootType
  <2>5. Target(bt.call, Nxt) = Nxt
    BY <2>4, Zenon DEF Aligned, F
  <2>6. c = Nxt
    BY <1>3, <2>3, <2>5, Zenon
  <2> QED
    BY <1>5, <2>1, <2>4, <2>6, Zenon DEF Executing
<1> QED
  BY <1>1, <1>6, <1>7, <1>8, Zenon

(* The step form of ReleasedLoaded. *)
LEMMA ReleasedProvided ==
  ASSUME BootInv, [DspNext]_bootVars, NEW c \in regs'.brr \ regs.brr, AtPc("c_release") \/ Aligned(bt.call)
  PROVE  Provided(c) /\ image[c] \in Loaded
<1>1. BootType /\ RegsRecord
  BY Zenon DEF BootInv, BootType, HwType
<1>2. l1d_release_starcore \/ release_starcore
  <2>1. ~(regs'.brr \subseteq regs.brr) /\ ~UNCHANGED bootVars
    BY Zenon DEF bootVars
  <2> QED
    BY <1>1, <2>1, BrrWriters, Zenon
<1>3. ASSUME NEW v, regs' = [regs EXCEPT !.brr = v] PROVE regs'.brr = v
  BY <1>1, <1>3, Zenon DEF RegsRecord
<1>4. CASE l1d_release_starcore
  <2>1. AtPc("release") /\ regs'.brr = regs.brr \cup F
    BY <1>3, <1>4, Zenon DEF l1d_release_starcore
  <2>2. c \in F /\ bt.pc = "release" /\ Aligned(bt.call)
    BY <2>1, Zenon DEF AtPc
  <2> QED
    BY <2>2, Zenon DEF BootInv, ProvidedInv, LoadInv, AtPc
<1>5. CASE release_starcore
  <2>1. AtPc("c_release") /\ regs'.brr = regs.brr \cup bt.mask
    BY <1>3, <1>5, Zenon DEF release_starcore
  <2>2. c \in bt.mask /\ bt.pc \in ColdPcs
    BY <2>1, Zenon DEF AtPc, ColdPcs
  <2> QED
    BY <2>2, ColdFacts, Zenon
<1> QED
  BY <1>2, <1>4, <1>5, Zenon

(* The image of a core is written by a warm reset or a load of new images   *)
(* only while the core is stopped, and a core is released only with the     *)
(* shared areas announced, the PA marked initialised, the L2 cache of its   *)
(* cluster enabled and an image whose load reported success.  From the same *)
(* invariant: what a core needs is never taken back, and a call writes the  *)
(* images of its cores in the one stretch in which all of them are held.    *)
THEOREM ImagesInOrderTheorem == BootSpec => ImagesInOrder
<1>1. BootInv /\ [DspNext]_bootVars =>
        [\A c \in Cores :
           /\ image'[c] # image[c] /\ Aligned(bt.call) /\ ~bt.corrupt
           /\ AtPc("load") \/ bt.call.api = "load_new"
           => ~Executing(c)]_bootVars
  BY WrittenStopped, Zenon
<1>2. BootInv /\ [DspNext]_bootVars =>
        [\A c \in regs'.brr \ regs.brr :
           AtPc("c_release") \/ Aligned(bt.call) =>
             /\ ctl.pa /\ ctl.shared
             /\ image[c] \in {"whole", "torn"}
             /\ c \div 2 \in regs.l2]_bootVars
  BY ReleasedProvided, Zenon DEF Provided, Loaded
<1>3. BootSpec => LoadedStopped
  BY <1>1, BootInvAlways, PTL DEF BootSpec, LoadedStopped
<1>4. BootSpec => ReleasedLoaded
  BY <1>2, BootInvAlways, PTL DEF BootSpec, ReleasedLoaded
<1> QED
  BY <1>3, <1>4, PTL DEF ImagesInOrder
=============================================================================
