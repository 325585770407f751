----------------------------- MODULE QueueProofs ----------------------------
(*****************************************************************************)
(* Proofs about the queue between threads (BlockQueue), for any number of    *)
(* threads, any ring size and any items.  Type correctness and the absence   *)
(* of lost wake-ups hold for every use of the queue; that num_items and      *)
(* accumulated_items_len are exact and that the ring is a FIFO is proved for *)
(* the uses that neither break a pop, clear the queue nor pop the newest     *)
(* item (the runs show that each of these breaks it).  And about the two     *)
(* channels of fsl_ipc_channel.c that need the kernel or the DMA engine: the *)
(* channel with a callback (IpcSignal) and the transport-request channel     *)
(* (TxReq), for any numbers of channels, message units, ring slots, blocks   *)
(* and requests.                                                             *)
(*****************************************************************************)
EXTENDS BlockQueue, TxReq, IpcSignal, TotalsProofs

(* Sequences: as functions, put together, taken apart. *)
LEMMA SeqIs ==
  ASSUME NEW S, NEW s \in Seq(S)
  PROVE  Len(s) \in Nat /\ s \in [1 .. Len(s) -> S]
  OBVIOUS

(* One after the other. *)
LEMMA ConcatIs ==
  ASSUME NEW S, NEW s \in Seq(S), NEW t \in Seq(S)
  PROVE  /\ s \o t \in Seq(S) /\ Len(s \o t) = Len(s) + Len(t)
         /\ \A i \in 1 .. Len(s) + Len(t) : (s \o t)[i] = IF i <= Len(s) THEN s[i] ELSE t[i - Len(s)]
  OBVIOUS

(* One more at the end. *)
LEMMA AppendIs ==
  ASSUME NEW S, NEW s \in Seq(S), NEW e \in S
  PROVE  /\ Append(s, e) \in Seq(S) /\ Len(Append(s, e)) = Len(s) + 1
         /\ \A i \in 1 .. Len(s) : Append(s, e)[i] = s[i]
         /\ Append(s, e)[Len(s) + 1] = e
  OBVIOUS

(* All but the first. *)
LEMMA TailIs ==
  ASSUME NEW S, NEW s \in Seq(S), s # <<>>
  PROVE  /\ Head(s) = s[1] /\ Tail(s) \in Seq(S) /\ Len(Tail(s)) = Len(s) - 1
         /\ \A i \in 1 .. Len(s) - 1 : Tail(s)[i] = s[i + 1]
  OBVIOUS

(* A function of the first n numbers. *)
LEMMA FcnSeq ==
  ASSUME NEW S, NEW n \in Nat, NEW f \in [1 .. n -> S]
  PROVE  f \in Seq(S) /\ Len(f) = n
  OBVIOUS

(* The first n numbers of a sequence. *)
LEMMA PrefixIs ==
  ASSUME NEW S, NEW s \in Seq(S), NEW n \in Nat, n <= Len(s)
  PROVE  /\ SubSeq(s, 1, n) \in Seq(S) /\ Len(SubSeq(s, 1, n)) = n
         /\ \A i \in 1 .. n : SubSeq(s, 1, n)[i] = s[i]
<1>1. \A i \in 1 .. n : s[i] \in S
  OBVIOUS
<1> QED
  BY <1>1

(* Counting up and down inside a range. *)
LEMMA CountUp ==
  ASSUME NEW n \in Nat \ {0}, NEW k \in 0 .. n, k # n
  PROVE  k \in Nat /\ k \in 0 .. n - 1 /\ k + 1 \in 0 .. n
  OBVIOUS

LEMMA CountDown ==
  ASSUME NEW n \in Nat \ {0}, NEW k \in 0 .. n, k # 0
  PROVE  /\ k \in 1 .. n /\ k \in Nat /\ k - 1 \in 0 .. n - 1 /\ k - 1 \in 0 .. n
         /\ 1 \in 1 .. k /\ \A i \in 1 .. k - 1 : i \in 0 .. n - 1 /\ i + 1 \in 1 .. k
  OBVIOUS

LEMMA UpTo ==
  ASSUME NEW k \in Nat
  PROVE  /\ k + 1 \in 1 .. k + 1 /\ k + 1 \in Int
         /\ \A i \in 1 .. k : i \in 1 .. k + 1 /\ i # k + 1
         /\ \A i \in 1 .. k + 1 : i \in Int /\ (i = k + 1 \/ i \in 1 .. k)
         /\ \A i \in k + 1 + 1 .. k + 1 : FALSE
         /\ \A i \in 1 .. 1 - 1 : FALSE
  OBVIOUS

LEMMA Before ==
  ASSUME NEW k \in Nat, NEW j \in 1 .. (k + 1) - 1
  PROVE  j \in 1 .. k /\ j \in 1 .. k + 1
  OBVIOUS

(* The i-th slot behind slot t of a ring of n slots: inside the ring, other *)
(* than the ones before it, followed by the next and counted from the next. *)
Wrap(n, t, i) == IF t + i < n THEN t + i ELSE t + i - n

LEMMA WrapRange ==
  ASSUME NEW n \in Nat \ {0}, NEW t \in 0 .. n - 1, NEW i \in 0 .. n
  PROVE  Wrap(n, t, i) \in 0 .. n - 1
  BY SMTT(40) DEF Wrap

LEMMA WrapApart ==
  ASSUME NEW n \in Nat \ {0}, NEW t \in 0 .. n - 1, NEW k \in 0 .. n - 1, NEW i \in 1 .. k
  PROVE  Wrap(n, t, i - 1) \in 0 .. n - 1 /\ Wrap(n, t, i - 1) # Wrap(n, t, k)
  BY SMTT(40) DEF Wrap

LEMMA WrapStep ==
  ASSUME NEW n \in Nat \ {0}, NEW t \in 0 .. n - 1, NEW k \in 0 .. n - 1
  PROVE  /\ Wrap(n, t, k) = n - 1 => Wrap(n, t, k + 1) = 0
         /\ Wrap(n, t, k) # n - 1 => Wrap(n, t, k + 1) = Wrap(n, t, k) + 1
  BY SMTT(40) DEF Wrap

LEMMA WrapNext ==
  ASSUME NEW n \in Nat \ {0}, NEW t \in 0 .. n - 1,
         NEW u, u = IF t = n - 1 THEN 0 ELSE t + 1
  PROVE  \A i \in 1 .. n : /\ Wrap(n, u, i - 1) = Wrap(n, t, i)
                           /\ Wrap(n, t, i - 1 + 1) = Wrap(n, t, i)
  BY SMTT(40) DEF Wrap

-----------------------------------------------------------------------------
(* Channels with a callback. *)

SigTypeOK ==
  /\ proc \in [pc : {"off", "idle", "register", "list", "open"},
               c : SigChannels \cup {None}, lives : Nat]
  /\ proc.pc \in {"register", "list", "open"} => proc.c \in SigChannels
  /\ uirq \in [Units -> [c : SigChannels \cup {None}, sig : SigChannels \cup {None}]]
  /\ unit \in [SigChannels -> Units \cup {None}]
  /\ irq \in SUBSET Units
  /\ sigs \in [SigChannels -> Nat]
  /\ uch \in [SigChannels -> SigChannels \cup {None}]
  /\ chinit \in SUBSET SigChannels
  /\ made \in [SigChannels -> Nat] /\ taken \in [SigChannels -> Nat]
  /\ missed \in BOOLEAN

(* Messages announced by a pending interrupt of the channel's unit. *)
Announced(c) == IF unit[c] # None /\ unit[c] \in irq THEN 1 ELSE 0

(* A process that is in its first life and has not ended: the driver's      *)
(* table and the channels' indications name each other, a channel is open   *)
(* only once the list has its signal, and every interrupt and every signal  *)
(* under way stands for a message of its own that nobody has taken yet.     *)
Accounted ==
  /\ \A i \in Units : uirq[i].c # None =>
       uirq[i].sig = uirq[i].c /\ unit[uirq[i].c] = i
  /\ \A c \in SigChannels : unit[c] # None => uirq[unit[c]].c = c
  /\ \A c \in SigChannels : unit[c] # None =>
       uch[c] = c \/ (proc.pc \in {"list", "open"} /\ proc.c = c)
  /\ proc.pc \in {"register", "list"} => uch[proc.c] = None
  /\ proc.pc = "open" => uch[proc.c] = proc.c
  /\ proc.pc = "register" => unit[proc.c] = None
  /\ \A c \in chinit : uch[c] = c
  /\ \A c \in SigChannels : c \notin chinit => made[c] = 0
  /\ \A i \in irq : uirq[i].c # None
  /\ \A c \in SigChannels : sigs[c] + Announced(c) + taken[c] <= made[c]

SigInv ==
  /\ SigTypeOK
  /\ proc.lives = 0 => proc.pc = "off" /\ irq = {} /\ chinit = {}
                       /\ made = [c \in SigChannels |-> 0]
                       /\ taken = [c \in SigChannels |-> 0]
                       /\ uirq = [i \in Units |-> Free]
                       /\ unit = [c \in SigChannels |-> None]
                       /\ uch = [c \in SigChannels |-> None]
  /\ proc.lives <= 1 => ~missed
  /\ proc.pc = "off" => \A c \in SigChannels : sigs[c] = 0
  /\ proc.lives = 1 /\ proc.pc # "off" => Accounted

LEMMA SigInvInit == SigInit => SigInv
<1> SUFFICES ASSUME SigInit PROVE SigInv
  BY Zenon
<1>1. SigTypeOK
  <2>1. proc \in [pc : {"off", "idle", "register", "list", "open"},
                  c : SigChannels \cup {None}, lives : Nat]
        /\ proc.pc = "off"
    BY Zenon DEF SigInit
  <2>2. uirq \in [Units -> [c : SigChannels \cup {None}, sig : SigChannels \cup {None}]]
    BY Zenon DEF SigInit, Free
  <2> QED
    BY <2>1, <2>2, Zenon DEF SigInit, SigTypeOK
<1>2. proc.pc = "off" /\ proc.lives = 0
  BY Zenon DEF SigInit
<1> QED
  BY <1>1, <1>2, Zenon DEF SigInit, SigInv

LEMMA SigTypeNext == SigTypeOK /\ [SigNext]_sigVars => SigTypeOK'
<1> SUFFICES ASSUME SigTypeOK, [SigNext]_sigVars PROVE SigTypeOK'
  BY Zenon
<1> USE DEF SigTypeOK, None
<1>1. CASE het_ipc_open_signal
  <2>1. uirq' \in [Units -> [c : SigChannels \cup {None}, sig : SigChannels \cup {None}]]
    <3>1. \A i \in Units : [uirq[i] EXCEPT !.c = None]
                             \in [c : SigChannels \cup {None}, sig : SigChannels \cup {None}]
      OBVIOUS
    <3> QED
      BY <1>1, <3>1, Zenon DEF het_ipc_open_signal
  <2> QED
    BY <1>1, <2>1 DEF het_ipc_open_signal
<1>2. CASE het_ipc_release
  BY <1>2, Zenon DEF het_ipc_release, Free
<1>3. CASE het_ipc_ioctl
  BY <1>3, SMTT(40) DEF het_ipc_ioctl, FirstUnused
<1>4. CASE ConfigureLists
  BY <1>4, Zenon DEF ConfigureLists
<1>5. CASE ConfigureOpens
  BY <1>5, Zenon DEF ConfigureOpens
<1>6. ASSUME NEW c \in SigChannels, ConfigureStarts(c) PROVE SigTypeOK'
  BY <1>6, Zenon DEF ConfigureStarts
<1>7. ASSUME NEW c \in SigChannels, DspSends(c) PROVE SigTypeOK'
  BY <1>7, SMTT(40) DEF DspSends
<1>8. ASSUME NEW c \in SigChannels, signal_handler(c) PROVE SigTypeOK'
  BY <1>8, SMTT(40) DEF signal_handler
<1>9. ASSUME NEW i \in Units, msg_intr_signal(i) PROVE SigTypeOK'
  BY <1>9 DEF msg_intr_signal
<1>10. CASE UNCHANGED sigVars
  BY <1>10, Zenon DEF sigVars
<1> QED
  BY <1>1, <1>2, <1>3, <1>4, <1>5, <1>6, <1>7, <1>8, <1>9, <1>10, Zenon DEF SigNext

LEMMA SigInvNext == SigInv /\ [SigNext]_sigVars => SigInv'
<1> SUFFICES ASSUME SigInv, [SigNext]_sigVars PROVE SigInv'
  BY Zenon
<1>0. SigTypeOK /\ SigTypeOK'
  BY SigTypeNext, Zenon DEF SigInv
<1> USE SigAssumption DEF None
<1>1. CASE het_ipc_open_signal
  BY <1>0, <1>1 DEF het_ipc_open_signal, SigInv, SigTypeOK, Accounted, Announced, Free
<1>2. CASE het_ipc_release
  BY <1>0, <1>2, Zenon DEF het_ipc_release, SigInv, SigTypeOK, Free
<1>3. CASE het_ipc_ioctl
  <2>1. /\ proc.pc = "register" /\ proc'.pc = "list"
        /\ proc'.c = proc.c /\ proc.c \in SigChannels /\ proc'.lives = proc.lives
    BY <1>0, <1>3, Zenon DEF het_ipc_ioctl, SigTypeOK
  <2>2. UNCHANGED <<irq, sigs, uch, chinit, made, taken, missed>>
    BY <1>3, Zenon DEF het_ipc_ioctl
  <2>3. ASSUME proc.lives = 1, Accounted PROVE Accounted'
    <3>1. CASE FirstUnused = {}
      BY <1>0, <1>3, <2>1, <2>2, <2>3, <3>1, SMTT(40) DEF het_ipc_ioctl, SigTypeOK, Accounted, Announced
    <3>2. CASE FirstUnused # {}
      <4>1. PICK i \in FirstUnused :
              /\ uirq' = [uirq EXCEPT ![i] = [c |-> proc.c, sig |-> proc.c]]
              /\ unit' = [unit EXCEPT ![proc.c] = i]
        BY <1>3, <3>2, Zenon DEF het_ipc_ioctl
      <4>2. i \in Units /\ uirq[i].c = None /\ i # None /\ i \notin irq
        BY <2>3 DEF FirstUnused, Units, Accounted
      <4>3. /\ uirq'[i].c = proc.c /\ uirq'[i].sig = proc.c
            /\ \A j \in Units \ {i} : uirq'[j] = uirq[j]
            /\ unit'[proc.c] = i
            /\ \A c \in SigChannels \ {proc.c} : unit'[c] = unit[c]
        BY <1>0, <2>1, <4>1, <4>2, SMTT(40) DEF SigTypeOK
      <4>4. \A c \in SigChannels : Announced(c)' = Announced(c)
        BY <2>1, <2>2, <2>3, <4>2, <4>3, SMTT(40) DEF Announced, Accounted
      <4>5. \A j \in Units \ {i} : uirq[j].c # proc.c
        BY <2>1, <2>3, SMTT(40) DEF Accounted, Units
      <4>6. \A j \in Units : uirq'[j].c # None =>
              uirq'[j].sig = uirq'[j].c /\ unit'[uirq'[j].c] = j
        BY <1>0, <2>1, <2>3, <4>2, <4>3, <4>5, SMTT(40) DEF Accounted, SigTypeOK
      <4>7. \A c \in SigChannels : unit'[c] # None => uirq'[unit'[c]].c = c
        BY <1>0, <2>1, <2>3, <4>2, <4>3, <4>5, SMTT(30) DEF Accounted, SigTypeOK
      <4>8. \A j \in irq' : uirq'[j].c # None
        BY <1>0, <2>1, <2>2, <2>3, <4>2, <4>3, SMTT(40) DEF Accounted, SigTypeOK
      <4> QED
        BY <1>0, <2>1, <2>2, <2>3, <4>3, <4>4, <4>6, <4>7, <4>8, SMTT(40) DEF Accounted, SigTypeOK
    <3> QED
      BY <3>1, <3>2, Zenon
  <2> QED
    BY <1>0, <2>1, <2>2, <2>3, Zenon DEF SigInv
<1>4. CASE ConfigureLists
  BY <1>0, <1>4, SMTT(40) DEF ConfigureLists, SigInv, SigTypeOK, Accounted, Announced
<1>5. CASE ConfigureOpens
  BY <1>0, <1>5, SMTT(40) DEF ConfigureOpens, SigInv, SigTypeOK, Accounted, Announced
<1>6. ASSUME NEW c \in SigChannels, ConfigureStarts(c) PROVE SigInv'
  BY <1>0, <1>6, SMTT(40) DEF ConfigureStarts, SigInv, SigTypeOK, Accounted, Announced
<1>7. ASSUME NEW c \in SigChannels, DspSends(c) PROVE SigInv'
  BY <1>0, <1>7, SMTT(40) DEF DspSends, SigInv, SigTypeOK, Accounted, Announced
<1>8. ASSUME NEW c \in SigChannels, signal_handler(c) PROVE SigInv'
  BY <1>0, <1>8, SMTT(30) DEF signal_handler, SigInv, SigTypeOK, Accounted, Announced
<1>9. ASSUME NEW i \in Units, msg_intr_signal(i) PROVE SigInv'
  <2>1. i \in irq /\ irq' = irq \ {i}
        /\ UNCHANGED <<proc, uirq, unit, uch, chinit, made, taken, missed>>
    BY <1>9, Zenon DEF msg_intr_signal
  <2>2. CASE proc.pc = "off"
    BY <1>0, <1>9, <2>1, <2>2, SMTT(40) DEF msg_intr_signal, SigInv, SigTypeOK
  <2>3. CASE proc.pc # "off" /\ proc.lives # 1
    BY <1>0, <2>1, <2>3, Zenon DEF SigInv
  <2>4. CASE proc.pc # "off" /\ proc.lives = 1
    <3> DEFINE d == uirq[i].c
    <3>1. Accounted /\ d \in SigChannels /\ d # None /\ uirq[i].sig = d /\ unit[d] = i
      BY <1>0, <2>1, <2>4 DEF SigInv, SigTypeOK, Accounted
    <3>2. sigs' = [sigs EXCEPT ![d] = @ + 1]
      BY <1>9, <2>4, <3>1, Zenon DEF msg_intr_signal
    <3>3. \A c \in SigChannels \ {d} : unit[c] # i
      BY <3>1, SMTT(40) DEF Accounted, Units
    <3>4. Announced(d) = 1 /\ Announced(d)' = 0
      BY <2>1, <3>1, SMTT(40) DEF Announced, Units
    <3>5. \A c \in SigChannels \ {d} : Announced(c)' = Announced(c) /\ sigs'[c] = sigs[c]
      BY <1>0, <2>1, <3>2, <3>3, Zenon DEF Announced, SigTypeOK
    <3>6. \A c \in SigChannels : sigs'[c] + Announced(c)' + taken'[c] <= made'[c]
      BY <1>0, <2>1, <3>1, <3>2, <3>4, <3>5, SMTT(40) DEF Accounted, SigTypeOK
    <3>7. Accounted'
      BY <2>1, <3>1, <3>6, Zenon DEF Accounted
    <3> QED
      BY <1>0, <2>1, <2>4, <3>7, Zenon DEF SigInv
  <2> QED
    BY <2>2, <2>3, <2>4, Zenon
<1>10. CASE UNCHANGED sigVars
  BY <1>0, <1>10, Zenon DEF sigVars, SigInv, Accounted, Announced
<1> QED
  BY <1>1, <1>2, <1>3, <1>4, <1>5, <1>6, <1>7, <1>8, <1>9, <1>10, Zenon DEF SigNext

(* In the first life of a process signal_handler always finds the channel   *)
(* of the signal and a message to take, whatever the interleaving of        *)
(* fsl_ipc_configure_channel_int with the DSP, msg_intr and the handler.    *)
THEOREM EverySignalTakesTheorem == SigSpec => []EverySignalTakes
<1>1. SigInv => EverySignalTakes
  BY Zenon DEF SigInv, EverySignalTakes
<1> QED
  BY <1>1, SigInvInit, SigInvNext, PTL DEF SigSpec

-----------------------------------------------------------------------------
(* The transport-request channel. *)

Entry ==
  [kind : {"none", "data", "prod", "local", "virq"}, slot : TxSlot,
   part : 0 .. MaxSg, msg : Nat, eol : BOOLEAN]
Request == [msg : Nat, n : 0 .. MaxSg]
Received == [msg : Nat, blocks : [1 .. MaxSg -> Nat]]

TxTypeOK ==
  /\ producer \in Nat /\ consumer \in Nat
  /\ lproducer \in TxSlot /\ lconsumer \in TxSlot
  /\ txbuf \in [TxSlot -> Nat]
  /\ lbuff \in [TxSlot -> [1 .. MaxSg -> Nat]]
  /\ dmalist \in [1 .. MAX_DMA_ENTRIES -> Entry]
  /\ dmabusy \in BOOLEAN /\ dmaat \in 1 .. MAX_DMA_ENTRIES
  /\ spareproducer \in Nat /\ sparelocal \in TxSlot
  /\ sent \in Seq(Request) /\ received \in Seq(Received)
  /\ ntx \in Nat

(* Requests in the ring, and the slot of the j-th of them from the oldest. *)
InRing == producer - consumer
TxOff(j) == IF lconsumer + j < TxSlots THEN lconsumer + j ELSE lconsumer + j - TxSlots

(* The slot of the next request, also while the engine is between the two   *)
(* counters.                                                                *)
WriteSlot == IF dmabusy /\ dmalist[dmaat].kind = "local" THEN sparelocal ELSE lproducer

(* A slot holds a request with its first b blocks. *)
Holds(slot, r, b) == txbuf[slot] = r.msg /\ \A k \in 1 .. b : lbuff[slot][k] = r.msg

LastSent == sent[Len(sent)]

(* The list in memory is the one of the last request: its blocks, the two   *)
(* counters and, unless the second of them ends it, the interrupt.          *)
Listed ==
  /\ \A k \in 1 .. LastSent.n :
       /\ dmalist[k].kind = "data" /\ dmalist[k].part = k
       /\ dmalist[k].msg = LastSent.msg /\ dmalist[k].eol = FALSE
  /\ dmalist[LastSent.n + 1].kind = "prod" /\ dmalist[LastSent.n + 1].eol = FALSE
  /\ dmalist[LastSent.n + 2].kind = "local"
  /\ ~dmalist[LastSent.n + 2].eol =>
       dmalist[LastSent.n + 3].kind = "virq" /\ dmalist[LastSent.n + 3].eol

(* The engine carries out the last request; before it has counted it, the   *)
(* slot is a free one and holds the blocks copied so far.                   *)
Uncounted ==
  /\ Len(sent) = producer + 1 /\ spareproducer = producer + 1
  /\ InRing < TxSlots
  /\ sparelocal = (lproducer + 1) % TxSlots
  /\ Holds(lproducer, LastSent, dmaat - 1)
  /\ \A k \in dmaat .. LastSent.n : dmalist[k].slot = lproducer

Running ==
  /\ Len(sent) > 0 /\ Listed
  /\ dmaat <= LastSent.n + 3
  /\ dmaat = LastSent.n + 3 => ~dmalist[LastSent.n + 2].eol
  /\ dmaat <= LastSent.n + 1 => Uncounted
  /\ dmaat > LastSent.n + 1 => Len(sent) = producer

(* What is in the ring is intact, and so is what was taken from it. *)
RingHolds ==
  \A j \in 0 .. InRing - 1 :
    Holds(TxOff(j), sent[consumer + j + 1], sent[consumer + j + 1].n)
GotIntact ==
  \A i \in 1 .. Len(received) :
    /\ received[i].msg = sent[i].msg
    /\ \A k \in 1 .. sent[i].n : received[i].blocks[k] = sent[i].msg

Orderly ==
  /\ TxTypeOK
  /\ InRing \in 0 .. TxSlots
  /\ Len(received) = consumer /\ producer <= Len(sent)
  /\ WriteSlot = TxOff(InRing)
  /\ ~dmabusy => Len(sent) = producer
  /\ dmabusy => Running
  /\ RingHolds
  /\ GotIntact

TxInv == ~rude /\ ~slipped => Orderly

(* Slots advance around the ring. *)
LEMMA TxSlotNext ==
  ASSUME NEW a \in TxSlot
  PROVE  /\ (a + 1) % TxSlots \in TxSlot
         /\ (a + 1) % TxSlots = IF a + 1 < TxSlots THEN a + 1 ELSE 0
  BY TxAssumption, SMTT(40) DEF TxSlot

(* The slots of the requests in the ring and of the next one. *)
LEMMA TxOffFacts ==
  ASSUME TxTypeOK, InRing \in 0 .. TxSlots
  PROVE  /\ \A j \in 0 .. TxSlots : TxOff(j) \in TxSlot
         /\ InRing < TxSlots => \A j \in 0 .. InRing - 1 : TxOff(j) # TxOff(InRing)
         /\ \A j \in 0 .. TxSlots - 1 : (TxOff(j) + 1) % TxSlots = TxOff(j + 1)
         /\ TxOff(0) = lconsumer
<1>1. lconsumer \in 0 .. TxSlots - 1
  BY Zenon DEF TxTypeOK, TxSlot
<1>2. \A j \in 0 .. TxSlots : TxOff(j) \in TxSlot
  BY <1>1, TxAssumption, SMTT(40) DEF TxOff, TxSlot
<1>3. ASSUME NEW j \in 0 .. TxSlots - 1 PROVE (TxOff(j) + 1) % TxSlots = TxOff(j + 1)
  <2>1. TxOff(j) \in TxSlot
    BY <1>2, TxAssumption, SMTT(40)
  <2> QED
    BY <1>1, <2>1, TxSlotNext, TxAssumption, SMTT(40) DEF TxOff, TxSlot
<1> QED
  BY <1>1, <1>2, <1>3, TxAssumption, SMTT(40) DEF TxOff

LEMMA TxListShape ==
  ASSUME lproducer \in TxSlot, NEW m \in Nat, NEW n \in 0 .. MaxSg, NEW virq \in BOOLEAN
  PROVE  /\ TxList(m, n, virq) \in Seq(Entry)
         /\ Len(TxList(m, n, virq)) = IF virq THEN n + 3 ELSE n + 2
         /\ \A k \in 1 .. n : TxList(m, n, virq)[k] = DataEntry(lproducer, k, m)
         /\ TxList(m, n, virq)[n + 1] = PlainEntry("prod")
         /\ TxList(m, n, virq)[n + 2] = PlainEntry("local")
         /\ virq => TxList(m, n, virq)[n + 3] = PlainEntry("virq")
<1> DEFINE data == [k \in 1 .. n |-> DataEntry(lproducer, k, m)]
           counters == <<PlainEntry("prod"), PlainEntry("local")>>
           last == IF virq THEN <<PlainEntry("virq")>> ELSE <<>>
<1>1. TxList(m, n, virq) = (data \o counters) \o last
  BY Zenon DEF TxList
<1>2. n \in Nat
  BY TxAssumption, SMTT(40)
<1>3. /\ PlainEntry("prod") \in Entry /\ PlainEntry("local") \in Entry
      /\ PlainEntry("virq") \in Entry
  BY TxAssumption, SMTT(40) DEF TxSlot, PlainEntry, Entry
<1>4. \A k \in 1 .. n : DataEntry(lproducer, k, m) \in Entry
  BY TxAssumption DEF DataEntry, Entry
<1>5. data \in Seq(Entry) /\ Len(data) = n
  BY <1>2, <1>4
<1>6. counters \in Seq(Entry) /\ Len(counters) = 2
  BY <1>3
<1>7. last \in Seq(Entry) /\ Len(last) = IF virq THEN 1 ELSE 0
  BY <1>3
<1>8. \A k \in 1 .. n : data[k] = DataEntry(lproducer, k, m)
  BY Zenon
<1>9. counters[1] = PlainEntry("prod") /\ counters[2] = PlainEntry("local")
  BY Zenon
<1>10. virq => last[1] = PlainEntry("virq")
  BY Zenon
<1> DEFINE both == data \o counters
           list == both \o last
<1> HIDE DEF data, counters, last
<1>11. /\ both \in Seq(Entry) /\ Len(both) = Len(data) + Len(counters)
       /\ \A i \in 1 .. Len(data) + Len(counters) :
            both[i] = IF i <= Len(data) THEN data[i] ELSE counters[i - Len(data)]
  BY <1>5, <1>6, ConcatIs, Zenon
<1> HIDE DEF both
<1>12. /\ list \in Seq(Entry) /\ Len(list) = Len(both) + Len(last)
       /\ \A i \in 1 .. Len(both) + Len(last) :
            list[i] = IF i <= Len(both) THEN both[i] ELSE last[i - Len(both)]
  <2>1. both \in Seq(Entry) /\ last \in Seq(Entry)
    BY <1>7, <1>11, Zenon
  <2> QED
    BY <2>1, ConcatIs, Zenon
<1>13. TxList(m, n, virq) = list
  BY <1>1, Zenon DEF both
<1> HIDE DEF list
<1>14. Len(both) = n + 2 /\ Len(list) = IF virq THEN n + 3 ELSE n + 2
  BY <1>2, <1>5, <1>6, <1>7, <1>11, <1>12, SMTT(40)
<1>15. /\ \A k \in 1 .. n : both[k] = data[k]
       /\ both[n + 1] = counters[1] /\ both[n + 2] = counters[2]
  BY <1>2, <1>5, <1>6, <1>11, SMTT(40)
<1>16. \A k \in 1 .. n + 2 : list[k] = both[k]
  BY <1>2, <1>7, <1>12, <1>14, SMTT(40)
<1>17. virq => list[n + 3] = last[1]
  BY <1>2, <1>7, <1>12, <1>14, SMTT(40)
<1> QED
  BY <1>2, <1>8, <1>9, <1>10, <1>12, <1>13, <1>14, <1>15, <1>16, <1>17, SMTT(30)

LEMMA TxInvInit == TxInit => TxInv
<1> SUFFICES ASSUME TxInit PROVE Orderly
  BY Zenon DEF TxInv
<1>1. 0 \in TxSlot /\ 1 \in 1 .. MAX_DMA_ENTRIES
  BY TxAssumption DEF TxSlot
<1>2. NoEntry \in Entry
  BY <1>1, TxAssumption DEF NoEntry, PlainEntry, Entry
<1>3. TxTypeOK
  <2>1. txbuf \in [TxSlot -> Nat] /\ lbuff \in [TxSlot -> [1 .. MaxSg -> Nat]]
    BY Zenon DEF TxInit
  <2>2. dmalist \in [1 .. MAX_DMA_ENTRIES -> Entry]
    BY <1>2, Zenon DEF TxInit
  <2>3. sent \in Seq(Request) /\ received \in Seq(Received)
    BY DEF TxInit
  <2> QED
    BY <1>1, <2>1, <2>2, <2>3, Zenon DEF TxInit, TxTypeOK
<1>4. Len(sent) = 0 /\ Len(received) = 0
  BY Zenon DEF TxInit
<1>5. GotIntact /\ RingHolds
  BY <1>4 DEF TxInit, InRing, GotIntact, RingHolds
<1>6. InRing = 0 /\ WriteSlot = 0 /\ TxOff(0) = 0
  BY TxAssumption DEF TxInit, InRing, WriteSlot, TxOff
<1> QED
  BY <1>3, <1>4, <1>5, <1>6, TxAssumption, SMTT(40) DEF TxInit, Orderly

-----------------------------------------------------------------------------
(* The list and the engine after a request on an idle engine. *)
LEMMA SendLists ==
  ASSUME TxTypeOK, ~dmabusy, NEW n \in 0 .. MaxSg, NEW virq \in BOOLEAN,
         fsl_ipc_send_tx_req(n, virq)
  PROVE  /\ dmabusy' = TRUE /\ dmaat' = 1
         /\ dmalist' \in [1 .. MAX_DMA_ENTRIES -> Entry]
         /\ \A k \in 1 .. n :
              /\ dmalist'[k].kind = "data" /\ dmalist'[k].part = k /\ dmalist'[k].slot = lproducer
              /\ dmalist'[k].msg = ntx + 1 /\ dmalist'[k].eol = FALSE
         /\ dmalist'[n + 1].kind = "prod" /\ dmalist'[n + 1].eol = FALSE
         /\ dmalist'[n + 2].kind = "local"
         /\ ~dmalist'[n + 2].eol => dmalist'[n + 3].kind = "virq" /\ dmalist'[n + 3].eol
<1> DEFINE l == TxList(ntx + 1, n, virq)
           len == IF virq THEN n + 3 ELSE n + 2
           list == [i \in DOMAIN dmalist |-> IF i <= Len(l) THEN l[i] ELSE dmalist[i]]
<1> USE TxAssumption
<1>1. lproducer \in TxSlot /\ ntx + 1 \in Nat /\ n \in Nat
  BY TxAssumption DEF TxTypeOK
<1>2. /\ l \in Seq(Entry) /\ Len(l) = len
      /\ \A k \in 1 .. n : l[k] = DataEntry(lproducer, k, ntx + 1)
      /\ l[n + 1] = PlainEntry("prod") /\ l[n + 2] = PlainEntry("local")
      /\ virq => l[n + 3] = PlainEntry("virq")
  BY <1>1, TxListShape, ZenonT(30)
<1>3. /\ len \in 2 .. MAX_DMA_ENTRIES /\ n + 3 <= MAX_DMA_ENTRIES
      /\ virq => len = n + 3
      /\ ~virq => len = n + 2
  BY <1>1, TxAssumption
<1> HIDE DEF l, len
<1>4. fsl_uspace_dma_add_entry(l) = l
  BY <1>2, <1>3 DEF fsl_uspace_dma_add_entry
<1>5. dmalist' = [list EXCEPT ![len].eol = TRUE] /\ dmabusy' = TRUE /\ dmaat' = 1
  BY <1>2, <1>4, Zenon DEF fsl_ipc_send_tx_req, fsl_uspace_dma_start, l
<1>6. DOMAIN dmalist = 1 .. MAX_DMA_ENTRIES /\ \A i \in 1 .. MAX_DMA_ENTRIES : dmalist[i] \in Entry
  BY Zenon DEF TxTypeOK
<1>7. \A i \in 1 .. len : list[i] = l[i] /\ l[i] \in Entry
  BY <1>1, <1>2, <1>3, <1>6, SMTT(40)
<1>8. \A i \in 1 .. MAX_DMA_ENTRIES : i > len => list[i] = dmalist[i]
  BY <1>2, <1>3, <1>6, SMTT(40)
<1>9. DOMAIN list = 1 .. MAX_DMA_ENTRIES /\ list \in [1 .. MAX_DMA_ENTRIES -> Entry]
  <2>1. DOMAIN list = 1 .. MAX_DMA_ENTRIES /\ list = [i \in 1 .. MAX_DMA_ENTRIES |-> list[i]]
    BY <1>6, Zenon
  <2> HIDE DEF list
  <2>2. \A i \in 1 .. MAX_DMA_ENTRIES : list[i] \in Entry
    BY <1>3, <1>6, <1>7, <1>8, SMTT(40)
  <2> QED
    BY <2>1, <2>2, Zenon
<1> DEFINE ended == [list[len] EXCEPT !.eol = TRUE]
<1>20. dmalist' = [list EXCEPT ![len] = ended]
  BY <1>5, Zenon
<1> HIDE DEF list
<1>10. /\ \A i \in 1 .. MAX_DMA_ENTRIES : i # len => dmalist'[i] = list[i]
       /\ dmalist'[len] = ended
  <2> HIDE DEF ended
  <2> QED
    BY <1>3, <1>9, <1>20, SMTT(40)
<1>11. ASSUME NEW e \in Entry
       PROVE  /\ [e EXCEPT !.eol = TRUE] \in Entry
              /\ [e EXCEPT !.eol = TRUE].kind = e.kind
              /\ [e EXCEPT !.eol = TRUE].eol = TRUE
  BY Zenon DEF Entry
<1>12. /\ dmalist'[len] \in Entry /\ dmalist'[len].kind = l[len].kind
       /\ dmalist'[len].eol = TRUE
  BY <1>3, <1>7, <1>9, <1>10, <1>11, SMTT(40)
<1>13. dmalist' \in [1 .. MAX_DMA_ENTRIES -> Entry]
  BY <1>3, <1>5, <1>9, <1>10, <1>12, Zenon
<1>14. \A i \in 1 .. len - 1 : dmalist'[i] = l[i]
  BY <1>1, <1>3, <1>7, <1>10, SMTT(40)
<1>15. \A k \in 1 .. n : dmalist'[k] = DataEntry(lproducer, k, ntx + 1)
  BY <1>1, <1>2, <1>3, <1>14, SMTT(40)
<1>16. dmalist'[n + 1] = PlainEntry("prod")
  BY <1>1, <1>2, <1>3, <1>14, SMTT(40)
<1>17. /\ \A k \in 1 .. n :
            /\ dmalist'[k].kind = "data" /\ dmalist'[k].part = k /\ dmalist'[k].slot = lproducer
            /\ dmalist'[k].msg = ntx + 1 /\ dmalist'[k].eol = FALSE
       /\ dmalist'[n + 1].kind = "prod" /\ dmalist'[n + 1].eol = FALSE
  <2>1. ASSUME NEW k \in 1 .. n
        PROVE  LET e == DataEntry(lproducer, k, ntx + 1)
               IN  e.kind = "data" /\ e.part = k /\ e.slot = lproducer /\ e.msg = ntx + 1 /\ e.eol = FALSE
    BY Zenon DEF DataEntry
  <2>2. PlainEntry("prod").kind = "prod" /\ PlainEntry("prod").eol = FALSE
    BY Zenon DEF PlainEntry
  <2>3. ASSUME NEW k \in 1 .. n
        PROVE  /\ dmalist'[k].kind = "data" /\ dmalist'[k].part = k /\ dmalist'[k].slot = lproducer
               /\ dmalist'[k].msg = ntx + 1 /\ dmalist'[k].eol = FALSE
    <3>1. dmalist'[k] = DataEntry(lproducer, k, ntx + 1)
      BY <1>15, Zenon
    <3> QED
      BY <2>1, <3>1, Zenon
  <2>4. dmalist'[n + 1].kind = "prod" /\ dmalist'[n + 1].eol = FALSE
    BY <1>16, <2>2, Zenon
  <2> QED
    BY <2>3, <2>4, Zenon
<1>18. CASE virq
  <2>1. dmalist'[n + 2].kind = "local" /\ dmalist'[n + 3].kind = "virq" /\ dmalist'[n + 3].eol
    BY <1>1, <1>2, <1>3, <1>12, <1>14, <1>18, SMTT(40) DEF PlainEntry
  <2> QED
    BY <1>5, <1>13, <1>17, <2>1, Zenon
<1>19. CASE ~virq
  <2>1. dmalist'[n + 2].kind = "local" /\ dmalist'[n + 2].eol
    BY <1>1, <1>2, <1>3, <1>12, <1>19, SMTT(40) DEF PlainEntry
  <2> QED
    BY <1>5, <1>13, <1>17, <2>1, Zenon
<1> QED
  BY <1>18, <1>19, Zenon

(* What was taken stays intact while its requests stay in the history. *)
LEMMA GotKept ==
  ASSUME GotIntact, received' = received, \A i \in 1 .. Len(received) : sent'[i] = sent[i]
  PROVE  GotIntact'
<1> SUFFICES ASSUME NEW i \in 1 .. Len(received)
             PROVE  /\ received'[i].msg = sent'[i].msg
                    /\ \A k \in 1 .. sent'[i].n : received'[i].blocks[k] = sent'[i].msg
  BY Zenon DEF GotIntact
<1>1. received'[i] = received[i] /\ sent'[i] = sent[i]
  BY Zenon
<1> QED
  BY <1>1, Zenon DEF GotIntact

LEMMA SendStep ==
  ASSUME Orderly, ~dmabusy, NEW n \in 0 .. MaxSg, NEW virq \in BOOLEAN,
         fsl_ipc_send_tx_req(n, virq)
  PROVE  Orderly'
<1> DEFINE r == [msg |-> ntx + 1, n |-> n]
<1>1. /\ TxTypeOK /\ InRing \in 0 .. TxSlots /\ Len(received) = consumer
      /\ Len(sent) = producer /\ lproducer = TxOff(InRing) /\ RingHolds /\ GotIntact
  BY Zenon DEF Orderly, WriteSlot
<1>2. /\ producer' = producer /\ consumer' = consumer /\ lproducer' = lproducer
      /\ lconsumer' = lconsumer /\ lbuff' = lbuff /\ received' = received
      /\ sent' = Append(sent, r) /\ ntx' = ntx + 1
      /\ spareproducer' = producer + 1 /\ sparelocal' = (lproducer + 1) % TxSlots
      /\ txbuf' = [txbuf EXCEPT ![ipc_channel_attach_msg_ring[lproducer]] = ntx + 1]
  BY Zenon DEF fsl_ipc_send_tx_req, chVars
<1>3. /\ producer \in Nat /\ consumer \in Nat /\ lproducer \in TxSlot
      /\ ntx + 1 \in Nat /\ n \in Nat /\ txbuf \in [TxSlot -> Nat]
      /\ ipc_channel_attach_msg_ring[lproducer] = lproducer
  BY <1>1, SMTT(30) DEF TxTypeOK, ipc_channel_attach_msg_ring
<1>4. InRing < TxSlots
  <2>1. ~TxFull
    BY Zenon DEF fsl_ipc_send_tx_req
  <2> QED
    BY <1>1, <2>1, TxAssumption, SMTT(40) DEF TxFull, InRing
<1>5. r \in Request /\ sent \in Seq(Request)
  BY <1>1, <1>3, Zenon DEF Request, TxTypeOK
<1>6. /\ sent' \in Seq(Request) /\ Len(sent') = producer + 1
      /\ sent'[producer + 1] = r
      /\ \A i \in 1 .. producer : sent'[i] = sent[i]
  BY <1>1, <1>2, <1>5, AppendIs, SMTT(40)
<1>7. LastSent' = r
  BY <1>6, Zenon DEF LastSent
<1>8. LastSent'.n = n /\ LastSent'.msg = ntx + 1
  BY <1>7, Zenon
<1>9. /\ dmabusy' = TRUE /\ dmaat' = 1
      /\ dmalist' \in [1 .. MAX_DMA_ENTRIES -> Entry]
      /\ \A k \in 1 .. n :
           /\ dmalist'[k].kind = "data" /\ dmalist'[k].part = k /\ dmalist'[k].slot = lproducer
           /\ dmalist'[k].msg = ntx + 1 /\ dmalist'[k].eol = FALSE
      /\ dmalist'[n + 1].kind = "prod" /\ dmalist'[n + 1].eol = FALSE
      /\ dmalist'[n + 2].kind = "local"
      /\ ~dmalist'[n + 2].eol => dmalist'[n + 3].kind = "virq" /\ dmalist'[n + 3].eol
  BY <1>1, SendLists, ZenonT(40)
<1>10. sparelocal' \in TxSlot /\ spareproducer' \in Nat
  BY <1>2, <1>3, TxSlotNext
<1>11. TxTypeOK'
  <2>1. txbuf' \in [TxSlot -> Nat] /\ ntx' \in Nat
    BY <1>2, <1>3, Zenon
  <2>2. 1 \in 1 .. MAX_DMA_ENTRIES
    BY TxAssumption
  <2> QED
    BY <1>1, <1>2, <1>6, <1>9, <1>10, <2>1, <2>2, Zenon DEF TxTypeOK
<1>12. InRing' = InRing /\ \A j \in Int : TxOff(j)' = TxOff(j)
  BY <1>2, Zenon DEF InRing, TxOff
<1>13. WriteSlot' = TxOff(InRing)'
  <2>1. dmalist'[1].kind # "local"
    <3>1. (n = 0 /\ n + 1 = 1) \/ 1 \in 1 .. n
      BY <1>3, SMTT(40)
    <3>2. dmalist'[1].kind \in {"data", "prod"}
      BY <1>9, <3>1, Zenon
    <3> QED
      BY <3>2, Zenon
  <2>2. WriteSlot = lproducer
    BY <1>1, Zenon DEF WriteSlot
  <2>3. WriteSlot' = lproducer
    BY <1>2, <1>9, <2>1, Zenon DEF WriteSlot
  <2> QED
    BY <1>1, <1>2, <1>12, <2>2, <2>3, Zenon DEF InRing, TxOff
<1>14. Running'
  <2>1. Listed'
    BY <1>8, <1>9, Zenon DEF Listed
  <2>2. Uncounted'
    <3>1. txbuf'[lproducer] = LastSent'.msg
      BY <1>2, <1>3, <1>8, Zenon
    <3>2. Holds(lproducer, LastSent, dmaat - 1)'
      BY <1>2, <1>9, <3>1, UpTo, Zenon DEF Holds
    <3>3. \A k \in 1 .. n : dmalist'[k].slot = lproducer
      BY <1>9, Zenon
    <3> QED
      BY <1>2, <1>4, <1>6, <1>8, <1>9, <1>12, <3>2, <3>3, ZenonT(40) DEF Uncounted
  <2>3. n \in Nat /\ producer + 1 > 0 /\ 1 <= n + 3 /\ 1 # n + 3 /\ ~(1 > n + 1)
    BY <1>3, SMTT(40)
  <2> QED
    BY <1>6, <1>8, <1>9, <2>1, <2>2, <2>3, Zenon DEF Running
<1>15. RingHolds'
  <2> SUFFICES ASSUME NEW j \in 0 .. InRing - 1
               PROVE  Holds(TxOff(j), sent[consumer + j + 1], sent[consumer + j + 1].n)'
    BY <1>12, Zenon DEF RingHolds
  <2>1. TxOff(j) # lproducer /\ TxOff(j) \in TxSlot /\ TxOff(j)' = TxOff(j)
    <3>1. j \in 0 .. TxSlots /\ j \in Int
      BY <1>4, TxAssumption, <1>3, SMTT(40) DEF InRing
    <3>2. TxOff(j) \in TxSlot /\ TxOff(j) # TxOff(InRing)
      BY <1>1, <1>4, <3>1, TxOffFacts, Zenon
    <3> QED
      BY <1>1, <1>12, <3>1, <3>2, ZenonT(40)
  <2>2. consumer + j + 1 \in 1 .. producer
    BY <1>3 DEF InRing
  <2>3. Holds(TxOff(j), sent[consumer + j + 1], sent[consumer + j + 1].n)
    BY <1>1, Zenon DEF RingHolds
  <2>4. txbuf'[TxOff(j)] = txbuf[TxOff(j)] /\ sent'[consumer + j + 1] = sent[consumer + j + 1]
    BY <1>2, <1>3, <1>6, <2>1, <2>2, Zenon
  <2> QED
    BY <1>2, <2>1, <2>3, <2>4, Zenon DEF Holds
<1>16. GotIntact'
  <2>1. \A i \in 1 .. Len(received) : sent'[i] = sent[i]
    <3>1. consumer <= producer
      BY <1>1, <1>3, TxAssumption, SMTT(40) DEF InRing
    <3> SUFFICES ASSUME NEW i \in 1 .. consumer PROVE sent'[i] = sent[i]
      BY <1>1, Zenon
    <3>2. i \in 1 .. producer
      BY <1>3, <3>1, SMTT(40)
    <3> QED
      BY <1>6, <3>2, Zenon
  <2> QED
    BY <1>1, <1>2, <2>1, GotKept, Zenon
<1>17. producer' <= Len(sent') /\ dmabusy'
  <2>1. producer <= producer + 1
    BY <1>3, SMTT(40)
  <2> QED
    BY <1>2, <1>6, <1>9, <2>1, Zenon
<1> QED
  BY <1>1, <1>2, <1>11, <1>12, <1>13, <1>14, <1>15, <1>16, <1>17, Zenon DEF Orderly

(* The last request and the engine's place in its list. *)
LEMMA LastFacts ==
  ASSUME TxTypeOK, Running
  PROVE  /\ LastSent.n \in Nat /\ LastSent.n <= MaxSg /\ LastSent.msg \in Nat
         /\ dmaat \in Nat /\ dmaat >= 1 /\ LastSent.n + 3 <= MAX_DMA_ENTRIES
         /\ Len(sent) \in Nat /\ Len(sent) > 0
<1>1. sent \in Seq(Request) /\ Len(sent) > 0
  BY Zenon DEF TxTypeOK, Running
<1>2. LastSent \in Request /\ Len(sent) \in Nat
  BY <1>1, SMTT(40) DEF LastSent
<1>3. LastSent.n \in 0 .. MaxSg /\ LastSent.msg \in Nat
  BY <1>2, Zenon DEF Request
<1>4. dmaat \in 1 .. MAX_DMA_ENTRIES
  BY ZenonT(40) DEF TxTypeOK
<1> QED
  BY <1>1, <1>2, <1>3, <1>4, TxAssumption, SMTT(40)

(* A step that leaves ring, slots, requests and messages alone. *)
LEMMA QuietRing ==
  ASSUME Orderly, UNCHANGED <<producer, consumer, lconsumer, txbuf, lbuff, sent, received>>
  PROVE  /\ InRing' = InRing /\ LastSent' = LastSent /\ TxOff(InRing)' = TxOff(InRing)
         /\ RingHolds' /\ GotIntact'
         /\ Len(received') = consumer' /\ producer' <= Len(sent') /\ InRing' \in 0 .. TxSlots
<1>1. /\ InRing' = InRing /\ LastSent' = LastSent /\ TxOff(InRing)' = TxOff(InRing)
      /\ \A j : TxOff(j)' = TxOff(j)
  BY Zenon DEF InRing, TxOff, LastSent
<1>2. RingHolds'
  BY <1>1, Zenon DEF Orderly, RingHolds, Holds
<1>3. GotIntact'
  BY Zenon DEF Orderly, GotIntact
<1> QED
  BY <1>1, <1>2, <1>3, Zenon DEF Orderly

(* Copying a block. *)
LEMMA DataStep ==
  ASSUME Orderly, dmabusy, DmaStep, dmaat <= LastSent.n
  PROVE  Orderly'
<1> DEFINE m == LastSent.msg
<1>1. /\ TxTypeOK /\ InRing \in 0 .. TxSlots /\ Len(received) = consumer
      /\ Running /\ RingHolds /\ GotIntact /\ producer <= Len(sent)
  BY Zenon DEF Orderly
<1>2. /\ m \in Nat /\ LastSent.n \in Nat /\ LastSent.n <= MaxSg
      /\ dmaat \in Nat /\ dmaat >= 1 /\ LastSent.n + 3 <= MAX_DMA_ENTRIES
  BY <1>1, LastFacts, Zenon
<1>3. Listed /\ Uncounted /\ dmaat \in 1 .. LastSent.n
  <2>1. dmaat \in 1 .. LastSent.n /\ dmaat <= LastSent.n + 1
    BY <1>2, SMTT(40)
  <2> QED
    BY <1>1, <2>1, Zenon DEF Running
<1>4. /\ dmalist[dmaat].kind = "data" /\ dmalist[dmaat].part = dmaat /\ dmalist[dmaat].msg = m
      /\ dmalist[dmaat].eol = FALSE /\ dmalist[dmaat].slot = lproducer
  <2>1. dmaat \in dmaat .. LastSent.n
    BY <1>2
  <2>2. dmalist[dmaat].slot = lproducer
    BY <1>3, <2>1, Zenon DEF Uncounted
  <2> QED
    BY <1>3, <2>2, Zenon DEF Listed
<1>5. /\ lbuff' = [lbuff EXCEPT ![lproducer][dmaat] = m]
      /\ producer' = producer /\ lproducer' = lproducer
      /\ dmabusy' = TRUE /\ dmaat' = dmaat + 1
      /\ UNCHANGED <<consumer, lconsumer, txbuf, dmalist, spareproducer, sparelocal, sent, received, ntx>>
  <2>1. dmaat < MAX_DMA_ENTRIES /\ dmaat # MAX_DMA_ENTRIES
    BY <1>2, TxAssumption, SMTT(40)
  <2>2. lbuff' = [lbuff EXCEPT ![lproducer][dmaat] = m]
    BY <1>4, Zenon DEF DmaStep
  <2>3. producer' = producer /\ lproducer' = lproducer
    BY <1>4, Zenon DEF DmaStep
  <2>4. dmabusy' = TRUE /\ dmaat' = dmaat + 1
    BY <1>4, <2>1, Zenon DEF DmaStep
  <2> QED
    BY <2>2, <2>3, <2>4, Zenon DEF DmaStep, txHistory, spareVars
<1>6. /\ producer \in Nat /\ consumer \in Nat /\ lproducer \in TxSlot /\ lconsumer \in TxSlot
      /\ lbuff \in [TxSlot -> [1 .. MaxSg -> Nat]]
  BY <1>1, Zenon DEF TxTypeOK
<1>7. lbuff[lproducer] \in [1 .. MaxSg -> Nat] /\ dmaat \in 1 .. MaxSg
  BY <1>2, <1>3, <1>6, TxAssumption, SMTT(30)
<1>8. /\ lbuff' \in [TxSlot -> [1 .. MaxSg -> Nat]]
      /\ \A i \in TxSlot : i # lproducer => lbuff'[i] = lbuff[i]
      /\ \A k \in 1 .. MaxSg : lbuff'[lproducer][k] = IF k = dmaat THEN m ELSE lbuff[lproducer][k]
  BY <1>2, <1>5, <1>6, <1>7, Zenon
<1>9. TxTypeOK'
  <2>1. dmabusy' \in BOOLEAN /\ dmaat' \in 1 .. MAX_DMA_ENTRIES
    BY <1>2, <1>5, TxAssumption
  <2> QED
    BY <1>1, <1>5, <1>8, <2>1, Zenon DEF TxTypeOK
<1>10. InRing' = InRing /\ LastSent' = LastSent /\ \A j \in Int : TxOff(j)' = TxOff(j)
  BY <1>5, Zenon DEF InRing, TxOff, LastSent
<1>11. dmalist'[dmaat + 1].kind # "local" /\ dmalist[dmaat].kind # "local"
  <2>1. dmaat + 1 \in 1 .. LastSent.n \/ dmaat + 1 = LastSent.n + 1
    BY <1>2, SMTT(40)
  <2>2. dmalist[dmaat + 1].kind = "data" \/ dmalist[dmaat + 1].kind = "prod"
    BY <1>3, <2>1, Zenon DEF Listed
  <2> QED
    BY <1>4, <1>5, <2>2, Zenon
<1>12. lproducer = TxOff(InRing) /\ WriteSlot' = TxOff(InRing)'
  <2>1. lproducer = TxOff(InRing)
    BY <1>11, Zenon DEF Orderly, WriteSlot
  <2>2. WriteSlot' = lproducer
    BY <1>5, <1>11, Zenon DEF WriteSlot
  <2>3. TxOff(InRing)' = TxOff(InRing)
    BY <1>5, Zenon DEF TxOff, InRing
  <2> QED
    BY <2>1, <2>2, <2>3, Zenon
<1>13. InRing < TxSlots
  BY <1>3, Zenon DEF Uncounted
<1>14. Listed'
  BY <1>3, <1>5, <1>10, Zenon DEF Listed
<1>15. Uncounted'
  <2>1. txbuf[lproducer] = m /\ \A k \in 1 .. dmaat - 1 : lbuff[lproducer][k] = m
    BY <1>3, Zenon DEF Uncounted, Holds
  <2>2. ASSUME NEW k \in 1 .. dmaat PROVE lbuff'[lproducer][k] = m
    <3>1. k = dmaat \/ k \in 1 .. dmaat - 1
      BY <1>2, SMTT(40)
    <3>2. k \in 1 .. MaxSg
      BY <1>7, TxAssumption, SMTT(40)
    <3> QED
      BY <1>8, <2>1, <3>1, <3>2, Zenon
  <2>3. \A k \in dmaat + 1 .. LastSent.n : dmalist[k].slot = lproducer
    BY <1>2, <1>3, SMTT(40) DEF Uncounted
  <2>4. dmaat' - 1 = dmaat
    BY <1>2, <1>5, SMTT(40)
  <2>5. Holds(lproducer, LastSent, dmaat - 1)'
    BY <1>5, <1>10, <2>1, <2>2, <2>4, ZenonT(40) DEF Holds
  <2>6. /\ Len(sent) = producer + 1 /\ spareproducer = producer + 1
        /\ sparelocal = (lproducer + 1) % TxSlots
    BY <1>3, Zenon DEF Uncounted
  <2> QED
    BY <1>5, <1>10, <1>13, <2>3, <2>5, <2>6, Zenon DEF Uncounted
<1>16. Running'
  <2>1. dmaat' <= LastSent'.n + 1 /\ dmaat' <= LastSent'.n + 3 /\ dmaat' # LastSent'.n + 3
    BY <1>2, <1>5, <1>10, SMTT(40)
  <2>2. Len(sent') > 0
    BY <1>1, <1>5, Zenon DEF Running
  <2>3. ~(dmaat' > LastSent'.n + 1)
    BY <1>2, <1>5, <1>10, SMTT(40)
  <2> QED
    BY <1>14, <1>15, <2>1, <2>2, <2>3, ZenonT(40) DEF Running
<1>17. RingHolds'
  <2> SUFFICES ASSUME NEW j \in 0 .. InRing - 1
               PROVE  Holds(TxOff(j), sent[consumer + j + 1], sent[consumer + j + 1].n)'
    BY <1>10, Zenon DEF RingHolds
  <2>1. j \in 0 .. TxSlots /\ j \in Int
    BY <1>6, <1>13, TxAssumption, SMTT(40) DEF InRing
  <2>2. TxOff(j) # lproducer /\ TxOff(j) \in TxSlot
    BY <1>1, <1>12, <1>13, <2>1, TxOffFacts, ZenonT(40)
  <2>3. Holds(TxOff(j), sent[consumer + j + 1], sent[consumer + j + 1].n)
    BY <1>1, Zenon DEF RingHolds
  <2>4. lbuff'[TxOff(j)] = lbuff[TxOff(j)] /\ TxOff(j)' = TxOff(j)
    BY <1>8, <1>10, <2>1, <2>2, Zenon
  <2> QED
    BY <1>5, <2>3, <2>4, Zenon DEF Holds
<1>18. GotIntact' /\ Len(received') = consumer' /\ producer' <= Len(sent')
  BY <1>1, <1>5, Zenon DEF GotIntact
<1> QED
  BY <1>1, <1>5, <1>9, <1>10, <1>12, <1>16, <1>17, <1>18, Zenon DEF Orderly

(* Writing producer_num puts the request into the ring. *)
LEMMA CountStep ==
  ASSUME Orderly, dmabusy, DmaStep, dmaat = LastSent.n + 1
  PROVE  Orderly'
<1>1. /\ TxTypeOK /\ InRing \in 0 .. TxSlots /\ Len(received) = consumer
      /\ Running /\ RingHolds /\ GotIntact
  BY Zenon DEF Orderly
<1>2. /\ LastSent.n \in Nat /\ dmaat \in Nat /\ LastSent.n + 3 <= MAX_DMA_ENTRIES
      /\ LastSent = sent[Len(sent)] /\ Len(sent) \in Nat
  BY <1>1, LastFacts, Zenon DEF LastSent
<1>3. /\ dmalist[dmaat].kind = "prod" /\ dmalist[dmaat].eol = FALSE
      /\ dmalist[dmaat + 1].kind = "local" /\ Uncounted /\ Listed
  <2>0. dmaat <= LastSent.n + 1 /\ dmaat + 1 = LastSent.n + 2
    BY <1>2, SMTT(40)
  <2>1. Listed /\ dmaat <= LastSent.n + 1 /\ dmaat + 1 = LastSent.n + 2
    BY <1>1, <2>0, Zenon DEF Running
  <2>2. Uncounted
    BY <1>1, <2>1, Zenon DEF Running
  <2> QED
    BY <2>1, <2>2, Zenon DEF Listed
<1>4. /\ producer' = spareproducer /\ lproducer' = lproducer
      /\ dmabusy' = TRUE /\ dmaat' = dmaat + 1
      /\ UNCHANGED <<consumer, lconsumer, txbuf, lbuff, dmalist, spareproducer, sparelocal, sent, received, ntx>>
  <2>1. dmaat < MAX_DMA_ENTRIES /\ dmaat # MAX_DMA_ENTRIES
    BY <1>2, TxAssumption, SMTT(40)
  <2>2. lbuff' = lbuff /\ producer' = spareproducer /\ lproducer' = lproducer
    BY <1>3, Zenon DEF DmaStep
  <2>3. dmabusy' = TRUE /\ dmaat' = dmaat + 1
    BY <1>3, <2>1, Zenon DEF DmaStep
  <2> QED
    BY <2>2, <2>3, Zenon DEF DmaStep, txHistory, spareVars
<1>5. /\ producer \in Nat /\ consumer \in Nat /\ lproducer \in TxSlot /\ lconsumer \in TxSlot
      /\ producer' = producer + 1 /\ Len(sent) = producer + 1 /\ InRing < TxSlots
      /\ sparelocal = (lproducer + 1) % TxSlots
  BY <1>1, <1>3, <1>4, Zenon DEF TxTypeOK, Uncounted
<1>6. TxTypeOK'
  <2>1. dmabusy' \in BOOLEAN /\ dmaat' \in 1 .. MAX_DMA_ENTRIES /\ producer' \in Nat
    BY <1>2, <1>4, <1>5, TxAssumption, SMTT(30)
  <2> QED
    BY <1>1, <1>4, <2>1, ZenonT(40) DEF TxTypeOK
<1>7. InRing' = InRing + 1 /\ \A j \in Int : TxOff(j)' = TxOff(j)
  BY <1>4, <1>5 DEF InRing, TxOff
<1>8. lproducer = TxOff(InRing)
  BY <1>3, Zenon DEF Orderly, WriteSlot
<1>9. WriteSlot' = TxOff(InRing)'
  <2>1. WriteSlot' = sparelocal
    BY <1>3, <1>4, Zenon DEF WriteSlot
  <2>2. InRing \in 0 .. TxSlots - 1 /\ InRing + 1 \in Int
    BY <1>1, <1>5, TxAssumption, SMTT(40)
  <2>3. sparelocal = TxOff(InRing + 1)
    BY <1>1, <1>5, <1>8, <2>2, TxOffFacts, Zenon
  <2>4. TxOff(InRing)' = TxOff(InRing + 1)
    BY <1>4, <1>7, Zenon DEF TxOff
  <2> QED
    BY <2>1, <2>3, <2>4, Zenon
<1>10. LastSent' = LastSent
  BY <1>4, Zenon DEF LastSent
<1>11. Running'
  <2>1. Len(sent') = producer' /\ Len(sent') > 0
    BY <1>4, <1>5, SMTT(40)
  <2>2. dmaat' <= LastSent'.n + 3 /\ dmaat' # LastSent'.n + 3 /\ ~(dmaat' <= LastSent'.n + 1)
    BY <1>2, <1>4, <1>10, SMTT(30)
  <2>3. Listed'
    BY <1>3, <1>4, <1>10, Zenon DEF Listed
  <2> QED
    BY <2>1, <2>2, <2>3, Zenon DEF Running
<1>12. RingHolds'
  <2> SUFFICES ASSUME NEW j \in 0 .. InRing
               PROVE  Holds(TxOff(j), sent[consumer + j + 1], sent[consumer + j + 1].n)'
    BY <1>1, <1>7, SMTT(40) DEF RingHolds
  <2>1. TxOff(j)' = TxOff(j)
    BY <1>1, <1>7, TxAssumption, SMTT(40)
  <2>2. Holds(TxOff(j), sent[consumer + j + 1], sent[consumer + j + 1].n)
    <3>1. CASE j = InRing
      <4>1. consumer + j + 1 = Len(sent)
        BY <1>5, <3>1, SMTT(40) DEF InRing
      <4>2. dmaat - 1 = LastSent.n
        BY <1>2, SMTT(40)
      <4>3. Holds(lproducer, LastSent, LastSent.n)
        BY <1>3, <4>2, Zenon DEF Uncounted
      <4> QED
        BY <1>2, <1>8, <3>1, <4>1, <4>3, Zenon
    <3>2. CASE j # InRing
      <4>1. j \in 0 .. InRing - 1
        BY <1>1, <3>2, TxAssumption, SMTT(40)
      <4> QED
        BY <1>1, <4>1, Zenon DEF RingHolds
    <3> QED
      BY <3>1, <3>2, Zenon
  <2> QED
    BY <1>4, <2>1, <2>2, Zenon DEF Holds
<1>13. GotIntact' /\ Len(received') = consumer'
  BY <1>1, <1>4, Zenon DEF GotIntact
<1>14. producer' <= Len(sent') /\ InRing' \in 0 .. TxSlots
  BY <1>1, <1>4, <1>5, <1>7, TxAssumption, SMTT(40)
<1> QED
  BY <1>4, <1>6, <1>9, <1>11, <1>12, <1>13, <1>14, ZenonT(40) DEF Orderly

(* Writing the local number, and the interrupt, ends the request. *)
LEMMA EndStep ==
  ASSUME Orderly, dmabusy, DmaStep, dmaat > LastSent.n + 1
  PROVE  Orderly'
<1> DEFINE n == LastSent.n
<1>1. TxTypeOK /\ Running /\ WriteSlot = TxOff(InRing)
  BY Zenon DEF Orderly
<1>2. n \in Nat /\ dmaat \in Nat /\ n + 3 <= MAX_DMA_ENTRIES
  BY <1>1, LastFacts, Zenon
<1>3. /\ Listed /\ Len(sent) = producer /\ Len(sent) > 0 /\ dmaat \in {n + 2, n + 3}
      /\ dmaat = n + 3 => ~dmalist[n + 2].eol
  BY <1>1, <1>2, SMTT(40) DEF Running
<1>4. producer \in Nat /\ lproducer \in TxSlot /\ sparelocal \in TxSlot
  BY <1>1, Zenon DEF TxTypeOK
<1>5. /\ producer' = producer /\ lproducer' = WriteSlot
      /\ UNCHANGED <<consumer, lconsumer, txbuf, lbuff, dmalist, spareproducer, sparelocal, sent, received, ntx>>
  <2>1. CASE dmaat = n + 2
    <3>1. dmalist[dmaat].kind = "local"
      BY <1>3, <2>1, Zenon DEF Listed
    <3> QED
      BY <3>1, Zenon DEF DmaStep, WriteSlot, txHistory, spareVars
  <2>2. CASE dmaat = n + 3
    <3>1. dmalist[dmaat].kind = "virq"
      BY <1>3, <2>2, Zenon DEF Listed
    <3> QED
      BY <3>1, Zenon DEF DmaStep, WriteSlot, txHistory, spareVars
  <2> QED
    BY <1>3, <2>1, <2>2, Zenon
<1>6. \/ dmabusy' = FALSE /\ dmaat' = 1
      \/ dmabusy' = TRUE /\ dmaat' = n + 3 /\ ~dmalist[n + 2].eol
  <2>1. dmaat \in 1 .. MAX_DMA_ENTRIES
    BY <1>1, Zenon DEF TxTypeOK
  <2>2. dmalist[dmaat] \in Entry
    BY <1>1, <2>1, Zenon DEF TxTypeOK
  <2>3. dmalist[dmaat].eol \in BOOLEAN
    BY <2>2, Zenon DEF Entry
  <2>4. CASE dmalist[dmaat].eol = TRUE
    BY <2>4, Zenon DEF DmaStep
  <2>5. CASE dmalist[dmaat].eol = FALSE
    <3>1. dmaat = n + 2 /\ ~dmalist[n + 2].eol
      BY <1>2, <1>3, <2>5, Zenon DEF Listed
    <3>2. dmaat < MAX_DMA_ENTRIES /\ dmaat # MAX_DMA_ENTRIES /\ dmaat + 1 = n + 3
      BY <1>2, <3>1, TxAssumption, SMTT(40)
    <3> QED
      BY <2>5, <3>1, <3>2, Zenon DEF DmaStep
  <2> QED
    BY <2>3, <2>4, <2>5, Zenon
<1>7. TxTypeOK'
  <2>1. 1 \in 1 .. MAX_DMA_ENTRIES /\ n + 3 \in 1 .. MAX_DMA_ENTRIES
    BY <1>2, TxAssumption, SMTT(40)
  <2>2. dmabusy' \in BOOLEAN /\ dmaat' \in 1 .. MAX_DMA_ENTRIES
    BY <1>6, <2>1, Zenon
  <2>3. lproducer' \in TxSlot
    BY <1>4, <1>5, Zenon DEF WriteSlot
  <2> QED
    BY <1>1, <1>5, <2>2, <2>3, Zenon DEF TxTypeOK
<1>8. /\ InRing' = InRing /\ LastSent' = LastSent /\ TxOff(InRing)' = TxOff(InRing)
      /\ RingHolds' /\ GotIntact'
      /\ Len(received') = consumer' /\ producer' <= Len(sent') /\ InRing' \in 0 .. TxSlots
  BY <1>5, QuietRing, Zenon
<1>9. dmabusy' = TRUE =>
        dmaat' = n + 3 /\ dmalist[n + 3].kind = "virq" /\ ~dmalist[n + 2].eol
  BY <1>3, <1>6, Zenon DEF Listed
<1>10. WriteSlot' = TxOff(InRing)'
  <2>1. WriteSlot' = lproducer'
    BY <1>5, <1>9, <1>6, Zenon DEF WriteSlot
  <2> QED
    BY <1>1, <1>5, <1>8, <2>1, Zenon
<1>11. ASSUME dmabusy' = TRUE PROVE Running'
  <2>1. Listed'
    BY <1>3, <1>5, <1>8, Zenon DEF Listed
  <2>2. /\ Len(sent') > 0 /\ Len(sent') = producer' /\ dmaat' = LastSent'.n + 3
        /\ ~dmalist'[LastSent'.n + 2].eol
    BY <1>3, <1>5, <1>8, <1>9, <1>11, ZenonT(40)
  <2>3. /\ dmaat' <= LastSent'.n + 3 /\ ~(dmaat' <= LastSent'.n + 1)
    BY <1>2, <1>8, <2>2, SMTT(40)
  <2> QED
    BY <2>1, <2>2, <2>3, Zenon DEF Running
<1>12. Len(sent') = producer'
  BY <1>3, <1>5, Zenon
<1> QED
  BY <1>6, <1>7, <1>8, <1>10, <1>11, <1>12, Zenon DEF Orderly

(* The engine gives up, but not between the two counters. *)
LEMMA FaultStep ==
  ASSUME Orderly, DmaFault, ~slipped'
  PROVE  Orderly'
<1>1. /\ TxTypeOK /\ InRing \in 0 .. TxSlots /\ Len(received) = consumer
      /\ RingHolds /\ GotIntact /\ producer <= Len(sent)
      /\ WriteSlot = TxOff(InRing)
  BY Zenon DEF Orderly
<1>2. /\ dmabusy' = FALSE /\ dmaat' = 1
      /\ UNCHANGED <<producer, consumer, lproducer, lconsumer, txbuf, lbuff, dmalist,
                     spareproducer, sparelocal, received, ntx>>
      /\ dmalist[dmaat].kind # "local"
      /\ sent' = IF producer < Len(sent) THEN SubSeq(sent, 1, producer) ELSE sent
  BY Zenon DEF DmaFault, chVars, spareVars
<1>3. producer \in Nat /\ consumer \in Nat /\ sent \in Seq(Request) /\ Len(sent) \in Nat
  BY <1>1, SMTT(40) DEF TxTypeOK
<1>4. /\ sent' \in Seq(Request) /\ Len(sent') = producer
      /\ \A i \in 1 .. producer : sent'[i] = sent[i]
  <2>1. CASE producer < Len(sent)
    <3>1. producer <= Len(sent)
      BY <1>3, <2>1, SMTT(40)
    <3> QED
      BY <1>2, <1>3, <2>1, <3>1, PrefixIs, Zenon
  <2>2. CASE ~(producer < Len(sent))
    <3>1. producer <= Len(sent)
      BY <1>1, Zenon
    <3>2. producer = Len(sent)
      BY <1>3, <2>2, <3>1, SMTT(40)
    <3> QED
      BY <1>2, <1>3, <2>2, <3>2, Zenon
  <2> QED
    BY <2>1, <2>2, ZenonT(40)
<1>5. TxTypeOK'
  <2>1. 1 \in 1 .. MAX_DMA_ENTRIES
    BY TxAssumption, SMTT(40)
  <2>2. dmabusy' \in BOOLEAN /\ dmaat' \in 1 .. MAX_DMA_ENTRIES
    BY <1>2, <2>1, Zenon
  <2> QED
    BY <1>1, <1>2, <1>4, <2>2, Zenon DEF TxTypeOK
<1>6. InRing' = InRing /\ \A j \in Int : TxOff(j)' = TxOff(j)
  BY <1>2, Zenon DEF InRing, TxOff
<1>7. WriteSlot' = TxOff(InRing)'
  <2>1. WriteSlot = lproducer /\ WriteSlot' = lproducer
    BY <1>2, Zenon DEF WriteSlot
  <2>2. TxOff(InRing)' = TxOff(InRing)
    BY <1>2, Zenon DEF InRing, TxOff
  <2> QED
    BY <1>1, <2>1, <2>2, Zenon
<1>8. consumer <= producer
  BY <1>1, <1>3, TxAssumption, SMTT(40) DEF InRing
<1>9. RingHolds'
  <2> SUFFICES ASSUME NEW j \in 0 .. InRing - 1
               PROVE  Holds(TxOff(j), sent[consumer + j + 1], sent[consumer + j + 1].n)'
    BY <1>6, Zenon DEF RingHolds
  <2>1. consumer + j + 1 \in 1 .. producer /\ j \in Int
    BY <1>3, SMTT(40) DEF InRing
  <2>2. TxOff(j)' = TxOff(j) /\ sent'[consumer + j + 1] = sent[consumer + j + 1]
    BY <1>4, <1>6, <2>1, Zenon
  <2>3. Holds(TxOff(j), sent[consumer + j + 1], sent[consumer + j + 1].n)
    BY <1>1, Zenon DEF RingHolds
  <2> QED
    BY <1>2, <2>2, <2>3, Zenon DEF Holds
<1>10. GotIntact'
  <2> SUFFICES ASSUME NEW i \in 1 .. Len(received) PROVE sent'[i] = sent[i]
    BY <1>1, <1>2, GotKept, Zenon
  <2>1. i \in 1 .. producer
    BY <1>1, <1>3, <1>8, SMTT(40)
  <2> QED
    BY <1>4, <2>1, Zenon
<1>11. Len(received') = consumer' /\ producer' <= Len(sent') /\ Len(sent') = producer'
  BY <1>1, <1>2, <1>3, <1>4, SMTT(40)
<1>12. InRing' \in 0 .. TxSlots
  BY <1>1, <1>6, Zenon
<1> QED
  BY <1>2, <1>5, <1>7, <1>9, <1>10, <1>11, <1>12, ZenonT(40) DEF Orderly

(* The DSP takes the oldest request. *)
LEMMA TakeStep ==
  ASSUME Orderly, DspTakes
  PROVE  Orderly'
<1> DEFINE g == [msg |-> txbuf[ipc_channel_attach_msg_ring[lconsumer]], blocks |-> lbuff[lconsumer]]
<1>1. /\ TxTypeOK /\ InRing \in 0 .. TxSlots /\ Len(received) = consumer
      /\ RingHolds /\ GotIntact /\ producer <= Len(sent)
      /\ WriteSlot = TxOff(InRing)
  BY Zenon DEF Orderly
<1>2. /\ consumer < producer /\ received' = Append(received, g)
      /\ consumer' = consumer + 1 /\ lconsumer' = (lconsumer + 1) % TxSlots
      /\ UNCHANGED <<producer, lproducer, txbuf, lbuff, dmalist, dmabusy, dmaat,
                     spareproducer, sparelocal, sent, ntx>>
  BY Zenon DEF DspTakes, engineVars, spareVars
<1>3. /\ producer \in Nat /\ consumer \in Nat /\ lconsumer \in TxSlot
      /\ txbuf \in [TxSlot -> Nat] /\ lbuff \in [TxSlot -> [1 .. MaxSg -> Nat]]
      /\ ipc_channel_attach_msg_ring[lconsumer] = lconsumer
  BY <1>1, Zenon DEF TxTypeOK, ipc_channel_attach_msg_ring
<1>4. InRing > 0
  BY <1>2, <1>3, SMTT(40) DEF InRing
<1>5. g \in Received /\ g.msg = txbuf[lconsumer] /\ g.blocks = lbuff[lconsumer]
  BY <1>3, Zenon DEF Received
<1>6. received \in Seq(Received)
  BY <1>1, ZenonT(40) DEF TxTypeOK
<1> HIDE DEF g
<1>7. /\ received' \in Seq(Received) /\ Len(received') = consumer + 1 /\ received'[consumer + 1] = g
      /\ \A i \in 1 .. consumer : received'[i] = received[i]
  BY <1>1, <1>2, <1>5, <1>6, AppendIs, SMTT(40)
<1>8. /\ lconsumer' \in TxSlot /\ lconsumer \in 0 .. TxSlots - 1
      /\ lconsumer' = IF lconsumer + 1 < TxSlots THEN lconsumer + 1 ELSE 0
  BY <1>2, <1>3, TxSlotNext, Zenon DEF TxSlot
<1>9. TxTypeOK'
  <2>1. consumer' \in Nat
    BY <1>2, <1>3, SMTT(40)
  <2> QED
    BY <1>1, <1>2, <1>7, <1>8, <2>1, Zenon DEF TxTypeOK
<1>10. InRing' = InRing - 1
  BY <1>2, <1>3, SMTT(40) DEF InRing
<1>11. \A j \in 0 .. TxSlots - 1 : TxOff(j)' = TxOff(j + 1)
  BY <1>8, TxAssumption, SMTT(40) DEF TxOff
<1>12. WriteSlot' = TxOff(InRing)'
  <2>1. WriteSlot' = WriteSlot
    BY <1>2, Zenon DEF WriteSlot
  <2>2. InRing \in 0 .. TxSlots
    BY <1>1, Zenon
  <2>3. TxOff(InRing)' = TxOff(InRing)
    BY <1>4, <1>8, <1>10, <2>2, TxAssumption, SMTT(40) DEF TxOff
  <2> QED
    BY <1>1, <2>1, <2>3, Zenon
<1>13. ASSUME dmabusy PROVE Running'
  <2>1. Running /\ LastSent' = LastSent
    BY <1>2, <1>13, Zenon DEF Orderly, LastSent
  <2>2. Listed'
    BY <1>2, <2>1, Zenon DEF Running, Listed
  <2>3. ASSUME Uncounted PROVE Uncounted'
    <3>1. Holds(lproducer, LastSent, dmaat - 1)'
      BY <1>2, <2>1, <2>3, Zenon DEF Uncounted, Holds
    <3>2. InRing' < TxSlots
      BY <1>1, <1>10, <2>3, TxAssumption, SMTT(40) DEF Uncounted
    <3> QED
      BY <1>2, <2>1, <2>3, <3>1, <3>2, Zenon DEF Uncounted
  <2> QED
    BY <1>2, <2>1, <2>2, <2>3, Zenon DEF Running
<1>14. RingHolds'
  <2> SUFFICES ASSUME NEW j \in 0 .. InRing - 2
               PROVE  Holds(TxOff(j), sent[consumer + j + 1], sent[consumer + j + 1].n)'
    <3>1. InRing' - 1 = InRing - 2
      BY <1>1, <1>10, TxAssumption, SMTT(40)
    <3> QED
      BY <3>1, Zenon DEF RingHolds
  <2>1. j + 1 \in 0 .. InRing - 1 /\ j \in 0 .. TxSlots - 1
    BY <1>1, TxAssumption, SMTT(40)
  <2>2. consumer' + j + 1 = consumer + (j + 1) + 1
    BY <1>2, <1>3, SMTT(40)
  <2>3. Holds(TxOff(j + 1), sent[consumer + (j + 1) + 1], sent[consumer + (j + 1) + 1].n)
    BY <1>1, <2>1, Zenon DEF RingHolds
  <2>4. TxOff(j)' = TxOff(j + 1)
    BY <1>11, <2>1, Zenon
  <2> QED
    BY <1>2, <2>2, <2>3, <2>4, Zenon DEF Holds
<1>15. GotIntact'
  <2>1. Holds(lconsumer, sent[consumer + 1], sent[consumer + 1].n)
    <3>1. 0 \in 0 .. InRing - 1 /\ consumer + 0 + 1 = consumer + 1
      BY <1>1, <1>3, <1>4, TxAssumption, SMTT(40)
    <3>2. TxOff(0) = lconsumer
      BY <1>1, TxOffFacts, Zenon
    <3>3. Holds(TxOff(0), sent[consumer + 0 + 1], sent[consumer + 0 + 1].n)
      BY <1>1, <3>1, Zenon DEF RingHolds
    <3> QED
      BY <3>1, <3>2, <3>3, ZenonT(40)
  <2> SUFFICES ASSUME NEW i \in 1 .. consumer + 1
               PROVE  /\ received'[i].msg = sent[i].msg
                      /\ \A k \in 1 .. sent[i].n : received'[i].blocks[k] = sent[i].msg
    BY <1>2, <1>7, Zenon DEF GotIntact
  <2>2. CASE i = consumer + 1
    BY <1>5, <1>7, <2>1, <2>2, Zenon DEF Holds
  <2>3. CASE i # consumer + 1
    <3>1. i \in 1 .. consumer
      BY <1>3, <2>3, SMTT(40)
    <3>2. i \in 1 .. Len(received) /\ received'[i] = received[i]
      BY <1>1, <1>7, <3>1, Zenon
    <3> QED
      BY <1>1, <3>2, Zenon DEF GotIntact
  <2> QED
    BY <2>2, <2>3, Zenon
<1>16. InRing' \in 0 .. TxSlots
  BY <1>1, <1>4, <1>10, TxAssumption, SMTT(40)
<1>17. /\ Len(received') = consumer' /\ producer' <= Len(sent') /\ dmabusy' = dmabusy
       /\ ~dmabusy => Len(sent') = producer'
  BY <1>1, <1>2, <1>7, Zenon DEF Orderly
<1> QED
  BY <1>9, <1>12, <1>13, <1>14, <1>15, <1>16, <1>17, Zenon DEF Orderly

-----------------------------------------------------------------------------
(* Opening and configuring the channel moves no counter. *)
LEMMA ConfigStep ==
  ASSUME Orderly,
         UNCHANGED <<producer, consumer, lproducer, lconsumer, txbuf, lbuff, dmalist, dmabusy,
                     dmaat, spareproducer, sparelocal, sent, received, ntx>>
  PROVE  Orderly'
<1>1. TxTypeOK'
  BY Zenon DEF Orderly, TxTypeOK
<1>2. /\ InRing' = InRing /\ LastSent' = LastSent /\ TxOff(InRing)' = TxOff(InRing)
      /\ RingHolds' /\ GotIntact'
      /\ Len(received') = consumer' /\ producer' <= Len(sent') /\ InRing' \in 0 .. TxSlots
  BY QuietRing, Zenon
<1>3. WriteSlot' = WriteSlot
  BY Zenon DEF WriteSlot
<1>4. Running => Running'
  BY <1>2, Zenon DEF Running, Listed, Uncounted, Holds
<1> QED
  BY <1>1, <1>2, <1>3, <1>4, Zenon DEF Orderly

LEMMA TxInvNext == TxInv /\ [TxNext]_txVars => TxInv'
<1> SUFFICES ASSUME TxInv, [TxNext]_txVars, ~rude', ~slipped' PROVE Orderly'
  BY Zenon DEF TxInv
<1>1. CASE OpenTx
  BY <1>1, ConfigStep, Zenon DEF OpenTx, TxInv, chVars, engineVars, spareVars, txHistory
<1>2. CASE fsl_ipc_configure_txreq
  BY <1>2, ConfigStep, Zenon DEF fsl_ipc_configure_txreq, TxInv, chVars, engineVars, spareVars, txHistory
<1>3. ASSUME NEW n \in 0 .. MaxSg, NEW virq \in BOOLEAN, fsl_ipc_send_tx_req(n, virq)
      PROVE  Orderly'
  <2>1. Orderly /\ ~dmabusy
    BY <1>3, ZenonT(30) DEF fsl_ipc_send_tx_req, TxInv
  <2> QED
    BY <1>3, <2>1, SendStep, Zenon
<1>4. CASE fsl_ipc_get_last_tx_req_status
  BY <1>4, ConfigStep, Zenon
     DEF fsl_ipc_get_last_tx_req_status, TxInv, chVars, engineVars, spareVars, txHistory
<1>5. CASE DmaStep
  <2>1. Orderly /\ dmabusy
    BY <1>5, Zenon DEF DmaStep, TxInv, txHistory
  <2>2. LastSent.n \in Nat /\ dmaat \in Nat
    BY <2>1, LastFacts, Zenon DEF Orderly
  <2>3. dmaat <= LastSent.n \/ dmaat = LastSent.n + 1 \/ dmaat > LastSent.n + 1
    BY <2>2
  <2> QED
    BY <1>5, <2>1, <2>3, DataStep, CountStep, EndStep, Zenon
<1>6. CASE DmaFault
  <2>1. Orderly
    BY <1>6, Zenon DEF DmaFault, TxInv
  <2> QED
    BY <1>6, <2>1, FaultStep, Zenon
<1>7. CASE DspTakes
  <2>1. Orderly
    BY <1>7, Zenon DEF DspTakes, TxInv
  <2> QED
    BY <1>7, <2>1, TakeStep, Zenon
<1>8. CASE UNCHANGED txVars
  BY <1>8, ConfigStep, Zenon DEF txVars, TxInv, chVars, engineVars, spareVars, txHistory
<1> QED
  BY <1>1, <1>2, <1>3, <1>4, <1>5, <1>6, <1>7, <1>8, Zenon DEF TxNext

(* As long as the producer waits for one transfer before the next, the DSP  *)
(* takes the requests of fsl_ipc_send_tx_req in order, each once and with   *)
(* all of its own blocks, for any ring and any number of blocks, however    *)
(* the engine, its faults and the DSP interleave with the producer.         *)
THEOREM TxIntactTheorem == TxSpec => []TxIntact
<1>1. TxInv => TxIntact
  <2> SUFFICES ASSUME Orderly PROVE Len(received) <= Len(sent) /\ GotIntact
    BY Zenon DEF TxInv, TxIntact, GotIntact
  <2>1. /\ producer \in Nat /\ consumer \in Nat /\ Len(sent) \in Nat
        /\ InRing \in 0 .. TxSlots /\ Len(received) = consumer /\ producer <= Len(sent)
    BY SMTT(40) DEF Orderly, TxTypeOK
  <2>2. consumer <= producer
    BY <2>1, TxAssumption, SMTT(40) DEF InRing
  <2>3. GotIntact
    BY Zenon DEF Orderly
  <2> QED
    BY <2>1, <2>2, <2>3, SMTT(40)
<1> QED
  BY <1>1, TxInvInit, TxInvNext, PTL DEF TxSpec

-----------------------------------------------------------------------------
(* The queue. *)

FifoUse ==
  \A t \in Threads : Calls[t] \cap {"break_pop", "clear", "pop_last"} = {}

(* The index updates stay inside the ring. *)
LEMMA IndexRange ==
  ASSUME NEW i \in Index
  PROVE  Inc(i) \in Index /\ Dec(i) \in Index
  BY SizeAssumption, SMTT(40) DEF Index, Inc, Dec

-----------------------------------------------------------------------------
(* A blocked push carries the entry it was called with. *)
ArgOK == \A t \in Threads : pc[t] = "push" => arg[t] \in Entries

(* The two helpers keep the ring inside its types. *)
LEMMA StoreType ==
  ASSUME TypeOK, NEW e \in Entries, Store(e)
  PROVE  /\ queue' \in [Index -> Slots]
         /\ head' \in Index
         /\ tail' \in Index
         /\ num_items' \in Int
         /\ accumulated_items_len' \in 0 .. SizeMod - 1
         /\ not_empty_cond' = {}
         /\ not_full_cond' = not_full_cond
<1>1. e.len \in Nat
  BY LensAssumption, Zenon DEF Entries
<1>2. accumulated_items_len' \in 0 .. SizeMod - 1
  <2>1. accumulated_items_len + e.len \in Int
    BY <1>1, LensAssumption, SMTT(40) DEF TypeOK
  <2> QED
    BY <2>1, LensAssumption, ModRange, Zenon DEF Store
<1>3. e \in Slots
  BY Zenon DEF Entries, Slots
<1>4. queue' \in [Index -> Slots]
  BY <1>3, Zenon DEF Store, TypeOK
<1>5. head' \in Index /\ tail' \in Index
  BY IndexRange, ZenonT(40) DEF Store, TypeOK
<1> QED
  BY <1>2, <1>4, <1>5, SMTT(40) DEF Store, TypeOK

LEMMA TakeType ==
  ASSUME TypeOK, NEW i \in Index, NEW p \in Items \cup {NULL}, Take(i, p)
  PROVE  /\ queue' \in [Index -> Slots]
         /\ head' \in Index
         /\ tail' \in Index
         /\ num_items' \in Int
         /\ accumulated_items_len' \in 0 .. SizeMod - 1
         /\ not_empty_cond' = not_empty_cond
         /\ not_full_cond' = {}
         /\ got' \in Items \cup {NULL}
<1>1. queue[i].len \in Nat
  <2>1. queue[i] \in Slots
    BY Zenon DEF TypeOK
  <2>2. CASE queue[i].len \in Lens
    BY <2>2, LensAssumption, Zenon
  <2>3. CASE queue[i].len = 0
    BY <2>3
  <2> QED
    BY <2>1, <2>2, <2>3, Zenon DEF Slots
<1>2. accumulated_items_len' \in 0 .. SizeMod - 1
  <2>1. accumulated_items_len - queue[i].len \in Int
    BY <1>1, LensAssumption, SMTT(40) DEF TypeOK
  <2> QED
    BY <2>1, LensAssumption, ModRange, Zenon DEF Take
<1>3. tail' \in Index
  BY IndexRange, Zenon DEF Take
<1> QED
  BY <1>2, <1>3, SMTT(40) DEF Take, TypeOK

(* A slot of the ring holds a pointer that was pushed, or the null pointer. *)
LEMMA SlotPtr ==
  ASSUME TypeOK, NEW i \in Index
  PROVE  queue[i].ptr \in Items \cup {NULL}
  BY Zenon DEF TypeOK, Slots

(* Every step keeps the types and the absence of lost wake-ups. *)
WakeInv == TypeOK /\ ArgOK /\ NoLostWakeup

LEMMA WakeInvInit == Init => WakeInv
<1> SUFFICES ASSUME Init PROVE WakeInv
  BY Zenon
<1>1. Empty \in Slots
  BY Zenon DEF Slots, Empty
<1>2. TypeOK
  <2>1. 0 \in Index /\ 0 \in 0 .. SizeMod - 1
    BY SizeAssumption, LensAssumption, SMTT(40) DEF Index
  <2>2. queue \in [Index -> Slots] /\ arg \in [Threads -> Entries \cup {Empty}]
    BY <1>1, Zenon DEF Init
  <2>3. pc \in [Threads -> Locations] /\ push_ret \in [Threads -> BOOLEAN]
    BY Zenon DEF Init, Locations
  <2>4. num_items \in Int /\ head \in Index /\ tail \in Index
        /\ accumulated_items_len \in 0 .. SizeMod - 1
    BY <2>1, SMTT(40) DEF Init
  <2>5. /\ pop_break_flag \in BOOLEAN
        /\ push_break_flag \in BOOLEAN
        /\ not_empty_cond \in SUBSET Threads
        /\ not_full_cond \in SUBSET Threads
        /\ got \in Items \cup {NULL}
    BY Zenon DEF Init
  <2> QED
    BY <2>2, <2>3, <2>4, <2>5, Zenon DEF TypeOK
<1>3. ArgOK /\ NoLostWakeup
  BY Zenon DEF Init, ArgOK, NoLostWakeup
<1> QED
  BY <1>2, <1>3, Zenon DEF WakeInv

LEMMA PushSectionWake ==
  ASSUME WakeInv, NEW t \in Threads, NEW e \in Entries, PushSection(t, e)
  PROVE  WakeInv'
<1> USE DEF WakeInv
<1>1. CASE /\ num_items = Size
           /\ ~push_break_flag
           /\ not_full_cond' = not_full_cond \cup {t}
           /\ arg' = [arg EXCEPT ![t] = e]
           /\ Goto(t, "push")
           /\ UNCHANGED <<ring, not_empty_cond>>
           /\ UNCHANGED <<flags, push_ret, got>>
  BY <1>1, Zenon DEF TypeOK, ArgOK, NoLostWakeup, Goto, ring, flags, Locations
<1>2. CASE /\ num_items # Size
           /\ ~push_break_flag
           /\ Store(e)
           /\ arg' = [arg EXCEPT ![t] = Empty]
           /\ Goto(t, "push_stored")
           /\ UNCHANGED <<flags, push_ret, got>>
  <2>1. TypeOK'
    BY <1>2, StoreType, Zenon DEF TypeOK, Goto, flags, Locations
  <2>2. ArgOK'
    BY <1>2, Zenon DEF TypeOK, ArgOK, Goto
  <2>3. NoLostWakeup'
    BY <1>2, StoreType, Zenon DEF NoLostWakeup
  <2> QED
    BY <2>1, <2>2, <2>3, Zenon
<1>3. CASE /\ push_break_flag
           /\ arg' = [arg EXCEPT ![t] = Empty]
           /\ Goto(t, "push_broken")
           /\ UNCHANGED <<ring, conds>>
           /\ UNCHANGED <<flags, push_ret, got>>
  BY <1>3, Zenon DEF TypeOK, ArgOK, NoLostWakeup, Goto, ring, flags, conds, Locations
<1> QED
  BY <1>1, <1>2, <1>3, Zenon DEF PushSection
LEMMA PopSectionWake ==
  ASSUME WakeInv, NEW t \in Threads, PopSection(t)
  PROVE  WakeInv'
<1> USE DEF WakeInv
<1>1. CASE /\ num_items = 0
           /\ ~pop_break_flag
           /\ not_empty_cond' = not_empty_cond \cup {t}
           /\ Goto(t, "pop")
           /\ UNCHANGED <<ring, not_full_cond, pop_break_flag, got>>
           /\ UNCHANGED <<push_break_flag, arg, push_ret>>
  BY <1>1, Zenon DEF TypeOK, ArgOK, NoLostWakeup, Goto, ring, Locations
<1>2. CASE /\ num_items # 0 \/ pop_break_flag
           /\ Take(tail, IF pop_break_flag THEN NULL ELSE queue[tail].ptr)
           /\ pop_break_flag' = FALSE
           /\ Goto(t, "idle")
           /\ UNCHANGED <<push_break_flag, arg, push_ret>>
  <2>1. /\ tail \in Index
        /\ (IF pop_break_flag THEN NULL ELSE queue[tail].ptr) \in Items \cup {NULL}
    BY SlotPtr, IndexRange, Zenon DEF TypeOK
  <2>2. TypeOK'
    BY <1>2, <2>1, TakeType, Zenon DEF TypeOK, Goto, Locations
  <2>3. ArgOK'
    BY <1>2, Zenon DEF TypeOK, ArgOK, Goto
  <2>4. NoLostWakeup'
    BY <1>2, <2>1, TakeType, Zenon DEF NoLostWakeup
  <2> QED
    BY <2>2, <2>3, <2>4, Zenon
<1> QED
  BY <1>1, <1>2, Zenon DEF PopSection

LEMMA PopLastSectionWake ==
  ASSUME WakeInv, NEW t \in Threads, PopLastSection(t)
  PROVE  WakeInv'
<1> USE DEF WakeInv
<1>1. CASE /\ num_items = 0
           /\ ~pop_break_flag
           /\ not_empty_cond' = not_empty_cond \cup {t}
           /\ Goto(t, "pop_last")
           /\ UNCHANGED <<ring, not_full_cond, pop_break_flag, got>>
           /\ UNCHANGED <<push_break_flag, arg, push_ret>>
  BY <1>1, Zenon DEF TypeOK, ArgOK, NoLostWakeup, Goto, ring, Locations
<1>2. CASE /\ num_items # 0 \/ pop_break_flag
           /\ Take(Dec(head), IF pop_break_flag THEN NULL ELSE queue[Dec(head)].ptr)
           /\ pop_break_flag' = FALSE
           /\ Goto(t, "idle")
           /\ UNCHANGED <<push_break_flag, arg, push_ret>>
  <2>1. /\ Dec(head) \in Index
        /\ (IF pop_break_flag THEN NULL ELSE queue[Dec(head)].ptr) \in Items \cup {NULL}
    BY SlotPtr, IndexRange, Zenon DEF TypeOK
  <2>2. TypeOK'
    BY <1>2, <2>1, TakeType, Zenon DEF TypeOK, Goto, Locations
  <2>3. ArgOK'
    BY <1>2, Zenon DEF TypeOK, ArgOK, Goto
  <2>4. NoLostWakeup'
    BY <1>2, <2>1, TakeType, Zenon DEF NoLostWakeup
  <2> QED
    BY <2>2, <2>3, <2>4, Zenon
<1> QED
  BY <1>1, <1>2, Zenon DEF PopLastSection

(* try_pop and the end of try_pop_timeout. *)
LEMMA TakeOldestWake ==
  ASSUME WakeInv, num_items # 0, Take(tail, queue[tail].ptr),
         UNCHANGED <<flags, arg, push_ret>>,
         pc' = pc \/ \E t \in Threads : Goto(t, "idle")
  PROVE  WakeInv'
<1> USE DEF WakeInv
<1>1. tail \in Index /\ queue[tail].ptr \in Items \cup {NULL}
  BY SlotPtr, Zenon DEF TypeOK
<1>2. pc' \in [Threads -> Locations]
  BY Zenon DEF TypeOK, Goto, Locations
<1>3. TypeOK'
  BY <1>1, <1>2, TakeType, Zenon DEF TypeOK, flags
<1>4. ArgOK'
  BY Zenon DEF TypeOK, ArgOK, Goto
<1>5. NoLostWakeup'
  BY <1>1, TakeType, Zenon DEF NoLostWakeup, flags
<1> QED
  BY <1>3, <1>4, <1>5, Zenon

LEMMA WakeInvNext == WakeInv /\ [Next]_vars => WakeInv'
<1> SUFFICES ASSUME WakeInv, [Next]_vars PROVE WakeInv'
  BY Zenon
<1>1. CASE UNCHANGED vars
  BY <1>1, Zenon DEF WakeInv, TypeOK, ArgOK, NoLostWakeup, vars, ring, flags, conds
<1>2. ASSUME NEW t \in Threads, NEW e \in Entries, Push(t, e) PROVE WakeInv'
  BY <1>2, PushSectionWake, Zenon DEF Push
<1>3. ASSUME NEW t \in Threads, PushResume(t) PROVE WakeInv'
  <2>1. arg[t] \in Entries
    BY <1>3, Zenon DEF PushResume, WakeInv, ArgOK
  <2> QED
    BY <1>3, <2>1, PushSectionWake, Zenon DEF PushResume
<1>4. ASSUME NEW t \in Threads, PushReturn(t) PROVE WakeInv'
  <2>1. push_ret' \in [Threads -> BOOLEAN]
    BY <1>4, Zenon DEF PushReturn, WakeInv, TypeOK
  <2>2. pc' \in [Threads -> Locations]
    BY <1>4, Zenon DEF PushReturn, Goto, Locations, WakeInv, TypeOK
  <2> QED
    BY <1>4, <2>1, <2>2, Zenon
    DEF PushReturn, Goto, ring, flags, conds, WakeInv, TypeOK, ArgOK, NoLostWakeup
<1>5. ASSUME NEW t \in Threads, NEW e \in Entries, TryPush(t, e) PROVE WakeInv'
  <2>1. CASE num_items = Size /\ UNCHANGED <<ring, conds>>
    BY <1>5, <2>1, Zenon
    DEF TryPush, ring, flags, conds, WakeInv, TypeOK, ArgOK, NoLostWakeup
  <2>2. CASE num_items # Size /\ Store(e)
    BY <1>5, <2>2, StoreType, Zenon
    DEF TryPush, flags, WakeInv, TypeOK, ArgOK, NoLostWakeup
  <2> QED
    BY <1>5, <2>1, <2>2, Zenon DEF TryPush
<1>6. ASSUME NEW t \in Threads, TryPop(t) PROVE WakeInv'
  <2>1. CASE num_items = 0 /\ UNCHANGED <<ring, conds, got>>
    BY <1>6, <2>1, Zenon
    DEF TryPop, ring, flags, conds, WakeInv, TypeOK, ArgOK, NoLostWakeup
  <2>2. CASE num_items # 0 /\ Take(tail, queue[tail].ptr)
    BY <1>6, <2>2, TakeOldestWake, Zenon DEF TryPop
  <2> QED
    BY <1>6, <2>1, <2>2, Zenon DEF TryPop
<1>7. ASSUME NEW t \in Threads, Pop(t) \/ PopResume(t) PROVE WakeInv'
  BY <1>7, PopSectionWake, Zenon DEF Pop, PopResume
<1>8. ASSUME NEW t \in Threads, PopLast(t) \/ PopLastResume(t) PROVE WakeInv'
  BY <1>8, PopLastSectionWake, Zenon DEF PopLast, PopLastResume
<1>9. ASSUME NEW t \in Threads, TimedTake(t), UNCHANGED <<flags, arg, push_ret>>
      PROVE  WakeInv'
  <2>1. CASE UNCHANGED <<ring, conds, got>>
    BY <1>9, <2>1, Zenon
    DEF TimedTake, Goto, Locations, ring, flags, conds,
        WakeInv, TypeOK, ArgOK, NoLostWakeup
  <2>2. CASE ~pop_break_flag /\ num_items # 0 /\ Take(tail, queue[tail].ptr)
    BY <1>9, <2>2, TakeOldestWake, Zenon DEF TimedTake
  <2> QED
    BY <1>9, <2>1, <2>2, Zenon DEF TimedTake
<1>10. ASSUME NEW t \in Threads, TryPopTimeout(t) PROVE WakeInv'
  <2>1. CASE /\ num_items = 0
             /\ ~pop_break_flag
             /\ not_empty_cond' = not_empty_cond \cup {t}
             /\ Goto(t, "pop_timed")
             /\ UNCHANGED <<ring, not_full_cond, got>>
    BY <1>10, <2>1, Zenon
    DEF TryPopTimeout, Goto, Locations, ring, flags,
        WakeInv, TypeOK, ArgOK, NoLostWakeup
  <2> QED
    BY <1>9, <1>10, <2>1, Zenon DEF TryPopTimeout
<1>11. ASSUME NEW t \in Threads, TryPopTimeoutWoken(t) PROVE WakeInv'
  BY <1>9, <1>11, Zenon DEF TryPopTimeoutWoken
<1>12. ASSUME NEW t \in Threads, TryPopTimeoutExpired(t) PROVE WakeInv'
  BY <1>12, Zenon
  DEF TryPopTimeoutExpired, Goto, Locations, ring, flags,
      WakeInv, TypeOK, ArgOK, NoLostWakeup
<1>13. ASSUME NEW t \in Threads, BreakPop(t) \/ BreakPush(t) PROVE WakeInv'
  <2>1. pop_break_flag' \in BOOLEAN /\ push_break_flag' \in BOOLEAN
    BY <1>13, Zenon DEF BreakPop, BreakPush, WakeInv, TypeOK
  <2>2. TypeOK'
    BY <1>13, <2>1, ZenonT(40) DEF BreakPop, BreakPush, ring, WakeInv, TypeOK
  <2>3. ArgOK' /\ NoLostWakeup'
    BY <1>13, SMTT(40) DEF BreakPop, BreakPush, ring, WakeInv, ArgOK, NoLostWakeup
  <2> QED
    BY <2>2, <2>3, Zenon DEF WakeInv
<1>14. ASSUME NEW t \in Threads, Clear(t) PROVE WakeInv'
  <2>1. 0 \in Index /\ 0 \in 0 .. SizeMod - 1
    BY SizeAssumption, LensAssumption, SMTT(40) DEF Index
  <2> QED
    BY <1>14, <2>1, SMTT(40) DEF Clear, WakeInv, TypeOK, ArgOK, NoLostWakeup
<1>15. ASSUME NEW t \in Threads, SpuriousWakeup(t) PROVE WakeInv'
  BY <1>15, Zenon
  DEF SpuriousWakeup, ring, flags, WakeInv, TypeOK, ArgOK, NoLostWakeup
<1> QED
  BY ZenonT(40), <1>1, <1>2, <1>3, <1>4, <1>5, <1>6, <1>7, <1>8, <1>10, <1>11, <1>12,
     <1>13, <1>14, <1>15
  DEF Next, Call, Continue

(* Whatever its clients call, the queue keeps its types and nobody sleeps   *)
(* through the event it waits for: every push and pop of block_queue.c      *)
(* broadcasts what the other side may be asleep on.                         *)
THEOREM WakeupsNeverLost == Spec => []TypeOK /\ []NoLostWakeup
<1>1. WakeInv => TypeOK /\ NoLostWakeup
  BY Zenon DEF WakeInv
<1> QED
  BY <1>1, WakeInvInit, WakeInvNext, PTL DEF Spec

-----------------------------------------------------------------------------
(* Whoever was refused was refused by the flag, and nothing takes it back. *)
RefusedInv ==
  /\ pc \in [Threads -> Locations] /\ push_ret \in [Threads -> BOOLEAN]
  /\ \A t \in Threads : pc[t] = "push_broken" => push_break_flag = TRUE

LEMMA FlagStays ==
  ASSUME [Next]_vars, push_break_flag = TRUE
  PROVE  push_break_flag' = TRUE
  BY ZenonT(30) DEF Next, Call, Continue, Push, PushResume, PushSection, PushReturn, TryPush, TryPop,
         Pop, PopResume, PopSection, PopLast, PopLastResume, PopLastSection, TryPopTimeout,
         TryPopTimeoutWoken, TryPopTimeoutExpired, BreakPop, BreakPush, Clear,
         SpuriousWakeup, flags, vars

(* A step that only sends a thread somewhere other than to "push_broken". *)
LEMMA RefusedKept ==
  ASSUME RefusedInv, [Next]_vars, push_ret' = push_ret,
         pc' = pc \/ \E t \in Threads, l \in Locations \ {"push_broken"} : Goto(t, l)
  PROVE  RefusedInv'
<1>1. pc' \in [Threads -> Locations]
  BY Zenon DEF RefusedInv, Goto
<1>2. \A t \in Threads : pc'[t] = "push_broken" => pc[t] = "push_broken"
  BY Zenon DEF RefusedInv, Goto
<1>3. \A t \in Threads : pc[t] = "push_broken" => push_break_flag' = TRUE
  BY FlagStays, Zenon DEF RefusedInv
<1> QED
  BY <1>1, <1>2, <1>3, Zenon DEF RefusedInv

LEMMA RefusedInvNext == RefusedInv /\ [Next]_vars => RefusedInv'
<1> SUFFICES ASSUME RefusedInv, [Next]_vars PROVE RefusedInv'
  BY Zenon
<1> USE DEF Locations
<1>1. CASE UNCHANGED vars
  BY <1>1, RefusedKept, Zenon DEF vars
<1>2. ASSUME NEW t \in Threads, NEW e, PushSection(t, e) PROVE RefusedInv'
  <2>1. push_ret' = push_ret
    BY <1>2, Zenon DEF PushSection
  <2>2. CASE push_break_flag /\ Goto(t, "push_broken") /\ UNCHANGED flags
    <3>1. pc' = [pc EXCEPT ![t] = "push_broken"] /\ push_break_flag' = push_break_flag
      BY <2>2, Zenon DEF Goto, flags
    <3>2. pc' \in [Threads -> Locations]
      BY <3>1, Zenon DEF RefusedInv
    <3>3. push_break_flag' = TRUE
      BY FlagStays, <2>2, Zenon DEF PushSection, flags
    <3> QED
      BY <2>1, <3>2, <3>3, Zenon DEF RefusedInv
  <2>3. CASE Goto(t, "push") \/ Goto(t, "push_stored")
    BY <2>1, <2>3, RefusedKept, Zenon
  <2> QED
    BY <1>2, <2>2, <2>3, Zenon DEF PushSection
<1>3. ASSUME NEW t \in Threads, PushReturn(t) PROVE RefusedInv'
  <2>1. pc' = [pc EXCEPT ![t] = "idle"] /\ push_break_flag' = push_break_flag
    BY <1>3, Zenon DEF PushReturn, Goto, flags
  <2>2. push_ret' \in [Threads -> BOOLEAN]
    BY <1>3, Zenon DEF PushReturn, RefusedInv
  <2>3. pc' \in [Threads -> Locations]
    BY <2>1, Zenon DEF RefusedInv
  <2>4. \A u \in Threads : pc'[u] = "push_broken" => pc[u] = "push_broken"
    BY <2>1, Zenon DEF RefusedInv
  <2> QED
    BY <2>1, <2>2, <2>3, <2>4, Zenon DEF RefusedInv
<1>4. ASSUME NEW t \in Threads, PopSection(t) \/ PopLastSection(t) PROVE RefusedInv'
  BY <1>4, RefusedKept, Zenon DEF PopSection, PopLastSection
<1>5. ASSUME NEW t \in Threads,
             TryPopTimeout(t) \/ TryPopTimeoutWoken(t) \/ TryPopTimeoutExpired(t)
      PROVE  RefusedInv'
  BY <1>5, RefusedKept, Zenon DEF TryPopTimeout, TryPopTimeoutWoken, TryPopTimeoutExpired, TimedTake
<1>6. ASSUME NEW t \in Threads,
             \/ \E e \in Entries : TryPush(t, e)
             \/ TryPop(t) \/ BreakPop(t) \/ BreakPush(t) \/ Clear(t) \/ SpuriousWakeup(t)
      PROVE  RefusedInv'
  BY <1>6, RefusedKept, Zenon DEF TryPush, TryPop, BreakPop, BreakPush, Clear, SpuriousWakeup
<1> QED
  BY <1>1, <1>2, <1>3, <1>4, <1>5, <1>6, ZenonT(40)
  DEF Next, Call, Continue, Push, PushResume, Pop, PopResume, PopLast, PopLastResume

(* A thread leaves the refused push only by its return, which reads the     *)
(* flag a second time.                                                      *)
LEMMA RefusedReturns ==
  ASSUME RefusedInv, [Next]_vars, NEW t \in Threads, pc[t] = "push_broken", pc'[t] = "idle"
  PROVE  push_ret'[t] = FALSE
<1>1. push_break_flag = TRUE
  BY Zenon DEF RefusedInv
<1>2. ASSUME NEW u \in Threads, NEW l, Goto(u, l), pc[u] # "push_broken" PROVE FALSE
  BY <1>2, Zenon DEF Goto, RefusedInv
<1>3. pc' # pc
  BY Zenon
<1>4. ASSUME NEW u \in Threads, Call(u) PROVE FALSE
  BY <1>2, <1>3, <1>4, Zenon
  DEF Call, May, Push, PushSection, TryPush, Pop, PopSection, TryPop, TryPopTimeout, TimedTake,
      PopLast, PopLastSection, BreakPop, BreakPush, Clear
<1>5. ASSUME NEW u \in Threads,
             \/ PushResume(u) \/ PopResume(u) \/ PopLastResume(u)
             \/ TryPopTimeoutWoken(u) \/ TryPopTimeoutExpired(u) \/ SpuriousWakeup(u)
      PROVE  FALSE
  BY <1>2, <1>3, <1>5, Zenon
  DEF PushResume, PushSection, PopResume, PopSection, PopLastResume, PopLastSection,
      TryPopTimeoutWoken, TryPopTimeoutExpired, TimedTake, SpuriousWakeup
<1>6. PICK u \in Threads : PushReturn(u)
  BY <1>3, <1>4, <1>5, Zenon DEF Next, Continue, vars
<1>7. u = t
  BY <1>6, Zenon DEF PushReturn, Goto, RefusedInv
<1> QED
  BY <1>1, <1>6, <1>7, Zenon DEF PushReturn, RefusedInv

(* A push of block_queue.c that refused its item never reports success,     *)
(* although it reads push_break_flag again after the unlock and whatever    *)
(* the other threads call in between.                                       *)
THEOREM RefusedPushTheorem == Spec => RefusedPushFails
<1>1. Init => RefusedInv
  BY Zenon DEF Init, RefusedInv, Locations
<1>2. RefusedInv /\ [Next]_vars =>
        [\A t \in Threads : pc[t] = "push_broken" /\ pc'[t] = "idle" => ~push_ret'[t]]_vars
  BY RefusedReturns, Zenon
<1> QED
  BY <1>1, <1>2, RefusedInvNext, PTL DEF Spec, RefusedPushFails

-----------------------------------------------------------------------------
(* The strengthening under which the FIFO facts are inductive. *)
FifoInv == /\ WakeInv
           /\ NumItemsExact
           /\ ~pop_break_flag
           /\ \A t \in Threads : pc[t] # "pop_last"

(* The slots behind tail, up to the capacity, are slots of the ring. *)
LEMMA SlotRange ==
  ASSUME TypeOK, NEW i \in 0 .. Size
  PROVE  Slot(i) \in Index
<1>1. tail \in 0 .. Size - 1
  BY Zenon DEF TypeOK, Index
<1>2. Wrap(Size, tail, i) \in 0 .. Size - 1
  BY <1>1, SizeAssumption, WrapRange, Zenon
<1> QED
  BY <1>2, Zenon DEF Slot, Wrap, Index

(* Contents is a sequence of as many pointers as num_items says. *)
LEMMA ContentsSeq ==
  ASSUME TypeOK, NumItemsExact
  PROVE  /\ Contents \in Seq(Items \cup {NULL})
         /\ Len(Contents) = num_items
<1>1. num_items \in Nat /\ num_items <= Size
  BY SizeAssumption, SMTT(40) DEF NumItemsExact
<1>2. \A i \in 1 .. num_items : queue[Slot(i - 1)].ptr \in Items \cup {NULL}
  <2> SUFFICES ASSUME NEW i \in 1 .. num_items
               PROVE  queue[Slot(i - 1)].ptr \in Items \cup {NULL}
    BY Zenon
  <2>1. i - 1 \in 0 .. Size
    BY <1>1, SizeAssumption, SMTT(40)
  <2> QED
    BY <2>1, SlotRange, SlotPtr, Zenon
<1>3. Contents \in [1 .. num_items -> Items \cup {NULL}]
  BY <1>2, Zenon DEF Contents
<1> QED
  BY <1>1, <1>3, FcnSeq, Zenon

(* While there is room, the next push does not hit a slot that is in use. *)
LEMMA SlotsBeforeHead ==
  ASSUME TypeOK, NumItemsExact, num_items # Size
  PROVE  \A i \in 1 .. num_items : Slot(i - 1) \in Index /\ Slot(i - 1) # head
<1>1. num_items \in 0 .. Size - 1 /\ tail \in 0 .. Size - 1
  BY SizeAssumption, CountUp, Zenon DEF NumItemsExact, TypeOK, Index
<1>2. \A i \in 1 .. num_items : /\ Wrap(Size, tail, i - 1) \in 0 .. Size - 1
                                /\ Wrap(Size, tail, i - 1) # Wrap(Size, tail, num_items)
  BY <1>1, SizeAssumption, WrapApart, Zenon
<1>3. head = Wrap(Size, tail, num_items)
  BY Zenon DEF NumItemsExact, Slot, Wrap
<1>4. \A i : Slot(i) = Wrap(Size, tail, i)
  BY Zenon DEF Slot, Wrap
<1> QED
  BY <1>2, <1>3, <1>4, Zenon DEF Index

(* A store into a queue that is not full appends to its contents. *)
LEMMA StoreAppends ==
  ASSUME TypeOK, NumItemsExact, NEW e \in Entries, num_items # Size, Store(e)
  PROVE  /\ NumItemsExact'
         /\ Contents' = Append(Contents, e.ptr)
<1>1. num_items \in 0 .. Size - 1 /\ num_items' = num_items + 1 /\ tail' = tail
  BY SizeAssumption, CountUp, Zenon DEF NumItemsExact, Store
<1>2. NumItemsExact'
  <2>1. num_items' \in 0 .. Size /\ head \in 0 .. Size - 1 /\ tail \in 0 .. Size - 1
    BY <1>1, SizeAssumption, CountUp, Zenon DEF NumItemsExact, TypeOK, Index
  <2>2. head = Wrap(Size, tail, num_items)
    BY Zenon DEF NumItemsExact, Slot, Wrap
  <2>3. (IF head = Size - 1 THEN 0 ELSE head + 1) = Wrap(Size, tail, num_items + 1)
    <3>1. /\ head = Size - 1 => Wrap(Size, tail, num_items + 1) = 0
          /\ head # Size - 1 => Wrap(Size, tail, num_items + 1) = head + 1
      BY <1>1, <2>1, <2>2, SizeAssumption, WrapStep, Zenon
    <3> QED
      BY <3>1, Zenon
  <2>4. head' = Wrap(Size, tail, num_items + 1)
    BY <2>3, Zenon DEF Store, Inc
  <2> QED
    BY <1>1, <2>1, <2>4, Zenon DEF NumItemsExact, Slot, Wrap
<1>3. \A i \in 1 .. num_items :
        Slot(i - 1) \in Index /\ Slot(i - 1) # head /\ Slot(i - 1)' = Slot(i - 1)
  BY <1>1, SlotsBeforeHead, Zenon DEF Slot
<1>4. \A i \in 1 .. num_items : queue'[Slot(i - 1)'].ptr = queue[Slot(i - 1)].ptr
  BY <1>3, Zenon DEF Store, TypeOK
<1>5. ASSUME NEW i \in Int, i = num_items + 1
      PROVE  queue'[Slot(i - 1)'].ptr = e.ptr
  <2>1. Slot(i - 1)' = head
    BY <1>1, <1>5, SMTT(40) DEF NumItemsExact, Slot
  <2> QED
    BY <2>1, Zenon DEF Store, TypeOK
<1>6. Contents \in Seq(Items \cup {NULL}) /\ Len(Contents) = num_items
  BY ContentsSeq, Zenon
<1>7. Contents' = Append(Contents, e.ptr)
  <2>1. Contents' = [i \in 1 .. num_items + 1 |-> queue'[Slot(i - 1)'].ptr]
    BY <1>1, Zenon DEF Contents
  <2>2. Append(Contents, e.ptr)
          = [i \in 1 .. num_items + 1 |-> IF i = num_items + 1 THEN e.ptr ELSE Contents[i]]
    BY <1>6, SMTT(40)
  <2>3. \A i \in 1 .. num_items + 1 :
          queue'[Slot(i - 1)'].ptr
            = IF i = num_items + 1 THEN e.ptr ELSE Contents[i]
    <3> SUFFICES ASSUME NEW i \in 1 .. num_items + 1
                 PROVE  queue'[Slot(i - 1)'].ptr = IF i = num_items + 1 THEN e.ptr ELSE Contents[i]
      BY Zenon
    <3>1. i \in Int /\ (i = num_items + 1 \/ i \in 1 .. num_items)
      BY <1>6, SeqIs, UpTo, Zenon
    <3>2. CASE i = num_items + 1
      BY <1>5, <3>1, <3>2, Zenon
    <3>3. CASE i # num_items + 1
      BY <1>4, <3>1, <3>3, Zenon DEF Contents
    <3> QED
      BY <3>2, <3>3, Zenon
  <2> QED
    BY <2>1, <2>2, <2>3, Zenon
<1> QED
  BY <1>2, <1>7, Zenon

(* After a removal at tail every slot is one nearer to tail. *)
LEMMA SlotsShift ==
  ASSUME TypeOK, NumItemsExact, num_items # 0, Take(tail, queue[tail].ptr)
  PROVE  \A i \in 1 .. num_items - 1 : Slot(i - 1)' = Slot(i)
<1>1. tail \in 0 .. Size - 1 /\ tail' = IF tail = Size - 1 THEN 0 ELSE tail + 1
  BY Zenon DEF TypeOK, Index, Take, Inc
<1>2. \A i \in 1 .. Size : Wrap(Size, tail', i - 1) = Wrap(Size, tail, i)
  BY <1>1, SizeAssumption, WrapNext, Zenon
<1>3. \A i \in 1 .. num_items - 1 : i \in 1 .. Size
  BY SizeAssumption, SMTT(40) DEF NumItemsExact
<1> QED
  BY <1>2, <1>3, Zenon DEF Slot, Wrap

(* A removal at tail of a queue that is not empty takes the oldest item. *)
LEMMA TakeRemovesHead ==
  ASSUME TypeOK, NumItemsExact, num_items # 0, Take(tail, queue[tail].ptr)
  PROVE  /\ NumItemsExact'
         /\ Contents # <<>>
         /\ got' = Head(Contents)
         /\ Contents' = Tail(Contents)
<1>1. num_items \in 1 .. Size /\ num_items' = num_items - 1 /\ tail' = Inc(tail)
  BY SizeAssumption, CountDown, Zenon DEF NumItemsExact, Take
<1>2. NumItemsExact'
  <2>1. num_items' \in 0 .. Size /\ tail \in 0 .. Size - 1
    BY <1>1, SizeAssumption, CountDown, Zenon DEF NumItemsExact, TypeOK, Index
  <2>2. Wrap(Size, tail', num_items - 1) = Wrap(Size, tail, num_items)
    BY <1>1, <2>1, SizeAssumption, WrapNext, Zenon DEF Inc
  <2>3. head' = Wrap(Size, tail', num_items')
    BY <1>1, <2>2, Zenon DEF NumItemsExact, Take, Slot, Wrap
  <2> QED
    BY <2>1, <2>3, Zenon DEF NumItemsExact, Slot, Wrap
<1>3. Contents \in Seq(Items \cup {NULL}) /\ Len(Contents) = num_items
  BY ContentsSeq, Zenon
<1>4. Contents # <<>>
  BY <1>1, <1>3, SMTT(40)
<1>5. got' = Head(Contents)
  <2>1. Slot(0) = tail /\ 1 - 1 = 0
    BY SizeAssumption, SMTT(40) DEF Slot, TypeOK, Index
  <2>2. Contents[1] = queue[tail].ptr
    BY <2>1, SizeAssumption, CountDown, Zenon DEF NumItemsExact, Contents
  <2>3. got' = queue[tail].ptr
    BY Zenon DEF Take
  <2> QED
    BY <1>3, <1>4, <2>2, <2>3, TailIs, ZenonT(40)
<1>6. Contents' = Tail(Contents)
  <2>1. Contents' = [i \in 1 .. num_items - 1 |-> queue[Slot(i - 1)'].ptr]
    BY <1>1, Zenon DEF Contents, Take
  <2>2. Tail(Contents) = [i \in 1 .. num_items - 1 |-> Contents[i + 1]]
    <3>1. /\ Tail(Contents) \in Seq(Items \cup {NULL})
          /\ Len(Tail(Contents)) = num_items - 1
          /\ \A i \in 1 .. num_items - 1 : Tail(Contents)[i] = Contents[i + 1]
      BY <1>3, <1>4, TailIs, Zenon
    <3>2. Tail(Contents) \in [1 .. num_items - 1 -> Items \cup {NULL}]
      BY <3>1, SeqIs, Zenon
    <3> QED
      BY <3>1, <3>2, Zenon
  <2>3. \A i \in 1 .. num_items - 1 : Slot(i - 1)' = Slot(i)
    BY SlotsShift, Zenon
  <2>4. \A i \in 1 .. num_items - 1 : Contents[i + 1] = queue[Slot(i)].ptr
    BY <1>1, SMTT(40) DEF Contents
  <2> QED
    BY <2>1, <2>2, <2>3, <2>4, Zenon
<1> QED
  BY <1>2, <1>4, <1>5, <1>6, ZenonT(40)

(* A step that leaves the ring and got alone leaves the abstract queue alone. *)
LEMMA RingUnchanged ==
  ASSUME UNCHANGED <<ring, got>>
  PROVE  UNCHANGED AQ!avars /\ (NumItemsExact => NumItemsExact')
  BY Zenon DEF ring, Contents, Slot, NumItemsExact, AQ!avars

(* One step of a queue that is only used as a FIFO: the strengthened        *)
(* invariant is kept and the abstract queue takes a step or stutters.       *)
LEMMA FifoStep ==
  ASSUME FifoUse, FifoInv, [Next]_vars
  PROVE  FifoInv' /\ [AQ!Next]_(AQ!avars)
<1> DEFINE Kept == NumItemsExact' /\ [AQ!Next]_(AQ!avars)
<1>0. TypeOK /\ NumItemsExact /\ ~pop_break_flag
  BY Zenon DEF FifoInv, WakeInv
<1>1. ASSUME NEW e \in Entries, num_items # Size, Store(e), got' = got
      PROVE  Kept
  <2>1. NumItemsExact' /\ Contents' = Append(Contents, e.ptr)
    BY <1>0, <1>1, StoreAppends, Zenon
  <2>2. Len(Contents) < Size
    BY <1>0, <1>1, ContentsSeq, SizeAssumption, SMTT(40) DEF NumItemsExact
  <2>3. e.ptr \in Items
    BY Zenon DEF Entries
  <2>4. AQ!Put(e.ptr)
    BY <1>1, <2>1, <2>2, Zenon DEF AQ!Put
  <2> QED
    BY <2>1, <2>3, <2>4, Zenon DEF AQ!Next
<1>2. ASSUME num_items # 0, Take(tail, queue[tail].ptr)
      PROVE  Kept
  <2>1. NumItemsExact' /\ AQ!Get
    BY <1>0, <1>2, TakeRemovesHead, Zenon DEF AQ!Get
  <2> QED
    BY <2>1, Zenon DEF AQ!Next
<1>3. ASSUME UNCHANGED <<ring, got>> PROVE Kept
  BY <1>0, <1>3, RingUnchanged, Zenon
<1> DEFINE Unbroken == ~pop_break_flag' /\ \A u \in Threads : pc'[u] # "pop_last"
<1>4. ASSUME NEW t \in Threads, NEW l \in Locations \ {"pop_last"}, Goto(t, l),
             ~pop_break_flag'
      PROVE  Unbroken
  BY <1>0, <1>4, Zenon DEF FifoInv, TypeOK, Goto
<1>5. ASSUME pc' = pc, ~pop_break_flag' PROVE Unbroken
  BY <1>5, Zenon DEF FifoInv
<1>a. {"idle", "pop", "pop_timed"} \subseteq Locations \ {"pop_last"}
  BY DEF Locations
<1>b. ASSUME NEW t \in Threads, ~pop_break_flag', Goto(t, "idle") \/ Goto(t, "pop") \/ Goto(t, "pop_timed")
      PROVE  Unbroken
  BY <1>4, <1>a, <1>b, Zenon
<1>6. ASSUME NEW t \in Threads, NEW e \in Entries, PushSection(t, e)
      PROVE  Kept /\ Unbroken
  <2>1. Kept
    BY <1>1, <1>3, <1>6, Zenon DEF PushSection
  <2>2. Unbroken
    BY <1>0, <1>4, <1>6, Zenon DEF PushSection, flags, Locations
  <2> QED
    BY <2>1, <2>2, Zenon
<1>7. ASSUME NEW t \in Threads, PushResume(t) PROVE Kept /\ Unbroken
  <2>1. arg[t] \in Entries
    BY <1>7, ZenonT(40) DEF PushResume, FifoInv, WakeInv, ArgOK
  <2> QED
    BY <1>6, <1>7, <2>1, Zenon DEF PushResume
<1>8. ASSUME NEW t \in Threads, PushReturn(t) \/ TryPopTimeoutExpired(t)
      PROVE  Kept /\ Unbroken
  <2>1. Kept
    BY <1>3, <1>8, Zenon DEF PushReturn, TryPopTimeoutExpired
  <2>2. Goto(t, "idle")
    BY <1>8, Zenon DEF PushReturn, TryPopTimeoutExpired
  <2>3. ~pop_break_flag'
    BY <1>0, <1>8, SMTT(40) DEF PushReturn, TryPopTimeoutExpired, flags
  <2> QED
    BY <1>b, <2>1, <2>2, <2>3, Zenon
<1>9. ASSUME NEW t \in Threads, NEW e \in Entries, TryPush(t, e)
      PROVE  Kept /\ Unbroken
  BY <1>0, <1>1, <1>3, <1>5, <1>9, Zenon DEF TryPush, flags
<1>10. ASSUME NEW t \in Threads, TryPop(t) PROVE Kept /\ Unbroken
  BY <1>0, <1>2, <1>3, <1>5, <1>10, Zenon DEF TryPop, flags
<1>11. ASSUME NEW t \in Threads, PopSection(t) PROVE Kept /\ Unbroken
  <2>1. Kept
    BY <1>0, <1>2, <1>3, <1>11, ZenonT(40) DEF PopSection
  <2>2. Goto(t, "idle") \/ Goto(t, "pop")
    BY <1>11, Zenon DEF PopSection
  <2>3. ~pop_break_flag'
    BY <1>0, <1>11, SMTT(40) DEF PopSection
  <2> QED
    BY <1>b, <2>1, <2>2, <2>3, Zenon
<1>12. ASSUME NEW t \in Threads, PopLast(t) \/ BreakPop(t) \/ Clear(t) PROVE FALSE
  BY <1>12, Zenon DEF FifoUse, PopLast, BreakPop, Clear, May
<1>13. ASSUME NEW t \in Threads, PopLastResume(t) PROVE FALSE
  BY <1>13, Zenon DEF FifoInv, PopLastResume
<1>14. ASSUME NEW t \in Threads, TryPopTimeout(t) \/ TryPopTimeoutWoken(t)
       PROVE  Kept /\ Unbroken
  <2>1. Kept
    BY <1>0, <1>2, <1>3, <1>14, ZenonT(40) DEF TryPopTimeout, TryPopTimeoutWoken, TimedTake
  <2>2. Goto(t, "idle") \/ Goto(t, "pop_timed")
    BY <1>14, Zenon DEF TryPopTimeout, TryPopTimeoutWoken, TimedTake
  <2>3. ~pop_break_flag'
    BY <1>0, <1>14, SMTT(40) DEF TryPopTimeout, TryPopTimeoutWoken, flags
  <2> QED
    BY <1>b, <2>1, <2>2, <2>3, Zenon
<1>15. ASSUME NEW t \in Threads, BreakPush(t) \/ SpuriousWakeup(t)
       PROVE  Kept /\ Unbroken
  BY <1>0, <1>3, <1>5, <1>15, ZenonT(40) DEF BreakPush, SpuriousWakeup, flags
<1>16. ASSUME UNCHANGED vars PROVE Kept /\ Unbroken
  BY <1>0, <1>3, <1>5, <1>16, Zenon DEF vars, flags
<1>17. Kept /\ Unbroken
  BY <1>6, <1>7, <1>8, <1>9, <1>10, <1>11, <1>12, <1>13, <1>14, <1>15, <1>16, ZenonT(40)
  DEF Next, Call, Continue, Push, Pop, PopResume
<1> QED
  BY <1>17, WakeInvNext, Zenon DEF FifoInv

LEMMA FifoInit ==
  ASSUME Init
  PROVE  FifoInv /\ AQ!Init
<1>1. NumItemsExact
  BY SizeAssumption, SMTT(40) DEF Init, NumItemsExact, Slot
<1>2. Contents = <<>>
  BY DEF Init, Contents
<1> QED
  BY <1>1, <1>2, WakeInvInit, ZenonT(40) DEF Init, FifoInv, AQ!Init

(* As long as nobody breaks a pop, clears the queue or pops the newest item, *)
(* num_items is exactly the number of queued elements, whatever the ring     *)
(* size, the number of producers and of consumers and their interleaving.    *)
THEOREM NumItemsTheorem ==
  ASSUME FifoUse
  PROVE  Spec => []NumItemsExact
<1>1. Init => FifoInv
  BY FifoInit, Zenon
<1>2. FifoInv /\ [Next]_vars => FifoInv'
  BY FifoStep, Zenon
<1>3. FifoInv => NumItemsExact
  BY Zenon DEF FifoInv
<1> QED
  BY <1>1, <1>2, <1>3, PTL DEF Spec

(* Under the same use the queue implements the abstract bounded FIFO: items  *)
(* leave in the order of their pushes, each exactly once.                    *)
THEOREM FifoTheorem ==
  ASSUME FifoUse
  PROVE  Spec => ImplementsFifo
<1>1. Init => FifoInv /\ AQ!Init
  BY FifoInit, Zenon
<1>2. FifoInv /\ [Next]_vars => FifoInv' /\ [AQ!Next]_(AQ!avars)
  BY FifoStep, Zenon
<1> QED
  BY <1>1, <1>2, PTL DEF Spec, ImplementsFifo, AQ!Spec

-----------------------------------------------------------------------------

(* An element of the ring has a length. *)
LEMMA SlotLen ==
  ASSUME TypeOK, NEW i \in Index
  PROVE  queue[i].len \in Nat
<1>1. queue[i] \in Slots
  BY Zenon DEF TypeOK
<1>2. queue[i].len \in Lens \cup {0}
  BY <1>1, Zenon DEF Slots
<1>3. \A x \in Lens : x \in Nat
  BY LensAssumption, Zenon
<1>4. 0 \in Nat
  BY SMTT(40)
<1> QED
  BY <1>2, <1>3, <1>4, Zenon

(* Lengths is a sequence of as many numbers as num_items says. *)
LEMMA LengthsSeq ==
  ASSUME TypeOK, NumItemsExact
  PROVE  /\ Lengths \in Seq(Nat)
         /\ Len(Lengths) = num_items
<1>1. num_items \in Nat /\ num_items <= Size
  BY SizeAssumption DEF NumItemsExact
<1>2. \A i \in 1 .. num_items : queue[Slot(i - 1)].len \in Nat
  <2> SUFFICES ASSUME NEW i \in 1 .. num_items
               PROVE  queue[Slot(i - 1)].len \in Nat
    BY Zenon
  <2>1. i - 1 \in 0 .. Size
    BY <1>1, SizeAssumption
  <2> QED
    BY <2>1, SlotRange, SlotLen, Zenon
<1>3. Lengths \in [1 .. num_items -> Nat]
  BY <1>2, Zenon DEF Lengths
<1> QED
  BY <1>1, <1>3, FcnSeq, Zenon

(* The same after a step. *)
LEMMA LengthsSeqNext ==
  ASSUME TypeOK', NumItemsExact'
  PROVE  /\ Lengths' \in Seq(Nat)
         /\ Len(Lengths') = num_items'
<1>1. num_items' \in Nat /\ num_items' <= Size
  BY SizeAssumption DEF NumItemsExact
<1>2. \A i \in 1 .. num_items' : Slot(i - 1)' \in Index
  <2>1. tail' \in 0 .. Size - 1 /\ Size \in Nat
    BY SizeAssumption, Zenon DEF TypeOK, Index
  <2>2. \A n \in 0 .. Size - 1, i \in 1 .. Size :
          (IF n + (i - 1) < Size THEN n + (i - 1) ELSE n + (i - 1) - Size) \in 0 .. Size - 1
    BY <2>1, SMTT(40)
  <2>3. \A i \in 1 .. num_items' : i \in 1 .. Size
    BY <1>1, <2>1, SMTT(40)
  <2> QED
    BY <2>1, <2>2, <2>3, Zenon DEF Index, Slot
<1>3. \A j \in Index : queue'[j].len \in Nat
  <2>1. \A j \in Index : queue'[j] \in Slots
    BY Zenon DEF TypeOK
  <2>2. \A s \in Slots : s.len \in Lens \/ s.len = 0
    BY Zenon DEF Slots
  <2>3. 0 \in Nat /\ \A x \in Lens : x \in Nat
    BY LensAssumption, SMTT(40)
  <2> QED
    BY <2>1, <2>2, <2>3, Zenon
<1>4. \A i \in 1 .. num_items' : queue'[Slot(i - 1)'].len \in Nat
  BY <1>2, <1>3, Zenon
<1>5. Lengths' \in [1 .. num_items' -> Nat]
  BY <1>4, Zenon DEF Lengths
<1> QED
  BY <1>1, <1>5, FcnSeq, Zenon

(* A store adds its length to the total of the queued ones. *)
LEMMA StoreAdds ==
  ASSUME TypeOK, TypeOK', NumItemsExact, NEW e \in Entries, num_items # Size, Store(e)
  PROVE  Total(Lengths') = Total(Lengths) + e.len
<1>1. num_items \in 0 .. Size - 1 /\ num_items' = num_items + 1 /\ tail' = tail
  BY SizeAssumption, CountUp, Zenon DEF NumItemsExact, Store
<1>2. NumItemsExact'
  BY StoreAppends, ZenonT(40)
<1>3. \A i \in 1 .. num_items :
        Slot(i - 1) \in Index /\ Slot(i - 1) # head /\ Slot(i - 1)' = Slot(i - 1)
  BY <1>1, SlotsBeforeHead, Zenon DEF Slot
<1>4. \A i \in 1 .. num_items : queue'[Slot(i - 1)'].len = queue[Slot(i - 1)].len
  BY <1>3, ZenonT(40) DEF Store, TypeOK
<1>5. ASSUME NEW i \in Int, i = num_items + 1
      PROVE  queue'[Slot(i - 1)'].len = e.len
  <2>1. Slot(i - 1)' = head
    BY <1>1, <1>5, SMTT(40) DEF NumItemsExact, Slot
  <2> QED
    BY <2>1, Zenon DEF Store, TypeOK
<1>6. Lengths \in Seq(Nat) /\ Len(Lengths) = num_items
  BY LengthsSeq, Zenon
<1>7. Lengths' \in Seq(Nat) /\ Len(Lengths') = num_items'
  BY <1>2, LengthsSeqNext, Zenon
<1>8. e.len \in Nat
  BY LensAssumption, Zenon DEF Entries
<1> DEFINE i == num_items + 1
<1>n. num_items \in Nat
  BY <1>6, SeqIs, Zenon
<1>9. i \in 1 .. Len(Lengths) + 1 /\ Len(Lengths') = Len(Lengths) + 1
  BY <1>1, <1>6, <1>7, <1>n, UpTo, Zenon
<1>10. Lengths'[i] = e.len
  BY <1>1, <1>5, <1>n, UpTo, Zenon DEF Lengths
<1>11. \A j \in 1 .. i - 1 : Lengths'[j] = Lengths[j]
  <2>1. \A j \in 1 .. i - 1 : j \in 1 .. num_items /\ j \in 1 .. num_items'
    BY <1>1, <1>n, Before, Zenon
  <2> QED
    BY <1>4, <2>1, Zenon DEF Lengths
<1>12. \A j \in i + 1 .. Len(Lengths) + 1 : Lengths'[j] = Lengths[j - 1]
  BY <1>6, <1>n, UpTo, Zenon
<1> HIDE DEF i
<1> QED
  BY <1>6, <1>7, <1>8, <1>9, <1>10, <1>11, <1>12, TotalInsert, ZenonT(40)

(* A removal at tail takes the length of the oldest element from it. *)
LEMMA TakeSubtracts ==
  ASSUME TypeOK, TypeOK', NumItemsExact, num_items # 0, Take(tail, queue[tail].ptr)
  PROVE  Total(Lengths) = Total(Lengths') + queue[tail].len
<1>1. num_items \in 1 .. Size /\ num_items' = num_items - 1 /\ tail' = Inc(tail)
  BY SizeAssumption, CountDown, Zenon DEF NumItemsExact, Take
<1>2. NumItemsExact'
  BY TakeRemovesHead, Zenon
<1>3. Lengths \in Seq(Nat) /\ Len(Lengths) = num_items
  BY LengthsSeq, Zenon
<1>4. Lengths' \in Seq(Nat) /\ Len(Lengths') = num_items'
  BY <1>2, LengthsSeqNext, ZenonT(40)
<1>5. \A i \in 1 .. num_items - 1 : Slot(i - 1)' = Slot(i)
  BY SlotsShift, Zenon
<1>6. \A i \in 1 .. num_items - 1 : Lengths[i + 1] = queue[Slot(i)].len
  BY <1>1, SMTT(40) DEF Lengths
<1>7. Lengths' = [i \in 1 .. num_items - 1 |-> queue[Slot(i - 1)'].len]
  BY <1>1, Zenon DEF Lengths, Take
<1>8. \A i \in 1 .. Len(Lengths) - 1 : Lengths'[i] = Lengths[i + 1]
  BY <1>3, <1>5, <1>6, <1>7, ZenonT(40)
<1>9. Slot(0) = tail /\ 1 - 1 = 0
  BY SizeAssumption, SMTT(40) DEF Slot, TypeOK, Index
<1>10. Lengths[1] = queue[tail].len
  BY <1>9, SizeAssumption, CountDown, Zenon DEF NumItemsExact, Lengths
<1>11. 1 \in 1 .. Len(Lengths) /\ Len(Lengths') = Len(Lengths) - 1
  BY <1>1, <1>3, <1>4, SizeAssumption, CountDown, Zenon DEF NumItemsExact
<1>12. \A j \in 1 .. 1 - 1 : Lengths'[j] = Lengths[j]
  BY <1>3, SeqIs, UpTo, Zenon
<1>13. Total(Lengths) = Total(Lengths') + Lengths[1]
  BY <1>3, <1>4, <1>8, <1>11, <1>12, TotalRemove, Zenon
<1> QED
  BY <1>10, <1>13, ZenonT(40)

(* Quotient and remainder make up the number. *)
LEMMA DivMod ==
  ASSUME NEW m \in Nat \ {0}, NEW a \in Int
  PROVE  a = m * (a \div m) + (a % m)
  BY SMTT(40)

(* The remainder is unique. *)
LEMMA DivUnique ==
  ASSUME NEW m \in Nat \ {0}, NEW q \in Int, NEW k \in Int, NEW r \in 0 .. m - 1, NEW s \in 0 .. m - 1,
         m * q + r = m * k + s
  PROVE  r = s
<1>1. ASSUME NEW d \in Int, d >= 1 PROVE m * d >= m
  BY <1>1, SMTT(40)
<1>2. m * (q - k) = s - r /\ m * (k - q) = r - s
  BY SMTT(40)
<1>3. ~(q - k >= 1) /\ ~(k - q >= 1)
  BY <1>1, <1>2, SMTT(40)
<1>4. q = k
  BY <1>3, SMTT(40)
<1> QED
  BY <1>4, SMTT(40)

(* A remainder may be taken before a sum or a difference, too. *)
LEMMA ModSum ==
  ASSUME NEW m \in Nat \ {0}, NEW a \in Int, NEW b \in Int
  PROVE  /\ ((a % m) + b) % m = (a + b) % m
         /\ ((a % m) - b) % m = (a - b) % m
<1>1. ASSUME NEW c \in Int PROVE ((a % m) + c) % m = (a + c) % m
  <2> DEFINE d == (a % m) + c
             q == a \div m
             k == d \div m
             r == d % m
             l == (a + c) \div m
             s == (a + c) % m
  <2>1. a % m \in Int /\ d \in Int /\ q \in Int /\ a + c \in Int
    BY ModRange, SMTT(40)
  <2>2. a = m * q + (a % m)
    BY DivMod, Zenon
  <2>3. k \in Int /\ r \in 0 .. m - 1 /\ d = m * k + r
    <3> HIDE DEF d
    <3> QED BY <2>1, DivMod, ModRange, Zenon
  <2>4. l \in Int /\ s \in 0 .. m - 1 /\ a + c = m * l + s
    BY <2>1, DivMod, ModRange, Zenon
  <2>5. d = (a % m) + c
    BY SMTT(40)
  <2> HIDE DEF d, q, k, r, l, s
  <2>6. m * (q + k) + r = m * l + s
    <3>1. a + c = m * q + d
      BY <2>1, <2>2, <2>5, SMTT(40)
    <3>2. m * (q + k) = m * q + m * k
      BY <2>1, <2>3, SMTT(40)
    <3>3. m * q \in Int /\ m * k \in Int /\ m * l \in Int
      BY <2>1, <2>3, <2>4, SMTT(40)
    <3> QED
      BY <2>1, <2>3, <2>4, <3>1, <3>2, <3>3, SMTT(40)
  <2>7. q + k \in Int
    BY <2>1, <2>3, SMTT(40)
  <2>8. r = s
    BY <2>3, <2>4, <2>6, <2>7, DivUnique, ZenonT(40)
  <2> QED
    BY <2>8, Zenon DEF r, s, d
<1>2. b \in Int /\ -b \in Int
  BY SMTT(40)
<1>3. a - b = a + (-b) /\ (a % m) - b = (a % m) + (-b)
  BY ModRange, SMTT(40)
<1>4. ((a % m) + (-b)) % m = (a + (-b)) % m
  BY <1>1, <1>2, Zenon
<1> QED
  BY <1>1, <1>2, <1>3, <1>4, Zenon

(* So accumulated_items_len follows the total through every step. *)
LEMMA AccumulatedStep ==
  ASSUME FifoUse, FifoInv, AccumulatedExact, [Next]_vars
  PROVE  AccumulatedExact'
<1>0. TypeOK /\ NumItemsExact /\ ~pop_break_flag
  BY Zenon DEF FifoInv, WakeInv
<1>a. FifoInv' /\ TypeOK' /\ NumItemsExact'
  <2>1. FifoInv'
    BY FifoStep, Zenon
  <2> QED
    BY <2>1, Zenon DEF FifoInv, WakeInv
<1>b. Total(Lengths) \in Nat /\ Total(Lengths') \in Nat /\ SizeMod \in Nat \ {0}
  <2>1. Total(Lengths) \in Nat
    BY <1>0, LengthsSeq, TotalNat, Zenon
  <2>2. Total(Lengths') \in Nat
    BY <1>a, LengthsSeqNext, TotalNat, Zenon
  <2> QED
    BY <2>1, <2>2, LensAssumption, Zenon
<1>1. ASSUME NEW e \in Entries, num_items # Size, Store(e) PROVE AccumulatedExact'
  <2>1. Total(Lengths') = Total(Lengths) + e.len
    BY <1>0, <1>a, <1>1, StoreAdds, Zenon
  <2>2. accumulated_items_len' = (accumulated_items_len + e.len) % SizeMod
    BY <1>1, Zenon DEF Store
  <2>3. e.len \in Int /\ Total(Lengths) \in Int
    <3>1. e.len \in Nat
      BY LensAssumption, Zenon DEF Entries
    <3> QED
      BY <1>b, <3>1, SMTT(40)
  <2>4. ((Total(Lengths) % SizeMod) + e.len) % SizeMod = (Total(Lengths) + e.len) % SizeMod
    BY <1>b, <2>3, ModSum, Zenon
  <2> QED
    BY <2>1, <2>2, <2>4, Zenon DEF AccumulatedExact
<1>2. ASSUME num_items # 0, Take(tail, queue[tail].ptr) PROVE AccumulatedExact'
  <2>1. Total(Lengths) = Total(Lengths') + queue[tail].len
    BY <1>0, <1>a, <1>2, TakeSubtracts, Zenon
  <2>2. accumulated_items_len' = (accumulated_items_len - queue[tail].len) % SizeMod
    BY <1>2, Zenon DEF Take
  <2>3. queue[tail].len \in Nat
    BY <1>0, SlotLen, ZenonT(40) DEF TypeOK
  <2>4. queue[tail].len \in Int /\ Total(Lengths) \in Int /\ Total(Lengths) - queue[tail].len = Total(Lengths')
    BY <1>b, <2>1, <2>3, SMTT(40)
  <2>5. ((Total(Lengths) % SizeMod) - queue[tail].len) % SizeMod = (Total(Lengths) - queue[tail].len) % SizeMod
    BY <1>b, <2>4, ModSum, Zenon
  <2> QED
    BY <2>2, <2>4, <2>5, Zenon DEF AccumulatedExact
<1>3. ASSUME UNCHANGED ring PROVE AccumulatedExact'
  BY <1>3, Zenon DEF ring, AccumulatedExact, Lengths, Slot
<1>6. ASSUME NEW t \in Threads, NEW e \in Entries, PushSection(t, e) PROVE AccumulatedExact'
  BY <1>1, <1>3, <1>6, Zenon DEF PushSection
<1>7. ASSUME NEW t \in Threads, PushResume(t) PROVE AccumulatedExact'
  <2>1. arg[t] \in Entries
    BY <1>7, Zenon DEF PushResume, FifoInv, WakeInv, ArgOK
  <2> QED
    BY <1>6, <1>7, <2>1, Zenon DEF PushResume
<1>8. ASSUME NEW t \in Threads, PushReturn(t) \/ TryPopTimeoutExpired(t) PROVE AccumulatedExact'
  BY <1>3, <1>8, Zenon DEF PushReturn, TryPopTimeoutExpired
<1>9. ASSUME NEW t \in Threads, NEW e \in Entries, TryPush(t, e) PROVE AccumulatedExact'
  BY <1>1, <1>3, <1>9, Zenon DEF TryPush
<1>10. ASSUME NEW t \in Threads, TryPop(t) PROVE AccumulatedExact'
  BY <1>2, <1>3, <1>10, Zenon DEF TryPop
<1>11. ASSUME NEW t \in Threads, PopSection(t) PROVE AccumulatedExact'
  BY <1>0, <1>2, <1>3, <1>11, Zenon DEF PopSection
<1>12. ASSUME NEW t \in Threads, PopLast(t) \/ BreakPop(t) \/ Clear(t) PROVE FALSE
  BY <1>12, Zenon DEF FifoUse, PopLast, BreakPop, Clear, May
<1>13. ASSUME NEW t \in Threads, PopLastResume(t) PROVE FALSE
  BY <1>13, Zenon DEF FifoInv, PopLastResume
<1>14. ASSUME NEW t \in Threads, TryPopTimeout(t) \/ TryPopTimeoutWoken(t) PROVE AccumulatedExact'
  BY <1>0, <1>2, <1>3, <1>14, Zenon DEF TryPopTimeout, TryPopTimeoutWoken, TimedTake
<1>15. ASSUME NEW t \in Threads, BreakPush(t) \/ SpuriousWakeup(t) PROVE AccumulatedExact'
  BY <1>3, <1>15, Zenon DEF BreakPush, SpuriousWakeup
<1>16. ASSUME UNCHANGED vars PROVE AccumulatedExact'
  BY <1>3, <1>16, Zenon DEF vars
<1> QED
  BY <1>6, <1>7, <1>8, <1>9, <1>10, <1>11, <1>12, <1>13, <1>14, <1>15, <1>16, ZenonT(40)
  DEF Next, Call, Continue, Push, Pop, PopResume

(* Under the same use accumulated_items_len is the sum of the lengths of the *)
(* queued elements, modulo the width of size_t, whatever that width: no      *)
(* overflow on the way, however often, makes it differ.                      *)
THEOREM AccumulatedTheorem ==
  ASSUME FifoUse
  PROVE  Spec => []AccumulatedExact
<1>1. Init => FifoInv /\ AccumulatedExact
  <2> SUFFICES ASSUME Init PROVE AccumulatedExact
    BY FifoInit, Zenon
  <2>1. num_items = 0 /\ accumulated_items_len = 0
    BY Zenon DEF Init
  <2>2. Lengths \in Seq(Nat) /\ Len(Lengths) = 0
    BY <2>1, SMTT(40) DEF Lengths
  <2>3. Total(Lengths) = 0
    BY <2>2, TotalNat, Zenon
  <2>4. 0 % SizeMod = 0
    BY LensAssumption, SMTT(40)
  <2> QED
    BY <2>1, <2>3, <2>4, Zenon DEF AccumulatedExact
<1>2. FifoInv /\ AccumulatedExact /\ [Next]_vars => FifoInv' /\ AccumulatedExact'
  BY FifoStep, AccumulatedStep, Zenon
<1> QED
  BY <1>1, <1>2, PTL DEF Spec
=============================================================================
