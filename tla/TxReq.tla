------------------------------- MODULE TxReq --------------------------------
(***************************************************************************)
(* The transport-request channel of fsl_ipc_channel.c: the message goes    *)
(* into the ring by copy, its transport blocks and the ring's own counters *)
(* by a DMA list that fsl_user_dma.c builds and starts, and nobody waits.  *)
(* A call of fsl_ipc_send_tx_req is one step: until it starts the engine   *)
(* nothing of what it prepares is looked at, unless a transfer is still    *)
(* running, and then the engine follows the list it finds in memory.  The  *)
(* DSP is the consumer and external, as is the engine.                     *)
(***************************************************************************)
EXTENDS Naturals, Sequences

CONSTANTS TxSlots,          \* bd_ring_size
          MaxSg,            \* MAX_SG_ENTRIES of a scatter-gather list
          MAX_DMA_ENTRIES,
          MaxTx,            \* bound: requests sent
          MaxDmaFaults      \* bound: transfers the engine gives up

(* 128 and 144 in the code: a list always has room for the counters. *)
ASSUME TxAssumption ==
  /\ TxSlots \in Nat \ {0} /\ MaxSg \in Nat /\ MAX_DMA_ENTRIES \in Nat
  /\ MaxSg + 3 <= MAX_DMA_ENTRIES

VARIABLES producer, consumer,     \* producer_num and consumer_num of the ring
          lproducer, lconsumer,   \* the local numbers of the two sides
          txopen, txready,        \* producer open, channel configured
          txbuf,    \* message in each buffer of the ring
          lbuff,    \* which message's block each part of a linear buffer holds
          dmalist,  \* the descriptors in memory
          dmabusy, dmaat,         \* engine: busy, at which descriptor
          spareproducer, sparelocal, \* the two counters to be written
          inprocess,
          sent,     \* history: requests whose counters the list will write
          received, \* history: what the DSP has taken
          rude,     \* history: a request was sent over a running transfer
          slipped,  \* history: a transfer died between the two counters
          ntx, ndmafaults

chVars == <<producer, consumer, lproducer, lconsumer>>
engineVars == <<dmalist, dmabusy, dmaat>>
spareVars == <<spareproducer, sparelocal>>
txHistory == <<sent, received, rude, slipped>>
txVars == <<chVars, txopen, txready, txbuf, lbuff, engineVars, spareVars, inprocess,
            txHistory, ntx, ndmafaults>>

TxSlot == 0 .. TxSlots - 1
(* A descriptor that copies a block into a slot, and one without a block. *)
DataEntry(slot, part, m) ==
  [kind |-> "data", slot |-> slot, part |-> part, msg |-> m, eol |-> FALSE]
PlainEntry(kind) == [kind |-> kind, slot |-> 0, part |-> 0, msg |-> 0, eol |-> FALSE]
NoEntry == PlainEntry("none")

(* ipc_channel_attach_msg_ring: every descriptor gets a buffer of its own.  *)
ipc_channel_attach_msg_ring == [i \in TxSlot |-> i]

TxInit ==
  /\ producer = 0 /\ consumer = 0 /\ lproducer = 0 /\ lconsumer = 0
  /\ txopen = FALSE /\ txready = FALSE
  /\ txbuf = [i \in TxSlot |-> 0]
  /\ lbuff = [i \in TxSlot |-> [k \in 1 .. MaxSg |-> 0]]
  /\ dmalist = [i \in 1 .. MAX_DMA_ENTRIES |-> NoEntry]
  /\ dmabusy = FALSE /\ dmaat = 1
  /\ spareproducer = 0 /\ sparelocal = 0
  /\ inprocess = FALSE
  /\ sent = <<>> /\ received = <<>>
  /\ rude = FALSE /\ slipped = FALSE
  /\ ntx = 0 /\ ndmafaults = 0

-----------------------------------------------------------------------------
(* fsl_ipc_open_prod_ch on the channel. *)
OpenTx ==
  /\ ~txopen
  /\ txopen' = TRUE
  /\ UNCHANGED <<chVars, txready, txbuf, lbuff, engineVars, spareVars, inprocess, txHistory, ntx, ndmafaults>>

(* fsl_ipc_configure_txreq refuses a channel whose producer is not open,    *)
(* and sets the linear buffers, the spare area behind them and, behind      *)
(* that, the list (fsl_uspace_dma_init).                                    *)
fsl_ipc_configure_txreq ==
  /\ txopen /\ ~txready
  /\ txready' = TRUE
  /\ UNCHANGED <<chVars, txopen, txbuf, lbuff, engineVars, spareVars, inprocess, txHistory, ntx, ndmafaults>>

(* fsl_uspace_dma_add_entry for each in turn from a cleared list; what does *)
(* not fit is dropped, and nobody asks.                                     *)
fsl_uspace_dma_add_entry(entries) ==
  SubSeq(entries, 1, IF Len(entries) <= MAX_DMA_ENTRIES THEN Len(entries) ELSE MAX_DMA_ENTRIES)

(* fsl_uspace_dma_start marks the last descriptor, unless the engine runs. *)
fsl_uspace_dma_start(list, n) ==
  IF dmabusy THEN dmalist' = list /\ UNCHANGED <<dmabusy, dmaat>>
  ELSE /\ dmalist' = [list EXCEPT ![n].eol = TRUE]
       /\ dmabusy' = TRUE /\ dmaat' = 1

(* Mutant: the counters go first. *)
CountersFirst(m, n, virq) ==
  LET data == [k \in 1 .. n |-> DataEntry(lproducer, k, m)]
  IN <<PlainEntry("prod"), PlainEntry("local")>> \o data
       \o (IF virq THEN <<PlainEntry("virq")>> ELSE <<>>)

(* The list of fsl_ipc_send_tx_req: the blocks, producer_num, the local     *)
(* number, and the interrupt if the channel has one.                        *)
TxList(m, n, virq) ==
  LET data == [k \in 1 .. n |-> DataEntry(lproducer, k, m)]
  IN data \o <<PlainEntry("prod"), PlainEntry("local")>>
       \o (IF virq THEN <<PlainEntry("virq")>> ELSE <<>>)

TxFull == producer - consumer = TxSlots

(* A request of n blocks.  A full channel refuses it, as does a message     *)
(* longer than MAX_TX_REQ_MSG_SIZE, of which only the length was stored.    *)
(* The result of the DMA calls is not looked at.                            *)
fsl_ipc_send_tx_req(n, virq) ==
  /\ txready /\ ntx < MaxTx /\ ~TxFull
  /\ ntx' = ntx + 1
  /\ LET m == ntx + 1
         entries == fsl_uspace_dma_add_entry(TxList(m, n, virq))
         list == [i \in DOMAIN dmalist |-> IF i <= Len(entries) THEN entries[i] ELSE dmalist[i]]
     IN /\ txbuf' = [txbuf EXCEPT ![ipc_channel_attach_msg_ring[lproducer]] = m]
        /\ fsl_uspace_dma_start(list, Len(entries))
        /\ sent' = Append(sent, [msg |-> m, n |-> n])
  /\ spareproducer' = producer + 1 /\ sparelocal' = (lproducer + 1) % TxSlots
  /\ inprocess' = TRUE
  /\ rude' = (rude \/ dmabusy)
  /\ UNCHANGED <<chVars, txopen, txready, lbuff, received, slipped, ndmafaults>>

(* fsl_ipc_get_last_tx_req_status: what has ended counts as done. *)
fsl_ipc_get_last_tx_req_status ==
  /\ inprocess /\ ~dmabusy
  /\ inprocess' = FALSE
  /\ UNCHANGED <<chVars, txopen, txready, txbuf, lbuff, engineVars, spareVars, txHistory, ntx, ndmafaults>>

-----------------------------------------------------------------------------
(* The engine carries out the descriptor it is at and follows the list. *)
DmaStep ==
  /\ dmabusy
  /\ LET e == dmalist[dmaat]
     IN /\ lbuff' = IF e.kind = "data" THEN [lbuff EXCEPT ![e.slot][e.part] = e.msg] ELSE lbuff
        /\ producer' = IF e.kind = "prod" THEN spareproducer ELSE producer
        /\ lproducer' = IF e.kind = "local" THEN sparelocal ELSE lproducer
        /\ dmabusy' = (~e.eol /\ dmaat < MAX_DMA_ENTRIES)
        /\ dmaat' = IF e.eol \/ dmaat = MAX_DMA_ENTRIES THEN 1 ELSE dmaat + 1
  /\ UNCHANGED <<consumer, lconsumer, txopen, txready, txbuf, dmalist, spareVars, inprocess,
                 txHistory, ntx, ndmafaults>>

(* It stops with an error; a request it had not counted is not in the ring. *)
DmaFault ==
  /\ dmabusy /\ ndmafaults < MaxDmaFaults
  /\ ndmafaults' = ndmafaults + 1
  /\ dmabusy' = FALSE /\ dmaat' = 1
  /\ sent' = IF producer < Len(sent) THEN SubSeq(sent, 1, producer) ELSE sent
  /\ slipped' = (slipped \/ dmalist[dmaat].kind = "local")
  /\ UNCHANGED <<chVars, txopen, txready, txbuf, lbuff, dmalist, spareVars, inprocess, received, rude, ntx>>

(* The DSP takes the next request with its blocks. *)
DspTakes ==
  /\ consumer < producer
  /\ LET slot == lconsumer
         m == txbuf[ipc_channel_attach_msg_ring[slot]]
     IN received' = Append(received, [msg |-> m, blocks |-> lbuff[slot]])
  /\ consumer' = consumer + 1 /\ lconsumer' = (lconsumer + 1) % TxSlots
  /\ UNCHANGED <<producer, lproducer, txopen, txready, txbuf, lbuff, engineVars, spareVars, inprocess,
                 sent, rude, slipped, ntx, ndmafaults>>

TxNext ==
  \/ OpenTx \/ fsl_ipc_configure_txreq
  \/ \E n \in 0 .. MaxSg, virq \in BOOLEAN : fsl_ipc_send_tx_req(n, virq)
  \/ fsl_ipc_get_last_tx_req_status
  \/ DmaStep \/ DmaFault \/ DspTakes

TxSpec == TxInit /\ [][TxNext]_txVars

-----------------------------------------------------------------------------
(* As long as the producer waits for the end of one transfer before the     *)
(* next request, the DSP takes the requests in the order they were sent,    *)
(* each one once and with all its own blocks: fsl_ipc_send_tx_req lists the *)
(* blocks before the counters that publish them.  A request whose transfer  *)
(* the engine gives up before them is never seen.                           *)
TxIntact ==
  ~rude /\ ~slipped =>
    /\ Len(received) <= Len(sent)
    /\ \A i \in 1 .. Len(received) :
         /\ received[i].msg = sent[i].msg
         /\ \A k \in 1 .. sent[i].n : received[i].blocks[k] = sent[i].msg

=============================================================================
