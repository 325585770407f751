------------------------------- MODULE BdRing -------------------------------
(***************************************************************************)
(* One channel of the PowerPC <-> DSP message passing: the ring of buffer  *)
(* descriptors of ipc/lib/fsl_ipc_channel.c, in memory both sides share.   *)
(*                                                                         *)
(* The shipped build has no CONFIG_LOCK, so fsl_ipc_lock does nothing and  *)
(* every access to the shared words is a step of its own: one producer and *)
(* one consumer run against each other with only the two counters between  *)
(* them.  The counters run free modulo 2^32; the slots are indexed by      *)
(* pa_reserved[0] and pa_reserved[1], which wrap at the ring size.         *)
(***************************************************************************)
EXTENDS Integers, Sequences

CONSTANTS Msgs,     \* what a descriptor can point to
          Size,     \* bd_ring_size, the depth given by the consumer
          CountMod, \* 2^32: where the tracker counters wrap
          NoMsg     \* a descriptor nobody has written yet

ASSUME RingAssumption ==
  /\ Size \in Nat \ {0}
  /\ CountMod \in Nat
  /\ Size < CountMod

VARIABLES producer_initialized, consumer_initialized,
          producer_num, consumer_num,      \* tracker
          local_producer, local_consumer,  \* pa_reserved[0], pa_reserved[1]
          bd,                              \* the descriptors
          ppc, parg,                       \* producer: position, its message
          cpc, carg,                       \* consumer: position, what it read
          got                              \* the message received last

prodVars == <<producer_initialized, producer_num, local_producer, bd, ppc, parg>>
consVars == <<consumer_initialized, consumer_num, local_consumer, cpc, carg, got>>
ringVars == <<prodVars, consVars>>

Index  == 0 .. Size - 1
Counts == 0 .. CountMod - 1

TypeOK ==
  /\ producer_initialized \in BOOLEAN
  /\ consumer_initialized \in BOOLEAN
  /\ producer_num \in Counts
  /\ consumer_num \in Counts
  /\ local_producer \in Index
  /\ local_consumer \in Index
  /\ bd \in [Index -> Msgs \cup {NoMsg}]
  /\ ppc \in {"idle", "checked", "filled", "counted", "advanced"}
  /\ parg \in Msgs \cup {NoMsg}
  /\ cpc \in {"idle", "nonempty", "holding", "held", "read", "counted"}
  /\ carg \in Msgs \cup {NoMsg}
  /\ got \in Msgs \cup {NoMsg}

Init ==
  /\ producer_initialized = FALSE
  /\ consumer_initialized = FALSE
  /\ producer_num = 0
  /\ consumer_num = 0
  /\ local_producer = 0
  /\ local_consumer = 0
  /\ bd = [i \in Index |-> NoMsg]
  /\ ppc = "idle"
  /\ parg = NoMsg
  /\ cpc = "idle"
  /\ carg = NoMsg
  /\ got = NoMsg

-----------------------------------------------------------------------------
(* tracker.x++ on a uint32_t, and (LOCAL_x + 1) % bd_ring_size. *)
IncCount(n) == IF n = CountMod - 1 THEN 0 ELSE n + 1
IncLocal(i) == IF i = Size - 1 THEN 0 ELSE i + 1

(* os_het_ch_free_bds, in terms of the descriptors in use.  Where the       *)
(* producer counter has wrapped, the code adds 2^32 to a difference that is *)
(* already taken modulo 2^32, and the truncation of the result to an int    *)
(* takes it out again.                                                      *)
Used == IF producer_num >= consumer_num
        THEN producer_num - consumer_num
        ELSE producer_num - consumer_num + CountMod

FreeBds == Size - Used

Full  == FreeBds = 0
EmptyChannel == producer_num = consumer_num

-----------------------------------------------------------------------------
(* fsl_ipc_configure_channel by the consumer, fsl_ipc_open_prod_ch by the  *)
(* producer.                                                               *)
ConfigureChannel ==
  /\ ~consumer_initialized
  /\ consumer_initialized' = TRUE
  /\ UNCHANGED <<prodVars, consumer_num, local_consumer, cpc, carg, got>>

OpenProdCh ==
  /\ ~producer_initialized
  /\ producer_initialized' = TRUE
  /\ UNCHANGED <<producer_num, local_producer, bd, ppc, parg, consVars>>

(* A slip in the full test: one descriptor too many is handed out. *)
SendPtrStartOverfull(m) ==
  /\ ppc = "idle"
  /\ consumer_initialized
  /\ FreeBds >= 0
  /\ ppc' = "checked"
  /\ parg' = m
  /\ UNCHANGED <<producer_initialized, producer_num, local_producer, bd, consVars>>

(* fsl_ipc_send_ptr up to its full test; a channel without consumer or with *)
(* a full ring makes it return with nothing changed.                        *)
SendPtrStart(m) ==
  /\ ppc = "idle"
  /\ consumer_initialized
  /\ ~Full
  /\ ppc' = "checked"
  /\ parg' = m
  /\ UNCHANGED <<producer_initialized, producer_num, local_producer, bd, consVars>>

(* fsl_ipc_send_msg marks the producer as initialized before it looks at    *)
(* anything, and gives up when there is no consumer, no free descriptor, no *)
(* mapping of the message ring or the message is longer than max_msg_size.  *)
(* Its message is copied to where the descriptor points.                    *)
SendMsgStart(m) ==
  /\ ppc = "idle"
  /\ producer_initialized' = TRUE
  /\ \/ /\ consumer_initialized
        /\ ~Full
        /\ ppc' = "checked"
        /\ parg' = m
     \/ UNCHANGED <<ppc, parg>>
  /\ UNCHANGED <<producer_num, local_producer, bd, consVars>>

SendFill ==
  /\ ppc = "checked"
  /\ bd' = [bd EXCEPT ![local_producer] = parg]
  /\ ppc' = "filled"
  /\ UNCHANGED <<producer_initialized, producer_num, local_producer, parg, consVars>>

SendCount ==
  /\ ppc = "filled"
  /\ producer_num' = IncCount(producer_num)
  /\ ppc' = "counted"
  /\ parg' = NoMsg
  /\ UNCHANGED <<producer_initialized, local_producer, bd, consVars>>

SendAdvance ==
  /\ ppc = "counted"
  /\ local_producer' = IncLocal(local_producer)
  /\ ppc' = "advanced"
  /\ UNCHANGED <<producer_initialized, producer_num, bd, parg, consVars>>

(* generate_indication, if the consumer asked for one, and the return. *)
SendIndicate ==
  /\ ppc = "advanced"
  /\ ppc' = "idle"
  /\ UNCHANGED <<producer_initialized, producer_num, local_producer, bd, parg, consVars>>

-----------------------------------------------------------------------------
(* fsl_ipc_recv_ptr: the two tests, the read of the descriptor, the two     *)
(* increments.  RecvFail is where any of the receive functions gives up.    *)
RecvFail ==
  /\ cpc = "idle"
  /\ ~producer_initialized \/ EmptyChannel
  /\ UNCHANGED ringVars

RecvStart ==
  /\ cpc = "idle"
  /\ producer_initialized
  /\ ~EmptyChannel
  /\ cpc' = "nonempty"
  /\ UNCHANGED <<prodVars, consumer_initialized, consumer_num, local_consumer, carg, got>>

(* fsl_ipc_recv_msg does not ask for the producer, and copies the message   *)
(* out between the read of the descriptor and the increments.               *)
RecvMsgStart ==
  /\ cpc = "idle"
  /\ ~EmptyChannel
  /\ cpc' = "nonempty"
  /\ UNCHANGED <<prodVars, consumer_initialized, consumer_num, local_consumer, carg, got>>

(* fsl_ipc_recv_ptr_hold reads without consuming; the application calls     *)
(* fsl_ipc_set_consumed_status when it is done with the message.            *)
HoldStart ==
  /\ cpc = "idle"
  /\ ~EmptyChannel
  /\ cpc' = "holding"
  /\ UNCHANGED <<prodVars, consumer_initialized, consumer_num, local_consumer, carg, got>>

RecvRead ==
  /\ cpc \in {"nonempty", "holding"}
  /\ carg' = bd[local_consumer]
  /\ cpc' = IF cpc = "nonempty" THEN "read" ELSE "held"
  /\ UNCHANGED <<prodVars, consumer_initialized, consumer_num, local_consumer, got>>

(* fsl_ipc_recv_msg_ptr does the same with the message of a message channel. *)
RecvMsgPtrStart ==
  /\ cpc = "idle"
  /\ producer_initialized
  /\ ~EmptyChannel
  /\ cpc' = "holding"
  /\ UNCHANGED <<prodVars, consumer_initialized, consumer_num, local_consumer, carg, got>>

(* A slip: emptiness is judged by the indices, which also meet when full. *)
SetConsumedByIndex ==
  /\ cpc = "held"
  /\ local_producer # local_consumer
  /\ cpc' = "read"
  /\ UNCHANGED <<prodVars, consumer_initialized, consumer_num, local_consumer, carg, got>>

SetConsumedStart ==
  /\ cpc = "held"
  /\ ~EmptyChannel
  /\ cpc' = "read"
  /\ UNCHANGED <<prodVars, consumer_initialized, consumer_num, local_consumer, carg, got>>

RecvCount ==
  /\ cpc = "read"
  /\ consumer_num' = IncCount(consumer_num)
  /\ got' = carg
  /\ carg' = NoMsg
  /\ cpc' = "counted"
  /\ UNCHANGED <<prodVars, consumer_initialized, local_consumer>>

RecvAdvance ==
  /\ cpc = "counted"
  /\ local_consumer' = IncLocal(local_consumer)
  /\ cpc' = "idle"
  /\ UNCHANGED <<prodVars, consumer_initialized, consumer_num, carg, got>>

ProducerCall == \E m \in Msgs : SendPtrStart(m) \/ SendMsgStart(m)
ProducerStep == SendFill \/ SendCount \/ SendAdvance \/ SendIndicate
ConsumerCall == \/ RecvStart \/ RecvMsgStart
                \/ HoldStart \/ RecvMsgPtrStart \/ SetConsumedStart
ConsumerStep == RecvRead \/ RecvCount \/ RecvAdvance

Next == \/ ConfigureChannel \/ OpenProdCh
        \/ ProducerCall \/ ProducerStep
        \/ RecvFail \/ ConsumerCall \/ ConsumerStep

Spec == Init /\ [][Next]_ringVars

(* Both sides finish the calls they have made, and the consumer polls. *)
RingFairness == /\ WF_ringVars(ProducerStep)
                /\ WF_ringVars(ConsumerStep)
                /\ WF_ringVars(ConsumerCall)

-----------------------------------------------------------------------------
(* The slots the next descriptor comes from and goes to, allowing for a     *)
(* counter that was bumped while its local index was not yet.               *)
ReadSlot  == IF cpc = "counted" THEN IncLocal(local_consumer) ELSE local_consumer
WriteSlot == IF ppc = "counted" THEN IncLocal(local_producer) ELSE local_producer

(* The slot i places behind the oldest unread descriptor. *)
Slot(i) == IF ReadSlot + i < Size THEN ReadSlot + i ELSE ReadSlot + i - Size

Unread == [i \in 1 .. Used |-> bd[Slot(i - 1)]]

(* The ring is never over-committed, also across the wrap of the 32-bit     *)
(* counters, and the local indices agree with them: fsl_ipc_channel.c keeps *)
(* four words in two pairs and never compares the pairs.                    *)
LocalsInStep == Used \in 0 .. Size /\ WriteSlot = Slot(Used)

(* What the consumer gets is what the producer sent, in order, once.        *)
AQ == INSTANCE AbstractQueue
        WITH q <- Unread, Values <- Msgs, Capacity <- Size, Nothing <- NoMsg

ImplementsFifo == AQ!Spec

(* Every published message is consumed if the consumer keeps polling.       *)
MessageConsumed ==
  RingFairness => (producer_initialized /\ ~EmptyChannel ~> cpc = "counted")
=============================================================================
