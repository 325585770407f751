------------------------------- MODULE HetIpc -------------------------------
(***************************************************************************)
(* How the dispatcher thread waits for the DSP: fsl_ipc_recv_ptr_block on  *)
(* top of the descriptor ring, and the /dev/het_ipc driver under it        *)
(* (kernel/fsl_ipc.c): the message interrupt, the ready mask and the wait  *)
(* queue.                                                                  *)
(*                                                                         *)
(* The DSP is the producer of the ring.  Its code is not in the            *)
(* repository; it is modelled as a user of the same ring protocol          *)
(* (fsl_heterogeneous_ipc.h) that writes the message register of the       *)
(* channel after each message.                                             *)
(***************************************************************************)
EXTENDS BdRing

VARIABLES msg_pending,     \* the channel's message register is raised
          irq,             \* msg_intr: "idle", or "marked" before its wake-up
          msg_ready_mask,  \* the channel's bit of the mask
          msg_wait_q,      \* the reader is on the wait queue, not yet woken
          rpc              \* where the reader is in fsl_ipc_recv_ptr_block

kernelVars == <<msg_pending, irq, msg_ready_mask, msg_wait_q>>
hetVars == <<ringVars, kernelVars, rpc>>

(* "first" and "second" are the two calls of fsl_ipc_recv_ptr; between them *)
(* is read(): "read" before and "prepared" after swait_prepare.             *)
HetInit ==
  /\ Init
  /\ msg_pending = FALSE
  /\ irq = "idle"
  /\ msg_ready_mask = FALSE
  /\ msg_wait_q = FALSE
  /\ rpc = "first"

-----------------------------------------------------------------------------
(* The DSP opens its end of the channel before it sends. *)
DspSend == /\ producer_initialized
           /\ \E m \in Msgs : SendPtrStart(m)
           /\ UNCHANGED <<kernelVars, rpc>>

DspStep == /\ SendFill \/ SendCount \/ SendAdvance
           /\ UNCHANGED <<kernelVars, rpc>>

DspIndicate == /\ SendIndicate
               /\ msg_pending' = TRUE
               /\ UNCHANGED <<irq, msg_ready_mask, msg_wait_q, rpc>>

DspOpen == OpenProdCh /\ UNCHANGED <<kernelVars, rpc>>

(* fsl_ipc_configure_channel_int, with IOCTL_IPC_REGISTER_SIGNAL. *)
Configure == ConfigureChannel /\ UNCHANGED <<kernelVars, rpc>>

-----------------------------------------------------------------------------
(* A slip in the handler: the waiter is woken but the channel not marked. *)
MsgIntrUnmarked ==
  /\ msg_pending
  /\ irq = "idle"
  /\ msg_pending' = FALSE
  /\ irq' = "marked"
  /\ UNCHANGED <<ringVars, msg_ready_mask, msg_wait_q, rpc>>

(* msg_intr: the register is cleared and the channel's bit set, then the    *)
(* wait queue is woken.                                                     *)
MsgIntr ==
  /\ msg_pending
  /\ irq = "idle"
  /\ msg_pending' = FALSE
  /\ msg_ready_mask' = TRUE
  /\ irq' = "marked"
  /\ UNCHANGED <<ringVars, msg_wait_q, rpc>>

(* A slip in the handler: the wake-up is forgotten. *)
MsgIntrNoWake ==
  /\ irq = "marked"
  /\ irq' = "idle"
  /\ UNCHANGED <<ringVars, msg_pending, msg_ready_mask, msg_wait_q, rpc>>

MsgIntrWake ==
  /\ irq = "marked"
  /\ msg_wait_q' = FALSE
  /\ irq' = "idle"
  /\ UNCHANGED <<ringVars, msg_pending, msg_ready_mask, rpc>>

-----------------------------------------------------------------------------
(* fsl_ipc_recv_ptr inside fsl_ipc_recv_ptr_block. *)
Recv ==
  /\ rpc \in {"first", "second"}
  /\ RecvStart \/ RecvRead \/ RecvCount
  /\ UNCHANGED <<kernelVars, rpc>>

(* A message was received: the dispatcher handles it and calls again. *)
RecvDone ==
  /\ rpc \in {"first", "second"}
  /\ RecvAdvance
  /\ rpc' = "first"
  /\ UNCHANGED kernelVars

(* The channel was empty: the first time the reader goes on to read(), the  *)
(* second time it returns -ERR_CHANNEL_EMPTY and the dispatcher calls again.*)
RecvEmpty ==
  /\ rpc \in {"first", "second"}
  /\ RecvFail
  /\ rpc' = IF rpc = "first" THEN "read" ELSE "first"
  /\ UNCHANGED kernelVars

(* het_ipc_read: swait_prepare *)
ReadPrepare ==
  /\ rpc = "read"
  /\ msg_wait_q' = TRUE
  /\ rpc' = "prepared"
  /\ UNCHANGED <<ringVars, msg_pending, irq, msg_ready_mask>>

(* schedule() returned: the mask is exchanged for 0 and tells whether it is *)
(* worth looking at the channel again.                                      *)
ReadFinish ==
  /\ rpc = "prepared"
  /\ ~msg_wait_q
  /\ msg_ready_mask' = FALSE
  /\ rpc' = IF msg_ready_mask THEN "second" ELSE "first"
  /\ UNCHANGED <<ringVars, msg_pending, irq, msg_wait_q>>

Reader == Recv \/ RecvDone \/ RecvEmpty \/ ReadPrepare \/ ReadFinish

HetNext == \/ Configure \/ DspOpen \/ DspSend \/ DspStep \/ DspIndicate
           \/ MsgIntr \/ MsgIntrWake
           \/ Reader

HetSpec == HetInit /\ [][HetNext]_hetVars

(* The threads run, the interrupt is taken, and the DSP finishes what it    *)
(* starts.  In TtiSpec it also starts a new message again and again while   *)
(* there is room for one, as it does every subframe.                        *)
HetFairness ==
  /\ WF_hetVars(Configure) /\ WF_hetVars(DspOpen)
  /\ WF_hetVars(Reader)
  /\ WF_hetVars(MsgIntr) /\ WF_hetVars(MsgIntrWake)
  /\ WF_hetVars(DspStep) /\ WF_hetVars(DspIndicate)

TtiSpec == HetSpec /\ HetFairness /\ WF_hetVars(DspSend)

-----------------------------------------------------------------------------
(* A message the reader sleeps over is at least recorded: while the reader  *)
(* is asleep and there is a message the DSP has finished sending, either    *)
(* its interrupt is still to come or its bit is set in msg_ready_mask,      *)
(* which het_ipc_read looks at only after its sleep.                        *)
SleptOverIsRecorded ==
  msg_wait_q /\ ~EmptyChannel /\ ppc \in {"idle", "checked", "filled"}
  => msg_pending \/ msg_ready_mask

(* A notice that reaches the reader on the wait queue gets it a message,    *)
(* also when the bit of that notice was taken by the read before.           *)
NoticeDelivers ==
  HetFairness => (msg_wait_q /\ irq = "marked" /\ ~EmptyChannel ~> cpc = "counted")

(* "Now wait here, tti notificaion will wake us up": with a DSP that sends  *)
(* whenever it has room, every message is received.                         *)
TtiWakesReader == ~EmptyChannel ~> cpc = "counted"
=============================================================================
