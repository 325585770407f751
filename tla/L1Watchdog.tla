----------------------------- MODULE L1Watchdog -----------------------------
(***************************************************************************)
(* How the expiry of a DSP core's watchdog reaches the L1 defense callback *)
(* of a process: the register WSRSR, the interrupt handler and the ioctl   *)
(* of kernel/fsl_L1_defense.c, and the thread that                         *)
(* fsl_L1_defense_register_cb starts in fsl_ipc_channel.c.                 *)
(*                                                                         *)
(* Bit masks are sets of cores.  The handler reads and records the         *)
(* register under the spinlock sp but clears it after the unlock, with     *)
(* whatever the mask then holds; the ioctl of the thread may come between. *)
(***************************************************************************)
EXTENDS Naturals

CONSTANTS WdCores,       \* the DSP cores with a watchdog
          MaxExpiries,   \* bound: expiries
          MaxEfault      \* bound: failures of copy_to_user

VARIABLES driver,         \* "absent", "failed" or "loaded"
          wsrsr,          \* WSRSR: cores whose watchdog has expired
          wsrsr_bitmask,  \* recorded by the handler, not yet taken
          handler,        \* "idle", "clear" or "wake"
          taker,          \* the thread: "none", "ioctl", "wait", "cb", "dead"
          g_core_mask,    \* what the last ioctl has copied out
          owed,           \* history: expired since it was last handed to the thread
          expiries,
          efaults

wdVars == <<driver, wsrsr, wsrsr_bitmask, handler, taker, g_core_mask, owed,
            expiries, efaults>>

WdInit ==
  /\ driver = "absent" /\ handler = "idle" /\ taker = "none"
  /\ wsrsr = {} /\ wsrsr_bitmask = {} /\ g_core_mask = {}
  /\ owed = {} /\ expiries = 0 /\ efaults = 0

(* A watchdog expires; the interrupt controller keeps the line asserted     *)
(* while a bit is set.                                                      *)
Expire(c) ==
  /\ expiries < MaxExpiries
  /\ expiries' = expiries + 1
  /\ wsrsr' = wsrsr \cup {c}
  /\ owed' = owed \cup {c}
  /\ UNCHANGED <<driver, wsrsr_bitmask, handler, taker, g_core_mask, efaults>>

(* fsl_l1d_init: what the register shows is recorded and not cleared; no    *)
(* region, no mapping or no interrupt line, and the module is not there.    *)
fsl_l1d_init(ok) ==
  /\ driver = "absent"
  /\ driver' = IF ok THEN "loaded" ELSE "failed"
  /\ wsrsr_bitmask' = IF ok THEN wsrsr ELSE {}
  /\ UNCHANGED <<wsrsr, handler, taker, g_core_mask, owed, expiries, efaults>>

(* fsl_l1d_interrupt_handler up to the unlock ... *)
HandlerRecords ==
  /\ driver = "loaded" /\ handler = "idle" /\ wsrsr # {}
  /\ wsrsr_bitmask' = wsrsr_bitmask \cup wsrsr
  /\ handler' = "clear"
  /\ UNCHANGED <<driver, wsrsr, taker, g_core_mask, owed, expiries, efaults>>

(* Mutant of HandlerClears: every bit is written back. *)
HandlerClearsAll ==
  /\ handler = "clear"
  /\ wsrsr' = {}
  /\ handler' = "wake"
  /\ UNCHANGED <<driver, wsrsr_bitmask, taker, g_core_mask, owed, expiries, efaults>>

(* ... its write to the register, where a 1 clears a bit ... *)
HandlerClears ==
  /\ handler = "clear"
  /\ wsrsr' = wsrsr \ wsrsr_bitmask
  /\ handler' = "wake"
  /\ UNCHANGED <<driver, wsrsr_bitmask, taker, g_core_mask, owed, expiries, efaults>>

(* ... and wake_up_interruptible: who sleeps looks at the condition again.  *)
HandlerWakes ==
  /\ handler = "wake"
  /\ handler' = "idle"
  /\ taker' = IF taker = "wait" /\ wsrsr_bitmask # {} THEN "ioctl" ELSE taker
  /\ UNCHANGED <<driver, wsrsr, wsrsr_bitmask, g_core_mask, owed, expiries, efaults>>

(* fsl_L1_defense_register_cb: without the device the thread returns. *)
fsl_L1_defense_register_cb ==
  /\ taker = "none"
  /\ taker' = IF driver = "loaded" THEN "ioctl" ELSE "dead"
  /\ UNCHANGED <<driver, wsrsr, wsrsr_bitmask, handler, g_core_mask, owed, expiries, efaults>>

(* IOCTL_FSL_L1D_GET_WSRSR_BITMASK with bits recorded: they are copied out  *)
(* and forgotten.  A failing copy keeps them; its error is compared as an   *)
(* unsigned number and the thread just calls again.                         *)
IoctlTakes(fault) ==
  /\ taker = "ioctl" /\ wsrsr_bitmask # {}
  /\ fault => efaults < MaxEfault
  /\ efaults' = IF fault THEN efaults + 1 ELSE efaults
  /\ g_core_mask' = IF fault THEN g_core_mask ELSE wsrsr_bitmask
  /\ wsrsr_bitmask' = IF fault THEN wsrsr_bitmask ELSE {}
  /\ owed' = IF fault THEN owed ELSE owed \ wsrsr_bitmask
  /\ taker' = IF fault THEN "ioctl" ELSE "cb"
  /\ UNCHANGED <<driver, wsrsr, handler, expiries>>

(* ... and with none: wait_event_interruptible tests the condition on its   *)
(* own, so a wakeup before it is not lost; it copies nothing out.           *)
IoctlWaits ==
  /\ taker = "ioctl" /\ wsrsr_bitmask = {}
  /\ taker' = "wait"
  /\ UNCHANGED <<driver, wsrsr, wsrsr_bitmask, handler, g_core_mask, owed, expiries, efaults>>

(* create_ioctl_thread calls back and clears its mask. *)
Callback ==
  /\ taker = "cb"
  /\ g_core_mask' = {}
  /\ taker' = "ioctl"
  /\ UNCHANGED <<driver, wsrsr, wsrsr_bitmask, handler, owed, expiries, efaults>>

HandlerStep == HandlerRecords \/ HandlerClears \/ HandlerWakes
TakerStep == (\E fault \in BOOLEAN : IoctlTakes(fault)) \/ IoctlWaits \/ Callback

WdNext ==
  \/ \E c \in WdCores : Expire(c)
  \/ \E ok \in BOOLEAN : fsl_l1d_init(ok)
  \/ HandlerRecords \/ HandlerClears \/ HandlerWakes
  \/ fsl_L1_defense_register_cb
  \/ \E fault \in BOOLEAN : IoctlTakes(fault)
  \/ IoctlWaits \/ Callback

(* An asserted interrupt is served and a thread that can run does.          *)
WdFairness == WF_wdVars(HandlerStep) /\ WF_wdVars(TakerStep)

-----------------------------------------------------------------------------
(* A watchdog that expires is reported to the callback of a process that is *)
(* listening, also when it expires while the handler is between recording   *)
(* and clearing the register, while the ioctl takes the mask, or while the  *)
(* callback runs for another core.                                          *)
ExpiryReported ==
  \A c \in WdCores :
    WdFairness => ((c \in owed /\ taker \notin {"none", "dead"}) ~> c \notin owed)
=============================================================================
