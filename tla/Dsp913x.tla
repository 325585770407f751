------------------------------ MODULE Dsp913x -------------------------------
(***************************************************************************)
(* Loading and restarting the DSP of a BSC913x: b913x_load_dsp_image and   *)
(* fsl_restart_L1 of libdspboot.c, over the control area of HetMgr.  One   *)
(* sequential process; between any two of its steps the DSP goes on, and   *)
(* any step may be its last (a failed mmap faults at the next access).     *)
(* The DSP waits in its boot ROM until PASTATE says that the PowerPC side  *)
(* is ready, and goes back there on a VNMI; this is external and taken     *)
(* from what the library writes and waits for.                             *)
(***************************************************************************)
EXTENDS HetMgr

CONSTANT Max913x       \* bound: calls of the two functions

VARIABLES ld,          \* the process: pc, and whether the call is a restart
          dsp,         \* "rom", "starting", "up" or "hung"
          pastate,     \* PASTATE_PAREADY
          vnmi,        \* a VNMI is pending
          copied,      \* "none", "part" or "whole": the image in memory
          sem1,        \* hardware semaphore 1: "zero", "sc" or "odd"
          fresh,       \* history: image completed since the last VNMI or power-on
          calls913x

ldVars == <<ld, dsp, pastate, vnmi, copied, sem1, fresh, calls913x>>
dspVars == <<dsp, pastate, vnmi, copied, sem1, fresh>>
areaVars == <<ldVars, hetAreaVars>>

LdIdle == [pc |-> "idle", restart |-> FALSE, ret |-> 0]

LdInit ==
  /\ ld = LdIdle
  /\ dsp = "rom" /\ pastate = FALSE /\ vnmi = FALSE
  /\ copied = "none" /\ sem1 = "zero" /\ fresh = FALSE
  /\ calls913x = 0

LdAt(l) == ld.pc = l
LdGoto(l) == ld' = [ld EXCEPT !.pc = l] /\ UNCHANGED calls913x
LdReturn(r) == ld' = [LdIdle EXCEPT !.ret = r] /\ UNCHANGED calls913x
HetRest == UNCHANGED <<build, drv, app, wiped, hetcalls>>
LdOnly(v) == UNCHANGED <<v, hetAreaVars>>

-----------------------------------------------------------------------------
(* Either function is called; a restart hands in an attached IPC instance.  *)
LdCall ==
  /\ LdAt("idle") /\ calls913x < Max913x
  /\ het.mgr /\ build.board = "B913x"
  /\ \E restart \in BOOLEAN :
       /\ restart => 0 \in app.inst
       /\ ld' = [pc |-> IF restart THEN "reinit" ELSE "open", restart |-> restart, ret |-> 0]
  /\ calls913x' = calls913x + 1
  /\ LdOnly(dspVars)

LdDies == ~LdAt("idle") /\ LdReturn(-1) /\ LdOnly(dspVars)

(* pre_load_913x up to fsl_913x_ipc_init: devices, memory areas, huge page  *)
(* (whose addresses go into the control area), channels.                    *)
pre_load_913x ==
  /\ LdAt("open")
  /\ \/ \E rat \in RatModes :
          /\ het' = [fsl_913x_ipc_init(het, rat) EXCEPT !.areas = TRUE]
          /\ redone' = TRUE
          /\ LdGoto("ready")
     \/ het' \in {het, [het EXCEPT !.areas = TRUE]} /\ UNCHANGED redone /\ LdReturn(-1)
  /\ HetRest /\ UNCHANGED dspVars

(* fsl_ipc_reinit, reached through the cached addresses: the channels go    *)
(* back to their first state and both sides are uninitialised.              *)
fsl_ipc_reinit ==
  /\ LdAt("reinit")
  /\ het' = [het EXCEPT !.pa = FALSE, !.sc = FALSE]
  /\ LdGoto("reset")
  /\ HetRest /\ UNCHANGED <<redone, dspVars>>

(* Mutant: the flags are left as they are. *)
ResetPaStateForgotten ==
  /\ LdAt("reset")
  /\ LdGoto("vnmi")
  /\ LdOnly(dspVars)

(* fsl_send_vnmi: open the devices, then reset_ppc_ready. *)
reset_ppc_ready ==
  /\ LdAt("reset")
  /\ \/ pastate' = FALSE /\ LdGoto("vnmi")
     \/ LdReturn(-1) /\ UNCHANGED pastate
  /\ LdOnly(<<dsp, vnmi, copied, sem1, fresh>>)

(* fsl_send_vnmi: send_vnmi_func, then ten seconds, then the memory areas. *)
send_vnmi_913x ==
  /\ LdAt("vnmi")
  /\ vnmi' = TRUE /\ fresh' = FALSE
  /\ (LdGoto("ready") \/ LdReturn(-1))
  /\ LdOnly(<<dsp, pastate, copied, sem1>>)

(* dsp_ready_check reads DSPSR once.  A DSP that is not in its ROM may have *)
(* left the bit set.                                                        *)
dsp_ready_check ==
  /\ LdAt("ready")
  /\ \/ LdGoto("load")
     \/ dsp # "rom" /\ LdReturn(-1)
  /\ LdOnly(dspVars)

(* load_913x: load_dsp_image copies the file section by section. *)
load_913x ==
  /\ LdAt("load")
  /\ \/ copied' = "part" /\ UNCHANGED fresh /\ (LdGoto("load") \/ LdReturn(-1))
     \/ copied' = "whole" /\ fresh' = TRUE /\ LdGoto("pa_init")
     \/ UNCHANGED <<copied, fresh>> /\ LdReturn(-1)
  /\ LdOnly(<<dsp, pastate, vnmi, sem1>>)

(* post_load_913x: set_sh_ctrl_pa_init. *)
set_sh_ctrl_pa_init ==
  /\ LdAt("pa_init")
  /\ het' = SetInitialized(het)
  /\ LdGoto("go")
  /\ HetRest /\ UNCHANGED <<redone, dspVars>>

(* post_load_913x: set_ppc_ready, then four seconds. *)
set_ppc_ready ==
  /\ LdAt("go")
  /\ pastate' = TRUE
  /\ LdGoto("check")
  /\ LdOnly(<<dsp, vnmi, copied, sem1, fresh>>)

(* check_dsp_boot: one look at the semaphore.  The wrong value is reported  *)
(* on the console, and the function succeeds all the same.                  *)
check_dsp_boot_913x ==
  /\ LdAt("check")
  /\ sem1' = IF sem1 = "sc" THEN "zero" ELSE sem1
  /\ LdReturn(0)
  /\ LdOnly(<<dsp, pastate, vnmi, copied, fresh>>)

-----------------------------------------------------------------------------
(* The DSP. *)
DspTakesVnmi ==
  /\ vnmi /\ dsp # "hung"
  /\ vnmi' = FALSE /\ dsp' = "rom"
  /\ LdOnly(<<ld, calls913x, pastate, copied, sem1, fresh>>)

DspStarts ==
  /\ dsp = "rom" /\ pastate
  /\ dsp' \in IF copied = "whole" THEN {"starting"} ELSE {"hung"}
  /\ LdOnly(<<ld, calls913x, pastate, vnmi, copied, sem1, fresh>>)

DspUp ==
  /\ dsp = "starting"
  /\ \/ dsp' = "up" /\ sem1' = "sc" /\ het' = [het EXCEPT !.sc = TRUE]
     \/ dsp' = "hung" /\ sem1' \in {sem1, "odd"} /\ UNCHANGED het
  /\ UNCHANGED <<ld, calls913x, pastate, vnmi, copied, fresh, redone>> /\ HetRest

LdNext ==
  \/ LdCall \/ LdDies \/ pre_load_913x \/ fsl_ipc_reinit \/ reset_ppc_ready
  \/ send_vnmi_913x \/ dsp_ready_check \/ load_913x \/ set_sh_ctrl_pa_init
  \/ set_ppc_ready \/ check_dsp_boot_913x
  \/ DspTakesVnmi \/ DspStarts \/ DspUp

(* The process holds /dev/het_mgr open, so the module stays meanwhile. *)
Area913xNext ==
  \/ LdNext
  \/ /\ HetAreaNext /\ UNCHANGED ldVars
     /\ LdAt("idle") \/ het'.mgr

Area913xSpec == HetAreaInit /\ LdInit /\ [][Area913xNext]_areaVars

-----------------------------------------------------------------------------
(* The DSP leaves its boot ROM only into an image that was completed after  *)
(* the last VNMI, however late it takes the VNMI and wherever an earlier    *)
(* load or restart has failed: fsl_send_vnmi clears PASTATE before it sends *)
(* the interrupt, and PASTATE is set again behind the copy.                 *)
StartsFresh ==
  [][dsp = "rom" /\ dsp' # "rom" => fresh]_<<dsp, fresh>>

=============================================================================
