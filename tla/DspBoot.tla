------------------------------ MODULE DspBoot -------------------------------
(***************************************************************************)
(* Loading and restarting the DSP cores of the B4860: dsp_boot.c and the   *)
(* B4860 half of libdspboot.c, as run by the dsp_boot program (a warm      *)
(* reset first, an initial load if that fails) and by a process that calls *)
(* fsl_start_L1_defense after a watchdog.                                  *)
(*                                                                         *)
(* The program is one sequential process whose steps are the functions of  *)
(* the library; between any two of them the cores go on.  Registers with   *)
(* one bit per core are sets of cores.  mmap either works or makes the     *)
(* next access fault, so every step may also be the process's last.  What  *)
(* the cores do is external and taken from what the library waits for.     *)
(***************************************************************************)
EXTENDS Integers, Sequences

CONSTANTS NR_DSP_CORE,
          BootCalls,      \* the calls made, records as in Flagged below
          MaxBootCalls,   \* bound: calls
          MaxCoreFaults   \* bound: cores that hang, halt or fail to start

Cores == 0 .. NR_DSP_CORE - 1
Shared == -1              \* the target of a shared image

ASSUME BootAssumption ==
  /\ NR_DSP_CORE \in Nat \ {0}
  /\ \A b \in BootCalls :
       /\ b.mode \in 1 .. 3 /\ b.sem \in 0 .. 7
       /\ \/ b.api \in {"dsp_boot", "load_new"} /\ b.ids \in Seq(Cores \cup {Shared})
          \/ b.api = "defense" /\ b.flags \subseteq Cores /\ b.shared \in BOOLEAN

VARIABLES bt,        \* the process: pc, call, k, ret, and locals of the call
          regs,      \* BRR, PIR, PCPH15, pending VNMIs, safe addresses, strobe
          core,      \* core[c]: what the core is doing
          ctl,       \* control area: initialized flag, shared area, l1d part
          image,     \* image[c]: what memory holds of the core's image
          hwsem,     \* handshake semaphore: "zero", "sc" or "odd"
          boots,     \* calls made
          corefaults,
          restarted  \* history: cores up again since the call released them

bootVars == <<bt, regs, core, ctl, image, hwsem, boots, corefaults, restarted>>

-----------------------------------------------------------------------------
(* main sorts the option list by core; entries -1 are shared images.        *)
bubble_sort(ids) ==
  LET order == CHOOSE p \in [DOMAIN ids -> DOMAIN ids] :
                 \A i, j \in DOMAIN ids : i < j => p[i] # p[j] /\ ids[p[i]] <= ids[p[j]]
  IN [i \in DOMAIN ids |-> ids[order[i]]]

(* The list entries 0 .. n - 1 of main are flagged by their position.  A    *)
(* defense call flags the cores themselves.                                 *)
Flagged(b) ==
  CASE b.api = "dsp_boot" -> {k \in Cores : k < Len(b.ids)}
    [] b.api = "defense" -> b.flags
    [] OTHER -> {}

(* The core whose memory the k-th file is linked for.                       *)
Target(b, k) == IF b.api = "dsp_boot" THEN bubble_sort(b.ids)[k + 1] ELSE k

(* Lists for which position and core agree.                                 *)
Aligned(b) == \A k \in Flagged(b) : Target(b, k) = k

NoCall == [api |-> "none", mode |-> 3, sem |-> 0]
Idle == [pc |-> "idle", call |-> NoCall, k |-> 0, ret |-> 0, strobe |-> FALSE,
         mapped |-> FALSE, mask |-> {}, corrupt |-> FALSE]

BootInitState ==
  /\ bt = Idle
  /\ regs = [brr |-> {}, pir |-> {}, ph15 |-> {}, vnmi |-> {}, safe |-> {}, strobe |-> FALSE,
             l2 |-> {}]
  /\ core = [c \in Cores |-> "off"]
  /\ ctl = [pa |-> FALSE, shared |-> FALSE, mode |-> 0, status |-> [c \in Cores |-> "none"]]
  /\ image = [c \in Cores \cup {Shared} |-> "none"]
  /\ hwsem = "zero"
  /\ boots = 0 /\ corefaults = 0
  /\ restarted = {}

hwVars == <<regs, core, ctl, image, hwsem>>
AtPc(l) == bt.pc = l
Goto(l) == bt' = [bt EXCEPT !.pc = l, !.k = 0]
Quiet == UNCHANGED <<boots, corefaults, restarted>>
Only(v) == Quiet /\ UNCHANGED v

(* Cores flagged by the current call; f below is the next one at or after k. *)
F == Flagged(bt.call)
Rest == {c \in F : c >= bt.k}
Nxt == CHOOSE c \in Rest : \A d \in Rest : c <= d

(* A process calls the library. *)
BootCall ==
  /\ AtPc("idle") /\ boots < MaxBootCalls
  /\ \E b \in BootCalls :
       bt' = [Idle EXCEPT !.pc = IF b.api = "load_new" THEN "c_open" ELSE "open", !.call = b]
  /\ boots' = boots + 1
  /\ UNCHANGED <<hwVars, corefaults, restarted>>

(* The process is killed or faults. *)
BootDies ==
  /\ ~AtPc("idle")
  /\ bt' = Idle
  /\ Only(hwVars)

-----------------------------------------------------------------------------
(* pre_Reload_B4. *)

(* /dev/mem, /dev/het_mgr, /dev/fsl_l1d, and assign_memory_areas, which     *)
(* refuses a system map with unset entries: all of them, or a failure.      *)
AreasAssigned == BOOLEAN

(* pre_Reload_B4 up to the mapping of the control area. *)
pre_Reload_open ==
  /\ AtPc("open")
  /\ \E ok \in AreasAssigned :
       bt' = [bt EXCEPT !.pc = IF ok THEN "vnmi" ELSE "fail", !.mapped = ok]
  /\ Only(hwVars)

(* send_vnmi_func for the next flagged core. *)
send_vnmi_func ==
  /\ AtPc("vnmi")
  /\ IF Rest = {} THEN Goto(IF bt.strobe THEN "strobe" ELSE "ph15") /\ UNCHANGED regs
     ELSE /\ regs' = [regs EXCEPT !.vnmi = @ \cup {Nxt}]
          /\ bt' = [bt EXCEPT !.pc = "ack", !.k = Nxt]
  /\ Only(<<core, ctl, image, hwsem>>)

(* set_safe_addr_DTU_B4: only a core in debug mode takes a safe address. *)
set_safe_addr_DTU(c) ==
  IF core[c] = "debug"
  THEN /\ regs' = [regs EXCEPT !.safe = @ \cup {c}]
       /\ bt' = [bt EXCEPT !.pc = "vnmi", !.k = c + 1, !.strobe = TRUE]
  ELSE Goto("fail") /\ UNCHANGED regs

(* check_vnmi_ack_B4 asks what the status says, not whether it is new. *)
check_vnmi_ack ==
  /\ AtPc("ack")
  /\ IF ctl.status[bt.k] = "READY"
     THEN bt' = [bt EXCEPT !.pc = "vnmi", !.k = @ + 1] /\ UNCHANGED regs
     ELSE set_safe_addr_DTU(bt.k)
  /\ Only(<<core, ctl, image, hwsem>>)

(* set_soc_strobe_B4 lets the halted cores go on from the safe address. *)
set_soc_strobe ==
  /\ AtPc("strobe")
  /\ regs' = [regs EXCEPT !.strobe = TRUE]
  /\ Goto("reack")
  /\ Only(<<core, ctl, image, hwsem>>)

(* All flagged cores must have answered by now. *)
recheck_vnmi_ack ==
  /\ AtPc("reack")
  /\ IF \A c \in F : ctl.status[c] = "READY" THEN Goto("ph15") ELSE Goto("fail")
  /\ Only(hwVars)

(* dsp_L2_cache_invalidate_B4 fails if the model cannot be opened; if it    *)
(* cannot be read nothing is invalidated and that is no error.              *)
dsp_L2_cache_invalidate == BOOLEAN

(* set_PH15_on_dspcore_B4 asks for the state and polls ten times; the       *)
(* cores may enter it later or not at all.                                  *)
set_PH15 ==
  /\ AtPc("ph15")
  /\ regs' = [regs EXCEPT !.ph15 = @ \cup F]
  /\ \E ok \in dsp_L2_cache_invalidate : Goto(IF ok THEN "ipc" ELSE "fail")
  /\ Only(<<core, ctl, image, hwsem>>)

(* fsl_B4_ipc_reinit: an ioctl may fail. *)
fsl_B4_ipc_reinit == {0, -1}

(* check_validation_fields: -1 for a failed ioctl, but a positive number    *)
(* for corruption.                                                          *)
MEMORY_CORRUPTED == 1
check_validation_fields == {0, -1, MEMORY_CORRUPTED}

(* Mode 3 sets the channels up again, the other modes validate them.        *)
(* fsl_start_L1_defense tests the result for < 0: after corruption what     *)
(* follows in pre_Reload_B4 is left out and the reset goes on.              *)
reinit_or_validate ==
  /\ AtPc("ipc")
  /\ \E ret \in IF bt.call.mode = 3 THEN fsl_B4_ipc_reinit ELSE check_validation_fields :
       bt' = [bt EXCEPT !.pc = CASE ret = 0 -> "pir" [] ret < 0 -> "fail" [] OTHER -> "clear",
                        !.k = 0, !.corrupt = ret > 0]
  /\ Only(hwVars)

(* set_reset_modes_B4 and set_PIR_on_dspcore_B4: the cores are put in reset. *)
set_PIR ==
  /\ AtPc("pir")
  /\ ctl' = [ctl EXCEPT !.mode = bt.call.mode]
  /\ regs' = [regs EXCEPT !.pir = @ \cup F, !.vnmi = @ \ F, !.safe = @ \ F]
  /\ core' = [c \in Cores |-> IF c \in F THEN "reset" ELSE core[c]]
  /\ Goto("hold")
  /\ Only(<<image, hwsem>>)

(* Mutant of l1d_hold_starcore: the mask is or'ed in, as for a release. *)
HoldNothing ==
  /\ AtPc("hold")
  /\ regs' = [regs EXCEPT !.brr = @ \cup F]
  /\ Goto("clear")
  /\ Only(<<core, ctl, image, hwsem>>)

l1d_hold_starcore ==
  /\ AtPc("hold")
  /\ regs' = [regs EXCEPT !.brr = @ \ F]
  /\ Goto("clear")
  /\ Only(<<core, ctl, image, hwsem>>)

(* What a core does when reset and PH15 are taken from it. *)
Resumed(c) ==
  CASE core[c] = "reset" -> "held"
    [] core[c] = "ph15" -> IF ctl.status[c] = "READY" THEN "ready" ELSE "run"
    [] OTHER -> core[c]

(* Reset_PIR_PH15_on_dspcore_B4. *)
Reset_PIR_PH15 ==
  /\ AtPc("clear")
  /\ regs' = [regs EXCEPT !.pir = @ \ F, !.ph15 = @ \ F]
  /\ core' = [c \in Cores |-> IF c \in F THEN Resumed(c) ELSE core[c]]
  /\ Goto("shared")
  /\ Only(<<ctl, image, hwsem>>)

-----------------------------------------------------------------------------
(* load_dsp_image: all of the file; a part, or nothing, and an error; or a  *)
(* part and no error, when the file ends or fails at a record header.       *)
load_dsp_image(t) ==
  {[ok |-> TRUE, got |-> g] : g \in {"whole", "torn"}}
    \cup {[ok |-> FALSE, got |-> g] : g \in {image[t], "part"}}

(* IOCTL_HET_MGR_SET_INITIALIZED, or not. *)
SetPaInit(yes) == ctl' = [ctl EXCEPT !.pa = @ \/ yes]

(* The shared images of a defense call in mode 3. *)
Reload_shared ==
  /\ AtPc("shared")
  /\ IF bt.call.api = "defense" /\ bt.call.shared /\ bt.call.mode = 3
     THEN \E r \in load_dsp_image(Shared) :
            /\ image' = [image EXCEPT ![Shared] = r.got]
            /\ Goto(IF r.ok THEN "load" ELSE "fail")
     ELSE Goto("load") /\ UNCHANGED image
  /\ Only(<<regs, core, ctl, hwsem>>)

(* Reload_B4 for the next flagged entry.  Entry 0 also says that the PA is  *)
(* initialised.                                                             *)
Reload_B4 ==
  /\ AtPc("load")
  /\ IF Rest = {} THEN Goto("release") /\ UNCHANGED <<image, ctl>>
     ELSE \E r \in load_dsp_image(Target(bt.call, Nxt)) :
            /\ image' = [image EXCEPT ![Target(bt.call, Nxt)] = r.got]
            /\ SetPaInit(r.ok /\ Nxt = 0)
            /\ IF r.ok THEN bt' = [bt EXCEPT !.k = Nxt + 1] ELSE Goto("fail")
  /\ Only(<<regs, core, hwsem>>)

(* l1d_release_starcore_B4. *)
l1d_release_starcore ==
  /\ AtPc("release")
  /\ regs' = [regs EXCEPT !.brr = @ \cup F]
  /\ restarted' = restarted \ F
  /\ Goto("crstsr")
  /\ UNCHANGED <<core, ctl, image, hwsem, boots, corefaults>>

(* A core counts as ready once it is out of reset and released. *)
Ready(c) == core[c] \notin {"off", "held", "reset", "ph15"}

(* set_Hw_watchpoint, asked for by a defense call, can fail to map. *)
set_Hw_watchpoint == IF bt.call.api = "defense" THEN BOOLEAN ELSE {TRUE}

(* check_dsp_ready_CRSTSR_B4 polls each core five times.  A watchpoint that *)
(* cannot be set makes the call return at once, nothing closed.             *)
check_dsp_ready_CRSTSR ==
  /\ AtPc("crstsr")
  /\ IF \A c \in F : Ready(c)
     THEN \E ok \in set_Hw_watchpoint :
            IF ok THEN Goto(IF bt.call.mode \in {2, 3} THEN "sem" ELSE "status")
                  ELSE bt' = Idle
     ELSE Goto("fail")
  /\ Only(hwVars)

(* check_dsp_boot_B4: with a semaphore in 1 .. 7 until it is set; only the  *)
(* DSP's value is cleared.                                                  *)
SemWait(sem) ==
  /\ sem \in 1 .. 7 => hwsem # "zero"
  /\ hwsem' = IF sem \in 1 .. 7 /\ hwsem = "sc" THEN "zero" ELSE hwsem

(* dsp_boot asks for none in its warm reset. *)
check_dsp_boot ==
  /\ AtPc("sem")
  /\ SemWait(IF bt.call.api = "dsp_boot" THEN 0 ELSE bt.call.sem)
  /\ Goto("status")
  /\ Only(<<regs, core, ctl, image>>)

(* Mutant of check_status: a later success forgets an earlier failure. *)
CheckStatusLast ==
  /\ AtPc("status")
  /\ IF Rest = {} THEN Goto("end")
     ELSE bt' = [bt EXCEPT !.k = Nxt + 1,
                           !.ret = IF ctl.status[Nxt] = "SUCCESS" THEN 0 ELSE 1]
  /\ Only(hwVars)

(* The last part of fsl_start_L1_defense: what a flagged core reports, read *)
(* again after a sleep while it is still starting, replaces ret unless it   *)
(* is a success.                                                            *)
check_status ==
  /\ AtPc("status")
  /\ IF Rest = {} THEN Goto("end")
     ELSE bt' = [bt EXCEPT !.k = Nxt + 1,
                           !.ret = IF ctl.status[Nxt] = "SUCCESS" THEN @ ELSE 1]
  /\ Only(hwVars)

(* end_L1_defense: an area that was never mapped is unmapped too, at an     *)
(* address that was never set: nothing happens or the process faults.       *)
fsl_start_L1_defense_end ==
  /\ AtPc("fail") \/ AtPc("end")
  /\ LET ret == IF AtPc("fail") THEN 1 ELSE bt.ret IN
     \/ bt' = IF bt.call.api = "dsp_boot" /\ ret # 0
              THEN [Idle EXCEPT !.pc = "c_open", !.call = bt.call] ELSE Idle
     \/ ~bt.mapped /\ bt' = Idle
  /\ Only(hwVars)

-----------------------------------------------------------------------------
(* b4860_load_dsp_image, the initial load, and b4860_load_dsp_image_new,    *)
(* which resets all cores first.                                            *)

(* The clusters up to the one of the last, that is the highest, core.  (-1  *)
(* is divided towards zero.)                                                *)
dsp_cluster_count_f(c) == (IF c = Shared THEN 0 ELSE c \div 2) + 1

(* dsp_L2_cache_init_B4 enables the first n clusters. *)
dsp_L2_cache_init(n) == regs' = [regs EXCEPT !.l2 = @ \cup (0 .. n - 1)]

(* pre_load_B4: the devices, the huge page (init_hugetlb announces the      *)
(* shared areas), the channels and the L2 caches.                           *)
pre_load_B4 ==
  /\ AtPc("c_open")
  /\ \/ /\ \E ok \in AreasAssigned : ctl' = [ctl EXCEPT !.shared = @ \/ ok]
        /\ bt' = Idle /\ UNCHANGED regs
     \/ /\ ctl' = [ctl EXCEPT !.shared = TRUE]
        /\ dsp_L2_cache_init(dsp_cluster_count_f(bubble_sort(bt.call.ids)[Len(bt.call.ids)]))
        /\ Goto(IF bt.call.api = "load_new" THEN "n_ph15" ELSE "c_load")
  /\ Only(<<core, image, hwsem>>)

(* set_PH15_on_dspcore_B4_simple and dsp_L2_cache_invalidate_B4_dspbt. *)
set_PH15_simple ==
  /\ AtPc("n_ph15")
  /\ regs' = [regs EXCEPT !.ph15 = Cores]
  /\ \E ok \in dsp_L2_cache_invalidate : IF ok THEN Goto("n_pir") ELSE bt' = Idle
  /\ Only(<<core, ctl, image, hwsem>>)

set_PIR_simple ==
  /\ AtPc("n_pir")
  /\ regs' = [regs EXCEPT !.pir = Cores, !.vnmi = {}, !.safe = {}]
  /\ core' = [c \in Cores |-> "reset"]
  /\ Goto("n_hold")
  /\ Only(<<ctl, image, hwsem>>)

l1d_hold_starcore_simple ==
  /\ AtPc("n_hold")
  /\ regs' = [regs EXCEPT !.brr = {}]
  /\ Goto("n_clear")
  /\ Only(<<core, ctl, image, hwsem>>)

(* Reset_PIR_PH15_on_dspcore_B4_simple and clear_STMR_B4_simple. *)
Reset_PIR_PH15_simple ==
  /\ AtPc("n_clear")
  /\ regs' = [regs EXCEPT !.pir = {}, !.ph15 = {}]
  /\ core' = [c \in Cores |-> Resumed(c)]
  /\ Goto("c_load")
  /\ Only(<<ctl, image, hwsem>>)

(* load_B4 for the next entry: the first image announces the PA. *)
load_B4 ==
  /\ AtPc("c_load")
  /\ IF bt.k = Len(bt.call.ids) THEN Goto("c_release") /\ UNCHANGED <<image, ctl>>
     ELSE LET t == bubble_sort(bt.call.ids)[bt.k + 1] IN
          \E r \in load_dsp_image(t) :
            /\ image' = [image EXCEPT ![t] = r.got]
            /\ SetPaInit(r.ok)
            /\ bt' = IF r.ok THEN [bt EXCEPT !.k = @ + 1, !.mask = @ \cup ({t} \cap Cores)]
                             ELSE Idle
  /\ Only(<<regs, core, hwsem>>)

(* release_starcore_B4. *)
release_starcore ==
  /\ AtPc("c_release")
  /\ regs' = [regs EXCEPT !.brr = @ \cup bt.mask]
  /\ Goto("c_sem")
  /\ Only(<<core, ctl, image, hwsem>>)

post_load_B4 ==
  /\ AtPc("c_sem")
  /\ SemWait(bt.call.sem)
  /\ bt' = Idle
  /\ Only(<<regs, core, ctl, image>>)

-----------------------------------------------------------------------------
(* The cores (external). *)
CoreGoes(c, s) == core' = [core EXCEPT ![c] = s]
Status(c, s) == ctl' = [ctl EXCEPT !.status[c] = s]

(* A released core starts; after a warm reset it reports its progress. *)
CoreBegins(c) ==
  /\ core[c] \in {"off", "held"} /\ c \in regs.brr
  /\ CoreGoes(c, "init")
  /\ IF ctl.mode # 0 THEN Status(c, "BEGIN") ELSE UNCHANGED ctl
  /\ UNCHANGED <<bt, regs, image, hwsem, boots, corefaults, restarted>>

(* It is up: it waits for the PA to be initialised and sets the semaphore.  *)
CoreUp(c) ==
  /\ core[c] = "init" /\ ctl.pa /\ image[c] = "whole"
  /\ CoreGoes(c, "run")
  /\ IF ctl.mode # 0 THEN Status(c, "SUCCESS") ELSE UNCHANGED ctl
  /\ hwsem' = "sc"
  /\ restarted' = restarted \cup {c}
  /\ UNCHANGED <<bt, regs, image, boots, corefaults>>

(* It hangs, also while starting, or stops at a watchpoint. *)
CoreFaults(c) ==
  /\ corefaults < MaxCoreFaults
  /\ corefaults' = corefaults + 1
  /\ \/ core[c] \in {"run", "init"} /\ CoreGoes(c, "hung")
     \/ core[c] = "run" /\ CoreGoes(c, "debug")
  /\ UNCHANGED <<bt, regs, ctl, image, hwsem, boots, restarted>>

(* It answers a VNMI, or runs the safe address after the strobe. *)
CoreAcks(c) ==
  /\ \/ core[c] \in {"run", "init"} /\ c \in regs.vnmi
     \/ core[c] = "debug" /\ c \in regs.safe /\ regs.strobe
  /\ regs' = [regs EXCEPT !.vnmi = @ \ {c}, !.safe = @ \ {c}]
  /\ CoreGoes(c, "ready")
  /\ Status(c, "READY")
  /\ UNCHANGED <<bt, image, hwsem, boots, corefaults, restarted>>

(* It enters PH15. *)
CoreDozes(c) ==
  /\ core[c] \in {"run", "ready"} /\ c \in regs.ph15
  /\ CoreGoes(c, "ph15")
  /\ Only(<<bt, regs, ctl, image, hwsem>>)

DspNext ==
  \/ BootCall \/ BootDies
  \/ pre_Reload_open \/ send_vnmi_func \/ check_vnmi_ack \/ set_soc_strobe
  \/ recheck_vnmi_ack \/ set_PH15 \/ reinit_or_validate \/ set_PIR
  \/ l1d_hold_starcore \/ Reset_PIR_PH15 \/ Reload_shared \/ Reload_B4
  \/ l1d_release_starcore \/ check_dsp_ready_CRSTSR \/ check_dsp_boot
  \/ check_status \/ fsl_start_L1_defense_end
  \/ pre_load_B4 \/ set_PH15_simple \/ set_PIR_simple \/ l1d_hold_starcore_simple
  \/ Reset_PIR_PH15_simple \/ load_B4 \/ release_starcore \/ post_load_B4
  \/ \E c \in Cores : CoreBegins(c) \/ CoreUp(c) \/ CoreFaults(c) \/ CoreAcks(c) \/ CoreDozes(c)

BootSpec == BootInitState /\ [][DspNext]_bootVars

-----------------------------------------------------------------------------
Executing(c) == core[c] \notin {"off", "held", "reset"}

(* A warm reset writes a core's image only while the core is held, so no    *)
(* core ever runs a mixture of two images: through the whole sequence of    *)
(* VNMI, PH15, reset, hold and release, whatever the cores do meanwhile.    *)
(* Not when the corruption that check_validation_fields reports is taken    *)
(* for success, nor when the list of dsp_boot has a gap or a shared image,  *)
(* so that its positions are not its cores.                                 *)
LoadedStopped ==
  [][\A c \in Cores :
       /\ image'[c] # image[c] /\ Aligned(bt.call) /\ ~bt.corrupt
       /\ AtPc("load") \/ bt.call.api = "load_new"
       => ~Executing(c)]_bootVars

(* fsl_start_L1_defense returns 0 only if every flagged core came up again  *)
(* after this very call released it, not for a status left by an earlier    *)
(* reset and not if one of several cores failed.  (Reported corruption that *)
(* is ignored is excepted here too.)                                        *)
SuccessIsRestart == AtPc("end") /\ bt.ret = 0 /\ ~bt.corrupt => F \subseteq restarted

(* A core is released only after the shared areas were announced, the PA    *)
(* was marked initialised, the L2 cache of the core's cluster was enabled   *)
(* and the load of its image has returned success: no failure or crash in   *)
(* between, in whatever call, leaves a core that a later call releases with *)
(* half an image.  (In a warm reset for aligned lists only.)                *)
ReleasedLoaded ==
  [][\A c \in regs'.brr \ regs.brr :
       AtPc("c_release") \/ Aligned(bt.call) =>
         /\ ctl.pa /\ ctl.shared
         /\ image[c] \in {"whole", "torn"}
         /\ c \div 2 \in regs.l2]_bootVars

(* What the reset sequence promises of a core and its image: the image is   *)
(* written while the core is stopped, and the core is started with it.      *)
ImagesInOrder == LoadedStopped /\ ReleasedLoaded
=============================================================================
