----------------------------- MODULE IpcProofs ------------------------------
(***************************************************************************)
(* Proofs about what the host and a DSP share.  The control area that the  *)
(* kernel modules lay out (HetMgr), and loading and restarting the DSP of  *)
(* a BSC913x over it (Dsp913x), for any sizes and channel counts, and      *)
(* wherever a load or restart breaks off.  And the descriptor ring         *)
(* (BdRing) and the driver that waits on it (HetIpc), for every ring size  *)
(* and every counter width the ring size fits in: the local indices stay   *)
(* in step with the wrapping counters, the ring implements a bounded FIFO  *)
(* with no lock between the producer and the consumer, the driver's wait   *)
(* does not disturb it, and a message the reader sleeps over is recorded   *)
(* in msg_ready_mask.                                                      *)
(***************************************************************************)
EXTENDS Dsp913x, HetIpc, TLAPS

-----------------------------------------------------------------------------
(* The process of a BSC913x, and where its steps lead. *)
LdRecord == ld = [pc |-> ld.pc, restart |-> ld.restart, ret |-> ld.ret]

LEMMA LdSteps ==
  ASSUME LdRecord
  PROVE  /\ \A l : LdGoto(l) => LdRecord' /\ ld'.pc = l
         /\ \A r : LdReturn(r) => LdRecord' /\ ld'.pc = "idle"
<1>1. ASSUME NEW l, LdGoto(l) PROVE LdRecord' /\ ld'.pc = l
  <2>1. ld' = [pc |-> l, restart |-> ld.restart, ret |-> ld.ret]
    BY <1>1, Zenon DEF LdGoto, LdRecord
  <2> QED
    BY <2>1, Zenon DEF LdRecord
<1>2. ASSUME NEW r, LdReturn(r) PROVE LdRecord' /\ ld'.pc = "idle"
  <2>1. ld' = [pc |-> "idle", restart |-> FALSE, ret |-> r]
    BY <1>2, Zenon DEF LdReturn, LdIdle
  <2> QED
    BY <2>1, Zenon DEF LdRecord
<1> QED
  BY <1>1, <1>2, Zenon

(* PASTATE is set only over an image completed since the last VNMI, and it  *)
(* is clear while a VNMI is about to be sent.                               *)
FreshInv ==
  /\ LdRecord
  /\ pastate \in BOOLEAN /\ fresh \in BOOLEAN
  /\ pastate = TRUE => fresh = TRUE
  /\ ld.pc = "vnmi" => pastate = FALSE
  /\ ld.pc \in {"pa_init", "go"} => fresh = TRUE

LEMMA FreshInvNext == FreshInv /\ [Area913xNext]_areaVars => FreshInv'
<1> SUFFICES ASSUME FreshInv, [Area913xNext]_areaVars PROVE FreshInv'
  BY Zenon
<1>1. ASSUME UNCHANGED ldVars PROVE FreshInv'
  BY <1>1, Zenon DEF FreshInv, LdRecord, ldVars
<1>2. CASE LdCall
  <2>1. PICK restart \in BOOLEAN :
          ld' = [pc |-> IF restart THEN "reinit" ELSE "open", restart |-> restart, ret |-> 0]
    BY <1>2, Zenon DEF LdCall
  <2>2. LdRecord' /\ ld'.pc \in {"reinit", "open"}
    BY <2>1, Zenon DEF LdRecord
  <2> QED
    BY <1>2, <2>2, Zenon DEF LdCall, LdOnly, dspVars, FreshInv
<1>3. CASE LdDies
  BY <1>3, LdSteps, Zenon DEF LdDies, LdOnly, dspVars, FreshInv
<1>4. CASE pre_load_913x
  BY <1>4, LdSteps DEF pre_load_913x, dspVars, FreshInv
<1>5. CASE fsl_ipc_reinit
  BY <1>5, LdSteps DEF fsl_ipc_reinit, dspVars, FreshInv
<1>6. CASE reset_ppc_ready
  <2>1. LdRecord' /\ fresh' = fresh
    BY <1>6, LdSteps, Zenon DEF reset_ppc_ready, LdOnly, FreshInv
  <2>2. \/ ld'.pc = "vnmi" /\ pastate' = FALSE
        \/ ld'.pc = "idle" /\ pastate' = pastate
    <3>1. CASE pastate' = FALSE /\ LdGoto("vnmi")
      BY <3>1, LdSteps, Zenon DEF FreshInv
    <3>2. CASE LdReturn(-1) /\ UNCHANGED pastate
      BY <3>2, LdSteps, Zenon DEF FreshInv
    <3> QED
      BY <1>6, <3>1, <3>2, Zenon DEF reset_ppc_ready
  <2> QED
    BY <2>1, <2>2, Zenon DEF FreshInv
<1>7. CASE send_vnmi_913x
  <2>1. pastate = FALSE /\ pastate' = pastate /\ fresh' = FALSE
    BY <1>7, Zenon DEF send_vnmi_913x, LdAt, LdOnly, FreshInv
  <2>2. LdRecord' /\ ld'.pc \in {"ready", "idle"}
    BY <1>7, LdSteps, Zenon DEF send_vnmi_913x, FreshInv
  <2> QED
    BY <2>1, <2>2, Zenon DEF FreshInv
<1>8. CASE dsp_ready_check
  BY <1>8, LdSteps DEF dsp_ready_check, LdOnly, dspVars, FreshInv
<1>9. CASE load_913x
  <2>1. LdRecord' /\ pastate' = pastate
    BY <1>9, LdSteps, Zenon DEF load_913x, LdOnly, FreshInv
  <2>2. \/ ld'.pc \in {"load", "idle"} /\ fresh' = fresh
        \/ ld'.pc = "pa_init" /\ fresh' = TRUE
    BY <1>9, LdSteps, Zenon DEF load_913x, FreshInv
  <2> QED
    BY <2>1, <2>2, Zenon DEF FreshInv
<1>10. CASE set_sh_ctrl_pa_init
  BY <1>10, LdSteps DEF set_sh_ctrl_pa_init, LdAt, dspVars, FreshInv
<1>11. CASE set_ppc_ready
  BY <1>11, LdSteps DEF set_ppc_ready, LdAt, LdOnly, FreshInv
<1>12. CASE check_dsp_boot_913x
  BY <1>12, LdSteps, Zenon DEF check_dsp_boot_913x, LdOnly, FreshInv
<1>13. CASE DspTakesVnmi \/ DspStarts \/ DspUp
  BY <1>13, Zenon DEF DspTakesVnmi, DspStarts, DspUp, LdOnly, FreshInv, LdRecord
<1> QED
  BY <1>1, <1>2, <1>3, <1>4, <1>5, <1>6, <1>7, <1>8, <1>9, <1>10, <1>11, <1>12, <1>13, Zenon
  DEF Area913xNext, LdNext, areaVars

(* The DSP of a BSC913x leaves its boot ROM only into an image completed    *)
(* after the last VNMI, wherever fsl_restart_L1 or b913x_load_dsp_image     *)
(* broke off before and however late the DSP takes the interrupt.           *)
THEOREM StartsFreshTheorem == Area913xSpec => StartsFresh
<1>1. HetAreaInit /\ LdInit => FreshInv
  <2> SUFFICES ASSUME LdInit PROVE FreshInv
    BY Zenon
  <2>1. ld = [pc |-> "idle", restart |-> FALSE, ret |-> 0] /\ pastate = FALSE /\ fresh = FALSE
    BY Zenon DEF LdInit, LdIdle
  <2>2. LdRecord /\ ld.pc = "idle"
    BY <2>1, Zenon DEF LdRecord
  <2> QED
    BY <2>1, <2>2, Zenon DEF FreshInv
<1>2. FreshInv /\ [Area913xNext]_areaVars =>
        [dsp = "rom" /\ dsp' # "rom" => fresh]_<<dsp, fresh>>
  <2> SUFFICES ASSUME FreshInv, [Area913xNext]_areaVars, dsp = "rom", dsp' # "rom" PROVE fresh
    BY Zenon
  <2>1. pastate
    BY Zenon DEF Area913xNext, LdNext, areaVars, ldVars, LdCall, LdDies, pre_load_913x,
           fsl_ipc_reinit, reset_ppc_ready, send_vnmi_913x, dsp_ready_check, load_913x,
           set_sh_ctrl_pa_init, set_ppc_ready, check_dsp_boot_913x, DspTakesVnmi, DspStarts,
           DspUp, LdOnly, dspVars
  <2> QED
    BY <2>1, Zenon DEF FreshInv
<1> QED
  BY <1>1, <1>2, FreshInvNext, PTL DEF Area913xSpec, StartsFresh

-----------------------------------------------------------------------------
(* The control area: types of its structures. *)
Builds == [board : {"B913x", "B4860"}, regions : {1, 2}, drvCh : ChannelCounts,
           mgrCh : ChannelCounts, ctrl : CtrlSizes]
Areas == [mgr : BOOLEAN, size : Int, ipc : Int, dbg : Int, aux : Int, mark : Int,
          ctrlSize : Int, pa : BOOLEAN, sc : BOOLEAN, areas : BOOLEAN,
          chans : [Regions -> Int], rings : [Regions -> Int], count : Int,
          open0 : SUBSET Regions]

(* The fields that say where a structure is. *)
SameLayout(h, g) ==
  /\ g.mgr = h.mgr /\ g.ipc = h.ipc /\ g.dbg = h.dbg /\ g.aux = h.aux /\ g.mark = h.mark
  /\ g.chans = h.chans /\ g.rings = h.rings /\ g.count = h.count

LEMMA RegionFacts ==
  ASSUME build \in Builds
  PROVE  /\ 0 \in Regions /\ Regions \subseteq {0, 1} /\ Cleared \in [Regions -> Int]
         /\ build.regions \in {1, 2} /\ build.drvCh \in Nat /\ build.mgrCh \in Nat
         /\ build.ctrl \in Nat /\ build.board \in {"B913x", "B4860"}
         /\ 1 \in Regions <=> build.regions = 2
         /\ Logs(build.board) \in Nat
<1>1. /\ build.regions \in {1, 2} /\ build.drvCh \in ChannelCounts /\ build.mgrCh \in ChannelCounts
      /\ build.ctrl \in CtrlSizes /\ build.board \in {"B913x", "B4860"}
  BY Zenon DEF Builds
<1>2. /\ 0 \in Regions /\ Regions \subseteq {0, 1}
      /\ 1 \in Regions <=> build.regions = 2
  BY <1>1 DEF Regions
<1>3. Cleared \in [Regions -> Int]
  BY DEF Cleared
<1>4. build.drvCh \in Nat /\ build.mgrCh \in Nat /\ build.ctrl \in Nat
  BY <1>1, HetAssumption, Zenon
<1>5. Logs(build.board) \in Nat
  BY Zenon DEF Logs
<1> QED
  BY <1>1, <1>2, <1>3, <1>4, <1>5, Zenon

LEMMA InitFields ==
  ASSUME build \in Builds, NEW h \in Areas
  PROVE  /\ init_sh_ctrl_area(h) \in Areas
         /\ init_sh_ctrl_area(h).mgr = h.mgr
         /\ init_sh_ctrl_area(h).ipc = CtrlBase + SizeControl
         /\ init_sh_ctrl_area(h).dbg = CtrlBase + SizeControl + build.regions * SizeIpc
         /\ init_sh_ctrl_area(h).aux = CtrlBase + SizeControl + build.regions * SizeIpc
                                         + Logs(build.board) * SizeLog
         /\ init_sh_ctrl_area(h).mark = CtrlBase + SizeControl + build.regions * SizeIpc
                                         + Logs(build.board) * SizeLog + SizeAux
         /\ init_sh_ctrl_area(h).chans = Cleared
<1> DEFINE ipc == CtrlBase + SizeControl
           dbg == ipc + build.regions * SizeIpc
           aux == dbg + Logs(build.board) * SizeLog
           mark == aux + SizeAux
<1>1. ipc \in Int /\ dbg \in Int /\ aux \in Int /\ mark \in Int
  BY RegionFacts, HetAssumption
<1>2. Cleared \in [Regions -> Int] /\ {} \in SUBSET Regions
  BY RegionFacts, Zenon
<1>3. init_sh_ctrl_area(h) =
        [mgr |-> h.mgr, size |-> h.size, ipc |-> ipc, dbg |-> dbg, aux |-> aux, mark |-> mark,
         ctrlSize |-> 1, pa |-> FALSE, sc |-> FALSE, areas |-> FALSE,
         chans |-> Cleared, rings |-> Cleared, count |-> 0, open0 |-> {}]
  BY Zenon DEF init_sh_ctrl_area
<1>4. h.mgr \in BOOLEAN /\ h.size \in Int
  BY Zenon DEF Areas
<1> HIDE DEF ipc, dbg, aux, mark
<1>5. init_sh_ctrl_area(h) \in Areas
  BY <1>1, <1>2, <1>3, <1>4 DEF Areas
<1> QED
  BY <1>3, <1>5 DEF ipc, dbg, aux, mark

(* Setting flags moves nothing. *)
LEMMA FlagFields ==
  ASSUME NEW h \in Areas, NEW a \in BOOLEAN, NEW p \in BOOLEAN, NEW c \in BOOLEAN
  PROVE  /\ [h EXCEPT !.areas = a] \in Areas /\ SameLayout(h, [h EXCEPT !.areas = a])
         /\ [h EXCEPT !.sc = c] \in Areas /\ SameLayout(h, [h EXCEPT !.sc = c])
         /\ [h EXCEPT !.pa = p, !.sc = c] \in Areas /\ SameLayout(h, [h EXCEPT !.pa = p, !.sc = c])
<1>1. [h EXCEPT !.areas = a] \in Areas /\ SameLayout(h, [h EXCEPT !.areas = a])
  BY Zenon DEF Areas, SameLayout
<1>2. [h EXCEPT !.sc = c] \in Areas /\ SameLayout(h, [h EXCEPT !.sc = c])
  BY Zenon DEF Areas, SameLayout
<1>3. [h EXCEPT !.pa = p, !.sc = c] \in Areas
  BY Zenon DEF Areas
<1>4. SameLayout(h, [h EXCEPT !.pa = p, !.sc = c])
  BY Zenon DEF Areas, SameLayout
<1> QED
  BY <1>1, <1>2, <1>3, <1>4, Zenon

LEMMA LayOutFields ==
  ASSUME build \in Builds, NEW h \in Areas, NEW r \in Regions, NEW n \in Nat
  PROVE  /\ LayOut(h, r, n) \in Areas
         /\ LayOut(h, r, n).mgr = h.mgr /\ LayOut(h, r, n).ipc = h.ipc
         /\ LayOut(h, r, n).dbg = h.dbg /\ LayOut(h, r, n).aux = h.aux
         /\ LayOut(h, r, n).mark = h.mark + ChannelsSize(n) /\ LayOut(h, r, n).count = n
         /\ LayOut(h, r, n).chans = [h.chans EXCEPT ![r] = h.mark]
         /\ LayOut(h, r, n).rings = [h.rings EXCEPT ![r] = h.mark + SizeCh * n]
<1>1. ChannelsSize(n) \in Int /\ SizeCh * n \in Int
  BY HetAssumption DEF ChannelsSize
<1> DEFINE g == get_hetmgr_mem(h, ChannelsSize(n))
<1>2. /\ g \in Areas /\ g.mgr = h.mgr /\ g.ipc = h.ipc /\ g.dbg = h.dbg /\ g.aux = h.aux
      /\ g.mark = h.mark + ChannelsSize(n) /\ g.chans = h.chans /\ g.rings = h.rings
  <2> DEFINE x == h.mark + ChannelsSize(n)
             y == h.ctrlSize * 4
  <2>1. x \in Int /\ y \in Int
    BY <1>1 DEF Areas
  <2>2. g = [h EXCEPT !.mark = x, !.ctrlSize = y]
    BY Zenon DEF get_hetmgr_mem
  <2> HIDE DEF x, y, g
  <2>3. g \in Areas
    BY <2>1, <2>2, Zenon DEF Areas
  <2>4. /\ g.mgr = h.mgr /\ g.ipc = h.ipc /\ g.dbg = h.dbg /\ g.aux = h.aux
        /\ g.mark = x /\ g.chans = h.chans /\ g.rings = h.rings
    BY <2>2, Zenon DEF Areas
  <2> QED
    BY <2>3, <2>4, Zenon DEF x
<1>3. LayOut(h, r, n) = [g EXCEPT !.chans[r] = h.mark, !.rings[r] = h.mark + SizeCh * n, !.count = n]
  BY Zenon DEF LayOut
<1> HIDE DEF g
<1>4. h.mark \in Int /\ h.mark + SizeCh * n \in Int
  BY <1>1 DEF Areas
<1>5. /\ LayOut(h, r, n).mgr = g.mgr /\ LayOut(h, r, n).ipc = g.ipc
      /\ LayOut(h, r, n).dbg = g.dbg /\ LayOut(h, r, n).aux = g.aux
      /\ LayOut(h, r, n).mark = g.mark /\ LayOut(h, r, n).count = n
      /\ LayOut(h, r, n).chans = [g.chans EXCEPT ![r] = h.mark]
      /\ LayOut(h, r, n).rings = [g.rings EXCEPT ![r] = h.mark + SizeCh * n]
  BY <1>2, <1>3, Zenon DEF Areas
<1>6. LayOut(h, r, n) \in Areas
  <2> DEFINE u == [g.chans EXCEPT ![r] = h.mark]
             v == [g.rings EXCEPT ![r] = h.mark + SizeCh * n]
  <2>1. g.chans \in [Regions -> Int] /\ g.rings \in [Regions -> Int]
    BY <1>2, Zenon DEF Areas
  <2>2. u \in [Regions -> Int] /\ v \in [Regions -> Int] /\ n \in Int
    BY <1>4, <2>1
  <2>3. LayOut(h, r, n) = [g EXCEPT !.chans = u, !.rings = v, !.count = n]
    BY <1>2, <1>3, Zenon DEF Areas
  <2> HIDE DEF u, v
  <2> QED
    BY <1>2, <2>2, <2>3, ZenonT(30) DEF Areas
<1> QED
  BY <1>2, <1>5, <1>6, Zenon

LEMMA OpenFields ==
  ASSUME NEW h \in Areas, NEW s \in SUBSET Regions
  PROVE  [h EXCEPT !.open0 = s] \in Areas /\ SameLayout(h, [h EXCEPT !.open0 = s])
  BY Zenon DEF Areas, SameLayout

(* A DSP boot moves the channels at most. *)
SameFrame(h, g) ==
  g.mgr = h.mgr /\ g.ipc = h.ipc /\ g.dbg = h.dbg /\ g.aux = h.aux /\ g.mark = h.mark

LEMMA B4Fields ==
  ASSUME build \in Builds, NEW h \in Areas, NEW rat
  PROVE  /\ fsl_B4_ipc_init(h, rat) \in Areas
         /\ SameFrame(h, fsl_B4_ipc_init(h, rat))
         /\ fsl_B4_ipc_init(h, rat).chans = h.chans
<1> DEFINE at == h.ipc + SizeIpc + SizeCh * build.mgrCh
           v == [h.rings EXCEPT ![0] = at]
           o == h.open0 \cup {0}
           g == [h EXCEPT !.rings = v, !.open0 = o]
<1>1. at \in Int
  BY HetAssumption, RegionFacts DEF Areas
<1>2. v \in [Regions -> Int] /\ o \in SUBSET Regions
  BY <1>1, RegionFacts, Zenon DEF Areas
<1>3. fsl_B4_ipc_init(h, rat) \in {h, g}
  BY Zenon DEF fsl_B4_ipc_init
<1> HIDE DEF v, o
<1>4. g \in Areas
  BY <1>2, Zenon DEF Areas
<1>5. SameFrame(h, g) /\ g.chans = h.chans
  BY Zenon DEF Areas, SameFrame
<1> HIDE DEF g
<1> QED
  BY <1>3, <1>4, <1>5, Zenon DEF SameFrame

LEMMA N913xFields ==
  ASSUME build \in Builds, NEW h \in Areas, NEW rat \in {1, 2}
  PROVE  /\ fsl_913x_ipc_init(h, rat) \in Areas
         /\ SameFrame(h, fsl_913x_ipc_init(h, rat))
<1> DEFINE start(r) == h.ipc + SizeIpc + r * (ChannelsSize(build.mgrCh) + SizeIpc)
           Done == Regions \cap 0 .. rat - 1
           u == [r \in Regions |-> IF r \in Done THEN start(r) ELSE h.chans[r]]
           v == [r \in Regions |-> IF r \in Done THEN start(r) + SizeCh * build.mgrCh ELSE h.rings[r]]
           o == h.open0 \cup Done
           n == build.mgrCh
           g == [h EXCEPT !.chans = u, !.rings = v, !.count = n, !.open0 = o]
<1>1. /\ h.chans \in [Regions -> Int] /\ h.rings \in [Regions -> Int] /\ h.open0 \in SUBSET Regions
      /\ h.ipc \in Int
  BY Zenon DEF Areas
<1>2. n \in Int /\ ChannelsSize(build.mgrCh) \in Int /\ SizeCh * build.mgrCh \in Int /\ SizeIpc \in Int
  BY RegionFacts, HetAssumption DEF ChannelsSize
<1>3. \A r \in Regions : start(r) \in Int /\ start(r) + SizeCh * build.mgrCh \in Int
  BY <1>1, <1>2, RegionFacts
<1> HIDE DEF start
<1>4. u \in [Regions -> Int] /\ v \in [Regions -> Int] /\ o \in SUBSET Regions
  BY <1>1, <1>3, Zenon
<1>5. fsl_913x_ipc_init(h, rat) = g
  BY Zenon DEF fsl_913x_ipc_init, start
<1> HIDE DEF u, v, o, n
<1>6. g \in Areas
  BY <1>2, <1>4, ZenonT(30) DEF Areas
<1>7. SameFrame(h, g)
  BY Zenon DEF Areas, SameFrame
<1> HIDE DEF g
<1> QED
  BY <1>5, <1>6, <1>7, Zenon

-----------------------------------------------------------------------------
(* The kernel modules' part of the layout never moves while het_mgr is      *)
(* loaded, and the mark is beyond it.                                       *)
FrameFixed ==
  /\ het.ipc = CtrlBase + SizeControl
  /\ het.dbg = het.ipc + build.regions * SizeIpc
  /\ het.aux = het.dbg + Logs(build.board) * SizeLog
  /\ het.aux + SizeAux <= het.mark

(* Channel array and rings of each region adjoin, lie between the frame and *)
(* the mark, and the second region's lie behind the first's.                *)
ChannelsPlaced ==
  /\ het.count \in Nat
  /\ \A r \in Regions : het.chans[r] # 0 =>
       /\ het.aux + SizeAux <= het.chans[r]
       /\ het.rings[r] = het.chans[r] + SizeCh * het.count
       /\ het.chans[r] + ChannelsSize(het.count) <= het.mark
       /\ r = 1 => het.chans[0] + ChannelsSize(het.count) <= het.chans[1]

AreaType ==
  /\ build \in Builds /\ het \in Areas /\ LdRecord
  /\ drv = [loaded |-> drv.loaded, loads |-> drv.loads] /\ drv.loaded \in BOOLEAN
  /\ app = [inst |-> app.inst, ch |-> app.ch, last |-> app.last]
  /\ redone \in BOOLEAN /\ wiped \in BOOLEAN

(* Attached processes hold het_ipc, het_ipc holds het_mgr, and only a       *)
(* BSC913x boots through Dsp913x.                                           *)
Holding ==
  /\ drv.loaded = TRUE => het.mgr = TRUE
  /\ app.inst # {} => drv.loaded = TRUE
  /\ ld.pc # "idle" => build.board = "B913x"

AreaInv ==
  /\ AreaType /\ Holding
  /\ AttachedCurrent
  /\ het.mgr = TRUE => FrameFixed
  /\ het.mgr = TRUE /\ redone = FALSE => ChannelsPlaced

(* What a step must show for the types, given that the build stays. *)
LEMMA AreaTypeKept ==
  ASSUME AreaType, build' = build, het' \in Areas, LdRecord',
         \/ drv' = drv
         \/ \E b \in BOOLEAN : \E n : drv' = [loaded |-> b, loads |-> n],
         \/ app' = app
         \/ \E s, c, l : app' = [inst |-> s, ch |-> c, last |-> l],
         redone' \in BOOLEAN, wiped' \in BOOLEAN
  PROVE  AreaType'
<1>1. build' \in Builds' /\ het' \in Areas'
  BY Zenon DEF AreaType, Builds, Areas, Regions
<1>2. drv' = [loaded |-> drv'.loaded, loads |-> drv'.loads] /\ drv'.loaded \in BOOLEAN
  <2>1. ASSUME NEW b \in BOOLEAN, NEW n, drv' = [loaded |-> b, loads |-> n]
        PROVE  drv' = [loaded |-> drv'.loaded, loads |-> drv'.loads] /\ drv'.loaded \in BOOLEAN
    BY <2>1, Zenon
  <2> QED
    BY <2>1, Zenon DEF AreaType
<1>3. app' = [inst |-> app'.inst, ch |-> app'.ch, last |-> app'.last]
  <2>1. ASSUME NEW s, NEW c, NEW l, app' = [inst |-> s, ch |-> c, last |-> l]
        PROVE  app' = [inst |-> app'.inst, ch |-> app'.ch, last |-> app'.last]
    BY <2>1, Zenon
  <2> QED
    BY <2>1, Zenon DEF AreaType
<1> QED
  BY <1>1, <1>2, <1>3, Zenon DEF AreaType

LEMMA FrameKept ==
  ASSUME build' = build, FrameFixed, SameFrame(het, het')
  PROVE  FrameFixed'
  BY Zenon DEF FrameFixed, SameFrame

(* A step that changes flags, or nothing, of the area. *)
LEMMA FlagsOnly ==
  ASSUME AreaInv, build' = build, het' \in Areas, SameLayout(het, het'), LdRecord',
         drv' = drv, app' = app, redone' = redone, wiped' = wiped,
         ld'.pc # "idle" => build.board = "B913x"
  PROVE  AreaInv'
<1>1. AreaType'
  BY AreaTypeKept, Zenon DEF AreaInv, AreaType
<1>2. Holding'
  BY Zenon DEF AreaInv, Holding, SameLayout
<1>3. AttachedCurrent'
  BY Zenon DEF AreaInv, AttachedCurrent, SameLayout
<1>4. FrameFixed => FrameFixed'
  BY FrameKept, Zenon DEF SameLayout, SameFrame
<1>5. ChannelsPlaced => ChannelsPlaced'
  BY Zenon DEF ChannelsPlaced, SameLayout, Regions, ChannelsSize
<1> QED
  BY <1>1, <1>2, <1>3, <1>4, <1>5, Zenon DEF AreaInv, SameLayout

(* A step with which user space lays the channels out. *)
LEMMA ChannelsRedone ==
  ASSUME AreaInv, build' = build, het' \in Areas, SameFrame(het, het'), LdRecord',
         drv' = drv, app' = app, redone' = TRUE, wiped' = wiped,
         ld'.pc # "idle" => build.board = "B913x",
         build.board = "B4860" => het'.chans = het.chans
  PROVE  AreaInv'
<1>1. AreaType'
  BY AreaTypeKept, Zenon DEF AreaInv, AreaType
<1>2. Holding'
  BY Zenon DEF AreaInv, Holding, SameFrame
<1>3. AttachedCurrent'
  BY Zenon DEF AreaInv, AttachedCurrent
<1>4. FrameFixed => FrameFixed'
  BY FrameKept, Zenon
<1> QED
  BY <1>1, <1>2, <1>3, <1>4, Zenon DEF AreaInv, SameFrame

LEMMA SelfLayout == ASSUME NEW h PROVE SameLayout(h, h)
  BY Zenon DEF SameLayout

LEMMA HetMgrInitKeeps == AreaInv /\ het_mgr_init /\ ld' = ld => AreaInv'
<1> SUFFICES ASSUME AreaInv, het_mgr_init, ld' = ld PROVE AreaInv'
  BY Zenon
<1>1. /\ build' = build /\ drv' = drv /\ app' = app /\ wiped' = wiped /\ redone' = FALSE
      /\ het.mgr = FALSE
  BY Zenon DEF het_mgr_init, AreaInv, AreaType, Areas
<1>2. app.inst = {} /\ drv.loaded = FALSE
  BY <1>1, Zenon DEF AreaInv, AreaType, Holding
<1>3. LdRecord' /\ build \in Builds /\ het \in Areas
  BY Zenon DEF AreaInv, AreaType, LdRecord
<1>4. AttachedCurrent'
  BY <1>1, <1>2, Zenon DEF AttachedCurrent
<1> DEFINE g == init_sh_ctrl_area(het)
           z == get_het_sys_map(build.ctrl)
<1>5. g \in Areas /\ z \in Int
  BY <1>3, InitFields, RegionFacts, HetAssumption DEF get_het_sys_map
<1>6. het' = het \/ het' = [g EXCEPT !.mgr = TRUE, !.size = z]
  BY Zenon DEF het_mgr_init
<1> HIDE DEF g, z
<1>7. CASE het' = het
  <2>1. AreaType'
    BY <1>1, <1>3, <1>7, AreaTypeKept, Zenon DEF AreaInv, AreaType
  <2>2. Holding'
    BY <1>1, <1>7, Zenon DEF AreaInv, Holding
  <2> QED
    BY <1>1, <1>4, <1>7, <2>1, <2>2, Zenon DEF AreaInv
<1>8. CASE het' = [g EXCEPT !.mgr = TRUE, !.size = z]
  <2>1. /\ het' \in Areas /\ het'.mgr = TRUE /\ het'.ipc = g.ipc /\ het'.dbg = g.dbg
        /\ het'.aux = g.aux /\ het'.mark = g.mark /\ het'.chans = g.chans
        /\ het'.count = g.count
    <3>1. het' \in Areas
      BY <1>5, <1>8, Zenon DEF Areas
    <3> QED
      BY <1>5, <1>8, <3>1, Zenon DEF Areas
  <2>3. AreaType'
    BY <1>1, <1>3, <2>1, AreaTypeKept, Zenon DEF AreaInv, AreaType
  <2>4. Holding'
    BY <1>1, <1>2, <2>1, Zenon DEF AreaInv, Holding
  <2>5. FrameFixed'
    BY <1>1, <1>3, <2>1, InitFields, RegionFacts, HetAssumption DEF FrameFixed, g
  <2>6. ChannelsPlaced'
    <3>1. g.chans = [r \in Regions |-> 0]
      BY <1>3, InitFields, Zenon DEF Cleared, g
    <3>2. g.count = 0
      BY Zenon DEF g, init_sh_ctrl_area
    <3> QED
      BY <1>1, <2>1, <3>1, <3>2 DEF ChannelsPlaced, Regions
  <2> QED
    BY <1>4, <2>3, <2>4, <2>5, <2>6, Zenon DEF AreaInv
<1> QED
  BY <1>6, <1>7, <1>8, Zenon

LEMMA ResetKeeps == AreaInv /\ fsl_reinit_sh_ctrl_area /\ ld' = ld => AreaInv'
<1> SUFFICES ASSUME AreaInv, fsl_reinit_sh_ctrl_area, ld' = ld PROVE AreaInv'
  BY Zenon
<1>1. /\ build' = build /\ drv' = drv /\ app' = app /\ wiped' = TRUE /\ redone' = FALSE
      /\ het.mgr = TRUE
  BY Zenon DEF fsl_reinit_sh_ctrl_area, AreaInv, AreaType, Areas
<1>2. LdRecord' /\ build \in Builds /\ het \in Areas /\ het.areas \in BOOLEAN
  BY Zenon DEF AreaInv, AreaType, LdRecord, Areas
<1> DEFINE g == init_sh_ctrl_area(het)
           a == het.areas
<1>3. g \in Areas /\ a \in BOOLEAN
  BY <1>2, InitFields, Zenon
<1>4. het' = [g EXCEPT !.areas = a]
  BY Zenon DEF fsl_reinit_sh_ctrl_area
<1>5. g.chans = [r \in Regions |-> 0] /\ g.count = 0 /\ g.mgr = TRUE
  <2>1. g.chans = [r \in Regions |-> 0] /\ g.mgr = TRUE
    BY <1>1, <1>2, InitFields, Zenon DEF Cleared
  <2>2. g.count = 0
    BY Zenon DEF init_sh_ctrl_area
  <2> QED
    BY <2>1, <2>2, Zenon
<1> HIDE DEF g, a
<1>6. het' \in Areas /\ SameLayout(g, het')
  BY <1>3, <1>4, FlagFields, Zenon
<1>7. AreaType'
  BY <1>1, <1>2, <1>6, AreaTypeKept, Zenon DEF AreaInv, AreaType
<1>8. Holding'
  BY <1>1, <1>5, <1>6, Zenon DEF AreaInv, Holding, SameLayout
<1>9. FrameFixed'
  BY <1>1, <1>2, <1>6, InitFields, RegionFacts, HetAssumption DEF FrameFixed, SameLayout, g
<1>10. ChannelsPlaced'
  BY <1>1, <1>5, <1>6 DEF ChannelsPlaced, Regions, SameLayout
<1>11. AttachedCurrent'
  BY <1>1, Zenon DEF AttachedCurrent
<1> QED
  BY <1>7, <1>8, <1>9, <1>10, <1>11, Zenon DEF AreaInv

LEMMA DriverInitKeeps == AreaInv /\ ipc_driver_init /\ ld' = ld => AreaInv'
<1> SUFFICES ASSUME AreaInv, ipc_driver_init, ld' = ld PROVE AreaInv'
  BY Zenon
<1>1. /\ build' = build /\ app' = app /\ wiped' = FALSE /\ redone' = FALSE
      /\ drv' = [loaded |-> TRUE, loads |-> drv.loads + 1]
      /\ het.mgr = TRUE /\ drv.loaded = FALSE
  BY Zenon DEF ipc_driver_init, AreaInv, AreaType, Areas
<1>2. LdRecord' /\ build \in Builds /\ het \in Areas /\ app.inst = {} /\ FrameFixed
  BY <1>1, Zenon DEF AreaInv, AreaType, LdRecord, Holding
<1>3. /\ 0 \in Regions /\ Regions \subseteq {0, 1} /\ build.regions \in {1, 2}
      /\ build.drvCh \in Nat /\ (1 \in Regions <=> build.regions = 2)
  BY <1>2, RegionFacts, Zenon
<1> DEFINE n == build.drvCh
           one == LayOut(het, 0, n)
           all == IF build.regions = 2 THEN LayOut(one, 1, n) ELSE one
<1>4. PICK irqs \in BOOLEAN :
        het' = [all EXCEPT !.open0 = IF irqs \/ build.regions = 2 THEN Regions ELSE @]
  BY Zenon DEF ipc_driver_init
<1>5. /\ one \in Areas /\ one.mgr = TRUE /\ one.ipc = het.ipc /\ one.dbg = het.dbg
      /\ one.aux = het.aux /\ one.mark = het.mark + ChannelsSize(n) /\ one.count = n
      /\ one.chans = [het.chans EXCEPT ![0] = het.mark]
      /\ one.rings = [het.rings EXCEPT ![0] = het.mark + SizeCh * n]
  <2>1. build \in Builds /\ het \in Areas /\ 0 \in Regions /\ n \in Nat /\ het.mgr = TRUE
    BY <1>1, <1>2, <1>3, Zenon
  <2>2. /\ one \in Areas /\ one.mgr = het.mgr /\ one.ipc = het.ipc /\ one.dbg = het.dbg
        /\ one.aux = het.aux /\ one.mark = het.mark + ChannelsSize(n) /\ one.count = n
        /\ one.chans = [het.chans EXCEPT ![0] = het.mark]
        /\ one.rings = [het.rings EXCEPT ![0] = het.mark + SizeCh * n]
    <3>1. one = LayOut(het, 0, n)
      OBVIOUS
    <3> HIDE DEF n, one
    <3> QED
      BY <2>1, <3>1, LayOutFields, SMTT(40)
  <2> QED
    BY <2>1, <2>2, Zenon
<1>6. /\ het.mark \in Int /\ het.aux \in Int /\ het.chans \in [Regions -> Int] /\ het.rings \in [Regions -> Int]
      /\ n \in Nat /\ ChannelsSize(n) \in Nat /\ SizeCh * n \in Nat /\ SizeAux \in Nat
  <2>1. n \in Nat /\ SizeAux \in Nat /\ SizeCh \in Nat /\ SizeBd \in Nat /\ Depth \in Nat
    BY <1>3, HetAssumption, Zenon
  <2>2. SizeCh * n \in Nat /\ SizeBd * n * Depth \in Nat
    BY <2>1, SMTT(30)
  <2> QED
    BY <1>2, <2>1, <2>2 DEF Areas, ChannelsSize
<1> DEFINE C == ChannelsSize(n)
           N == SizeCh * n
<1> HIDE DEF one, n, C, N
<1>7. /\ all \in Areas /\ all.mgr = TRUE /\ all.ipc = het.ipc /\ all.dbg = het.dbg
      /\ all.aux = het.aux /\ all.count = n
      /\ all.chans[0] = het.mark /\ all.rings[0] = het.mark + N
      /\ het.mark + C <= all.mark
      /\ 1 \in Regions => /\ all.chans[1] = het.mark + C /\ all.rings[1] = het.mark + C + N
                          /\ het.mark + C + C <= all.mark
  <2>1. CASE build.regions = 2
    <3>1. all = LayOut(one, 1, n) /\ 1 \in Regions
      BY <1>3, <2>1, Zenon
    <3>2. /\ all \in Areas /\ all.mgr = TRUE /\ all.ipc = het.ipc /\ all.dbg = het.dbg
          /\ all.aux = het.aux /\ all.mark = one.mark + C /\ all.count = n
          /\ all.chans = [one.chans EXCEPT ![1] = one.mark]
          /\ all.rings = [one.rings EXCEPT ![1] = one.mark + N]
      <4> HIDE DEF all
      <4> QED
        BY <1>2, <1>5, <1>6, <3>1, LayOutFields, SMTT(30) DEF C, N
    <3>3. all.chans[0] = het.mark /\ all.rings[0] = het.mark + N
      BY <1>3, <1>5, <1>6, <3>2 DEF N
    <3>4. all.chans[1] = het.mark + C /\ all.rings[1] = het.mark + C + N
      BY <1>3, <1>5, <1>6, <3>1, <3>2 DEF N, C
    <3>5. one.mark = het.mark + C /\ C \in Nat
      BY <1>5, <1>6, Zenon DEF C
    <3> HIDE DEF all
    <3> QED
      BY <1>6, <3>2, <3>3, <3>4, <3>5
  <2>2. CASE build.regions # 2
    BY <1>3, <1>5, <1>6, <2>2 DEF N, C
  <2> QED
    BY <2>1, <2>2, Zenon
<1> DEFINE s == IF irqs \/ build.regions = 2 THEN Regions ELSE all.open0
<1>8. s \in SUBSET Regions /\ het' = [all EXCEPT !.open0 = s]
  <2>1. all.open0 \in SUBSET Regions
    BY <1>7, Zenon DEF Areas
  <2> HIDE DEF all
  <2> QED
    BY <1>4, <1>7, <2>1, Zenon DEF Areas
<1> HIDE DEF all, s
<1>9. het' \in Areas /\ SameLayout(all, het')
  BY <1>7, <1>8, OpenFields, Zenon
<1>10. AreaType'
  BY <1>1, <1>2, <1>9, AreaTypeKept, Zenon DEF AreaInv, AreaType
<1>11. Holding'
  BY <1>1, <1>2, <1>7, <1>9, Zenon DEF AreaInv, Holding, SameLayout
<1>12. AttachedCurrent'
  BY <1>1, <1>2, Zenon DEF AttachedCurrent
<1>13. FrameFixed'
  <2>1. het'.mark \in Int /\ het.mark <= het'.mark /\ C \in Nat
    BY <1>6, <1>7, <1>9 DEF SameLayout, Areas, C
  <2> QED
    BY <1>1, <1>2, <1>6, <1>7, <1>9, <2>1 DEF FrameFixed, SameLayout
<1>14. ChannelsPlaced'
  <2>1. het'.count = n /\ Regions' = Regions
    BY <1>1, <1>7, <1>9, Zenon DEF SameLayout, Regions
  <2>2. het'.mark \in Int /\ C \in Nat /\ N \in Nat
    BY <1>6, <1>9, Zenon DEF Areas, C, N
  <2>3. ASSUME NEW r \in Regions
        PROVE  /\ het'.aux + SizeAux <= het'.chans[r]
               /\ het'.rings[r] = het'.chans[r] + N
               /\ het'.chans[r] + C <= het'.mark
               /\ r = 1 => het'.chans[0] + C <= het'.chans[1]
    <3>1. r = 0 \/ r = 1
      BY <1>3, Zenon
    <3> QED
      BY <1>2, <1>6, <1>7, <1>9, <2>2, <3>1 DEF SameLayout, FrameFixed
  <2> QED
    BY <1>6, <2>1, <2>3, Zenon DEF ChannelsPlaced, C, N, ChannelsSize
<1> QED
  BY <1>10, <1>11, <1>12, <1>13, <1>14, Zenon DEF AreaInv

LEMMA RecreateKeeps == AreaInv /\ Recreate /\ ld' = ld => AreaInv'
<1> SUFFICES ASSUME AreaInv, Recreate, ld' = ld PROVE AreaInv'
  BY Zenon
<1>1. /\ build' = build /\ drv' = drv /\ app' = app /\ wiped' = wiped
      /\ redone' = (redone \/ het' # het)
  BY Zenon DEF Recreate
<1>2. /\ build \in Builds /\ het \in Areas /\ LdRecord' /\ redone \in BOOLEAN
      /\ ld'.pc # "idle" => build.board = "B913x"
  BY Zenon DEF AreaInv, AreaType, LdRecord, Holding
<1>3. PICK rat \in RatModes :
        het' = IF build.board = "B4860" THEN fsl_B4_ipc_init(het, rat)
               ELSE fsl_913x_ipc_init(het, rat)
  BY Zenon DEF Recreate
<1>4. rat \in {1, 2}
  BY Zenon DEF RatModes
<1>5. het' \in Areas /\ SameFrame(het, het') /\ (build.board = "B4860" => het'.chans = het.chans)
  <2>1. CASE build.board = "B4860"
    BY <1>2, <1>3, <2>1, B4Fields, Zenon
  <2>2. CASE build.board # "B4860"
    BY <1>2, <1>3, <1>4, <2>2, N913xFields, Zenon
  <2> QED
    BY <2>1, <2>2, Zenon
<1>6. CASE het' = het
  <2>1. SameLayout(het, het') /\ redone' = redone
    BY <1>1, <1>2, <1>6, Zenon DEF SameLayout
  <2> QED
    BY <1>1, <1>2, <1>5, <2>1, FlagsOnly, Zenon
<1>7. CASE het' # het
  <2>1. redone' = TRUE
    BY <1>1, <1>7, Zenon
  <2> QED
    BY <1>1, <1>2, <1>5, <2>1, ChannelsRedone, Zenon
<1> QED
  BY <1>6, <1>7, Zenon

(* The other steps of the driver and of user space. *)
LEMMA HetAreaKeeps == AreaInv /\ HetAreaNext /\ ld' = ld => AreaInv'
<1> SUFFICES ASSUME AreaInv, HetAreaNext, ld' = ld PROVE AreaInv'
  BY Zenon
<1>1. /\ build \in Builds /\ het \in Areas /\ LdRecord' /\ SameLayout(het, het)
      /\ ld'.pc # "idle" => build.board = "B913x"
  BY Zenon DEF AreaInv, AreaType, LdRecord, Holding, SameLayout
<1>2. CASE het_mgr_exit
  <2>1. /\ build' = build /\ drv' = drv /\ app' = app /\ redone' = redone /\ wiped' = wiped
        /\ het' = [het EXCEPT !.mgr = FALSE] /\ drv.loaded = FALSE
    BY <1>2, Zenon DEF het_mgr_exit, AreaInv, AreaType
  <2>2. het' \in Areas /\ het'.mgr = FALSE /\ het'.chans = het.chans
    <3>1. het' \in Areas
      BY <1>1, <2>1, Zenon DEF Areas
    <3> QED
      BY <1>1, <2>1, <3>1, Zenon DEF Areas
  <2>3. AreaType'
    BY <1>1, <2>1, <2>2, AreaTypeKept, Zenon DEF AreaInv, AreaType
  <2>4. Holding'
    BY <1>1, <2>1, <2>2, Zenon DEF AreaInv, Holding
  <2>5. AttachedCurrent'
    BY <2>1, <2>2, Zenon DEF AreaInv, AttachedCurrent
  <2> QED
    BY <2>2, <2>3, <2>4, <2>5, Zenon DEF AreaInv
<1>3. CASE ipc_driver_exit
  <2>1. /\ build' = build /\ het' = het /\ app' = app /\ redone' = redone /\ wiped' = wiped
        /\ drv' = [drv EXCEPT !.loaded = FALSE] /\ app.inst = {}
    BY <1>3, Zenon DEF ipc_driver_exit
  <2>2. drv' = [loaded |-> FALSE, loads |-> drv.loads]
    BY <2>1, Zenon DEF AreaInv, AreaType
  <2>3. AreaType'
    BY <1>1, <2>1, <2>2, AreaTypeKept, Zenon DEF AreaInv, AreaType
  <2>4. Holding'
    BY <1>1, <2>1, <2>2, Zenon DEF AreaInv, Holding
  <2>5. AttachedCurrent'
    BY <2>1, Zenon DEF AttachedCurrent
  <2>6. (FrameFixed => FrameFixed') /\ (ChannelsPlaced => ChannelsPlaced')
    BY <2>1, Zenon DEF FrameFixed, ChannelsPlaced, Regions
  <2> QED
    BY <2>1, <2>3, <2>4, <2>5, <2>6, Zenon DEF AreaInv
<1>4. CASE SetSharedArea
  <2>1. /\ build' = build /\ drv' = drv /\ app' = app /\ redone' = redone /\ wiped' = wiped
        /\ het' = [het EXCEPT !.areas = TRUE]
    BY <1>4, Zenon DEF SetSharedArea
  <2>2. het' \in Areas /\ SameLayout(het, het')
    BY <1>1, <2>1, FlagFields, Zenon
  <2> QED
    BY <1>1, <2>1, <2>2, FlagsOnly, Zenon
<1>5. ASSUME NEW r \in Regions, fsl_ipc_init_rat(r) PROVE AreaInv'
  <2>1. /\ build' = build /\ drv' = drv /\ het' = het /\ redone' = redone /\ wiped' = wiped
        /\ drv.loaded = TRUE
        /\ \/ app' = app
           \/ app' = [inst |-> app.inst \cup {r}, ch |-> het.chans[r], last |-> r]
    BY <1>5, Zenon DEF fsl_ipc_init_rat, AreaInv, AreaType
  <2>2. CASE app' = app
    BY <1>1, <2>1, <2>2, FlagsOnly, Zenon
  <2>3. CASE app' = [inst |-> app.inst \cup {r}, ch |-> het.chans[r], last |-> r]
    <3>1. AreaType'
      BY <1>1, <2>1, <2>3, AreaTypeKept, Zenon DEF AreaInv, AreaType
    <3>2. Holding'
      BY <1>1, <2>1, Zenon DEF AreaInv, Holding
    <3>3. AttachedCurrent'
      BY <2>1, <2>3, Zenon DEF AttachedCurrent
    <3>4. (FrameFixed => FrameFixed') /\ (ChannelsPlaced => ChannelsPlaced')
      BY <2>1, Zenon DEF FrameFixed, ChannelsPlaced, Regions
    <3> QED
      BY <2>1, <3>1, <3>2, <3>3, <3>4, Zenon DEF AreaInv
  <2> QED
    BY <2>1, <2>2, <2>3, Zenon
<1>6. ASSUME NEW r \in Regions, fsl_ipc_exit(r) PROVE AreaInv'
  <2>1. /\ build' = build /\ drv' = drv /\ het' = het /\ redone' = redone /\ wiped' = wiped
        /\ r \in app.inst /\ app' = [app EXCEPT !.inst = @ \ {r}]
    BY <1>6, Zenon DEF fsl_ipc_exit
  <2>2. app' = [inst |-> app.inst \ {r}, ch |-> app.ch, last |-> app.last]
    <3>1. app = [inst |-> app.inst, ch |-> app.ch, last |-> app.last]
      BY Zenon DEF AreaInv, AreaType
    <3> QED
      BY <2>1, <3>1, Zenon
  <2>3. AreaType'
    BY <1>1, <2>1, <2>2, AreaTypeKept, Zenon DEF AreaInv, AreaType
  <2>4. Holding'
    BY <1>1, <2>1, Zenon DEF AreaInv, Holding
  <2>5. AttachedCurrent'
    BY <2>1, <2>2, Zenon DEF AreaInv, AttachedCurrent
  <2>6. (FrameFixed => FrameFixed') /\ (ChannelsPlaced => ChannelsPlaced')
    BY <2>1, Zenon DEF FrameFixed, ChannelsPlaced, Regions
  <2> QED
    BY <2>1, <2>3, <2>4, <2>5, <2>6, Zenon DEF AreaInv
<1> QED
  BY <1>2, <1>3, <1>4, <1>5, <1>6, HetMgrInitKeeps, ResetKeeps, DriverInitKeeps, RecreateKeeps, Zenon
  DEF HetAreaNext

LEMMA LdKeeps == AreaInv /\ LdNext => AreaInv'
<1> SUFFICES ASSUME AreaInv, LdNext PROVE AreaInv'
  BY Zenon
<1>1. build \in Builds /\ het \in Areas /\ LdRecord /\ SameLayout(het, het)
  BY Zenon DEF AreaInv, AreaType, SameLayout
<1>2. ASSUME LdRecord', ld'.pc = "idle" \/ build.board = "B913x",
             UNCHANGED hetAreaVars
      PROVE  AreaInv'
  BY <1>1, <1>2, FlagsOnly, Zenon DEF hetAreaVars
<1>3. ~LdAt("idle") => build.board = "B913x"
  BY Zenon DEF LdAt, AreaInv, Holding
<1>4. CASE LdCall
  <2>1. PICK restart \in BOOLEAN :
          ld' = [pc |-> IF restart THEN "reinit" ELSE "open", restart |-> restart, ret |-> 0]
    BY <1>4, Zenon DEF LdCall
  <2>2. LdRecord'
    BY <2>1, Zenon DEF LdRecord
  <2> QED
    BY <1>2, <1>4, <2>2, Zenon DEF LdCall, LdOnly
<1>5. CASE LdDies \/ reset_ppc_ready \/ send_vnmi_913x \/ dsp_ready_check \/ load_913x
           \/ set_ppc_ready \/ check_dsp_boot_913x
  <2>1. LdRecord' /\ UNCHANGED hetAreaVars
    BY <1>1, <1>5, LdSteps, Zenon DEF LdDies, reset_ppc_ready, send_vnmi_913x, dsp_ready_check,
       load_913x, set_ppc_ready, check_dsp_boot_913x, LdOnly
  <2>2. ~LdAt("idle")
    BY <1>5, Zenon DEF LdAt, LdDies, reset_ppc_ready, send_vnmi_913x, dsp_ready_check,
       load_913x, set_ppc_ready, check_dsp_boot_913x
  <2> QED
    BY <1>2, <1>3, <2>1, <2>2, Zenon
<1>6. CASE pre_load_913x
  <2>1. /\ build' = build /\ drv' = drv /\ app' = app /\ wiped' = wiped
        /\ LdRecord' /\ build.board = "B913x"
    BY <1>1, <1>3, <1>6, LdSteps, Zenon DEF pre_load_913x, HetRest, LdAt
  <2>2. ASSUME NEW rat \in RatModes,
               het' = [fsl_913x_ipc_init(het, rat) EXCEPT !.areas = TRUE], redone' = TRUE
        PROVE  AreaInv'
    <3> DEFINE g == fsl_913x_ipc_init(het, rat)
    <3>1. rat \in {1, 2}
      BY Zenon DEF RatModes
    <3>2. g \in Areas /\ SameFrame(het, g)
      BY <1>1, <3>1, N913xFields, Zenon
    <3>3. het' = [g EXCEPT !.areas = TRUE]
      BY <2>2, Zenon
    <3> HIDE DEF g
    <3>4. het' \in Areas /\ SameLayout(g, het')
      BY <3>2, <3>3, FlagFields, Zenon
    <3>5. SameFrame(het, het')
      BY <3>2, <3>4, Zenon DEF SameFrame, SameLayout
    <3> QED
      BY <2>1, <2>2, <3>4, <3>5, ChannelsRedone, Zenon
  <2>3. ASSUME het' \in {het, [het EXCEPT !.areas = TRUE]}, redone' = redone
        PROVE  AreaInv'
    <3>1. het' \in Areas /\ SameLayout(het, het')
      BY <1>1, <2>3, FlagFields, Zenon
    <3> QED
      BY <2>1, <2>3, <3>1, FlagsOnly, Zenon
  <2> QED
    BY <1>6, <2>2, <2>3, Zenon DEF pre_load_913x
<1>7. CASE fsl_ipc_reinit \/ set_sh_ctrl_pa_init
  <2>1. /\ build' = build /\ drv' = drv /\ app' = app /\ wiped' = wiped /\ redone' = redone
        /\ LdRecord' /\ build.board = "B913x"
    BY <1>1, <1>3, <1>7, LdSteps, Zenon DEF fsl_ipc_reinit, set_sh_ctrl_pa_init, HetRest, LdAt
  <2>2. het' \in Areas /\ SameLayout(het, het')
    <3>1. het' = [het EXCEPT !.pa = FALSE, !.sc = FALSE] \/ het' = [het EXCEPT !.pa = TRUE, !.sc = FALSE]
      BY <1>7, Zenon DEF fsl_ipc_reinit, set_sh_ctrl_pa_init, SetInitialized
    <3> QED
      BY <1>1, <3>1, FlagFields, Zenon
  <2> QED
    BY <2>1, <2>2, FlagsOnly, Zenon
<1>8. CASE DspTakesVnmi \/ DspStarts
  <2>1. ld' = ld /\ UNCHANGED hetAreaVars
    BY <1>8, Zenon DEF DspTakesVnmi, DspStarts, LdOnly
  <2>2. LdRecord' /\ (ld'.pc = "idle" \/ build.board = "B913x")
    BY <1>1, <1>3, <2>1, Zenon DEF LdRecord, LdAt
  <2> QED
    BY <1>2, <2>1, <2>2, Zenon
<1>9. CASE DspUp
  <2>1. /\ build' = build /\ drv' = drv /\ app' = app /\ wiped' = wiped /\ redone' = redone /\ ld' = ld
        /\ het' = het \/ het' = [het EXCEPT !.sc = TRUE]
    BY <1>9, Zenon DEF DspUp, HetRest
  <2>2. LdRecord' /\ (ld'.pc = "idle" \/ build.board = "B913x")
    BY <1>1, <1>3, <2>1, Zenon DEF LdRecord, LdAt
  <2>3. het' \in Areas /\ SameLayout(het, het')
    BY <1>1, <2>1, FlagFields, Zenon
  <2> QED
    BY <2>1, <2>2, <2>3, FlagsOnly, Zenon
<1> QED
  BY <1>4, <1>5, <1>6, <1>7, <1>8, <1>9, Zenon DEF LdNext

LEMMA AreaInvInit == HetAreaInit /\ LdInit => AreaInv
<1> SUFFICES ASSUME HetAreaInit, LdInit PROVE AreaInv
  BY Zenon
<1>1. /\ build \in Builds /\ redone = FALSE /\ wiped = FALSE
      /\ drv = [loaded |-> FALSE, loads |-> 0]
      /\ app = [inst |-> {}, ch |-> 0, last |-> 0]
      /\ ld = [pc |-> "idle", restart |-> FALSE, ret |-> 0]
      /\ het = [mgr |-> FALSE, size |-> 0, ipc |-> 0, dbg |-> 0, aux |-> 0, mark |-> 0,
                ctrlSize |-> 0, pa |-> FALSE, sc |-> FALSE, areas |-> FALSE,
                chans |-> Cleared, rings |-> Cleared, count |-> 0, open0 |-> {}]
  BY ZenonT(30) DEF HetAreaInit, LdInit, LdIdle, Builds
<1>2. drv.loaded = FALSE /\ app.inst = {} /\ ld.pc = "idle" /\ LdRecord
  BY <1>1, Zenon DEF LdRecord
<1>3. Cleared \in [Regions -> Int]
  BY DEF Cleared
<1>4. het \in Areas /\ het.mgr = FALSE
  BY <1>1, <1>3 DEF Areas
<1>5. AreaType
  BY <1>1, <1>2, <1>4, Zenon DEF AreaType
<1>6. Holding
  BY <1>2, Zenon DEF Holding
<1>7. AttachedCurrent
  BY <1>2, Zenon DEF AttachedCurrent
<1> QED
  BY <1>4, <1>5, <1>6, <1>7, Zenon DEF AreaInv

LEMMA AreaInvNext == AreaInv /\ [Area913xNext]_areaVars => AreaInv'
<1> SUFFICES ASSUME AreaInv, [Area913xNext]_areaVars PROVE AreaInv'
  BY Zenon
<1>1. CASE LdNext
  BY <1>1, LdKeeps, Zenon
<1>2. CASE HetAreaNext /\ UNCHANGED ldVars
  BY <1>2, HetAreaKeeps, Zenon DEF ldVars
<1>3. CASE UNCHANGED areaVars
  <2>1. /\ build' = build /\ het' = het /\ drv' = drv /\ app' = app /\ redone' = redone
        /\ wiped' = wiped /\ ld' = ld
    BY <1>3, Zenon DEF areaVars, hetAreaVars, ldVars
  <2> QED
    BY <2>1, FlagsOnly, SelfLayout, Zenon DEF AreaInv, AreaType, Holding, LdRecord
<1> QED
  BY <1>1, <1>2, <1>3, Zenon DEF Area913xNext

LEMMA AreaInvAlways == Area913xSpec => []AreaInv
  BY AreaInvInit, AreaInvNext, PTL DEF Area913xSpec

(* On a B4860 the channel addresses that fsl_ipc_init_rat has cached are    *)
(* the instance's for as long as the process is attached, through DSP boots *)
(* and loads of the drivers in any order, for any sizes and numbers of      *)
(* channels.                                                                *)
THEOREM AttachedCurrentTheorem == Area913xSpec => []AttachedCurrent
<1>1. AreaInv => AttachedCurrent
  BY Zenon DEF AreaInv
<1> QED
  BY <1>1, AreaInvAlways, PTL

-----------------------------------------------------------------------------
(* The first unit behind the kernel modules' own structures. *)
FrameEnd == het.aux + SizeAux

Frame(p) ==
  \/ p.at = CtrlBase /\ p.size = SizeControl /\ p.name = <<"ctrl", 0>>
  \/ p.at = het.dbg /\ p.size = Logs(build.board) * SizeLog /\ p.name = <<"dbg", 0>>
  \/ p.at = het.aux /\ p.size = SizeAux /\ p.name = <<"aux", 0>>
  \/ \E r \in Regions : p.at = het.ipc + r * SizeIpc /\ p.size = SizeIpc /\ p.name = <<"ipc", r>>

Channel(p) ==
  \E r \in Regions :
    /\ het.chans[r] # 0
    /\ \/ p = [name |-> <<"chans", r>>, at |-> het.chans[r], size |-> SizeCh * het.count]
       \/ p = [name |-> <<"rings", r>>, at |-> het.rings[r], size |-> SizeBd * het.count * Depth]

LEMMA PlacedKinds ==
  ASSUME NEW p \in Placed
  PROVE  /\ p = [name |-> p.name, at |-> p.at, size |-> p.size]
         /\ Frame(p) \/ Channel(p)
<1>1. CASE p \in [name : {<<"ctrl", 0>>}, at : {CtrlBase}, size : {SizeControl}]
  BY <1>1, Zenon DEF Frame
<1>2. CASE p \in [name : {<<"dbg", 0>>}, at : {het.dbg}, size : {Logs(build.board) * SizeLog}]
  BY <1>2, Zenon DEF Frame
<1>3. CASE p \in [name : {<<"aux", 0>>}, at : {het.aux}, size : {SizeAux}]
  BY <1>3, Zenon DEF Frame
<1>4. CASE \E r \in Regions :
             p = [name |-> <<"ipc", r>>, at |-> get_hetmgr_ipc_addr(het, r), size |-> SizeIpc]
  <2>1. PICK r \in Regions :
          p = [name |-> <<"ipc", r>>, at |-> get_hetmgr_ipc_addr(het, r), size |-> SizeIpc]
    BY <1>4, Zenon
  <2>2. p.at = het.ipc + r * SizeIpc /\ p.size = SizeIpc /\ p.name = <<"ipc", r>>
    BY <2>1, Zenon DEF get_hetmgr_ipc_addr
  <2>3. p = [name |-> p.name, at |-> p.at, size |-> p.size]
    BY <2>1, Zenon
  <2> QED
    BY <2>2, <2>3, Zenon DEF Frame
<1>5. CASE \E r \in Regions :
             /\ het.chans[r] # 0
             /\ p = [name |-> <<"chans", r>>, at |-> het.chans[r], size |-> SizeCh * het.count]
  <2>1. Channel(p)
    BY <1>5, Zenon DEF Channel
  <2>2. p = [name |-> p.name, at |-> p.at, size |-> p.size]
    BY <1>5, Zenon
  <2> QED
    BY <2>1, <2>2, Zenon
<1>6. CASE \E r \in Regions :
             /\ het.chans[r] # 0
             /\ p = [name |-> <<"rings", r>>, at |-> het.rings[r], size |-> SizeBd * het.count * Depth]
  <2>1. Channel(p)
    BY <1>6, Zenon DEF Channel
  <2>2. p = [name |-> p.name, at |-> p.at, size |-> p.size]
    BY <1>6, Zenon
  <2> QED
    BY <2>1, <2>2, Zenon
<1> QED
  BY <1>1, <1>2, <1>3, <1>4, <1>5, <1>6, Zenon DEF Placed

(* No two structures of the frame meet. *)
LEMMA FrameApart ==
  ASSUME AreaType, FrameFixed, NEW a, NEW b, Frame(a), Frame(b),
         a = [name |-> a.name, at |-> a.at, size |-> a.size],
         b = [name |-> b.name, at |-> b.at, size |-> b.size], a # b
  PROVE  Apart(a, b)
<1> DEFINE L == Logs(build.board) * SizeLog
           D == build.regions * SizeIpc
           at(r) == het.ipc + r * SizeIpc
<1>1. /\ build \in Builds /\ het.ipc \in Int /\ het.dbg \in Int /\ het.aux \in Int
      /\ Regions \subseteq {0, 1} /\ build.regions \in {1, 2} /\ (1 \in Regions <=> build.regions = 2)
  BY RegionFacts, Zenon DEF AreaType, Areas
<1>2. L \in Nat /\ SizeIpc \in Nat /\ SizeControl \in Nat /\ SizeAux \in Nat /\ CtrlBase \in Nat
  BY <1>1, RegionFacts, HetAssumption
<1>3. \A r \in Regions : at(r) \in Int /\ at(r) + SizeIpc <= het.dbg /\ het.ipc <= at(r)
  <2> SUFFICES ASSUME NEW r \in Regions
               PROVE  at(r) \in Int /\ at(r) + SizeIpc <= het.dbg /\ het.ipc <= at(r)
    BY Zenon
  <2>1. r = 0 \/ (r = 1 /\ build.regions = 2)
    BY <1>1, Zenon
  <2>2. CASE r = 0
    <3>1. build.regions * SizeIpc \in {SizeIpc, 2 * SizeIpc}
      BY <1>1, <1>2
    <3> QED
      BY <1>1, <1>2, <2>2, <3>1 DEF FrameFixed
  <2>3. CASE r = 1 /\ build.regions = 2
    BY <1>1, <1>2, <2>3 DEF FrameFixed
  <2> QED
    BY <2>1, <2>2, <2>3, Zenon
<1>4. \A r, q \in Regions : r # q => at(r) + SizeIpc <= at(q) \/ at(q) + SizeIpc <= at(r)
  BY <1>1, <1>2
<1>5. het.ipc = CtrlBase + SizeControl /\ het.ipc <= het.dbg /\ het.aux = het.dbg + L
  BY <1>1, <1>2 DEF FrameFixed
<1> DEFINE K(p) == \/ p.at = CtrlBase /\ p.size = SizeControl /\ p.name = <<"ctrl", 0>>
                   \/ p.at = het.dbg /\ p.size = L /\ p.name = <<"dbg", 0>>
                   \/ p.at = het.aux /\ p.size = SizeAux /\ p.name = <<"aux", 0>>
                   \/ \E r \in Regions : p.at = at(r) /\ p.size = SizeIpc /\ p.name = <<"ipc", r>>
<1>6. K(a) /\ K(b)
  BY Zenon DEF Frame
<1>7. a.at # b.at \/ a.size # b.size \/ a.name # b.name
  BY Zenon
<1> HIDE DEF L, at
<1> QED
  BY <1>1, <1>2, <1>3, <1>4, <1>5, <1>6, <1>7, SMTT(30) DEF Apart

(* Array and rings of one region adjoin; two regions' do not meet. *)
LEMMA ChannelBounds ==
  ASSUME AreaType, ChannelsPlaced, NEW r \in Regions, het.chans[r] # 0
  PROVE  LET N == SizeCh * het.count
             B == SizeBd * het.count * Depth
         IN /\ N \in Nat /\ B \in Nat /\ het.chans[r] \in Int
            /\ FrameEnd <= het.chans[r] /\ het.rings[r] = het.chans[r] + N
            /\ r = 1 => het.chans[0] + N + B <= het.chans[1]
<1> DEFINE N == SizeCh * het.count
           B == SizeBd * het.count * Depth
<1>1. het.count \in Nat /\ SizeCh \in Nat /\ SizeBd \in Nat /\ Depth \in Nat
  BY HetAssumption, Zenon DEF ChannelsPlaced
<1>2. SizeBd * het.count \in Nat
  BY <1>1
<1>3. N \in Nat /\ B \in Nat
  BY <1>1, <1>2
<1>4. het.chans \in [Regions -> Int] /\ 0 \in Regions /\ het.chans[r] \in Int /\ het.chans[0] \in Int
  BY RegionFacts, Zenon DEF AreaType, Areas
<1>5. ChannelsSize(het.count) = N + B
  BY Zenon DEF ChannelsSize
<1> HIDE DEF B
<1> QED
  BY <1>3, <1>4, <1>5, SMTT(30) DEF ChannelsPlaced, FrameEnd, B

LEMMA ChannelsApart ==
  ASSUME AreaType, ChannelsPlaced, NEW a, NEW b, Channel(a), Channel(b), a # b
  PROVE  Apart(a, b)
<1> DEFINE N == SizeCh * het.count
           B == SizeBd * het.count * Depth
           ch(r) == [name |-> <<"chans", r>>, at |-> het.chans[r], size |-> N]
           ring(r) == [name |-> <<"rings", r>>, at |-> het.rings[r], size |-> B]
<1>1. PICK r \in Regions : het.chans[r] # 0 /\ (a = ch(r) \/ a = ring(r))
  BY Zenon DEF Channel
<1>2. PICK q \in Regions : het.chans[q] # 0 /\ (b = ch(q) \/ b = ring(q))
  BY Zenon DEF Channel
<1>3. r \in {0, 1} /\ q \in {0, 1}
  BY RegionFacts, Zenon DEF AreaType
<1>4. /\ N \in Nat /\ B \in Nat
      /\ het.chans[r] \in Int /\ het.rings[r] = het.chans[r] + N
      /\ r = 1 => het.chans[0] + N + B <= het.chans[1]
  BY <1>1, ChannelBounds, Zenon
<1>5. /\ het.chans[q] \in Int /\ het.rings[q] = het.chans[q] + N
      /\ q = 1 => het.chans[0] + N + B <= het.chans[1]
  BY <1>2, ChannelBounds, Zenon
<1> HIDE DEF N, B
<1>6. /\ (a.at = het.chans[r] /\ a.size = N) \/ (a.at = het.rings[r] /\ a.size = B)
      /\ (b.at = het.chans[q] /\ b.size = N) \/ (b.at = het.rings[q] /\ b.size = B)
  BY <1>1, <1>2
<1>7. CASE r = q
  <2>1. \/ a = ch(r) /\ b = ring(r)
        \/ a = ring(r) /\ b = ch(r)
    BY <1>1, <1>2, <1>7, Zenon
  <2> QED
    BY <1>4, <2>1 DEF Apart
<1>8. CASE r # q
  BY <1>3, <1>4, <1>5, <1>6, <1>8 DEF Apart
<1> QED
  BY <1>7, <1>8, Zenon

LEMMA FrameChannelApart ==
  ASSUME AreaType, FrameFixed, ChannelsPlaced, NEW a, NEW b, Frame(a), Channel(b)
  PROVE  a.at + a.size <= b.at
<1> DEFINE N == SizeCh * het.count
           B == SizeBd * het.count * Depth
<1>1. PICK q \in Regions :
        /\ het.chans[q] # 0
        /\ \/ b = [name |-> <<"chans", q>>, at |-> het.chans[q], size |-> N]
           \/ b = [name |-> <<"rings", q>>, at |-> het.rings[q], size |-> B]
  BY Zenon DEF Channel
<1>2. b.at = het.chans[q] \/ b.at = het.rings[q]
  BY <1>1
<1>3. N \in Nat /\ het.chans[q] \in Int /\ FrameEnd <= het.chans[q] /\ het.rings[q] = het.chans[q] + N
  BY <1>1, ChannelBounds, Zenon
<1>4. /\ het.ipc \in Int /\ het.dbg \in Int /\ het.aux \in Int /\ build \in Builds
      /\ Regions \subseteq {0, 1} /\ build.regions \in {1, 2} /\ (1 \in Regions <=> build.regions = 2)
  BY RegionFacts, Zenon DEF AreaType, Areas
<1> DEFINE L == Logs(build.board) * SizeLog
<1>5. L \in Nat /\ SizeIpc \in Nat /\ SizeControl \in Nat /\ SizeAux \in Nat /\ CtrlBase \in Nat
  BY <1>4, RegionFacts, HetAssumption
<1>6. het.ipc = CtrlBase + SizeControl /\ het.aux = het.dbg + L /\ het.ipc + SizeIpc <= het.dbg
      /\ (build.regions = 2 => het.ipc + SizeIpc + SizeIpc <= het.dbg)
  <2>1. build.regions * SizeIpc = SizeIpc \/ (build.regions = 2 /\ build.regions * SizeIpc = SizeIpc + SizeIpc)
    BY <1>4, <1>5
  <2>2. build.regions = 2 => build.regions * SizeIpc = SizeIpc + SizeIpc
    BY <1>5
  <2> HIDE DEF L
  <2>3. het.aux = het.dbg + L
    BY Zenon DEF FrameFixed, L
  <2> QED
    BY <1>4, <1>5, <2>1, <2>2, <2>3 DEF FrameFixed
<1>7. a.at \in Int /\ a.size \in Int /\ a.at + a.size <= FrameEnd
  <2>1. \A r \in Regions : r = 0 \/ (r = 1 /\ build.regions = 2)
    BY <1>4, Zenon
  <2>2. \A r \in Regions : /\ het.ipc + r * SizeIpc \in Int
                           /\ het.ipc + r * SizeIpc + SizeIpc <= het.dbg
    BY <1>4, <1>5, <1>6, <2>1
  <2>3. CASE a.at = het.dbg /\ a.size = L
    <3> HIDE DEF L
    <3> QED
      BY <1>4, <1>5, <1>6, <2>3 DEF FrameEnd
  <2> HIDE DEF L
  <2>4. CASE a.at = CtrlBase /\ a.size = SizeControl
    BY <1>4, <1>5, <1>6, <2>4 DEF FrameEnd
  <2>5. CASE a.at = het.aux /\ a.size = SizeAux
    BY <1>4, <1>5, <2>5 DEF FrameEnd
  <2>6. ASSUME NEW r \in Regions, a.at = het.ipc + r * SizeIpc, a.size = SizeIpc
        PROVE  a.at \in Int /\ a.size \in Int /\ a.at + a.size <= FrameEnd
    BY <1>4, <1>5, <1>6, <2>2, <2>6 DEF FrameEnd
  <2> QED
    BY <2>3, <2>4, <2>5, <2>6, Zenon DEF Frame, L
<1> QED
  BY <1>2, <1>3, <1>4, <1>5, <1>7 DEF FrameEnd

(* As long as only the kernel modules have laid the control area out, no    *)
(* two of its structures overlap, for any sizes, channel counts, boards and *)
(* numbers of regions, and for any order of loading the drivers and         *)
(* resetting the structures.                                                *)
THEOREM LayoutDisjointTheorem == Area913xSpec => []LayoutDisjoint
<1>1. AreaInv => LayoutDisjoint
  <2> SUFFICES ASSUME AreaInv, het.mgr, ~redone, NEW a \in Placed, NEW b \in Placed, a # b
               PROVE  Apart(a, b)
    BY Zenon DEF LayoutDisjoint
  <2>1. AreaType /\ FrameFixed /\ ChannelsPlaced
    <3>1. het.mgr = TRUE /\ redone = FALSE
      BY Zenon DEF AreaInv, AreaType, Areas
    <3> QED
      BY <3>1, Zenon DEF AreaInv
  <2>2. /\ a = [name |-> a.name, at |-> a.at, size |-> a.size] /\ (Frame(a) \/ Channel(a))
        /\ b = [name |-> b.name, at |-> b.at, size |-> b.size] /\ (Frame(b) \/ Channel(b))
    BY PlacedKinds, Zenon
  <2>3. CASE Frame(a) /\ Frame(b)
    BY <2>1, <2>2, <2>3, FrameApart, Zenon
  <2>4. CASE Channel(a) /\ Channel(b)
    BY <2>1, <2>4, ChannelsApart, Zenon
  <2>5. CASE Frame(a) /\ Channel(b)
    BY <2>1, <2>5, FrameChannelApart, Zenon DEF Apart
  <2>6. CASE Channel(a) /\ Frame(b)
    BY <2>1, <2>6, FrameChannelApart, Zenon DEF Apart
  <2> QED
    BY <2>2, <2>3, <2>4, <2>5, <2>6, Zenon
<1> QED
  BY <1>1, AreaInvAlways, PTL

-----------------------------------------------------------------------------

(* Append and Tail, place by place. *)
LEMMA AppendIs ==
  ASSUME NEW S, NEW s \in Seq(S), NEW e \in S
  PROVE  /\ Append(s, e) \in Seq(S) /\ Len(Append(s, e)) = Len(s) + 1
         /\ \A i \in 1 .. Len(s) : Append(s, e)[i] = s[i]
         /\ Append(s, e)[Len(s) + 1] = e
  OBVIOUS

(* A sequence as a function. *)
LEMMA SeqIs ==
  ASSUME NEW S, NEW s \in Seq(S)
  PROVE  Len(s) \in Nat /\ s \in [1 .. Len(s) -> S]
  OBVIOUS

(* The rest of a sequence. *)
LEMMA TailIs ==
  ASSUME NEW S, NEW s \in Seq(S), s # <<>>
  PROVE  /\ Tail(s) \in Seq(S) /\ Len(Tail(s)) = Len(s) - 1
         /\ \A i \in 1 .. Len(s) - 1 : Tail(s)[i] = s[i + 1]
  OBVIOUS

(* What each side knows in the middle of a call. *)
ProducerKnows ==
  /\ ppc \in {"checked", "filled"} => Used < Size /\ parg \in Msgs
  /\ ppc = "filled" => bd[local_producer] = parg

ConsumerKnows ==
  /\ cpc \in {"nonempty", "holding", "held", "read"} => Used > 0
  /\ cpc \in {"held", "read"} => carg = bd[local_consumer]

RingInv == TypeOK /\ LocalsInStep /\ ProducerKnows /\ ConsumerKnows

(* One more message is counted, or one less, also where a counter wraps. *)
LEMMA CountUp ==
  ASSUME NEW p \in Counts, NEW c \in Counts,
         LET u(a) == IF a >= c THEN a - c ELSE a - c + CountMod
         IN  u(p) < Size
  PROVE  /\ IncCount(p) \in Counts
         /\ LET u(a) == IF a >= c THEN a - c ELSE a - c + CountMod
            IN  u(IncCount(p)) = u(p) + 1
  BY RingAssumption DEF Counts, IncCount

LEMMA CountDown ==
  ASSUME NEW p \in Counts, NEW c \in Counts,
         LET u(b) == IF p >= b THEN p - b ELSE p - b + CountMod
         IN  u(c) > 0
  PROVE  /\ IncCount(c) \in Counts
         /\ LET u(b) == IF p >= b THEN p - b ELSE p - b + CountMod
            IN  u(IncCount(c)) = u(c) - 1
  BY RingAssumption DEF Counts, IncCount

LEMMA LocalRange ==
  ASSUME NEW i \in Index
  PROVE  IncLocal(i) \in Index
  BY RingAssumption DEF Index, IncLocal

LEMMA UsedRange ==
  ASSUME TypeOK
  PROVE  Used \in Nat /\ (Used = 0 <=> EmptyChannel)
  BY RingAssumption DEF TypeOK, Counts, Used, EmptyChannel

LEMMA RingInvInit == Init => RingInv
<1> SUFFICES ASSUME Init PROVE RingInv
  BY Zenon
<1>1. 0 \in Index /\ 0 \in Counts
  BY RingAssumption DEF Index, Counts
<1>2. bd \in [Index -> Msgs \cup {NoMsg}]
  BY Zenon DEF Init
<1>3. producer_initialized \in BOOLEAN /\ consumer_initialized \in BOOLEAN
  BY Zenon DEF Init
<1>4. TypeOK
  BY <1>1, <1>2, <1>3, Zenon DEF Init, TypeOK
<1>5. LocalsInStep
  BY RingAssumption DEF Init, LocalsInStep, Used, WriteSlot, Slot, ReadSlot
<1>6. ProducerKnows /\ ConsumerKnows
  BY Zenon DEF Init, ProducerKnows, ConsumerKnows
<1> QED
  BY <1>4, <1>5, <1>6, Zenon DEF RingInv

-----------------------------------------------------------------------------
(* The slots of the unread descriptors are in the ring, and none of them is *)
(* the one the producer writes next.                                        *)
LEMMA SlotFacts ==
  ASSUME TypeOK, LocalsInStep
  PROVE  /\ ReadSlot \in Index /\ WriteSlot \in Index
         /\ \A i \in 0 .. Used : Slot(i) \in Index
         /\ Slot(0) = ReadSlot
         /\ Used < Size => \A i \in 0 .. Used - 1 : Slot(i) # WriteSlot
<1>1. ReadSlot \in Index /\ WriteSlot \in Index
  BY LocalRange, Zenon DEF TypeOK, ReadSlot, WriteSlot
<1>2. Used \in 0 .. Size /\ WriteSlot = Slot(Used)
  BY Zenon DEF LocalsInStep
<1> QED
  BY <1>1, <1>2, RingAssumption DEF Index, Slot

LEMMA UnreadSeq ==
  ASSUME TypeOK, LocalsInStep
  PROVE  /\ Unread \in Seq(Msgs \cup {NoMsg})
         /\ Len(Unread) = Used
<1>1. Used \in Nat
  BY UsedRange, Zenon
<1>2. \A i \in 1 .. Used : bd[Slot(i - 1)] \in Msgs \cup {NoMsg}
  <2> SUFFICES ASSUME NEW i \in 1 .. Used PROVE bd[Slot(i - 1)] \in Msgs \cup {NoMsg}
    BY Zenon
  <2>1. i - 1 \in 0 .. Used
    BY <1>1
  <2>2. Slot(i - 1) \in Index
    BY <2>1, SlotFacts, Zenon
  <2> QED
    BY <2>2, Zenon DEF TypeOK
<1> QED
  BY <1>1, <1>2 DEF Unread

(* A step that moves neither counter nor slot and rewrites no unread        *)
(* descriptor is invisible in the abstract queue.                           *)
LEMMA QuietStep ==
  ASSUME TypeOK, LocalsInStep, Used' = Used, ReadSlot' = ReadSlot,
         WriteSlot' = WriteSlot, got' = got,
         \A i \in 0 .. Used - 1 : bd'[Slot(i)] = bd[Slot(i)]
  PROVE  LocalsInStep' /\ UNCHANGED AQ!avars
<1>1. Used \in Nat
  BY UsedRange, Zenon
<1>2. ASSUME NEW i \in Int PROVE Slot(i)' = Slot(i)
  BY Zenon DEF Slot
<1>3. LocalsInStep'
  <2>1. WriteSlot = Slot(Used) /\ Used \in 0 .. Size
    BY Zenon DEF LocalsInStep
  <2> QED
    BY <1>1, <2>1, Zenon DEF LocalsInStep, Slot
<1>4. Unread' = Unread
  <2>1. Unread' = [i \in 1 .. Used |-> bd'[Slot(i - 1)']]
    BY Zenon DEF Unread
  <2>2. \A i \in 1 .. Used : bd'[Slot(i - 1)'] = bd[Slot(i - 1)]
    BY <1>1, <1>2
  <2> QED
    BY <2>1, <2>2, Zenon DEF Unread
<1> QED
  BY <1>3, <1>4, Zenon DEF AQ!avars

(* The store into a free descriptor is invisible; publishing it appends. *)
LEMMA FillStep ==
  ASSUME RingInv, SendFill
  PROVE  RingInv' /\ UNCHANGED AQ!avars
<1> USE DEF RingInv
<1>1. Used \in Nat /\ Used < Size /\ parg \in Msgs
  BY UsedRange, Zenon DEF SendFill, ProducerKnows
<1>2. WriteSlot = local_producer /\ local_producer \in Index
  BY Zenon DEF SendFill, WriteSlot, TypeOK
<1>3. TypeOK'
  BY <1>1, Zenon DEF SendFill, TypeOK, consVars
<1>4. Used' = Used /\ ReadSlot' = ReadSlot /\ WriteSlot' = WriteSlot /\ got' = got
  BY Zenon DEF SendFill, consVars, Used, ReadSlot, WriteSlot
<1>5. \A i \in 0 .. Used - 1 : bd'[Slot(i)] = bd[Slot(i)]
  BY <1>1, <1>2, SlotFacts DEF SendFill, TypeOK
<1>6. LocalsInStep' /\ UNCHANGED AQ!avars
  BY <1>4, <1>5, QuietStep, Zenon
<1>7. ProducerKnows'
  BY <1>1, <1>2, <1>4, Zenon DEF SendFill, ProducerKnows, TypeOK
<1>8. ConsumerKnows'
  <2>1. CASE cpc \in {"held", "read"}
    <3>1. Used > 0 /\ ReadSlot = local_consumer
      BY <2>1, Zenon DEF ConsumerKnows, ReadSlot
    <3>2. bd'[local_consumer] = bd[local_consumer]
      BY <1>1, <1>5, <3>1, SlotFacts
    <3> QED
      BY <1>4, <2>1, <3>1, <3>2, Zenon DEF SendFill, consVars, ConsumerKnows
  <2>2. CASE cpc \notin {"held", "read"}
    BY <1>4, <2>2, Zenon DEF SendFill, consVars, ConsumerKnows
  <2> QED
    BY <2>1, <2>2, Zenon
<1> QED
  BY <1>3, <1>6, <1>7, <1>8, Zenon

LEMMA CountStep ==
  ASSUME RingInv, SendCount
  PROVE  RingInv' /\ AQ!Put(parg) /\ parg \in Msgs
<1> USE DEF RingInv
<1>1. /\ Used \in Nat /\ Used < Size /\ parg \in Msgs
      /\ ppc = "filled" /\ bd[local_producer] = parg
  BY UsedRange, Zenon DEF SendCount, ProducerKnows
<1>2. Used' = Used + 1 /\ producer_num' \in Counts
  BY <1>1, CountUp, Zenon DEF SendCount, consVars, Used, TypeOK
<1>3. TypeOK'
  BY <1>2, Zenon DEF SendCount, TypeOK, consVars
<1>4. ReadSlot' = ReadSlot /\ WriteSlot = local_producer /\ WriteSlot' = IncLocal(WriteSlot)
  BY <1>1, Zenon DEF SendCount, consVars, ReadSlot, WriteSlot
<1>5. WriteSlot \in Index /\ ReadSlot \in Index /\ WriteSlot = Slot(Used)
  BY SlotFacts, Zenon DEF LocalsInStep
<1>6. LocalsInStep'
  BY <1>1, <1>2, <1>4, <1>5, RingAssumption DEF LocalsInStep, Slot, IncLocal, Index
<1>7. Unread' = Append(Unread, parg)
  <2>1. Unread' = [i \in 1 .. Used + 1 |-> bd[Slot(i - 1)]]
    <3>1. Unread' = [i \in 1 .. Used + 1 |-> bd[Slot(i - 1)']]
      BY <1>2, Zenon DEF Unread, SendCount
    <3>2. \A i \in 1 .. Used + 1 : Slot(i - 1)' = Slot(i - 1)
      BY <1>4, Zenon DEF Slot
    <3> QED
      BY <3>1, <3>2, Zenon
  <2>2. Unread \in Seq(Msgs \cup {NoMsg}) /\ Len(Unread) = Used
    BY UnreadSeq, Zenon
  <2>3. Append(Unread, parg)
          = [i \in 1 .. Used + 1 |-> IF i = Used + 1 THEN parg ELSE Unread[i]]
    <3>1. /\ Append(Unread, parg) \in Seq(Msgs \cup {NoMsg})
          /\ Len(Append(Unread, parg)) = Used + 1
          /\ \A i \in 1 .. Used : Append(Unread, parg)[i] = Unread[i]
          /\ Append(Unread, parg)[Used + 1] = parg
      BY <1>1, <2>2, AppendIs
    <3>2. Append(Unread, parg) \in [1 .. Used + 1 -> Msgs \cup {NoMsg}]
      BY <3>1, SeqIs, Zenon
    <3>3. \A i \in 1 .. Used + 1 :
            Append(Unread, parg)[i] = IF i = Used + 1 THEN parg ELSE Unread[i]
      BY <1>1, <3>1
    <3> QED
      BY <3>2, <3>3, Zenon
  <2>4. \A i \in 1 .. Used + 1 :
          bd[Slot(i - 1)] = IF i = Used + 1 THEN parg ELSE Unread[i]
    <3> SUFFICES ASSUME NEW i \in 1 .. Used + 1
                 PROVE  bd[Slot(i - 1)] = IF i = Used + 1 THEN parg ELSE Unread[i]
      BY Zenon
    <3>1. CASE i = Used + 1
      <4>1. i - 1 = Used
        BY <1>1, <3>1
      <4> QED
        BY <1>1, <1>4, <1>5, <3>1, <4>1, Zenon
    <3>2. CASE i # Used + 1
      BY <1>1, <3>2 DEF Unread
    <3> QED
      BY <3>1, <3>2, Zenon
  <2> QED
    BY <2>1, <2>3, <2>4, Zenon
<1>8. AQ!Put(parg)
  BY <1>1, <1>7, UnreadSeq, Zenon DEF AQ!Put, SendCount, consVars
<1>9. ProducerKnows' /\ ConsumerKnows'
  BY <1>1, <1>2 DEF SendCount, consVars, ProducerKnows, ConsumerKnows
<1> QED
  BY <1>1, <1>3, <1>6, <1>8, <1>9, Zenon

(* Bumping the consumer counter hands out the oldest message. *)
LEMMA ConsumeStep ==
  ASSUME RingInv, RecvCount
  PROVE  RingInv' /\ AQ!Get
<1> USE DEF RingInv
<1>1. /\ Used \in Nat /\ Used > 0 /\ cpc = "read"
      /\ carg = bd[local_consumer] /\ ReadSlot = local_consumer
  BY UsedRange, Zenon DEF RecvCount, ConsumerKnows, ReadSlot
<1>2. Used' = Used - 1 /\ consumer_num' \in Counts
  BY <1>1, CountDown, Zenon DEF RecvCount, prodVars, Used, TypeOK
<1>3. TypeOK'
  BY <1>2, Zenon DEF RecvCount, TypeOK, prodVars
<1>4. ReadSlot' = IncLocal(ReadSlot) /\ WriteSlot' = WriteSlot /\ bd' = bd
  BY <1>1, Zenon DEF RecvCount, prodVars, ReadSlot, WriteSlot
<1>5. /\ WriteSlot \in Index /\ ReadSlot \in Index
      /\ WriteSlot = Slot(Used) /\ Used <= Size
  BY SlotFacts DEF LocalsInStep
<1>6. LocalsInStep'
  BY <1>1, <1>2, <1>4, <1>5, RingAssumption DEF LocalsInStep, Slot, IncLocal, Index
<1>7. Unread \in Seq(Msgs \cup {NoMsg}) /\ Len(Unread) = Used /\ Unread # <<>>
  BY <1>1, UnreadSeq
<1>8. got' = Head(Unread)
  <2>1. Unread[1] = bd[Slot(0)]
    BY <1>1 DEF Unread
  <2> QED
    BY <1>1, <1>7, <2>1, SlotFacts DEF RecvCount
<1>9. Unread' = Tail(Unread)
  <2>1. Unread' = [i \in 1 .. Used - 1 |-> bd[Slot(i - 1)']]
    BY <1>2, <1>4, Zenon DEF Unread
  <2>2. \A i \in 1 .. Used - 1 : Slot(i - 1)' = Slot(i)
    BY <1>1, <1>4, <1>5, RingAssumption DEF Slot, IncLocal, Index
  <2>3. \A i \in 1 .. Used - 1 : Unread[i + 1] = bd[Slot(i)]
    BY <1>1 DEF Unread
  <2>4. /\ Tail(Unread) \in Seq(Msgs \cup {NoMsg})
        /\ Len(Tail(Unread)) = Used - 1
        /\ \A i \in 1 .. Used - 1 : Tail(Unread)[i] = Unread[i + 1]
    BY <1>7, TailIs, Zenon
  <2>5. Tail(Unread) \in [1 .. Used - 1 -> Msgs \cup {NoMsg}]
    BY <2>4, SeqIs, Zenon
  <2> QED
    BY <2>1, <2>2, <2>3, <2>4, <2>5, Zenon
<1>10. AQ!Get
  BY <1>7, <1>8, <1>9, Zenon DEF AQ!Get
<1>11. ProducerKnows' /\ ConsumerKnows'
  BY <1>1, <1>2, RingAssumption DEF RecvCount, prodVars, ProducerKnows, ConsumerKnows
<1> QED
  BY <1>3, <1>6, <1>10, <1>11, Zenon

(* One step of the ring keeps the invariant and is a step of the FIFO. *)
LEMMA RingStep ==
  ASSUME RingInv, [Next]_ringVars
  PROVE  RingInv' /\ [AQ!Next]_(AQ!avars)
<1> DEFINE AtRest == /\ Used' = Used /\ ReadSlot' = ReadSlot
                     /\ WriteSlot' = WriteSlot /\ got' = got /\ bd' = bd
<1>1. ASSUME AtRest PROVE LocalsInStep' /\ UNCHANGED AQ!avars
  BY <1>1, QuietStep, Zenon DEF RingInv
<1>2. CASE SendFill
  BY <1>2, FillStep, Zenon
<1>3. CASE SendCount
  BY <1>3, CountStep, Zenon DEF AQ!Next
<1>4. CASE RecvCount
  BY <1>4, ConsumeStep, Zenon DEF AQ!Next
<1>5. CASE UNCHANGED ringVars \/ RecvFail
  <2>1. AtRest /\ TypeOK' /\ ProducerKnows' /\ ConsumerKnows'
    BY <1>5 DEF RecvFail, ringVars, prodVars, consVars, RingInv, TypeOK, Used,
       ReadSlot, WriteSlot, ProducerKnows, ConsumerKnows
  <2> QED
    BY <1>1, <2>1, Zenon DEF RingInv
<1>6. CASE ConfigureChannel \/ OpenProdCh
  <2>1. AtRest /\ ProducerKnows' /\ ConsumerKnows'
    BY <1>6, Zenon DEF ConfigureChannel, OpenProdCh, prodVars, consVars, RingInv, Used,
       ReadSlot, WriteSlot, ProducerKnows, ConsumerKnows
  <2>2. TypeOK'
    BY <1>6, Zenon DEF ConfigureChannel, OpenProdCh, prodVars, consVars, RingInv, TypeOK
  <2> QED
    BY <1>1, <2>1, <2>2, Zenon DEF RingInv
<1>7. ASSUME NEW m \in Msgs, SendPtrStart(m) \/ SendMsgStart(m)
      PROVE  RingInv' /\ UNCHANGED AQ!avars
  <2>1. AtRest
    BY <1>7, Zenon DEF SendPtrStart, SendMsgStart, consVars, RingInv, Used, ReadSlot, WriteSlot
  <2>2. TypeOK'
    BY <1>7, Zenon DEF SendPtrStart, SendMsgStart, consVars, RingInv, TypeOK
  <2>3. ProducerKnows' /\ ConsumerKnows'
    <3>1. Used \in 0 .. Size /\ (~Full => Used < Size)
      BY RingAssumption DEF RingInv, LocalsInStep, Full, FreeBds
    <3> QED
      BY <1>7, <2>1, <3>1, Zenon
      DEF SendPtrStart, SendMsgStart, consVars, RingInv, ProducerKnows, ConsumerKnows
  <2> QED
    BY <1>1, <2>1, <2>2, <2>3, Zenon DEF RingInv
<1>8. CASE SendAdvance \/ SendIndicate
  <2>1. AtRest
    BY <1>8, Zenon DEF SendAdvance, SendIndicate, consVars, Used, ReadSlot, WriteSlot
  <2>2. TypeOK'
    BY <1>8, LocalRange, Zenon DEF SendAdvance, SendIndicate, consVars, RingInv, TypeOK
  <2>3. ProducerKnows' /\ ConsumerKnows'
    BY <1>8, <2>1, Zenon
    DEF SendAdvance, SendIndicate, consVars, RingInv, ProducerKnows, ConsumerKnows
  <2> QED
    BY <1>1, <2>1, <2>2, <2>3, Zenon DEF RingInv
<1>9. CASE \/ RecvStart \/ RecvMsgStart \/ HoldStart \/ RecvMsgPtrStart
            \/ SetConsumedStart \/ RecvRead
  <2>1. AtRest
    BY <1>9, Zenon DEF RecvStart, RecvMsgStart, HoldStart, RecvMsgPtrStart, SetConsumedStart,
       RecvRead, prodVars, Used,
       ReadSlot, WriteSlot
  <2>2. TypeOK'
    BY <1>9, Zenon DEF RecvStart, RecvMsgStart, HoldStart, RecvMsgPtrStart, SetConsumedStart,
       RecvRead, prodVars,
       RingInv, TypeOK
  <2>3. Used \in Nat /\ (~EmptyChannel => Used > 0)
    BY UsedRange DEF RingInv
  <2>4. ProducerKnows' /\ ConsumerKnows'
    BY <1>9, <2>1, <2>3, Zenon
    DEF RecvStart, RecvMsgStart, HoldStart, RecvMsgPtrStart, SetConsumedStart,
       RecvRead, prodVars, RingInv,
        ProducerKnows, ConsumerKnows
  <2> QED
    BY <1>1, <2>1, <2>2, <2>4, Zenon DEF RingInv
<1>10. CASE RecvAdvance
  <2>1. AtRest
    BY <1>10, Zenon DEF RecvAdvance, prodVars, Used, ReadSlot, WriteSlot
  <2>2. TypeOK'
    BY <1>10, LocalRange, Zenon DEF RecvAdvance, prodVars, RingInv, TypeOK
  <2>3. ProducerKnows' /\ ConsumerKnows'
    BY <1>10, <2>1, Zenon DEF RecvAdvance, prodVars, RingInv, ProducerKnows, ConsumerKnows
  <2> QED
    BY <1>1, <2>1, <2>2, <2>3, Zenon DEF RingInv
<1> QED
  BY <1>2, <1>3, <1>4, <1>5, <1>6, <1>7, <1>8, <1>9, <1>10, Zenon
  DEF Next, ProducerCall, ProducerStep, ConsumerCall, ConsumerStep

(* For every depth below 2^32: the ring is never over-committed and the     *)
(* local indices of the two sides agree with the counters, across any       *)
(* number of wraps and any interleaving of fsl_ipc_send_ptr, send_msg,      *)
(* recv_ptr, recv_ptr_hold and set_consumed_status.                         *)
THEOREM LocalsTheorem == Spec => []TypeOK /\ []LocalsInStep
<1>1. RingInv => TypeOK /\ LocalsInStep
  BY Zenon DEF RingInv
<1>2. RingInv /\ [Next]_ringVars => RingInv'
  BY RingStep, Zenon
<1> QED
  BY <1>1, <1>2, RingInvInit, PTL DEF Spec

(* The lock-free ring of one producer and one consumer is a bounded FIFO:   *)
(* no message is lost, duplicated, torn or overwritten before it is read.   *)
THEOREM RingFifoTheorem == Spec => ImplementsFifo
<1>1. Init => AQ!Init
  <2> SUFFICES ASSUME Init PROVE AQ!Init
    BY Zenon
  <2>1. Used = 0
    BY DEF Init, Used
  <2> QED
    BY <2>1 DEF Init, AQ!Init, Unread
<1>2. RingInv /\ [Next]_ringVars => RingInv' /\ [AQ!Next]_(AQ!avars)
  BY RingStep, Zenon
<1> QED
  BY <1>1, <1>2, RingInvInit, PTL DEF Spec, ImplementsFifo, AQ!Spec

-----------------------------------------------------------------------------

(* The steps of HetIpc are steps of the ring or leave it alone. *)
LEMMA HetStepIsRingStep == [HetNext]_hetVars => [Next]_ringVars
<1> SUFFICES ASSUME [HetNext]_hetVars PROVE [Next]_ringVars
  BY Zenon
<1>1. CASE Configure \/ DspOpen \/ DspSend \/ DspStep \/ DspIndicate
  BY <1>1, Zenon DEF Configure, DspOpen, DspSend, DspStep, DspIndicate, Next,
              ProducerCall, ProducerStep
<1>2. CASE MsgIntr \/ MsgIntrWake \/ ReadPrepare \/ ReadFinish
  BY <1>2, Zenon DEF MsgIntr, MsgIntrWake, ReadPrepare, ReadFinish
<1>3. CASE Recv \/ RecvDone \/ RecvEmpty
  BY <1>3, Zenon DEF Recv, RecvDone, RecvEmpty, Next, ConsumerCall, ConsumerStep
<1>4. CASE UNCHANGED hetVars
  BY <1>4, Zenon DEF hetVars
<1> QED
  BY <1>1, <1>2, <1>3, <1>4, Zenon DEF HetNext, Reader

(* Whatever the interrupts and the waiting do, the dispatcher receives what *)
(* the DSP sent, in order and once (fsl_ipc_recv_ptr_block).                *)
THEOREM HetFifoTheorem == HetSpec => ImplementsFifo
<1>1. HetInit => Init
  BY Zenon DEF HetInit
<1>2. HetSpec => Spec
  BY <1>1, HetStepIsRingStep, PTL DEF HetSpec, Spec
<1> QED
  BY <1>2, RingFifoTheorem, Zenon

-----------------------------------------------------------------------------
(* The inductive invariant.  A message that arrives after the reader found  *)
(* the channel empty has its own notice, and from there to the end of       *)
(* read() nobody but the reader clears the mask.                            *)
Unwatched == rpc = "read" \/ (rpc = "prepared" /\ msg_wait_q)

Recorded ==
  Unwatched /\ ~EmptyChannel /\ ppc \in {"idle", "checked", "filled"}
  => msg_pending \/ msg_ready_mask

HetInv ==
  /\ RingInv
  /\ msg_wait_q => rpc = "prepared"
  /\ rpc \in {"read", "prepared"} => cpc = "idle"
  /\ ~producer_initialized => EmptyChannel /\ ppc = "idle"
  /\ Recorded

LEMMA HetInitInv == HetInit => HetInv
<1> SUFFICES ASSUME HetInit PROVE HetInv
  BY Zenon
<1>1. RingInv
  BY RingInvInit, Zenon DEF HetInit
<1> QED
  BY <1>1, Zenon DEF HetInit, Init, HetInv, Recorded, Unwatched, EmptyChannel

LEMMA HetInvStep ==
  ASSUME HetInv, [HetNext]_hetVars
  PROVE  HetInv'
<1>1. RingInv'
  BY HetStepIsRingStep, RingStep, Zenon DEF HetInv
<1>2. CASE Configure \/ DspOpen \/ DspSend
  BY <1>1, <1>2 DEF HetInv, Recorded, Unwatched, EmptyChannel, Configure, DspOpen,
     DspSend, ConfigureChannel, OpenProdCh, SendPtrStart, consVars, prodVars, kernelVars
<1>3. CASE DspStep
  BY <1>1, <1>3, Zenon DEF HetInv, Recorded, Unwatched, EmptyChannel, DspStep, SendFill,
     SendCount, SendAdvance, consVars, kernelVars
<1>4. CASE DspIndicate
  BY <1>1, <1>4, Zenon DEF HetInv, Recorded, Unwatched, EmptyChannel, DspIndicate,
     SendIndicate, consVars
<1>5. CASE MsgIntr \/ MsgIntrWake
  BY <1>1, <1>5 DEF HetInv, Recorded, Unwatched, EmptyChannel, MsgIntr, MsgIntrWake,
     ringVars, prodVars, consVars
<1>6. CASE Recv
  <2>1. cpc = "read" => ~EmptyChannel
    BY UsedRange DEF HetInv, RingInv, ConsumerKnows
  <2> QED
    BY <1>1, <1>6, <2>1
    DEF HetInv, Recorded, Unwatched, EmptyChannel, Recv, RecvStart, RecvRead,
        RecvCount, kernelVars, prodVars
<1>7. CASE RecvDone
  BY <1>1, <1>7, Zenon DEF HetInv, Recorded, Unwatched, EmptyChannel, RecvDone, RecvAdvance,
     kernelVars, prodVars
<1>8. CASE RecvEmpty
  BY <1>1, <1>8, Zenon DEF HetInv, Recorded, Unwatched, EmptyChannel, RecvEmpty, RecvFail,
     kernelVars, ringVars, prodVars, consVars
<1>9. CASE ReadPrepare \/ ReadFinish
  BY <1>1, <1>9 DEF HetInv, Recorded, Unwatched, EmptyChannel, ReadPrepare,
     ReadFinish, ringVars, prodVars, consVars
<1>10. CASE UNCHANGED hetVars
  BY <1>1, <1>10, Zenon DEF HetInv, Recorded, Unwatched, EmptyChannel, hetVars, kernelVars,
     ringVars, prodVars, consVars
<1> QED
  BY <1>2, <1>3, <1>4, <1>5, <1>6, <1>7, <1>8, <1>9, <1>10, Zenon DEF HetNext, Reader

(* A message over which het_ipc_read puts the reader to sleep still has its *)
(* interrupt to come or its bit in msg_ready_mask: the driver had all it    *)
(* needed not to sleep.                                                     *)
THEOREM RecordedTheorem == HetSpec => []SleptOverIsRecorded
<1>1. HetInv => SleptOverIsRecorded
  BY Zenon DEF HetInv, Recorded, Unwatched, SleptOverIsRecorded
<1>2. HetInv /\ [HetNext]_hetVars => HetInv'
  BY HetInvStep, Zenon
<1> QED
  BY <1>1, <1>2, HetInitInv, PTL DEF HetSpec
=============================================================================
