------------------------------- MODULE HetMgr -------------------------------
(***************************************************************************)
(* The shared control area: kernel/fsl_hetmgr.c, which lays it out, the    *)
(* channel set-up of kernel/fsl_ipc.c, and the user-space code that lays   *)
(* the channels out again when a DSP is booted or attaches to them         *)
(* (fsl_ipc_channel.c).  Contents are left out: the model keeps where each *)
(* structure is.  Addresses are units, CtrlBase is the area's first one    *)
(* and 0 an address that is not set.                                       *)
(***************************************************************************)
EXTENDS Integers, FiniteSets

CONSTANTS CtrlBase, AreaSize,    \* SHARED_CTRL_AREA_START_ADDR and _SZ
          SizeControl, SizeIpc, SizeLog, SizeAux, SizeCh, SizeBd,  \* sizeof
          Depth,             \* channel_depth
          ChannelCounts,     \* values of the two max_num_ipc_channels parameters
          CtrlSizes,         \* values of the shared_ctrl_size module parameter
          MaxLoads,          \* bound: loads of the het_ipc driver
          MaxHetCalls        \* bound: ioctls and attachments

ASSUME HetAssumption ==
  /\ {CtrlBase, AreaSize, SizeControl, SizeIpc, SizeLog, SizeAux, SizeCh, SizeBd, Depth} \subseteq Nat \ {0}
  /\ ChannelCounts \subseteq Nat \ {0} /\ CtrlSizes \subseteq Nat

VARIABLES build,  \* board, IPC regions (CONFIG_MULTI_RAT), channels per driver
          het,    \* the control area
          drv,    \* het_ipc: loaded now, times loaded
          app,    \* a process's instances and its one channel address table
          redone, \* history: user space has laid the channels out since the driver did
          wiped,  \* history: RESET_STRUCTURES since the driver was loaded
          hetcalls

hetAreaVars == <<build, het, drv, app, redone, wiped, hetcalls>>

Regions == 0 .. build.regions - 1
Cleared == [r \in Regions |-> 0]

-----------------------------------------------------------------------------
(* get_het_sys_map: module parameters count only above the defaults.        *)
get_het_sys_map(size) == IF size < AreaSize THEN AreaSize ELSE size

(* One log per DSP core: two on a 913x, NR_DSP_CORE on a B4860. *)
Logs(board) == IF board = "B4860" THEN 6 ELSE 2

(* init_sh_ctrl_area: control structure, IPC instances, logs, then the      *)
(* debug-print tables of a 913x or the L1-defense structure of a B4860.     *)
init_sh_ctrl_area(h) ==
  LET ipc == CtrlBase + SizeControl
      dbg == ipc + build.regions * SizeIpc
      aux == dbg + Logs(build.board) * SizeLog
  IN [mgr |-> h.mgr, size |-> h.size, ipc |-> ipc, dbg |-> dbg, aux |-> aux, mark |-> aux + SizeAux,
      ctrlSize |-> 1, pa |-> FALSE, sc |-> FALSE, areas |-> FALSE,
      chans |-> Cleared, rings |-> Cleared, count |-> 0, open0 |-> {}]

(* Mutant: memory is handed out and not taken. *)
GetMemKeepsMark(h, size) == [h EXCEPT !.ctrlSize = @ * 4]

(* get_hetmgr_mem hands out what lies beyond the mark.  The mark is an      *)
(* address and shared_ctrl_size a size, so the test holds every time.       *)
get_hetmgr_mem(h, size) == [h EXCEPT !.mark = @ + size, !.ctrlSize = @ * 4]

get_hetmgr_ipc_addr(h, r) == h.ipc + r * SizeIpc

(* Array of channel structures and their rings. *)
ChannelsSize(n) == SizeCh * n + SizeBd * n * Depth

(* fsl_913xipc_init for region r: its channels and rings from the mark on. *)
LayOut(h, r, n) ==
  [get_hetmgr_mem(h, ChannelsSize(n)) EXCEPT
     !.chans[r] = h.mark, !.rings[r] = h.mark + SizeCh * n, !.count = n]

-----------------------------------------------------------------------------
HetAreaInit ==
  /\ build \in [board : {"B913x", "B4860"}, regions : {1, 2}, drvCh : ChannelCounts,
                mgrCh : ChannelCounts, ctrl : CtrlSizes]
  /\ het = [mgr |-> FALSE, size |-> 0, ipc |-> 0, dbg |-> 0, aux |-> 0, mark |-> 0,
            ctrlSize |-> 0, pa |-> FALSE, sc |-> FALSE, areas |-> FALSE,
            chans |-> Cleared, rings |-> Cleared, count |-> 0, open0 |-> {}]
  /\ drv = [loaded |-> FALSE, loads |-> 0]
  /\ app = [inst |-> {}, ch |-> 0, last |-> 0]
  /\ redone = FALSE /\ wiped = FALSE
  /\ hetcalls = 0

Call == hetcalls < MaxHetCalls /\ hetcalls' = hetcalls + 1

(* The module is loaded; a mapping that fails takes the device away again.  *)
het_mgr_init ==
  /\ Call /\ ~het.mgr
  /\ het' \in {het, [init_sh_ctrl_area(het) EXCEPT !.mgr = TRUE, !.size = get_het_sys_map(build.ctrl)]}
  /\ redone' = FALSE
  /\ UNCHANGED <<build, drv, app, wiped>>

(* het_ipc uses hetmgr's symbols, so it goes first. *)
het_mgr_exit ==
  /\ Call
  /\ het.mgr /\ ~drv.loaded
  /\ het' = [het EXCEPT !.mgr = FALSE]
  /\ UNCHANGED <<build, drv, app, redone, wiped>>

(* ipc_driver_init, with fsl_913xipc_init: every region is laid out.  A     *)
(* single-region build also takes its interrupts, and if it cannot channel  *)
(* 0 stays closed; the result of either is not looked at.                   *)
ipc_driver_init ==
  /\ het.mgr /\ ~drv.loaded /\ drv.loads < MaxLoads
  /\ \E irqs \in BOOLEAN :
       LET one == LayOut(het, 0, build.drvCh)
           all == IF build.regions = 2 THEN LayOut(one, 1, build.drvCh) ELSE one
       IN het' = [all EXCEPT !.open0 = IF irqs \/ build.regions = 2 THEN Regions ELSE @]
  /\ drv' = [loaded |-> TRUE, loads |-> drv.loads + 1]
  /\ redone' = FALSE /\ wiped' = FALSE
  /\ UNCHANGED <<build, app, hetcalls>>

(* An open device file keeps the module in. *)
ipc_driver_exit ==
  /\ Call
  /\ drv.loaded /\ app.inst = {}
  /\ drv' = [drv EXCEPT !.loaded = FALSE]
  /\ UNCHANGED <<build, het, app, redone, wiped>>

-----------------------------------------------------------------------------
(* ioctls of /dev/het_mgr that change the area. *)

(* IOCTL_HET_MGR_SET_SHARED_AREA *)
SetSharedArea ==
  /\ Call /\ het.mgr
  /\ het' = [het EXCEPT !.areas = TRUE]
  /\ UNCHANGED <<build, drv, app, redone, wiped>>

(* IOCTL_HET_MGR_SET_INITIALIZED *)
SetInitialized(h) == [h EXCEPT !.pa = TRUE, !.sc = FALSE]

(* IOCTL_HET_MGR_RESET_STRUCTURES: the area is laid out afresh, the shared  *)
(* areas' addresses are carried over, the channels are gone.                *)
fsl_reinit_sh_ctrl_area ==
  /\ Call /\ het.mgr
  /\ het' = [init_sh_ctrl_area(het) EXCEPT !.areas = het.areas]
  /\ wiped' = TRUE /\ redone' = FALSE
  /\ UNCHANGED <<build, drv, app>>

(* IOCTL_HET_MGR_GET_RAT_MODE answers with an unset variable in a build     *)
(* with one region: 2 is DEFAULT_RAT_INST, 1 stands for any other value.    *)
RatModes == IF build.regions = 2 THEN {2} ELSE {1, 2}

-----------------------------------------------------------------------------
(* User space. *)

(* Mutant: the compiled-out assignment of ipc_channels is back. *)
B4InitMovesChannels(h, rat) ==
  IF rat = 2 \/ h.chans[0] = 0 THEN h
  ELSE [h EXCEPT !.chans[0] = h.ipc + SizeIpc,
                 !.rings[0] = h.ipc + SizeIpc + SizeCh * build.mgrCh, !.open0 = @ \cup {0}]

(* fsl_B4_ipc_init keeps the channel array but counts the rings from the    *)
(* end of the IPC structure, as if the array began there.  With the other   *)
(* RAT mode the body is compiled out.  Without channels the first store     *)
(* faults.                                                                  *)
fsl_B4_ipc_init(h, rat) ==
  IF rat = 2 \/ h.chans[0] = 0 THEN h
  ELSE [h EXCEPT !.rings[0] = h.ipc + SizeIpc + SizeCh * build.mgrCh, !.open0 = @ \cup {0}]

(* fsl_913x_ipc_init puts array and rings behind the IPC structure, and the *)
(* second instance's a whole instance further.                              *)
fsl_913x_ipc_init(h, rat) ==
  LET start(r) == h.ipc + SizeIpc + r * (ChannelsSize(build.mgrCh) + SizeIpc)
      Done == Regions \cap 0 .. rat - 1
  IN [h EXCEPT !.chans = [r \in Regions |-> IF r \in Done THEN start(r) ELSE @[r]],
               !.rings = [r \in Regions |->
                            IF r \in Done THEN start(r) + SizeCh * build.mgrCh ELSE @[r]],
               !.count = build.mgrCh, !.open0 = @ \cup Done]

(* A boot of the DSP re-creates the channels. *)
Recreate ==
  /\ Call /\ het.mgr
  /\ \E rat \in RatModes :
       het' = IF build.board = "B4860" THEN fsl_B4_ipc_init(het, rat)
              ELSE fsl_913x_ipc_init(het, rat)
  /\ redone' = (redone \/ het' # het)
  /\ UNCHANGED <<build, drv, app, wiped>>

(* get_ipc_inst refuses an instance whose channels are not set. *)
get_ipc_inst(h, r) == h.chans[r] # 0

(* fsl_ipc_init_rat fills the table of channel addresses, which all         *)
(* instances of the process share.                                          *)
fsl_ipc_init_rat(r) ==
  /\ Call /\ drv.loaded /\ r \notin app.inst
  /\ app' = IF get_ipc_inst(het, r)
            THEN [inst |-> app.inst \cup {r}, ch |-> het.chans[r], last |-> r]
            ELSE app
  /\ UNCHANGED <<build, het, drv, redone, wiped>>

fsl_ipc_exit(r) ==
  /\ Call /\ r \in app.inst
  /\ app' = [app EXCEPT !.inst = @ \ {r}]
  /\ UNCHANGED <<build, het, drv, redone, wiped>>

HetAreaNext ==
  \/ het_mgr_init \/ het_mgr_exit \/ ipc_driver_init \/ ipc_driver_exit
  \/ SetSharedArea \/ fsl_reinit_sh_ctrl_area \/ Recreate
  \/ \E r \in Regions : fsl_ipc_init_rat(r) \/ fsl_ipc_exit(r)

-----------------------------------------------------------------------------
(* Where the structures are that can be reached from the control area. *)
Placed ==
  [name : {<<"ctrl", 0>>}, at : {CtrlBase}, size : {SizeControl}]
    \cup [name : {<<"dbg", 0>>}, at : {het.dbg}, size : {Logs(build.board) * SizeLog}]
    \cup [name : {<<"aux", 0>>}, at : {het.aux}, size : {SizeAux}]
    \cup {[name |-> <<"ipc", r>>, at |-> get_hetmgr_ipc_addr(het, r), size |-> SizeIpc] : r \in Regions}
    \cup {[name |-> <<"chans", r>>, at |-> het.chans[r], size |-> SizeCh * het.count] :
             r \in {q \in Regions : het.chans[q] # 0}}
    \cup {[name |-> <<"rings", r>>, at |-> het.rings[r], size |-> SizeBd * het.count * Depth] :
             r \in {q \in Regions : het.chans[q] # 0}}

Apart(a, b) == a.at + a.size <= b.at \/ b.at + b.size <= a.at

(* The layout of the kernel modules keeps every structure to itself:        *)
(* control structure, IPC instances, logs, L1-defense or debug tables, and  *)
(* each region's channel array and rings, through loads of het_ipc in any   *)
(* order with RESET_STRUCTURES.  It holds until a DSP boot re-creates the   *)
(* channels: both user-space versions place them over their neighbours.     *)
LayoutDisjoint ==
  het.mgr /\ ~redone => \A a, b \in Placed : a # b => Apart(a, b)

(* On a B4860 the channel addresses a process has cached at                 *)
(* fsl_ipc_init_rat stay the ones of its instance for as long as it is      *)
(* attached, DSP restarts included, because fsl_B4_ipc_init leaves the      *)
(* array where the driver put it.  RESET_STRUCTURES takes them away, and an *)
(* instance attached later takes over the table.                            *)
AttachedCurrent ==
  build.board = "B4860" /\ ~wiped /\ app.last \in app.inst => app.ch = het.chans[app.last]

=============================================================================
