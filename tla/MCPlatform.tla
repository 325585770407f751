----------------------------- MODULE MCPlatform -----------------------------
(***************************************************************************)
(* The libraries and drivers under the L1 application, one at a time: a    *)
(* behaviour exercises the part `scenario' names and leaves the others in  *)
(* their initial state.  They share no variable of these modules.          *)
(***************************************************************************)
EXTENDS ShmAlloc, DspBoot, Dsp913x, TxReq, IpcSignal

CONSTANTS u1, u2

VARIABLE scenario

platformVars == <<scenario, shmVars, bootVars, areaVars, txVars, sigVars>>

PlatformInit ==
  /\ scenario \in {"memory", "boot", "area", "tx", "signal"}
  /\ ShmInit /\ BootInitState /\ HetAreaInit /\ LdInit /\ TxInit /\ SigInit
  /\ scenario # "area" =>
       build = [board |-> "B4860", regions |-> 1, drvCh |-> 1, mgrCh |-> 1, ctrl |-> 16]

PlatformNext ==
  /\ UNCHANGED scenario
  /\ \/ scenario = "memory" /\ ShmNext /\ UNCHANGED <<bootVars, areaVars, txVars, sigVars>>
     \/ scenario = "boot" /\ DspNext /\ UNCHANGED <<shmVars, areaVars, txVars, sigVars>>
     \/ scenario = "area" /\ Area913xNext /\ UNCHANGED <<shmVars, bootVars, txVars, sigVars>>
     \/ scenario = "tx" /\ TxNext /\ UNCHANGED <<shmVars, bootVars, areaVars, sigVars>>
     \/ scenario = "signal" /\ SigNext /\ UNCHANGED <<shmVars, bootVars, areaVars, txVars>>

PlatformSpec == PlatformInit /\ [][PlatformNext]_platformVars

\* Two boots of cores by number, with and without a shared image, a load of new
\* images, and two calls of the defense: all cores with shared images, one core.
MCBootCalls ==
  {[api |-> "dsp_boot", mode |-> 3, sem |-> 1, ids |-> <<1, 0>>],
   [api |-> "dsp_boot", mode |-> 3, sem |-> 0, ids |-> <<2, Shared>>],
   [api |-> "load_new", mode |-> 3, sem |-> 1, ids |-> <<0, 2>>],
   [api |-> "defense", mode |-> 3, sem |-> 1, flags |-> {0, 1}, shared |-> TRUE],
   [api |-> "defense", mode |-> 1, sem |-> 0, flags |-> {2}, shared |-> FALSE]}

\* Once a process has initialised the memory others use, two areas are enough.
StaleBound == mixed => Cardinality(Holdings) <= 2
=============================================================================
