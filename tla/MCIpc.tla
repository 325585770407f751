------------------------------- MODULE MCIpc -------------------------------
(* The three ways in which a process waits on the DSP, as one instance for  *)
(* TLC: a consumer that polls its ring, with every send and receive call;   *)
(* the reader that sleeps in /dev/het_ipc; and the thread that sleeps in    *)
(* the L1 defense driver.  A behaviour takes one of them, chosen at the     *)
(* start.  Three descriptors, and counters that wrap at 4, which is no      *)
(* multiple of 3, as 2^32 need not be one of the depth.                     *)
EXTENDS HetIpc, L1Watchdog

CONSTANTS m1, m2, c1, c2

VARIABLE waits

IpcInit == HetInit /\ WdInit /\ waits \in {"poll", "het_ipc", "l1d"}

IpcNext ==
  \/ waits = "poll" /\ Next /\ UNCHANGED <<kernelVars, rpc, wdVars, waits>>
  \/ waits = "het_ipc" /\ HetNext /\ UNCHANGED <<wdVars, waits>>
  \/ waits = "l1d" /\ WdNext /\ UNCHANGED <<hetVars, waits>>

IpcSpec == IpcInit /\ [][IpcNext]_<<hetVars, wdVars, waits>>
=============================================================================
