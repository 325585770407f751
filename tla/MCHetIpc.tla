------------------------------ MODULE MCHetIpc ------------------------------
(* An instance of HetIpc for TLC.  Two descriptors are enough for a ring    *)
(* that fills up while the reader is on its way to sleep.                   *)
EXTENDS HetIpc

CONSTANTS m1, m2
=============================================================================
