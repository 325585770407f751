-------------------------- MODULE MCPhyDispatcher ---------------------------
(* Instances of PhyDispatcher for TLC. *)
EXTENDS PhyDispatcher, TLC

(* The properties of the served thread say nothing once a request was refused. *)
NothingRefused == ~refused
=============================================================================
