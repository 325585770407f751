---------------------------- MODULE MCRruManager ----------------------------
(***************************************************************************)
(* Model checking of RruManager with the units r1 and r2 and two slots.    *)
(* MCRru.cfg has one unit with every trouble it can make; MCRruShared.cfg  *)
(* two units without any.                                                  *)
(***************************************************************************)
EXTENDS RruManager

CONSTANTS r1, r2
=============================================================================
