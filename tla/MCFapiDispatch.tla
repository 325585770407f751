--------------------------- MODULE MCFapiDispatch ---------------------------
(* FapiDispatch for TLC: queues of one or two messages. *)
EXTENDS FapiDispatch, TLC
=============================================================================
