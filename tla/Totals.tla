------------------------------- MODULE Totals -------------------------------
(*****************************************************************************)
(* The sum of a sequence of numbers: the lengths of a queue's elements       *)
(* (BlockQueue) and the sizes of a list of free areas (ShmAlloc).            *)
(*****************************************************************************)
EXTENDS Integers, Sequences

(* The sum of a sequence of numbers, by its partial sums. *)
Total(s) ==
  LET sum[i \in 0 .. Len(s)] == IF i = 0 THEN 0 ELSE sum[i - 1] + s[i]
  IN  sum[Len(s)]
=============================================================================
