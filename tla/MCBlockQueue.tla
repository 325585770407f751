---------------------------- MODULE MCBlockQueue ----------------------------
(* Instances of BlockQueue, one definition of Calls per way of using a queue. *)
EXTENDS BlockQueue, TLC

CONSTANTS p1, p2, c1, c2, b, i1, i2

(* Any mix of the functions that keep the queue a FIFO. *)
FifoCalls == p1 :> {"push"} @@ p2 :> {"try_push"}
             @@ c1 :> {"pop", "try_pop"} @@ c2 :> {"try_pop_timeout"}
             @@ b :> {"break_push"}

(* The subframe-indication queue: the PHY thread uses pop_last. *)
SubframeCalls == p1 :> {"push"} @@ c1 :> {"pop_last"}

(* Every function of block_queue.h at once. *)
AllCalls == p1 :> {"push", "try_push"} @@ c1 :> {"pop", "try_pop_timeout"}
            @@ c2 :> {"pop_last", "try_pop"}
            @@ b :> {"break_pop", "break_push", "clear"}

(* A broken pop leaves num_items at -1 and later pops take it further down, *)
(* without end; two steps below zero show every case of that.               *)
MinNumItems == -2

NumItemsBound == num_items >= MinNumItems
=============================================================================
