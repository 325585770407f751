--------------------------- MODULE AbstractQueue ---------------------------
(***************************************************************************)
(* What a block_queue_t promises to its clients: a bounded FIFO.  Items    *)
(* leave in the order in which they entered, none is lost, invented or     *)
(* handed out twice, and at most Capacity of them are held.                *)
(***************************************************************************)
EXTENDS Naturals, Sequences

CONSTANTS Values,    \* what may be queued
          Capacity,  \* how many values the queue holds at most
          Nothing    \* value of "got" before the first Get

VARIABLES q,   \* the queued values, oldest first
          got  \* the value handed out last

avars == <<q, got>>

Init == q = <<>> /\ got = Nothing

Put(v) == /\ Len(q) < Capacity
          /\ q' = Append(q, v)
          /\ got' = got

Get == /\ q # <<>>
       /\ got' = Head(q)
       /\ q' = Tail(q)

Next == Get \/ \E v \in Values : Put(v)

Spec == Init /\ [][Next]_avars
=============================================================================
