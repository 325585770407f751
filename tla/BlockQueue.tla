----------------------------- MODULE BlockQueue -----------------------------
(***************************************************************************)
(* The blocking queue of lib/core/block_queue.c.                           *)
(*                                                                         *)
(* A ring of Size slots under one mutex with two condition variables.      *)
(* A critical section (lock .. unlock, or lock .. cond_wait, or wake-up ..  *)
(* unlock) is one action; pthread_cond_wait puts the caller to sleep and   *)
(* a broadcast makes every sleeper runnable again.  The steps the code     *)
(* takes after the unlock are actions of their own.                        *)
(***************************************************************************)
EXTENDS Integers, Sequences, Totals

CONSTANTS Threads,    \* the threads that share the queue
          Calls,      \* Calls[t]: the block_queue_* functions thread t calls
          Items,      \* the pointers that are pushed
          Lens,       \* the item_len values they are pushed with
          Size,       \* q->len, a power of two
          SizeMod,    \* 2^w for a w-bit size_t
          NULL        \* the null pointer

ASSUME SizeAssumption == Size \in Nat \ {0}
ASSUME LensAssumption == Lens \subseteq Nat /\ SizeMod \in Nat \ {0}
ASSUME NullAssumption == NULL \notin Items

VARIABLES queue,                  \* the ring of [ptr, len] slots
          head,                   \* slot of the next push
          tail,                   \* slot of the next pop
          num_items,
          accumulated_items_len,
          pop_break_flag,
          push_break_flag,
          not_empty_cond,         \* threads asleep on not_empty_cond
          not_full_cond,          \* threads asleep on not_full_cond
          pc,                     \* where each thread is
          arg,                    \* the slot contents a blocked push carries
          push_ret,               \* what each thread's last push returned
          got                     \* the pointer handed out last

ring  == <<queue, head, tail, num_items, accumulated_items_len>>
flags == <<pop_break_flag, push_break_flag>>
conds == <<not_empty_cond, not_full_cond>>
vars  == <<ring, flags, conds, pc, arg, push_ret, got>>

Slots   == [ptr : Items \cup {NULL}, len : Lens \cup {0}]
Entries == [ptr : Items, len : Lens]
Empty   == [ptr |-> NULL, len |-> 0]
Index   == 0 .. Size - 1

(* pc[t]: "push", "pop", "pop_timed" and "pop_last" are inside the cond_wait *)
(* of that function; "push_stored" and "push_broken" are past the unlock of  *)
(* block_queue_push, with the item stored or refused.                        *)
Locations == {"idle", "push", "push_stored", "push_broken",
              "pop", "pop_timed", "pop_last"}

TypeOK ==
  /\ queue \in [Index -> Slots]
  /\ head \in Index
  /\ tail \in Index
  /\ num_items \in Int
  /\ accumulated_items_len \in 0 .. SizeMod - 1
  /\ pop_break_flag \in BOOLEAN
  /\ push_break_flag \in BOOLEAN
  /\ not_empty_cond \in SUBSET Threads
  /\ not_full_cond \in SUBSET Threads
  /\ pc \in [Threads -> Locations]
  /\ arg \in [Threads -> Entries \cup {Empty}]
  /\ push_ret \in [Threads -> BOOLEAN]
  /\ got \in Items \cup {NULL}

(* block_queue_init: calloc'ed, so every slot is a null pointer of length 0. *)
Init ==
  /\ queue = [i \in Index |-> Empty]
  /\ head = 0
  /\ tail = 0
  /\ num_items = 0
  /\ accumulated_items_len = 0
  /\ pop_break_flag = FALSE
  /\ push_break_flag = FALSE
  /\ not_empty_cond = {}
  /\ not_full_cond = {}
  /\ pc = [t \in Threads |-> "idle"]
  /\ arg = [t \in Threads |-> Empty]
  /\ push_ret = [t \in Threads |-> TRUE]
  /\ got = NULL

-----------------------------------------------------------------------------
(* (i + 1) & (len - 1), for len a power of two. *)
Inc(i) == IF i = Size - 1 THEN 0 ELSE i + 1

(* head > 0 ? head - 1 : len - 1 *)
Dec(i) == IF i > 0 THEN i - 1 ELSE Size - 1

Goto(t, l) == pc' = [pc EXCEPT ![t] = l]

(* Thread t may call function f. *)
May(t, f) == pc[t] = "idle" /\ f \in Calls[t]

(* Slips in the store and in the removal: a broadcast is forgotten, or the *)
(* length is subtracted after tail has moved on.                           *)
StoreSilent(e) ==
  /\ queue' = [queue EXCEPT ![head] = e]
  /\ head' = Inc(head)
  /\ accumulated_items_len' = (accumulated_items_len + e.len) % SizeMod
  /\ num_items' = num_items + 1
  /\ UNCHANGED <<tail, conds>>

TakeSilent(from, item) ==
  /\ got' = item
  /\ accumulated_items_len' = (accumulated_items_len - queue[from].len) % SizeMod
  /\ num_items' = num_items - 1
  /\ tail' = Inc(from)
  /\ UNCHANGED <<queue, head, conds>>

TakeLateLength(from, item) ==
  /\ got' = item
  /\ accumulated_items_len' =
       (accumulated_items_len - queue[Inc(from)].len) % SizeMod
  /\ num_items' = num_items - 1
  /\ tail' = Inc(from)
  /\ not_full_cond' = {}
  /\ UNCHANGED <<queue, head, not_empty_cond>>

(* The store shared by push and try_push, with its not_empty broadcast. *)
Store(e) ==
  /\ queue' = [queue EXCEPT ![head] = e]
  /\ head' = Inc(head)
  /\ accumulated_items_len' = (accumulated_items_len + e.len) % SizeMod
  /\ num_items' = num_items + 1
  /\ not_empty_cond' = {}
  /\ UNCHANGED <<tail, not_full_cond>>

(* The removal shared by the pop functions: the slot "from" leaves the ring, *)
(* its pointer (or NULL) is handed out, and not_full is broadcast.           *)
Take(from, item) ==
  /\ got' = item
  /\ accumulated_items_len' = (accumulated_items_len - queue[from].len) % SizeMod
  /\ num_items' = num_items - 1
  /\ tail' = Inc(from)
  /\ not_full_cond' = {}
  /\ UNCHANGED <<queue, head, not_empty_cond>>

-----------------------------------------------------------------------------
(* block_queue_push, from the lock (or from the wake-up inside cond_wait) to *)
(* the unlock (or to the next cond_wait).                                    *)
PushSection(t, e) ==
  /\ \/ /\ num_items = Size
        /\ ~push_break_flag
        /\ not_full_cond' = not_full_cond \cup {t}
        /\ arg' = [arg EXCEPT ![t] = e]
        /\ Goto(t, "push")
        /\ UNCHANGED <<ring, not_empty_cond>>
     \/ /\ num_items # Size
        /\ ~push_break_flag
        /\ Store(e)
        /\ arg' = [arg EXCEPT ![t] = Empty]
        /\ Goto(t, "push_stored")
     \/ /\ push_break_flag
        /\ arg' = [arg EXCEPT ![t] = Empty]
        /\ Goto(t, "push_broken")
        /\ UNCHANGED <<ring, conds>>
  /\ UNCHANGED <<flags, push_ret, got>>

Push(t, e) == May(t, "push") /\ PushSection(t, e)

(* "if" written for "while": a woken push does not look again. *)
PushResumeUnchecked(t) ==
  /\ pc[t] = "push"
  /\ t \notin not_full_cond
  /\ Store(arg[t])
  /\ arg' = [arg EXCEPT ![t] = Empty]
  /\ Goto(t, "push_stored")
  /\ UNCHANGED <<flags, push_ret, got>>

PushResume(t) == /\ pc[t] = "push"
                 /\ t \notin not_full_cond
                 /\ PushSection(t, arg[t])

(* return !q->push_break_flag, read after the unlock. *)
PushReturn(t) ==
  /\ pc[t] \in {"push_stored", "push_broken"}
  /\ push_ret' = [push_ret EXCEPT ![t] = ~push_break_flag]
  /\ Goto(t, "idle")
  /\ UNCHANGED <<ring, flags, conds, arg, got>>

(* block_queue_try_push; it does not look at push_break_flag. *)
TryPush(t, e) ==
  /\ May(t, "try_push")
  /\ \/ num_items = Size /\ UNCHANGED <<ring, conds>>
     \/ num_items # Size /\ Store(e)
  /\ UNCHANGED <<flags, pc, arg, push_ret, got>>

-----------------------------------------------------------------------------
TryPop(t) ==
  /\ May(t, "try_pop")
  /\ \/ num_items = 0 /\ UNCHANGED <<ring, conds, got>>
     \/ num_items # 0 /\ Take(tail, queue[tail].ptr)
  /\ UNCHANGED <<flags, pc, arg, push_ret>>

(* A slip in pop: the flag of the producers is cleared as well. *)
PopSectionClearsBoth(t) ==
  /\ \/ /\ num_items = 0
        /\ ~pop_break_flag
        /\ not_empty_cond' = not_empty_cond \cup {t}
        /\ Goto(t, "pop")
        /\ UNCHANGED <<ring, not_full_cond, flags, got>>
     \/ /\ num_items # 0 \/ pop_break_flag
        /\ Take(tail, IF pop_break_flag THEN NULL ELSE queue[tail].ptr)
        /\ pop_break_flag' = FALSE
        /\ push_break_flag' = FALSE
        /\ Goto(t, "idle")
  /\ UNCHANGED <<arg, push_ret>>

(* The critical section of block_queue_pop; it always clears pop_break_flag *)
(* and removes a slot, also when it was broken out of an empty queue.       *)
PopSection(t) ==
  /\ \/ /\ num_items = 0
        /\ ~pop_break_flag
        /\ not_empty_cond' = not_empty_cond \cup {t}
        /\ Goto(t, "pop")
        /\ UNCHANGED <<ring, not_full_cond, pop_break_flag, got>>
     \/ /\ num_items # 0 \/ pop_break_flag
        /\ Take(tail, IF pop_break_flag THEN NULL ELSE queue[tail].ptr)
        /\ pop_break_flag' = FALSE
        /\ Goto(t, "idle")
  /\ UNCHANGED <<push_break_flag, arg, push_ret>>

Pop(t) == May(t, "pop") /\ PopSection(t)

(* "if" written for "while" in pop. *)
PopResumeUnchecked(t) ==
  /\ pc[t] = "pop"
  /\ t \notin not_empty_cond
  /\ Take(tail, queue[tail].ptr)
  /\ Goto(t, "idle")
  /\ UNCHANGED <<flags, arg, push_ret>>

PopResume(t) == pc[t] = "pop" /\ t \notin not_empty_cond /\ PopSection(t)

(* block_queue_pop_last: the newest item is taken and tail catches up with *)
(* head, while num_items and accumulated_items_len lose one item only.     *)
PopLastSection(t) ==
  /\ \/ /\ num_items = 0
        /\ ~pop_break_flag
        /\ not_empty_cond' = not_empty_cond \cup {t}
        /\ Goto(t, "pop_last")
        /\ UNCHANGED <<ring, not_full_cond, pop_break_flag, got>>
     \/ /\ num_items # 0 \/ pop_break_flag
        /\ Take(Dec(head), IF pop_break_flag THEN NULL ELSE queue[Dec(head)].ptr)
        /\ pop_break_flag' = FALSE
        /\ Goto(t, "idle")
  /\ UNCHANGED <<push_break_flag, arg, push_ret>>

PopLast(t) == May(t, "pop_last") /\ PopLastSection(t)

PopLastResume(t) ==
  pc[t] = "pop_last" /\ t \notin not_empty_cond /\ PopLastSection(t)

(* block_queue_try_pop_timeout waits once, not in a loop.  TimedTake is the *)
(* part after the wait when it returned 0.                                  *)
TimedTake(t) ==
  /\ \/ (pop_break_flag \/ num_items = 0) /\ UNCHANGED <<ring, conds, got>>
     \/ ~pop_break_flag /\ num_items # 0 /\ Take(tail, queue[tail].ptr)
  /\ Goto(t, "idle")

TryPopTimeout(t) ==
  /\ May(t, "try_pop_timeout")
  /\ \/ /\ num_items = 0
        /\ ~pop_break_flag
        /\ not_empty_cond' = not_empty_cond \cup {t}
        /\ Goto(t, "pop_timed")
        /\ UNCHANGED <<ring, not_full_cond, got>>
     \/ (num_items # 0 \/ pop_break_flag) /\ TimedTake(t)
  /\ UNCHANGED <<flags, arg, push_ret>>

TryPopTimeoutWoken(t) ==
  /\ pc[t] = "pop_timed"
  /\ t \notin not_empty_cond
  /\ TimedTake(t)
  /\ UNCHANGED <<flags, arg, push_ret>>

(* pthread_cond_timedwait returned ETIMEDOUT: nothing is taken, even if an *)
(* item arrived meanwhile.                                                 *)
TryPopTimeoutExpired(t) ==
  /\ pc[t] = "pop_timed"
  /\ not_empty_cond' = not_empty_cond \ {t}
  /\ Goto(t, "idle")
  /\ UNCHANGED <<ring, flags, not_full_cond, arg, push_ret, got>>

-----------------------------------------------------------------------------
BreakPop(t) ==
  /\ May(t, "break_pop")
  /\ pop_break_flag' = TRUE
  /\ not_empty_cond' = {}
  /\ UNCHANGED <<ring, push_break_flag, not_full_cond, pc, arg, push_ret, got>>

(* A slip in break_push: the sleeping producers are not woken. *)
BreakPushSilent(t) ==
  /\ May(t, "break_push")
  /\ push_break_flag' = TRUE
  /\ UNCHANGED <<ring, pop_break_flag, conds, pc, arg, push_ret, got>>

BreakPush(t) ==
  /\ May(t, "break_push")
  /\ push_break_flag' = TRUE
  /\ not_full_cond' = {}
  /\ UNCHANGED <<ring, pop_break_flag, not_empty_cond, pc, arg, push_ret, got>>

Clear(t) ==
  /\ May(t, "clear")
  /\ pop_break_flag' = TRUE
  /\ push_break_flag' = TRUE
  /\ head' = 0
  /\ tail' = 0
  /\ num_items' = 0
  /\ accumulated_items_len' = 0
  /\ not_empty_cond' = {}
  /\ not_full_cond' = {}
  /\ UNCHANGED <<queue, pc, arg, push_ret, got>>

(* POSIX lets a condition wait return without a broadcast. *)
SpuriousWakeup(t) ==
  /\ t \in not_empty_cond \cup not_full_cond
  /\ not_empty_cond' = not_empty_cond \ {t}
  /\ not_full_cond' = not_full_cond \ {t}
  /\ UNCHANGED <<ring, flags, pc, arg, push_ret, got>>

(* What a thread does inside a call it has already made. *)
Continue(t) == \/ PushResume(t) \/ PushReturn(t)
               \/ PopResume(t) \/ PopLastResume(t)
               \/ TryPopTimeoutWoken(t) \/ TryPopTimeoutExpired(t)

Call(t) == \/ \E e \in Entries : Push(t, e) \/ TryPush(t, e)
           \/ Pop(t) \/ TryPop(t) \/ TryPopTimeout(t) \/ PopLast(t)
           \/ BreakPop(t) \/ BreakPush(t) \/ Clear(t)

Next == \E t \in Threads : Call(t) \/ Continue(t) \/ SpuriousWakeup(t)

Spec == Init /\ [][Next]_vars
(* A thread inside a call goes on: the mutex is a priority-inheritance one, *)
(* held for a few instructions.  Nobody is obliged to call, to break a      *)
(* queue, to time out or to wake up spuriously.                             *)
Fairness ==
  \A t \in Threads : WF_vars(PushResume(t) \/ PushReturn(t) \/ PopResume(t))

FairSpec == Spec /\ Fairness

-----------------------------------------------------------------------------
(* The slot i places behind the oldest one. *)
Slot(i) == IF tail + i < Size THEN tail + i ELSE tail + i - Size

(* The pointers that were pushed and not yet popped, oldest first. *)
Contents == [i \in 1 .. num_items |-> queue[Slot(i - 1)].ptr]

(* num_items is the number of elements in the queue: between 0 and len, and *)
(* exactly the distance from tail to head ("the current number of elements  *)
(* in the queue", block_queue_internal.h).                                  *)
NumItemsExact == num_items \in 0 .. Size /\ head = Slot(num_items)

(* The lengths the queued elements were pushed with, oldest first. *)
Lengths == [i \in 1 .. num_items |-> queue[Slot(i - 1)].len]

(* accumulated_items_len is the total length of the queued elements, modulo *)
(* the width of size_t.                                                     *)
AccumulatedExact == accumulated_items_len = Total(Lengths) % SizeMod

(* Nobody sleeps through what it waits for: a thread asleep in push faces a *)
(* full, unbroken queue and a thread asleep in a pop an empty, unbroken one *)
(* (every broadcast of block_queue.c is needed for this).                   *)
NoLostWakeup ==
  /\ not_full_cond # {} => num_items = Size /\ ~push_break_flag
  /\ not_empty_cond # {} => num_items = 0 /\ ~pop_break_flag

(* block_queue_push reads push_break_flag again after the unlock; still, a  *)
(* push that refused its item never reports success, because the flag is    *)
(* never taken back.                                                        *)
RefusedPushFails ==
  [][\A t \in Threads :
       pc[t] = "push_broken" /\ pc'[t] = "idle" => ~push_ret'[t]]_vars

(* The ring, read from tail over num_items slots, is a bounded FIFO: pushes  *)
(* append, pops hand out the oldest item.                                    *)
AQ == INSTANCE AbstractQueue
        WITH q <- Contents, Values <- Items, Capacity <- Size, Nothing <- NULL

ImplementsFifo == AQ!Spec

(* While the consumers keep popping, as the loops of the L2 threads do, the *)
(* producers asleep in push are all woken, again and again.  (One of them   *)
(* may still find the room taken by another every time.)                    *)
PushersWoken ==
  (\A t \in Threads : WF_vars(Pop(t))) => []<>(not_full_cond = {})

(* While the producers keep pushing, as the dispatcher does, and have not   *)
(* been told to stop, the consumers asleep in pop are all woken.            *)
PoppersWoken ==
  (\A t \in Threads : WF_vars(\E e \in Entries : Push(t, e))) =>
    []<>(not_empty_cond = {} \/ push_break_flag)

(* block_queue_break_push lets every blocked producer go, also when nobody  *)
(* pops any more.                                                           *)
BreakReleasesPush ==
  \A t \in Threads : push_break_flag /\ pc[t] = "push" ~> pc[t] = "idle"

(* Nobody sleeps in a queue for ever while the other side does its part:    *)
(* every broadcast of block_queue_push, block_queue_pop and                 *)
(* block_queue_break_push finds the threads it is meant for.                *)
WaitersWoken == PushersWoken /\ PoppersWoken /\ BreakReleasesPush
=============================================================================
