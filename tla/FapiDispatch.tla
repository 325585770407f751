---------------------------- MODULE FapiDispatch ----------------------------
(***************************************************************************)
(* Start, dispatcher thread and stop of b4860/fapi_b4860.c, with the dump   *)
(* thread of b4860/p8.c.                                                    *)
(*                                                                         *)
(* The dispatcher takes messages from the channel the DSP writes and puts   *)
(* each on the queue of its class.  The queues are those of BlockQueue,     *)
(* reduced to what their users can tell: a FIFO for the classes that are    *)
(* taken with pop or try_pop; num_items and the newest item for the         *)
(* subframe indications, which are taken with pop_last; num_items and the   *)
(* break flag for the P8 indications.  Clients pop; the DSP sends.          *)
(***************************************************************************)
EXTENDS Integers, Sequences

CONSTANTS Kinds,      \* the P7 messages that are queued, by their queue
          Stamps,     \* what tells messages of one class apart
          QueueLen,   \* the length given to block_queue_init
          ChanDepth,  \* messages the channel from the DSP holds
          Limit,      \* p8->limit, 0 for none
          MaxPdus,    \* PDUs of a P8 indication that the dump flags select
          DumpPath    \* p8->dump_path is given

ASSUME LenAssumption == QueueLen \in Nat \ {0} /\ ChanDepth \in Nat \ {0}
ASSUME KindAssumption == Kinds \cap {"p5", "sf", "p8", "inline", "bad"} = {}
ASSUME StampAssumption == Stamps \subseteq Nat
ASSUME DumpAssumption == /\ Limit \in Nat
                         /\ MaxPdus \in Nat \ {0}
                         /\ DumpPath \in BOOLEAN

VARIABLES chan,        \* messages in the channel, oldest first
          dsp,         \* the session the DSP is in
          main,        \* where the thread in fapi_init_late or fapi_stop is
          running,     \* set by the dispatcher, cleared by fapi_stop
          cancelled,   \* pthread_cancel has been called
          disp,        \* where the dispatcher is
          hand,        \* the message it is pushing, None otherwise
          q,           \* q[c]: the queue of class c
          sfq,         \* the queue of subframe indications, last: its newest item
          held,        \* queues whose mutex an ended thread has locked
          p8,          \* where the dump thread is
          p8_running,
          p8_items,    \* num_items of the P8 queue
          p8_break,    \* its pop_break_flag
          pdus,        \* PDUs left to write of the indication in hand
          msg_no       \* PDUs written

dispVars == <<running, disp, hand, q, sfq, held>>
p8Vars   == <<p8, p8_running, p8_items, p8_break, pdus, msg_no>>
vars     == <<chan, dsp, main, cancelled, dispVars, p8Vars>>

Fifos    == {"p5"} \cup Kinds
(* "inline" stands for log and CPRI Ethernet messages, handled by the       *)
(* dispatcher itself; "bad" for a null address, an invalid or unused id.    *)
Classes  == Fifos \cup {"sf", "p8", "inline", "bad"}
Old      == -1     \* stamp of the messages of an earlier session
Messages == [cls : Classes, at : Stamps \cup {Old}]
None     == [cls |-> "bad", at |-> Old]

TypeOK ==
  /\ chan \in Seq(Messages) /\ Len(chan) <= ChanDepth
  /\ dsp \in {"old", "new"}
  /\ main \in {"ipc_init", "drain", "l1_start", "create", "p8_start", "up",
               "join", "p8_stop", "p8_break", "p8_join", "stopped", "failed"}
  /\ running \in BOOLEAN
  /\ cancelled \in BOOLEAN
  /\ disp \in {"none", "start", "reset", "loop", "recv", "push", "ended"}
  /\ hand \in Messages
  /\ q \in [Fifos -> Seq(Stamps \cup {Old})] /\ \A c \in Fifos : Len(q[c]) <= QueueLen
  /\ sfq \in [num : 0 .. QueueLen, last : Stamps \cup {Old}]
  /\ held \in SUBSET (Fifos \cup {"sf"})
  /\ p8 \in {"none", "start", "loop", "pop", "ind", "ended"}
  /\ p8_running \in BOOLEAN
  /\ p8_items \in -1 .. QueueLen
  /\ p8_break \in BOOLEAN
  /\ pdus \in 0 .. MaxPdus
  /\ msg_no \in Nat

(* Before fapi_init_late: the channel may hold messages of an earlier run. *)
Init ==
  /\ chan \in UNION {[1 .. n -> [cls : Classes, at : {Old}]] : n \in 0 .. ChanDepth}
  /\ dsp = "old"
  /\ main = "ipc_init"
  /\ running = FALSE
  /\ cancelled = FALSE
  /\ disp = "none"
  /\ hand = None
  /\ q = [c \in Fifos |-> <<>>]
  /\ sfq = [num |-> 0, last |-> Old]
  /\ held = {}
  /\ p8 = "none"
  /\ p8_running = FALSE
  /\ p8_items = 0
  /\ p8_break = FALSE
  /\ pdus = 0
  /\ msg_no = 0

-----------------------------------------------------------------------------
(* The DSP sends; it stays in its old session until it is configured. *)
DspSend(c, s) ==
  /\ Len(chan) < ChanDepth
  /\ s = Old <=> dsp = "old"
  /\ chan' = Append(chan, [cls |-> c, at |-> s])
  /\ UNCHANGED <<dsp, main, cancelled, dispVars, p8Vars>>

-----------------------------------------------------------------------------
(* fapi_init_late.  fapi_b4860_ipc_init gives up if the memory, the control  *)
(* areas, the DSP or the channel is not there.                              *)
IpcInit ==
  /\ main = "ipc_init"
  /\ main' \in {"drain", "failed"}
  /\ UNCHANGED <<chan, dsp, cancelled, dispVars, p8Vars>>

(* do fsl_ipc_recv_ptr while it succeeds: both draining loops. *)
DrainStep(more, done) ==
  \/ chan # <<>> /\ chan' = Tail(chan) /\ more
  \/ chan = <<>> /\ chan' = chan /\ done

Drain ==
  /\ main = "drain"
  /\ DrainStep(main' = "drain", main' = "l1_start")
  /\ UNCHANGED <<dsp, cancelled, dispVars, p8Vars>>

(* ipc_l1_start: the message to the DSP may be refused; nobody looks. *)
L1Start ==
  /\ main = "l1_start"
  /\ dsp' \in {dsp, "new"}
  /\ main' = "create"
  /\ UNCHANGED <<chan, cancelled, dispVars, p8Vars>>

(* The send buffers are allocated and the dispatcher is created. *)
CreateThread ==
  /\ main = "create"
  /\ \/ main' = "p8_start" /\ disp' = "start"
     \/ main' = "failed" /\ disp' = disp
  /\ UNCHANGED <<chan, dsp, cancelled, running, hand, q, sfq, held, p8Vars>>

(* p8_start, when the dump is enabled. *)
P8Start ==
  /\ main = "p8_start"
  /\ main' = "up"
  /\ \/ p8_running' = TRUE /\ p8' = "start"
     \/ UNCHANGED <<p8_running, p8>>
  /\ UNCHANGED <<chan, dsp, cancelled, dispVars, p8_items, p8_break, pdus, msg_no>>

-----------------------------------------------------------------------------
(* fapi_thread *)
DispStart ==
  /\ disp = "start"
  /\ running' = TRUE
  /\ disp' = "reset"
  /\ UNCHANGED <<chan, dsp, main, cancelled, hand, q, sfq, held, p8Vars>>

(* A slip: the channel is not drained before the loop. *)
ResetNothing ==
  /\ disp = "reset"
  /\ disp' = "loop"
  /\ UNCHANGED <<chan, dsp, main, cancelled, running, hand, q, sfq, held, p8Vars>>

(* ipc_reset_channel *)
Reset ==
  /\ disp = "reset"
  /\ DrainStep(disp' = "reset", disp' = "loop")
  /\ UNCHANGED <<dsp, main, cancelled, running, hand, q, sfq, held, p8Vars>>

Loop ==
  /\ disp = "loop"
  /\ disp' = IF running THEN "recv" ELSE "ended"
  /\ UNCHANGED <<chan, dsp, main, cancelled, running, hand, q, sfq, held, p8Vars>>

(* A slip: the dispatcher waits for room on the P8 queue as on the others. *)
P8PushWait ==
  /\ p8_items < QueueLen
  /\ disp' = "loop"
  /\ p8_items' = p8_items + 1

(* block_queue_try_push: an indication that finds the queue full is dropped. *)
P8TryPush ==
  /\ disp' = "loop"
  /\ p8_items' = IF p8_items = QueueLen THEN p8_items ELSE p8_items + 1

(* fsl_ipc_recv_ptr_block and the switch on the class. *)
Recv ==
  /\ disp = "recv"
  /\ chan # <<>>
  /\ chan' = Tail(chan)
  /\ \/ /\ Head(chan).cls \in {"inline", "bad"}
        /\ disp' = "loop"
        /\ UNCHANGED <<hand, p8_items>>
     \/ /\ Head(chan).cls = "p8"
        /\ P8TryPush
        /\ UNCHANGED hand
     \/ /\ Head(chan).cls \in Fifos \cup {"sf"}
        /\ hand' = Head(chan)
        /\ disp' = "push"
        /\ UNCHANGED p8_items
  /\ UNCHANGED <<dsp, main, cancelled, running, q, sfq, held,
                 p8, p8_running, p8_break, pdus, msg_no>>

Full(c) == IF c = "sf" THEN sfq.num = QueueLen ELSE Len(q[c]) = QueueLen

(* block_queue_push: it waits inside pthread_cond_wait while there is no room. *)
Push ==
  /\ disp = "push"
  /\ ~Full(hand.cls)
  /\ disp' = "loop"
  /\ hand' = None
  /\ \/ /\ hand.cls = "sf"
        /\ sfq' = [num |-> sfq.num + 1, last |-> hand.at]
        /\ UNCHANGED q
     \/ /\ hand.cls \in Fifos
        /\ q' = [q EXCEPT ![hand.cls] = Append(@, hand.at)]
        /\ UNCHANGED sfq
  /\ UNCHANGED <<chan, dsp, main, cancelled, running, held, p8Vars>>

(* Cancellation takes effect in read() and in pthread_cond_wait, which locks *)
(* the mutex again before the thread ends.  Where it ends at a log line no   *)
(* one could tell.                                                           *)
Cancel ==
  /\ cancelled
  /\ \/ disp = "recv" /\ held' = held
     \/ disp = "push" /\ Full(hand.cls) /\ held' = held \cup {hand.cls}
  /\ disp' = "ended"
  /\ UNCHANGED <<chan, dsp, main, cancelled, running, hand, q, sfq, p8Vars>>

-----------------------------------------------------------------------------
(* p8_thread: the directory is made, or the thread ends at once. *)
P8Begin ==
  /\ p8 = "start"
  /\ p8' \in {"loop", "ended"}
  /\ UNCHANGED <<chan, dsp, main, cancelled, dispVars,
                 p8_running, p8_items, p8_break, pdus, msg_no>>

P8Loop ==
  /\ p8 = "loop"
  /\ p8' = IF p8_running THEN "pop" ELSE "ended"
  /\ UNCHANGED <<chan, dsp, main, cancelled, dispVars,
                 p8_running, p8_items, p8_break, pdus, msg_no>>

LimitReached == Limit > 0 /\ msg_no >= Limit

(* block_queue_pop, and the tests on what it returned; a pop that is broken *)
(* returns NULL, takes one off num_items all the same and resets the flag.  *)
P8Pop ==
  /\ p8 = "pop"
  /\ p8_items # 0 \/ p8_break
  /\ p8_items' = p8_items - 1
  /\ p8_break' = FALSE
  /\ IF p8_break \/ ~DumpPath \/ LimitReached
     THEN p8' = "loop" /\ UNCHANGED pdus
     ELSE p8' = "ind" /\ pdus' \in 0 .. MaxPdus
  /\ UNCHANGED <<chan, dsp, main, cancelled, dispVars, p8_running, msg_no>>

(* One PDU goes to its file. *)
P8Write ==
  /\ p8 = "ind"
  /\ IF pdus = 0 THEN p8' = "loop" /\ UNCHANGED <<pdus, msg_no>>
     ELSE p8' = p8 /\ pdus' = pdus - 1 /\ msg_no' = msg_no + 1
  /\ UNCHANGED <<chan, dsp, main, cancelled, dispVars,
                 p8_running, p8_items, p8_break>>

-----------------------------------------------------------------------------
(* A slip: the flag is cleared, and the thread is left to find out. *)
StopFlagOnly ==
  /\ main = "up"
  /\ running' = FALSE
  /\ main' = "p8_stop"
  /\ UNCHANGED <<chan, dsp, cancelled, disp, hand, q, sfq, held, p8Vars>>

(* fapi_stop, up to pthread_join: the dispatcher is only stopped if it has *)
(* set running.                                                            *)
Stop ==
  /\ main = "up"
  /\ IF running THEN /\ running' = FALSE
                     /\ cancelled' = TRUE
                     /\ main' = "join"
     ELSE main' = "p8_stop" /\ UNCHANGED <<running, cancelled>>
  /\ UNCHANGED <<chan, dsp, disp, hand, q, sfq, held, p8Vars>>

Join ==
  /\ main = "join"
  /\ disp = "ended"
  /\ main' = "p8_stop"
  /\ UNCHANGED <<chan, dsp, cancelled, dispVars, p8Vars>>

(* A slip: the queue is broken first and the flag is cleared after. *)
P8StopBreakFirst ==
  /\ \/ main = "p8_stop" /\ p8_running /\ main' = "p8_clear"
        /\ p8_break' = TRUE /\ UNCHANGED p8_running
     \/ main = "p8_clear" /\ main' = "p8_join"
        /\ p8_running' = FALSE /\ UNCHANGED p8_break
     \/ main = "p8_stop" /\ ~p8_running /\ main' = "stopped"
        /\ UNCHANGED <<p8_running, p8_break>>
  /\ UNCHANGED <<chan, dsp, cancelled, dispVars, p8, p8_items, pdus, msg_no>>

(* p8_stop: flag, block_queue_break, pthread_join *)
P8Stop ==
  /\ main = "p8_stop"
  /\ IF p8_running THEN p8_running' = FALSE /\ main' = "p8_break"
     ELSE main' = "stopped" /\ UNCHANGED p8_running
  /\ UNCHANGED <<chan, dsp, cancelled, dispVars, p8, p8_items, p8_break, pdus, msg_no>>

P8Break ==
  /\ main = "p8_break"
  /\ p8_break' = TRUE
  /\ main' = "p8_join"
  /\ UNCHANGED <<chan, dsp, cancelled, dispVars, p8, p8_running, p8_items, pdus, msg_no>>

(* A slip: the dump thread is not waited for. *)
P8JoinNot ==
  /\ main = "p8_join"
  /\ main' = "stopped"
  /\ UNCHANGED <<chan, dsp, cancelled, dispVars, p8Vars>>

P8Join ==
  /\ main = "p8_join"
  /\ p8 = "ended"
  /\ main' = "stopped"
  /\ UNCHANGED <<chan, dsp, cancelled, dispVars, p8Vars>>

-----------------------------------------------------------------------------
(* The clients: fapi_p5_recv_blocking, fapi_p7_recv_blocking and the users of *)
(* the fapi_get_*_ind_queue functions.                                        *)
Pop(c) ==
  /\ q[c] # <<>>
  /\ c \notin held
  /\ q' = [q EXCEPT ![c] = Tail(@)]
  /\ UNCHANGED <<chan, dsp, main, cancelled, running, disp, hand, sfq, held, p8Vars>>

(* block_queue_pop_last on the subframe indications *)
PopLast ==
  /\ sfq.num # 0
  /\ "sf" \notin held
  /\ sfq' = [num |-> sfq.num - 1, last |-> IF sfq.num = 1 THEN Old ELSE sfq.last]
  /\ UNCHANGED <<chan, dsp, main, cancelled, running, disp, hand, q, held, p8Vars>>

MainStep == \/ IpcInit \/ Drain \/ L1Start \/ CreateThread \/ P8Start
            \/ Join \/ P8Stop \/ P8Break \/ P8Join
DispStep == DispStart \/ Reset \/ Loop \/ Recv \/ Push \/ Cancel
P8Step   == P8Begin \/ P8Loop \/ P8Pop \/ P8Write

Next == \/ \E c \in Classes, s \in Stamps \cup {Old} : DspSend(c, s)
        \/ MainStep \/ Stop
        \/ DispStep
        \/ P8Step
        \/ \E c \in Fifos : Pop(c)
        \/ PopLast

Spec == Init /\ [][Next]_vars

(* Every thread goes on while it can; nobody has to call fapi_stop, the     *)
(* clients need not pop and the DSP need not send.                          *)
Fairness == WF_vars(MainStep) /\ WF_vars(DispStep) /\ WF_vars(P8Step)
FairSpec == Spec /\ Fairness

-----------------------------------------------------------------------------
(* Messages of an earlier session, left in the channel or sent before the DSP *)
(* got its configuration, reach no queue once the DSP is configured: both     *)
(* draining loops run, the second one after ipc_l1_start.                     *)
OldDropped ==
  dsp = "new" =>
    /\ disp = "push" => hand.at # Old
    /\ \A c \in Fifos : \A i \in 1 .. Len(q[c]) : q[c][i] # Old
    /\ sfq.num > 0 => sfq.last # Old

(* When fapi_stop waits for the dump thread and that thread is in             *)
(* block_queue_pop, the break is still pending: it cannot have been used up   *)
(* by an earlier round, because p8_running was cleared before.                *)
NoMissedBreak == main = "p8_join" /\ p8 = "pop" => p8_break

(* Past the join in fapi_stop, a dispatcher that is alive is one that had not *)
(* yet set running when fapi_stop looked at it; any other has ended.          *)
StoppedOrLate ==
  main \in {"p8_stop", "p8_break", "p8_join", "stopped"}
    => disp \in {"start", "ended"} \/ running

(* The limit on dumped PDUs is tested once per indication, so it is passed by *)
(* less than one indication.                                                  *)
DumpBound == Limit > 0 => msg_no + pdus < Limit + MaxPdus

(* Nothing is written once fapi_stop has returned. *)
NoDumpAfterStop == [][main = "stopped" => msg_no' = msg_no]_vars

(* fapi_stop returns: a dispatcher that waits for a message or for room is    *)
(* cancelled, and the dump thread always finds out.  The draining loop has no *)
(* cancellation point, so the DSP must not refill the channel for ever as     *)
(* fast as it is drained.                                                     *)
StopCompletes ==
  []<>(disp # "reset") => (main = "join" ~> main = "stopped")

(* While the clients keep taking messages the dispatcher keeps taking and     *)
(* placing them, whatever the dump thread does, even if that has ended.       *)
NoStall ==
  (\A c \in Fifos : WF_vars(Pop(c))) /\ WF_vars(PopLast)
    => []<>(disp # "push" /\ (disp = "recv" => chan = <<>>))

=============================================================================
