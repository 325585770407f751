--------------------------- MODULE PhyDispatcher ----------------------------
(***************************************************************************)
(* The PHY thread of the L2 generator (l2_fapi_generator/phy/phy.c) on top  *)
(* of the FAPI library: bring-up of the L1, the loop over the subframes,    *)
(* the requests it sends from the ring of send buffers, and its end.        *)
(*                                                                         *)
(* The dispatcher is the one of FapiDispatch, running and never stopped;    *)
(* P8 messages are left out.  The DSP is external: it handles the requests  *)
(* in order and, while it runs, sends for each TTI the uplink indications   *)
(* of RxLag TTIs before and then the subframe indication.                   *)
(***************************************************************************)
EXTENDS FapiDispatch

CONSTANTS SfNum,      \* subframes per frame, 10
          FrameNum,   \* frames until the numbers start again, 1024
          RxLag,      \* TTIs from an uplink subframe to its indications, 4
          PerTti,     \* indications of one kind in a TTI
          Leftover,   \* TTIs an L1 left running goes on for
          BufNum,     \* FAPI_TX_REQ_BUF_NUM
          ReqDepth    \* requests the channel to the DSP holds

Period == SfNum * FrameNum
Tti    == 0 .. Period - 1

ASSUME TtiAssumption == /\ SfNum \in Nat \ {0}
                        /\ FrameNum \in Nat \ {0}
                        /\ RxLag \in 0 .. Period - 1
                        /\ Stamps = Tti

(* An L1 left running is stopped long before its indications fill a queue. *)
ASSUME LeftAssumption == /\ PerTti \in Nat \ {0} /\ Leftover \in Nat \ {0}
                         /\ (Leftover + 1) * PerTti <= QueueLen
ASSUME BufAssumption == ReqDepth \in Nat \ {0} /\ BufNum \in Nat /\ BufNum >= ReqDepth

VARIABLES l1,          \* "idle", "running", or "left" running by a process before
          ticks,       \* TTIs a "left" L1 has still before it
          due,         \* due[k]: indications of kind k still possible in this TTI
          tti,         \* the TTI whose subframe indication is next
          late,        \* the thread may fall behind the DSP
          req,         \* requests in the channel to the DSP
          refused,     \* a request found that channel full
          buf_ptr,     \* fapi_tx_req_data_buf_ptr
          phy,         \* where the thread is
          todo,        \* requests it is about to send
          then,        \* where it goes after that
          phy_running, \* l2_fapi_gen->phy.running
          tti_tx,      \* proc.tti_tx
          undrained,   \* queues still to be emptied in this TTI
          slot         \* slot[k][s]: proc.rx_ind_q[s] and its like

dspSide == <<l1, ticks, due, tti, late>>
reqSide == <<req, refused, buf_ptr>>
phySide == <<phy, todo, then, phy_running, tti_tx, undrained, slot>>
pvars   == <<vars, dspSide, reqSide, phySide>>

Bufs     == 0 .. BufNum - 1
IfKind(k) == IF k \in Kinds THEN <<k>> ELSE <<>>

(* A slip: a queue that nobody empties. *)
DrainedFewer == IfKind("rach") \o IfKind("harq") \o IfKind("sr") \o IfKind("cqi") \o IfKind("crc")

(* The order in which the thread empties the queues it drains. *)
Drained  == IfKind("rach") \o IfKind("rx") \o IfKind("harq") \o IfKind("sr") \o IfKind("cqi")
              \o IfKind("crc")
Slotted  == Kinds \ {"rach"}
Requests == {"stop", "config", "start", "dl", "ul", "tx"}

(* After enodeb_du_l1_init and phy_init: the dispatcher has been created, the *)
(* thread begins with phy_stop_l1.                                            *)
PhyInit ==
  /\ chan = <<>> /\ dsp = "new" /\ main = "up" /\ cancelled = FALSE
  /\ running = FALSE /\ disp = "start" /\ hand = None
  /\ q = [c \in Fifos |-> <<>>]
  /\ sfq = [num |-> 0, last |-> Old]
  /\ held = {}
  /\ p8 = "none" /\ p8_running = FALSE /\ p8_items = 0 /\ p8_break = FALSE
  /\ pdus = 0 /\ msg_no = 0
  /\ \/ l1 = "idle" /\ late \in BOOLEAN
     \/ l1 = "left" /\ late = TRUE
  /\ ticks = Leftover
  /\ due = [k \in Kinds |-> PerTti]
  /\ tti \in Tti
  /\ req = <<>> /\ refused = FALSE /\ buf_ptr = 0
  /\ phy = "send" /\ todo = <<"stop">> /\ then = "sleep"
  /\ phy_running = TRUE
  /\ tti_tx = 0
  /\ undrained = <<>>
  /\ slot = [k \in Slotted |-> [s \in 0 .. SfNum - 1 |-> Old]]

-----------------------------------------------------------------------------
(* The DSP handles a request and frees its descriptor.  CONFIG is answered; *)
(* nothing in phy.c reads an answer to the others.                          *)
DspHandle ==
  /\ req # <<>>
  /\ req' = Tail(req)
  /\ l1' = CASE Head(req).id = "stop"  -> "idle"
             [] Head(req).id = "start" -> "running"
             [] OTHER -> l1
  /\ IF Head(req).id = "config" THEN DspSend("p5", tti) ELSE UNCHANGED vars
  /\ UNCHANGED <<ticks, due, tti, late, refused, buf_ptr, phySide>>

DspInd(k) ==
  /\ l1 # "idle"
  /\ due[k] > 0
  /\ due' = [due EXCEPT ![k] = @ - 1]
  /\ DspSend(k, (tti - RxLag) % Period)
  /\ UNCHANGED <<l1, ticks, tti, late, reqSide, phySide>>

(* The thread has finished with all subframes up to now. *)
Punctual == /\ phy \in {"loop", "pop"}
            /\ sfq.num = 0
            /\ hand.cls # "sf"
            /\ \A i \in 1 .. Len(chan) : chan[i].cls # "sf"

DspTick ==
  /\ \/ l1 = "running" /\ (late \/ Punctual) /\ UNCHANGED ticks
     \/ l1 = "left" /\ ticks > 0 /\ ticks' = ticks - 1
  /\ DspSend("sf", tti)
  /\ tti' = (tti + 1) % Period
  /\ due' = [k \in Kinds |-> PerTti]
  /\ UNCHANGED <<l1, late, reqSide, phySide>>

-----------------------------------------------------------------------------
(* A slip: the last buffer is never used. *)
NextBufEarly == IF buf_ptr + 1 >= BufNum - 1 THEN 0 ELSE buf_ptr + 1

(* fapi_alloc_send_msg *)
NextBuf == IF buf_ptr + 1 = BufNum THEN 0 ELSE buf_ptr + 1

(* The functions that send a request: the next buffer is taken and filled,   *)
(* whether or not the channel has room when ipc_send_msg is called.          *)
Send ==
  /\ phy = "send"
  /\ todo # <<>>
  /\ buf_ptr' = NextBuf
  /\ IF Len(req) < ReqDepth
     THEN req' = Append(req, [id |-> Head(todo), buf |-> buf_ptr]) /\ UNCHANGED refused
     ELSE UNCHANGED req /\ refused' = TRUE
  /\ todo' = Tail(todo)
  (* fapi_p5_config_request returns at once if its request was refused. *)
  /\ then' = IF then = "wait" /\ Head(todo) = "config" /\ Len(req) = ReqDepth
             THEN "start" ELSE then
  /\ UNCHANGED <<vars, dspSide, phy, phy_running, tti_tx, undrained, slot>>

SendNext(reqs, next) == phy' = "send" /\ todo' = reqs /\ then' = next

Sent ==
  /\ phy = "send"
  /\ todo = <<>>
  /\ IF then = "start" THEN SendNext(<<"start">>, "loop")
     ELSE phy' = then /\ UNCHANGED <<todo, then>>
  /\ UNCHANGED <<vars, dspSide, reqSide, phy_running, tti_tx, undrained, slot>>

(* sleep(1) is long enough for the dispatcher to start. *)
Sleep ==
  /\ phy = "sleep"
  /\ disp \notin {"start", "reset"}
  /\ IF phy_running THEN SendNext(<<"stop", "config">>, "wait")
     ELSE SendNext(<<"stop">>, "ended")
  /\ UNCHANGED <<vars, dspSide, reqSide, phy_running, tti_tx, undrained, slot>>

(* fapi_p5_recv_blocking; the answer is logged, whatever it says. *)
Configured ==
  /\ phy = "wait"
  /\ Pop("p5")
  /\ SendNext(<<"start">>, "loop")
  /\ UNCHANGED <<dspSide, reqSide, phy_running, tti_tx, undrained, slot>>

(* A slip: the thread ends and leaves the L1 running. *)
LoopTestNoStop ==
  /\ phy = "loop"
  /\ phy' = IF phy_running THEN "pop" ELSE "ended"
  /\ UNCHANGED <<vars, dspSide, reqSide, todo, then, phy_running, tti_tx, undrained, slot>>

LoopTest ==
  /\ phy = "loop"
  /\ IF phy_running THEN phy' = "pop" /\ UNCHANGED <<todo, then>>
     ELSE SendNext(<<"stop">>, "ended")
  /\ UNCHANGED <<vars, dspSide, reqSide, phy_running, tti_tx, undrained, slot>>

(* block_queue_pop_last and phy_common_set_time *)
SubframeInd ==
  /\ phy = "pop"
  /\ PopLast
  /\ tti_tx' = sfq.last
  /\ undrained' = Drained
  /\ phy' = "drain"
  /\ UNCHANGED <<dspSide, reqSide, todo, then, phy_running, slot>>

(* phy_common_set_time *)
TtiRx == IF tti_tx >= RxLag THEN tti_tx - RxLag ELSE Period + tti_tx - RxLag

(* One round of a loop over block_queue_try_pop.  An indication goes to the  *)
(* slot of its subframe; one without entries is dropped, but for RX.         *)
DrainQueue ==
  /\ phy = "drain"
  /\ undrained # <<>>
  /\ LET k == Head(undrained) IN
       \/ /\ q[k] = <<>>
          /\ undrained' = Tail(undrained)
          /\ UNCHANGED <<vars, slot>>
       \/ /\ Pop(k)
          /\ \/ /\ k \in Slotted
                /\ slot' = [slot EXCEPT ![k][Head(q[k]) % SfNum] = Head(q[k])]
             \/ k # "rx" /\ UNCHANGED slot
          /\ UNCHANGED undrained
  /\ UNCHANGED <<dspSide, reqSide, phy, todo, then, phy_running, tti_tx>>

(* A slip: the slots are decoded and not emptied. *)
DecodeKeep ==
  /\ phy = "drain"
  /\ undrained = <<>>
  /\ \/ phy' = "loop" /\ UNCHANGED <<todo, then>>
     \/ SendNext(<<"dl", "ul">>, "loop")
     \/ SendNext(<<"dl", "ul", "tx">>, "loop")
  /\ UNCHANGED <<vars, dspSide, reqSide, phy_running, tti_tx, undrained, slot>>

(* The slots of sf_rx are decoded and emptied.  The scheduler may fail, or    *)
(* there is something to send or not; number_dci0 and number_hi are always 0. *)
Decode ==
  /\ phy = "drain"
  /\ undrained = <<>>
  /\ slot' = [k \in Slotted |-> [slot[k] EXCEPT ![TtiRx % SfNum] = Old]]
  /\ \/ phy' = "loop" /\ UNCHANGED <<todo, then>>
     \/ SendNext(<<"dl", "ul">>, "loop")
     \/ SendNext(<<"dl", "ul", "tx">>, "loop")
  /\ UNCHANGED <<vars, dspSide, reqSide, phy_running, tti_tx, undrained>>

(* phy_stop; the caller then joins the thread. *)
PhyStop ==
  /\ phy_running
  /\ phy_running' = FALSE
  /\ UNCHANGED <<vars, dspSide, reqSide, phy, todo, then, tti_tx, undrained, slot>>

PhyStep == \/ Send \/ Sent \/ Sleep \/ Configured \/ LoopTest
           \/ SubframeInd \/ DrainQueue \/ Decode
Dispatch == DispStep /\ UNCHANGED <<dspSide, reqSide, phySide>>

PhyNext == \/ DspHandle \/ DspTick
           \/ \E k \in Kinds : DspInd(k)
           \/ Dispatch
           \/ PhyStep
           \/ PhyStop

PhySpec == PhyInit /\ [][PhyNext]_pvars

(* Both threads go on while they can, and the DSP handles requests; while it *)
(* runs it sends an indication for every subframe.                           *)
PhyFairness == /\ WF_pvars(Dispatch) /\ WF_pvars(PhyStep)
               /\ WF_pvars(DspHandle) /\ WF_pvars(DspTick)
PhyFairSpec == PhySpec /\ PhyFairness

-----------------------------------------------------------------------------
(* While the thread keeps up with an L1 that was idle when it came, what it   *)
(* decodes in a subframe was received in tti_rx, RxLag TTIs before: slots are *)
(* indexed by the subframe alone, so one that is not emptied, or is filled    *)
(* late, would be decoded a frame later.                                      *)
FreshDecode ==
  ~late /\ phy = "drain" /\ undrained = <<>> =>
    \A k \in Slotted : slot[k][TtiRx % SfNum] \in {Old, (tti_tx - RxLag) % Period}

(* No two requests the DSP has still to read lie in one send buffer, as long  *)
(* as it never fell so far behind that a request was refused: a refused       *)
(* request takes a buffer all the same, and the rings are equally long.       *)
RequestsIntact ==
  ~refused => \A i, j \in 1 .. Len(req) : i # j => req[i].buf # req[j].buf

(* The PHY thread and the dispatcher never wait for each other: subframes are *)
(* handled for ever, also if the thread falls behind and finds the queues     *)
(* full, or an L1 left running has filled them before it came.                *)
SubframesServed ==
  [](phy_running /\ ~refused) => []<>(phy = "drain")

(* After phy_stop the thread ends, and the L1 is stopped with it. *)
StopStopsL1 ==
  []~refused => (~phy_running ~> phy = "ended" /\ l1 = "idle")

=============================================================================
