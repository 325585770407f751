----------------------------- MODULE FapiProofs -----------------------------
(*****************************************************************************)
(* Proofs about FapiDispatch, for all lengths, limits and classes, about the *)
(* ring of send buffers and the ring of descriptors that PhyDispatcher adds  *)
(* to it, for all lengths with BufNum >= ReqDepth, and that what phy.c       *)
(* decodes is what was received for the subframe, for all depths, frame      *)
(* lengths and lags.                                                         *)
(*****************************************************************************)
EXTENDS PhyDispatcher, SequenceTheorems, TLAPS

Before  == {"ipc_init", "drain", "l1_start", "create"}

(* Who is alive: a dispatcher past its first step has running set, unless     *)
(* fapi_stop waits for it.                                                    *)
ThreadInv ==
  /\ disp \in {"reset", "loop", "recv", "push"} => running \/ main = "join"
  /\ main \in Before => disp = "none"
  /\ disp = "none" => main \in Before \cup {"failed"}
  /\ disp = "push" => hand.cls \in Fifos \cup {"sf"}

(* The dump thread exists between p8_start and p8_stop and p8_running says    *)
(* so; the break is set once, at the end, and a pop it ends is the last one.  *)
DumpInv ==
  /\ main \in Before \cup {"p8_start", "failed"} => p8 = "none" /\ ~p8_running
  /\ main \in {"up", "join", "p8_stop"} => (p8_running <=> p8 # "none")
  /\ main \in {"p8_break", "p8_join", "stopped"} => ~p8_running
  /\ main = "stopped" => p8 \in {"none", "ended"}
  /\ p8_break => main \in {"p8_join", "stopped"}
  /\ p8_items < 0 => main \in {"p8_join", "stopped"} /\ p8 \in {"loop", "ended"}
  /\ p8 # "ind" => pdus = 0

(* Old messages: the queues are empty until the dispatcher has drained the    *)
(* channel, and from then on a configured DSP's channel holds no old one.     *)
DrainInv ==
  /\ disp \in {"none", "start", "reset"} =>
       sfq.num = 0 /\ \A c \in Fifos : q[c] = <<>>
  /\ dsp = "new" /\ disp \notin {"none", "start", "reset"} =>
       \A i \in 1 .. Len(chan) : chan[i].at # Old

IInv == TypeOK /\ ThreadInv /\ DumpInv /\ NoMissedBreak /\ DumpBound
        /\ DrainInv /\ OldDropped

-----------------------------------------------------------------------------
(* The threads: one case for each action that moves one. *)
LEMMA ThreadStep ==
  ASSUME TypeOK, ThreadInv, [Next]_vars
  PROVE  ThreadInv'
<1> USE DEF ThreadInv, Before
<1>1. CASE \/ UNCHANGED vars \/ P8Step \/ PopLast
           \/ \E c \in Fifos : Pop(c)
           \/ \E c \in Classes, s \in Stamps \cup {Old} : DspSend(c, s)
  BY <1>1, ZenonT(40) DEF vars, dispVars, p8Vars, P8Step, P8Begin, P8Loop, P8Pop, P8Write,
              PopLast, Pop, DspSend
<1>2. CASE IpcInit \/ Drain \/ L1Start \/ CreateThread \/ P8Start
  BY <1>2, Zenon DEF IpcInit, Drain, DrainStep, L1Start, CreateThread, P8Start, dispVars, TypeOK
<1>3. CASE Stop \/ Join \/ P8Stop \/ P8Break \/ P8Join
  BY <1>3, Zenon DEF Stop, Join, P8Stop, P8Break, P8Join, dispVars, TypeOK
<1>4. CASE DispStart \/ Reset \/ Loop \/ Push \/ Cancel
  BY <1>4, Zenon DEF DispStart, Reset, DrainStep, Loop, Push, Cancel, TypeOK
<1>5. CASE Recv
  BY <1>5, Zenon DEF Recv, P8TryPush, TypeOK
<1> QED
  BY <1>1, <1>2, <1>3, <1>4, <1>5, Zenon DEF Next, MainStep, DispStep

(* The dump thread, its flag and its break. *)
LEMMA DumpStep ==
  ASSUME TypeOK, ThreadInv, DumpInv, NoMissedBreak, [Next]_vars
  PROVE  DumpInv' /\ NoMissedBreak'
<1> USE DEF DumpInv, NoMissedBreak, Before
<1>1. CASE \/ UNCHANGED vars \/ PopLast
           \/ \E c \in Fifos : Pop(c)
           \/ \E c \in Classes, s \in Stamps \cup {Old} : DspSend(c, s)
  <2>1. UNCHANGED <<main, p8, p8_running, p8_items, p8_break, pdus>>
    BY <1>1, Zenon DEF vars, p8Vars, PopLast, Pop, DspSend
  <2> QED
    BY <2>1, Zenon
<1>2. CASE IpcInit \/ Drain \/ L1Start \/ CreateThread \/ P8Start
  BY <1>2, SMTT(40) DEF IpcInit, Drain, DrainStep, L1Start, CreateThread, P8Start, p8Vars, TypeOK
<1>3. CASE Stop \/ Join \/ P8Stop \/ P8Break \/ P8Join
  BY <1>3, SMTT(40) DEF Stop, Join, P8Stop, P8Break, P8Join, p8Vars, TypeOK
<1>4. CASE DispStart \/ Reset \/ Loop \/ Push \/ Cancel
  BY <1>4, SMTT(40) DEF DispStart, Reset, Loop, Push, Cancel, p8Vars, TypeOK
<1>5. CASE Recv
  BY <1>5, LenAssumption, SMTT(40) DEF Recv, P8TryPush, TypeOK
<1>6. CASE P8Step
  BY <1>6, SMTT(40) DEF P8Step, P8Begin, P8Loop, P8Pop, P8Write, TypeOK
<1> QED
  BY <1>1, <1>2, <1>3, <1>4, <1>5, <1>6, Zenon DEF Next, MainStep, DispStep

(* The limit: an indication is begun below it, and has at most MaxPdus. *)
LEMMA BoundStep ==
  ASSUME TypeOK, DumpInv, DumpBound, [Next]_vars
  PROVE  DumpBound'
<1>1. CASE P8Pop
  BY <1>1, DumpAssumption DEF P8Pop, LimitReached, DumpBound, DumpInv, TypeOK
<1>2. CASE P8Write
  BY <1>2, DumpAssumption DEF P8Write, DumpBound, TypeOK
<1>3. CASE UNCHANGED <<msg_no, pdus>>
  BY <1>3, Zenon DEF DumpBound
<1>4. [Next]_vars => P8Pop \/ P8Write \/ UNCHANGED <<msg_no, pdus>>
  BY Zenon DEF Next, MainStep, DispStep, P8Step, vars, dispVars, p8Vars, DspSend, IpcInit,
         Drain, L1Start, CreateThread, P8Start, DispStart, Reset, Loop, Recv, Push,
         Cancel, P8Begin, P8Loop, Stop, Join, P8Stop, P8Break, P8Join, Pop, PopLast
<1> QED
  BY <1>1, <1>2, <1>3, <1>4, Zenon

-----------------------------------------------------------------------------
(* What a first-in first-out queue still holds after an end has moved. *)
LEMMA TailHolds ==
  ASSUME NEW S, NEW t \in Seq(S), t # <<>>
  PROVE  /\ Tail(t) \in Seq(S) /\ Len(Tail(t)) = Len(t) - 1
         /\ Head(t) = t[1] /\ Head(t) \in S /\ Len(t) \in Nat \ {0}
         /\ \A i \in 1 .. Len(Tail(t)) : i + 1 \in 1 .. Len(t) /\ Tail(t)[i] = t[i + 1]
  BY HeadTailProperties, LenProperties

LEMMA AppendHolds ==
  ASSUME NEW S, NEW t \in Seq(S), NEW x \in S
  PROVE  /\ Append(t, x) \in Seq(S) /\ Len(Append(t, x)) = Len(t) + 1
         /\ \A i \in 1 .. Len(Append(t, x)) :
              Append(t, x)[i] = x \/ (i \in 1 .. Len(t) /\ Append(t, x)[i] = t[i])
  BY AppendProperties, LenProperties

(* Both ends of the way of an old message: it is drained, or never taken. *)
LEMMA DrainStepInv ==
  ASSUME TypeOK, ThreadInv, DrainInv, OldDropped, [Next]_vars
  PROVE  DrainInv' /\ OldDropped'
<1> DEFINE Kept == UNCHANGED <<dsp, disp, hand, q, sfq, chan>>
<1>1. CASE Kept
  BY <1>1, Zenon DEF DrainInv, OldDropped
<1>2. ASSUME NEW c \in Classes, NEW s \in Stamps \cup {Old}, DspSend(c, s)
      PROVE  DrainInv' /\ OldDropped'
  <2>1. [cls |-> c, at |-> s] \in Messages
    BY Zenon DEF Messages
  <2>2. \A i \in 1 .. Len(chan') :
          chan'[i] = [cls |-> c, at |-> s] \/ (i \in 1 .. Len(chan) /\ chan'[i] = chan[i])
    BY <1>2, <2>1, AppendHolds, SMTT(30) DEF DspSend, TypeOK
  <2>3. dsp = "new" => s # Old
    BY <1>2, Zenon DEF DspSend
  <2> QED
    BY <1>2, <2>2, <2>3, SMTT(40) DEF DspSend, dispVars, DrainInv, OldDropped
<1>3. CASE Drain
  <2>1. disp = "none"
    BY <1>3, Zenon DEF Drain, ThreadInv, Before
  <2> QED
    BY <1>3, <2>1, Zenon DEF Drain, dispVars, DrainInv, OldDropped
<1>4. CASE L1Start \/ CreateThread
  BY <1>4 DEF L1Start, CreateThread, dispVars, ThreadInv, Before, DrainInv, OldDropped, TypeOK
<1>5. CASE DispStart \/ Loop \/ Cancel
  BY <1>5, Zenon DEF DispStart, Loop, Cancel, DrainInv, OldDropped, TypeOK
<1>6. CASE Reset
  BY <1>6 DEF Reset, DrainStep, DrainInv, OldDropped, TypeOK
<1>7. CASE Recv
  <2>1. /\ Head(chan) = chan[1] /\ 1 \in 1 .. Len(chan)
        /\ \A i \in 1 .. Len(chan') : i + 1 \in 1 .. Len(chan) /\ chan'[i] = chan[i + 1]
    BY <1>7, TailHolds DEF Recv, TypeOK
  <2>2. disp' \in {"loop", "push"} /\ (disp' = "push" => hand' = Head(chan))
    BY <1>7, Zenon DEF Recv, P8TryPush
  <2> QED
    BY <1>7, <2>1, <2>2, Zenon DEF Recv, DrainInv, OldDropped
<1>8. CASE Push
  <2>1. CASE hand.cls = "sf" /\ sfq' = [num |-> sfq.num + 1, last |-> hand.at] /\ UNCHANGED q
    BY <1>8, <2>1, Zenon DEF Push, DrainInv, OldDropped
  <2>2. CASE /\ hand.cls \in Fifos
             /\ q' = [q EXCEPT ![hand.cls] = Append(@, hand.at)]
             /\ UNCHANGED sfq
    <3>1. hand.at \in Stamps \cup {Old} /\ q[hand.cls] \in Seq(Stamps \cup {Old})
      BY <2>2, Zenon DEF TypeOK, Messages
    <3>2. \A i \in 1 .. Len(q'[hand.cls]) : q'[hand.cls][i] = hand.at
             \/ (i \in 1 .. Len(q[hand.cls]) /\ q'[hand.cls][i] = q[hand.cls][i])
      BY <2>2, <3>1, AppendHolds, SMTT(30) DEF TypeOK
    <3>3. \A c \in Fifos : c # hand.cls => q'[c] = q[c]
      BY <2>2, Zenon DEF TypeOK
    <3> QED
      BY <1>8, <2>2, <3>2, <3>3 DEF Push, DrainInv, OldDropped
  <2> QED
    BY <1>8, <2>1, <2>2, Zenon DEF Push
<1>9. ASSUME NEW c \in Fifos, Pop(c)
      PROVE  DrainInv' /\ OldDropped'
  <2>1. \A i \in 1 .. Len(q'[c]) : i + 1 \in 1 .. Len(q[c]) /\ q'[c][i] = q[c][i + 1]
    BY <1>9, TailHolds DEF Pop, TypeOK
  <2>2. \A d \in Fifos : d # c => q'[d] = q[d]
    BY <1>9, Zenon DEF Pop, TypeOK
  <2>3. disp \notin {"none", "start", "reset"}
    BY <1>9, Zenon DEF Pop, DrainInv
  <2> QED
    BY <1>9, <2>1, <2>2, <2>3, SMTT(30) DEF Pop, DrainInv, OldDropped
<1>10. CASE PopLast
  BY <1>10 DEF PopLast, DrainInv, OldDropped, TypeOK
<1>11. \/ Kept \/ Drain \/ L1Start \/ CreateThread
       \/ DispStart \/ Loop \/ Cancel \/ Reset \/ Recv \/ Push \/ PopLast
       \/ \E c \in Fifos : Pop(c)
       \/ \E c \in Classes, s \in Stamps \cup {Old} : DspSend(c, s)
  BY Zenon DEF Next, MainStep, DispStep, P8Step, vars, dispVars, IpcInit, P8Start, P8Begin,
         P8Loop, P8Pop, P8Write, Stop, Join, P8Stop, P8Break, P8Join
<1> QED
  BY <1>1, <1>2, <1>3, <1>4, <1>5, <1>6, <1>7, <1>8, <1>9, <1>10, <1>11, Zenon

-----------------------------------------------------------------------------
(* Types.  DumpInv is needed for num_items of the P8 queue, which a broken    *)
(* pop takes to -1 and no further.                                            *)
LEMMA TypeStep ==
  ASSUME TypeOK, ThreadInv, DumpInv, [Next]_vars
  PROVE  TypeOK'
<1> USE LenAssumption, DumpAssumption
<1>1. CASE UNCHANGED vars
  BY <1>1, SMTT(30) DEF vars, dispVars, p8Vars, TypeOK
<1>2. ASSUME NEW c \in Classes, NEW s \in Stamps \cup {Old}, DspSend(c, s)
      PROVE  TypeOK'
  <2>1. [cls |-> c, at |-> s] \in Messages
    BY Zenon DEF Messages
  <2>2. chan' \in Seq(Messages) /\ Len(chan') <= ChanDepth
    BY <1>2, <2>1, AppendHolds, LenProperties DEF DspSend, TypeOK
  <2> QED
    BY <1>2, <2>2 DEF DspSend, dispVars, p8Vars, TypeOK
<1>3. (chan # <<>> /\ chan' = Tail(chan)) \/ chan' = chan
      => chan' \in Seq(Messages) /\ Len(chan') <= ChanDepth
  <2>1. chan \in Seq(Messages) /\ Len(chan) <= ChanDepth
    BY Zenon DEF TypeOK
  <2>2. CASE chan # <<>> /\ chan' = Tail(chan)
    BY <2>1, <2>2, TailHolds
  <2> QED
    BY <2>1, <2>2, Zenon
<1>4. CASE IpcInit \/ L1Start \/ CreateThread \/ P8Start
  <2>1. CASE IpcInit
    BY <2>1, SMTT(30) DEF IpcInit, dispVars, p8Vars, TypeOK
  <2>2. CASE L1Start
    BY <2>2, SMTT(40) DEF L1Start, dispVars, p8Vars, TypeOK
  <2>3. CASE CreateThread
    BY <2>3, SMTT(30) DEF CreateThread, p8Vars, TypeOK
  <2>4. CASE P8Start
    <3>1. p8' \in {"start", p8} /\ p8_running' \in BOOLEAN
      BY <2>4, Zenon DEF P8Start, TypeOK
    <3> QED
      BY <2>4, <3>1 DEF P8Start, dispVars, TypeOK
  <2> QED
    BY <1>4, <2>1, <2>2, <2>3, <2>4, Zenon
<1>5. CASE Drain
  BY <1>5, <1>3 DEF Drain, DrainStep, dispVars, p8Vars, TypeOK
<1>6. CASE Stop \/ Join \/ P8Stop \/ P8Break \/ P8Join
  <2>1. CASE Stop
    <3>1. running' \in BOOLEAN /\ cancelled' \in BOOLEAN
      BY <2>1, Zenon DEF Stop, TypeOK
    <3>2. main' \in {"join", "p8_stop"}
      BY <2>1, Zenon DEF Stop
    <3> QED
      BY <2>1, <3>1, <3>2 DEF Stop, p8Vars, TypeOK
  <2>2. CASE Join \/ P8Join
    BY <2>2, SMTT(30) DEF Join, P8Join, dispVars, p8Vars, TypeOK
  <2>3. CASE P8Stop \/ P8Break
    <3>1. p8_running' \in BOOLEAN /\ p8_break' \in BOOLEAN
      BY <2>3, Zenon DEF P8Stop, P8Break, TypeOK
    <3>2. main' \in {"stopped", "p8_break", "p8_join"}
      BY <2>3, Zenon DEF P8Stop, P8Break
    <3> QED
      BY <2>3, <3>1, <3>2, SMTT(30) DEF P8Stop, P8Break, dispVars, TypeOK
  <2> QED
    BY <1>6, <2>1, <2>2, <2>3, Zenon
<1>7. CASE DispStart \/ Loop \/ Cancel
  <2>1. held' \in SUBSET (Fifos \cup {"sf"})
    <3>1. CASE Cancel /\ disp = "push"
      BY <3>1, SMTT(40) DEF Cancel, ThreadInv, TypeOK
    <3> QED
      BY <1>7, <3>1, Zenon DEF DispStart, Loop, Cancel, TypeOK
  <2> QED
    <3>1. disp' \in {"reset", "recv", "ended"} /\ running' \in BOOLEAN
      BY <1>7, Zenon DEF DispStart, Loop, Cancel, TypeOK
    <3> QED
      BY <1>7, <2>1, <3>1, SMTT(30) DEF DispStart, Loop, Cancel, p8Vars, TypeOK
<1>8. CASE Reset
  BY <1>8, <1>3, SMTT(30) DEF Reset, DrainStep, p8Vars, TypeOK
<1>9. CASE Recv
  <2>1. Head(chan) \in Messages
    BY <1>9, TailHolds, Zenon DEF Recv, TypeOK
  <2>2. p8_items' \in -1 .. QueueLen
    BY <1>9, SMTT(40) DEF Recv, P8TryPush, TypeOK
  <2>3. disp' \in {"loop", "push"} /\ hand' \in Messages
    BY <1>9, <2>1, Zenon DEF Recv, P8TryPush, TypeOK
  <2> QED
    BY <1>9, <1>3, <2>2, <2>3, SMTT(30) DEF Recv, TypeOK
<1>10. CASE Push
  <2>1. hand.at \in Stamps \cup {Old}
    BY Zenon DEF TypeOK, Messages
  <2>2. None \in Messages
    BY Zenon DEF None, Messages, Classes
  <2>3. CASE hand.cls = "sf" /\ sfq' = [num |-> sfq.num + 1, last |-> hand.at] /\ UNCHANGED q
    BY <1>10, <2>1, <2>2, <2>3, SMTT(30) DEF Push, Full, p8Vars, TypeOK
  <2>4. CASE /\ hand.cls \in Fifos
             /\ q' = [q EXCEPT ![hand.cls] = Append(@, hand.at)]
             /\ UNCHANGED sfq
    <3>1. hand.cls # "sf" /\ q[hand.cls] \in Seq(Stamps \cup {Old})
      BY <2>4, KindAssumption, Zenon DEF Fifos, TypeOK
    <3>2. Len(q[hand.cls]) # QueueLen /\ Len(q[hand.cls]) <= QueueLen
      BY <1>10, <2>4, <3>1, Zenon DEF Push, Full, TypeOK
    <3>3. /\ Append(q[hand.cls], hand.at) \in Seq(Stamps \cup {Old})
          /\ Len(Append(q[hand.cls], hand.at)) <= QueueLen
      BY <2>1, <3>1, <3>2, AppendHolds, LenProperties
    <3>4. q' \in [Fifos -> Seq(Stamps \cup {Old})] /\ \A d \in Fifos : Len(q'[d]) <= QueueLen
      BY <2>4, <3>3, Zenon DEF TypeOK
    <3> QED
      BY <1>10, <2>2, <2>4, <3>4, SMTT(30) DEF Push, p8Vars, TypeOK
  <2> QED
    BY <1>10, <2>3, <2>4, Zenon DEF Push
<1>11. CASE P8Begin \/ P8Loop \/ P8Write
  BY <1>11, SMTT(30) DEF P8Begin, P8Loop, P8Write, dispVars, TypeOK
<1>12. CASE P8Pop
  <2>1. p8_items' \in -1 .. QueueLen
    BY <1>12, SMTT(40) DEF P8Pop, DumpInv, TypeOK
  <2> QED
    <3>1. p8' \in {"loop", "ind"} /\ pdus' \in 0 .. MaxPdus /\ p8_break' \in BOOLEAN
      BY <1>12, Zenon DEF P8Pop, TypeOK
    <3> QED
      BY <1>12, <2>1, <3>1 DEF P8Pop, dispVars, TypeOK
<1>13. ASSUME NEW c \in Fifos, Pop(c)
       PROVE  TypeOK'
  <2>1. q[c] \in Seq(Stamps \cup {Old}) /\ q[c] # <<>> /\ Len(q[c]) <= QueueLen
    BY <1>13, Zenon DEF Pop, TypeOK
  <2>2. Tail(q[c]) \in Seq(Stamps \cup {Old}) /\ Len(Tail(q[c])) <= QueueLen
    BY <2>1, TailHolds, LenProperties
  <2>3. q' \in [Fifos -> Seq(Stamps \cup {Old})] /\ \A d \in Fifos : Len(q'[d]) <= QueueLen
    BY <1>13, <2>2, Zenon DEF Pop, TypeOK
  <2> QED
    BY <1>13, <2>3, SMTT(30) DEF Pop, p8Vars, TypeOK
<1>14. CASE PopLast
  BY <1>14 DEF PopLast, p8Vars, TypeOK
<1> QED
  BY <1>1, <1>2, <1>4, <1>5, <1>6, <1>7, <1>8, <1>9, <1>10, <1>11, <1>12, <1>13, <1>14, Zenon
     DEF Next, MainStep, DispStep, P8Step

-----------------------------------------------------------------------------
LEMMA InitInv == Init => IInv
<1> SUFFICES ASSUME Init PROVE IInv
  BY Zenon
<1>1. chan \in Seq(Messages) /\ Len(chan) <= ChanDepth
  <2>1. PICK n \in 0 .. ChanDepth : chan \in [1 .. n -> [cls : Classes, at : {Old}]]
    BY Zenon DEF Init
  <2>2. n \in Nat /\ chan \in [1 .. n -> Messages]
    BY <2>1, LenAssumption DEF Messages
  <2>3. chan \in Seq(Messages) /\ Len(chan) = n
    BY <2>2, SeqDef, LenProperties
  <2> QED
    BY <2>1, <2>3, LenAssumption, SMTT(30)
<1>2. TypeOK
  <2>1. None \in Messages
    BY Zenon DEF None, Messages, Classes
  <2>2. q \in [Fifos -> Seq(Stamps \cup {Old})] /\ \A c \in Fifos : Len(q[c]) <= QueueLen
    BY LenAssumption, SMTT(40) DEF Init
  <2>3. /\ sfq \in [num : 0 .. QueueLen, last : Stamps \cup {Old}]
        /\ p8_items \in -1 .. QueueLen /\ pdus \in 0 .. MaxPdus /\ msg_no \in Nat
    BY LenAssumption, DumpAssumption, SMTT(40) DEF Init
  <2> QED
    BY <1>1, <2>1, <2>2, <2>3, Zenon DEF Init, TypeOK
<1>3. ThreadInv /\ DumpInv /\ NoMissedBreak /\ DrainInv /\ OldDropped
  BY SMTT(40) DEF Init, ThreadInv, Before, DumpInv, NoMissedBreak, DrainInv, OldDropped
<1>4. DumpBound
  BY DumpAssumption DEF Init, DumpBound
<1> QED
  BY <1>2, <1>3, <1>4, Zenon DEF IInv

LEMMA StepInv == IInv /\ [Next]_vars => IInv'
  BY TypeStep, ThreadStep, DumpStep, BoundStep, DrainStepInv, Zenon DEF IInv

LEMMA Inductive == Spec => []IInv
  BY InitInv, StepInv, PTL DEF Spec

(* The types of all variables, num_items of the P8 queue above -2 included. *)
THEOREM TypeTheorem == Spec => []TypeOK
  BY Inductive, PTL DEF IInv

(* No message of an earlier session reaches a client of a configured DSP      *)
(* (fapi_b4860_ipc_init, ipc_reset_channel).                                  *)
THEOREM OldDroppedTheorem == Spec => []OldDropped
  BY Inductive, PTL DEF IInv

(* p8_stop never waits for a dump thread that sleeps in block_queue_pop with  *)
(* its break used up.                                                         *)
THEOREM NoMissedBreakTheorem == Spec => []NoMissedBreak
  BY Inductive, PTL DEF IInv

(* The dump passes its limit by less than one indication (p8_thread). *)
THEOREM DumpBoundTheorem == Spec => []DumpBound
  BY Inductive, PTL DEF IInv

(* fapi_stop leaves only a dispatcher behind that was not under way yet. *)
THEOREM StoppedOrLateTheorem == Spec => []StoppedOrLate
<1>1. IInv => StoppedOrLate
  BY Zenon DEF IInv, TypeOK, ThreadInv, Before, StoppedOrLate
<1> QED
  BY Inductive, <1>1, PTL

(* The dump thread writes nothing after fapi_stop has returned. *)
THEOREM NoDumpAfterStopTheorem == Spec => NoDumpAfterStop
<1>1. IInv /\ [Next]_vars => [main = "stopped" => msg_no' = msg_no]_vars
  <2> SUFFICES ASSUME IInv, Next, main = "stopped" PROVE msg_no' = msg_no
    BY Zenon DEF vars, p8Vars
  <2>1. p8 \in {"none", "ended"}
    BY Zenon DEF IInv, DumpInv
  <2> QED
    BY <2>1, Zenon DEF Next, MainStep, DispStep, P8Step, p8Vars, DspSend, IpcInit,
         Drain, L1Start, CreateThread, P8Start, DispStart, Reset, Loop, Recv, Push,
         Cancel, P8Begin, P8Loop, P8Pop, P8Write, Stop, Join, P8Stop, P8Break,
         P8Join, Pop, PopLast
<1> QED
  BY Inductive, <1>1, PTL DEF Spec, NoDumpAfterStop

-----------------------------------------------------------------------------

(* The buffer taken d requests before the pointer came to p. *)
Back(p, d) == IF d <= p THEN p - d ELSE p - d + BufNum

(* While nothing has been refused, the requests in the channel lie in the     *)
(* buffers taken last, in order.                                              *)
BufInv ==
  /\ buf_ptr \in Bufs
  /\ req \in Seq([id : Requests, buf : Bufs]) /\ Len(req) <= ReqDepth
  /\ refused \in BOOLEAN
  /\ todo \in Seq(Requests)
  /\ ~refused => \A i \in 1 .. Len(req) : req[i].buf = Back(buf_ptr, Len(req) + 1 - i)

LEMMA BackMoves ==
  ASSUME NEW p \in Nat, NEW d \in Nat, p < BufNum, 1 <= d, d + 1 <= BufNum
  PROVE  Back(IF p + 1 = BufNum THEN 0 ELSE p + 1, d + 1) = Back(p, d)
  BY BufAssumption DEF Back

LEMMA BackDiffers ==
  ASSUME NEW p \in Nat, NEW d \in Nat, NEW e \in Nat, p < BufNum,
         1 <= d, d <= BufNum, 1 <= e, e <= BufNum, d # e
  PROVE  Back(p, d) # Back(p, e)
  BY BufAssumption DEF Back

LEMMA BufInit == PhyInit => BufInv
<1> SUFFICES ASSUME PhyInit PROVE BufInv
  BY Zenon
<1>1. buf_ptr \in Bufs
  BY BufAssumption DEF PhyInit, Bufs
<1>2. todo \in Seq(Requests)
  BY DEF PhyInit, Requests
<1>3. req \in Seq([id : Requests, buf : Bufs]) /\ Len(req) = 0 /\ Len(req) <= ReqDepth
  BY BufAssumption DEF PhyInit
<1>4. \A i \in 1 .. Len(req) : req[i].buf = Back(buf_ptr, Len(req) + 1 - i)
  BY <1>3
<1>5. refused \in BOOLEAN
  BY Zenon DEF PhyInit
<1> QED
  BY <1>1, <1>2, <1>3, <1>4, <1>5, Zenon DEF BufInv

(* A request that is sent takes the next buffer, the ones before it move one *)
(* back.                                                                     *)
LEMMA SendKeeps ==
  ASSUME BufInv, Send
  PROVE  BufInv'
<1> DEFINE Req == [id : Requests, buf : Bufs]
           new == [id |-> Head(todo), buf |-> buf_ptr]
<1>1. todo' \in Seq(Requests) /\ new \in Req
  BY HeadTailProperties, Zenon DEF Send, BufInv
<1>2. buf_ptr' \in Bufs
  BY BufAssumption, SMTT(30) DEF Send, NextBuf, BufInv, Bufs
<1>3. CASE Len(req) < ReqDepth /\ req' = Append(req, new) /\ refused' = refused
  <2>1. Len(req) \in Nat /\ req \in Seq(Req)
    BY LenProperties, Zenon DEF BufInv
  <2>2. req' \in Seq(Req) /\ Len(req') = Len(req) + 1
    BY <1>1, <1>3, <2>1, AppendProperties, Zenon
  <2>3. ASSUME ~refused, NEW i \in 1 .. Len(req')
        PROVE  req'[i].buf = Back(buf_ptr', Len(req') + 1 - i)
    <3>1. CASE i = Len(req')
      <4>1. req'[i].buf = buf_ptr
        BY <1>1, <1>3, <2>1, <2>2, <3>1, AppendProperties, SMTT(30)
      <4> QED
        BY <1>2, <2>1, <2>2, <3>1, <4>1, BufAssumption, SMTT(30) DEF Back, Send, NextBuf, BufInv, Bufs
    <3>2. CASE i # Len(req')
      <4>1. i \in 1 .. Len(req) /\ req'[i] = req[i]
        BY <1>1, <1>3, <2>1, <2>2, <3>2, AppendProperties, SMTT(30)
      <4>2. req[i].buf = Back(buf_ptr, Len(req) + 1 - i)
        BY <2>3, <4>1, Zenon DEF BufInv
      <4> DEFINE d == Len(req) + 1 - i
      <4>3. d \in Nat /\ 1 <= d /\ d + 1 <= BufNum /\ Len(req') + 1 - i = d + 1
        BY <1>3, <2>1, <2>2, <4>1, BufAssumption
      <4>4. buf_ptr \in Nat /\ buf_ptr < BufNum
        BY BufAssumption DEF BufInv, Bufs
      <4>5. buf_ptr' = IF buf_ptr + 1 = BufNum THEN 0 ELSE buf_ptr + 1
        BY Zenon DEF Send, NextBuf
      <4> HIDE DEF d
      <4>6. Back(buf_ptr', d + 1) = Back(buf_ptr, d)
        BY <4>3, <4>4, <4>5, BackMoves, Zenon
      <4> QED
        BY <4>1, <4>2, <4>3, <4>6, Zenon DEF d
    <3> QED
      BY <3>1, <3>2, Zenon
  <2> QED
    BY <1>1, <1>2, <1>3, <2>1, <2>2, <2>3, BufAssumption, SMTT(40) DEF BufInv
<1>4. CASE req' = req /\ refused' = TRUE
  BY <1>1, <1>2, <1>4, Zenon DEF BufInv
<1> QED
  BY <1>3, <1>4, Zenon DEF Send

LEMMA HandleKeeps ==
  ASSUME BufInv, DspHandle
  PROVE  BufInv'
<1> DEFINE Req == [id : Requests, buf : Bufs]
<1>1. req \in Seq(Req) /\ req # <<>> /\ req' = Tail(req)
  BY Zenon DEF DspHandle, BufInv
<1>2. UNCHANGED <<buf_ptr, refused, todo>>
  BY Zenon DEF DspHandle, phySide
<1>3. /\ req' \in Seq(Req) /\ Len(req) \in Nat /\ Len(req') = Len(req) - 1
      /\ \A i \in 1 .. Len(req') : i + 1 \in 1 .. Len(req) /\ req'[i] = req[i + 1]
  BY <1>1, HeadTailProperties, LenProperties
<1>4. ASSUME ~refused, NEW i \in 1 .. Len(req')
      PROVE  req'[i].buf = Back(buf_ptr', Len(req') + 1 - i)
  <2>1. req'[i].buf = Back(buf_ptr, Len(req) + 1 - (i + 1))
    <3>1. \A k \in 1 .. Len(req) : req[k].buf = Back(buf_ptr, Len(req) + 1 - k)
      BY <1>4, Zenon DEF BufInv
    <3> QED
      BY <1>3, <1>4, <3>1, ZenonT(40)
  <2>2. Len(req) + 1 - (i + 1) = Len(req') + 1 - i
    <3>1. i \in Int /\ Len(req) \in Int /\ Len(req') = Len(req) - 1
      BY <1>3
    <3> QED
      BY <3>1
  <2> QED
    BY <1>2, <2>1, <2>2, Zenon DEF Back
<1>5. Len(req') <= ReqDepth
  BY <1>3, BufAssumption DEF BufInv
<1> QED
  BY <1>2, <1>3, <1>4, <1>5, Zenon DEF BufInv

LEMMA BufStep ==
  ASSUME BufInv, [PhyNext]_pvars
  PROVE  BufInv'
<1>1. CASE Send
  BY <1>1, SendKeeps, Zenon
<1>2. CASE DspHandle
  BY <1>2, HandleKeeps, Zenon
<1>3. CASE UNCHANGED reqSide /\ todo' \in Seq(Requests)
  BY <1>3, Zenon DEF reqSide, BufInv, Back
<1>4. Send \/ DspHandle \/ (UNCHANGED reqSide /\ todo' \in Seq(Requests))
  <2>1. \A a, b, c \in Requests : /\ <<a>> \in Seq(Requests)
                                  /\ <<a, b>> \in Seq(Requests)
                                  /\ <<a, b, c>> \in Seq(Requests)
    OBVIOUS
  <2>2. todo \in Seq(Requests)
    BY Zenon DEF BufInv
  <2>3. {"stop", "config", "start", "dl", "ul", "tx"} = Requests
    BY Zenon DEF Requests
  <2>4. CASE PhyStep
    BY <2>1, <2>2, <2>3, <2>4, ZenonT(40) DEF PhyStep, Sent, Sleep, Configured, LoopTest, SubframeInd,
         DrainQueue, Decode, SendNext
  <2> QED
    BY <2>2, <2>4, Zenon DEF PhyNext, pvars, reqSide, phySide, DspTick, DspInd, Dispatch, PhyStop
<1> QED
  BY <1>1, <1>2, <1>3, <1>4, Zenon

(* As long as no request is refused, the DSP never finds a request in whose   *)
(* buffer another one has been written: a ring of buffers as long as the ring *)
(* of descriptors is enough (FAPI_TX_REQ_BUF_NUM, fapi_alloc_send_msg).       *)
THEOREM RequestsIntactTheorem == PhySpec => []RequestsIntact
<1>1. BufInv => RequestsIntact
  <2> SUFFICES ASSUME BufInv, ~refused, NEW i \in 1 .. Len(req), NEW j \in 1 .. Len(req),
                      i # j
               PROVE  req[i].buf # req[j].buf
    BY Zenon DEF RequestsIntact
  <2>1. Len(req) \in Nat /\ Len(req) <= BufNum
    BY LenProperties, BufAssumption DEF BufInv
  <2>2. req[i].buf = Back(buf_ptr, Len(req) + 1 - i) /\ req[j].buf = Back(buf_ptr, Len(req) + 1 - j)
    BY Zenon DEF BufInv
  <2> DEFINE d == Len(req) + 1 - i
             e == Len(req) + 1 - j
  <2>3. /\ d \in Nat /\ 1 <= d /\ d <= BufNum
        /\ e \in Nat /\ 1 <= e /\ e <= BufNum /\ d # e
    BY <2>1, BufAssumption, SMTT(40)
  <2>4. buf_ptr \in Nat /\ buf_ptr < BufNum
    BY BufAssumption DEF BufInv, Bufs
  <2> HIDE DEF d, e
  <2>5. Back(buf_ptr, d) # Back(buf_ptr, e)
    BY <2>3, <2>4, BackDiffers, Zenon
  <2> QED
    BY <2>2, <2>5, Zenon DEF d, e
<1>2. BufInv /\ [PhyNext]_pvars => BufInv'
  BY BufStep, Zenon
<1> QED
  BY BufInit, <1>1, <1>2, PTL DEF PhySpec

-----------------------------------------------------------------------------

(* Sequences: a message added at the end, or taken from the front. *)
LEMMA Lengths ==
  ASSUME NEW T, NEW u \in Seq(T)
  PROVE  Len(u) \in Nat /\ DOMAIN u = 1 .. Len(u) /\ \A i \in 1 .. Len(u) : u[i] \in T
  BY SMTT(30)

LEMMA Added ==
  ASSUME NEW T, NEW u \in Seq(T), NEW e \in T
  PROVE  /\ Append(u, e) \in Seq(T) /\ Len(Append(u, e)) = Len(u) + 1
         /\ Append(u, e)[Len(u) + 1] = e
         /\ \A i \in 1 .. Len(u) : Append(u, e)[i] = u[i]
  BY SMTT(30)

(* Places in a channel or queue of n messages, and the one behind them. *)
LEMMA NoneIn ==
  ASSUME NEW n, n = 0
  PROVE  \A i : i \notin 1 .. n
  OBVIOUS

LEMMA LastOf ==
  ASSUME NEW n \in Nat
  PROVE  n + 1 \in Nat /\ \A i \in 1 .. n + 1 : i \in 1 .. n \/ i = n + 1
  OBVIOUS

LEMMA IndexNat ==
  ASSUME NEW n \in Nat, NEW i \in 1 .. n
  PROVE  i \in Nat /\ ~(i > n + 1) /\ i <= n
  OBVIOUS

LEMMA PastLast ==
  ASSUME NEW n \in Nat
  PROVE  n + 1 \in Nat /\ n + 1 \in 1 .. n + 1 /\ n + 1 > 0 /\ ~(n + 1 <= n)
  OBVIOUS

LEMMA ZeroNat == 0 \in Nat
  OBVIOUS

(* What block_queue_try_pop takes and leaves. *)
LEMMA Taken ==
  ASSUME NEW T, NEW u \in Seq(T), u # <<>>
  PROVE  /\ Head(u) = u[1] /\ Head(u) \in T /\ Tail(u) \in Seq(T) /\ Len(Tail(u)) = Len(u) - 1
         /\ \A i \in 1 .. Len(Tail(u)) : Tail(u)[i] = u[i + 1]
  BY SMTT(30)

LEMMA Joined ==
  ASSUME NEW T, NEW u \in Seq(T), NEW w \in Seq(T)
  PROVE  u \o w \in Seq(T)
  BY SMTT(30)

-----------------------------------------------------------------------------
(* The uplink indications on their way from the DSP to the slots, while the *)
(* thread keeps up.                                                         *)

(* The TTI b before a; what the DSP sends now, and what it sent before the  *)
(* last subframe indication, is stamped with.                               *)
Minus(a, b) == IF a >= b THEN a - b ELSE a - b + Period
Prev == Minus(tti, 1)
Now  == Minus(tti, RxLag)
Due  == Minus(Prev, RxLag)

ToDrain(k) == \E i \in 1 .. Len(undrained) : undrained[i] = k
Emptied == {k \in Slotted : \E i \in 1 .. Len(Drained) : Drained[i] = k}

(* The subframe indication of the last TTI is in the channel, between       *)
(* channel and queue, or not yet taken from the queue.                      *)
SfAfter(i) == \E j \in 1 .. Len(chan) : j > i /\ chan[j].cls = "sf"
Coming == SfAfter(0) \/ hand.cls = "sf"
Outstanding == Coming \/ sfq.num # 0

RxType ==
  /\ chan \in Seq(Messages) /\ hand \in Messages
  /\ q \in [Fifos -> Seq(Stamps \cup {Old})]
  /\ sfq = [num |-> sfq.num, last |-> sfq.last] /\ sfq.num \in Nat
  /\ tti \in Tti /\ cancelled = FALSE /\ then # "drain"
  /\ slot \in [Slotted -> [0 .. SfNum - 1 -> Stamps \cup {Old}]]
  /\ undrained \in Seq(Kinds)

(* There is at most one subframe indication on its way, that of the last    *)
(* TTI, and none while its subframe is handled.                             *)
SfInv ==
  /\ l1 \in {"idle", "running"}
  /\ disp # "push" => hand = None
  /\ disp \in {"start", "reset"} => phy = "sleep" \/ (phy = "send" /\ then = "sleep")
  /\ \A i \in 1 .. Len(chan) : chan[i].cls = "sf" => chan[i].at = Prev /\ ~SfAfter(i)
  /\ hand.cls = "sf" => hand.at = Prev /\ ~SfAfter(0)
  /\ sfq.num # 0 => sfq.num = 1 /\ sfq.last = Prev /\ ~Coming
  /\ phy = "drain" => tti_tx = Prev
  /\ Outstanding => phy # "drain" /\ disp \notin {"start", "reset"}

(* What was sent before that indication is stamped Due, what was sent after *)
(* it Now, and both lie in the slot of their subframe.                      *)
StampInv ==
  /\ \A i \in 1 .. Len(chan) :
       chan[i].cls \in Slotted => chan[i].at = IF SfAfter(i) THEN Due ELSE Now
  /\ hand.cls \in Slotted => hand.at = IF SfAfter(0) THEN Due ELSE Now
  /\ \A k \in Emptied : \A i \in 1 .. Len(q[k]) :
       \/ q[k][i] = Due /\ (Outstanding \/ (phy = "drain" /\ ToDrain(k)))
       \/ q[k][i] = Now /\ ~Coming
  /\ \A k \in Slotted, s \in 0 .. SfNum - 1 :
       \/ slot[k][s] = Old
       \/ slot[k][s] = Due /\ s = Due % SfNum /\ (Outstanding \/ phy = "drain")
       \/ slot[k][s] = Now /\ s = Now % SfNum /\ ~Outstanding
  /\ phy = "drain" => \A k \in Slotted : ToDrain(k) => k \in Emptied

RxInv == RxType /\ (~late => SfInv /\ StampInv)

LEMMA PeriodFacts ==
  /\ Period \in Nat /\ Period > 0 /\ RxLag \in Nat /\ RxLag < Period /\ SfNum \in Nat /\ SfNum > 0
  /\ SfNum > 1 => Period > 1
<1>1. SfNum \in Nat /\ SfNum > 0 /\ FrameNum \in Nat /\ FrameNum > 0
  BY TtiAssumption
<1>2. SfNum * FrameNum \in Nat /\ SfNum * FrameNum >= SfNum
  BY <1>1
<1> QED
  BY <1>1, <1>2, TtiAssumption, SMTT(40) DEF Period

LEMMA MinusFacts ==
  ASSUME NEW a \in Tti, NEW b \in Tti
  PROVE  Minus(a, b) \in Tti /\ (a - b) % Period = Minus(a, b)
<1>1. Period \in Nat /\ Period > 0 /\ a \in Nat /\ a < Period /\ b \in Nat /\ b < Period
  BY PeriodFacts DEF Tti
<1>2. \A x \in 0 .. Period - 1 : x % Period = x /\ (x - Period) % Period = x
  BY <1>1
<1>3. CASE a >= b
  BY <1>1, <1>2, <1>3 DEF Minus, Tti
<1>4. CASE ~(a >= b)
  <2>1. a - b + Period \in 0 .. Period - 1
    BY <1>1, <1>4
  <2> DEFINE z == a - b + Period
  <2>2. z - Period = a - b
    BY <1>1
  <2>3. z \in 0 .. Period - 1 /\ Minus(a, b) = z
    BY <1>4, <2>1, Zenon DEF Minus
  <2> HIDE DEF z
  <2>4. (z - Period) % Period = z
    BY <1>2, <2>3, Zenon
  <2> QED
    BY <2>2, <2>3, <2>4, Zenon DEF Tti
<1> QED
  BY <1>3, <1>4, Zenon

(* The TTI phy.c decodes, computed from tti_tx, is the one RxLag before it. *)
LEMMA LagIsMinus ==
  ASSUME NEW a \in Tti
  PROVE  (IF a >= RxLag THEN a - RxLag ELSE Period + a - RxLag) = Minus(a, RxLag)
<1>1. Period \in Nat /\ RxLag \in Nat /\ a \in Nat
  BY PeriodFacts DEF Tti
<1> QED
  BY <1>1 DEF Minus

LEMMA TickTtis ==
  ASSUME SfNum > 1, tti \in Tti, tti' = (tti + 1) % Period
  PROVE  tti' \in Tti /\ Prev' = tti /\ Due' = Now
<1>1. Period \in Nat /\ Period > 1 /\ tti \in Nat /\ tti < Period
  BY PeriodFacts, SMTT(40) DEF Tti
<1>2. tti' = IF tti + 1 = Period THEN 0 ELSE tti + 1
  BY <1>1, SMTT(40)
<1> QED
  BY <1>1, <1>2, SMTT(40) DEF Prev, Due, Now, Minus, Tti

LEMMA TtiStamps ==
  ASSUME SfNum > 1, tti \in Tti
  PROVE  /\ Prev \in Tti /\ Now \in Tti /\ Due \in Tti
         /\ Now = IF Due + 1 = Period THEN 0 ELSE Due + 1
<1>1. Period \in Nat /\ Period > 1 /\ tti \in Nat /\ tti < Period /\ RxLag \in Nat /\ RxLag < Period
  BY PeriodFacts DEF Tti
<1> QED
  BY <1>1, SMTT(40) DEF Prev, Due, Now, Minus, Tti

(* The subframe after the last one of a frame is the first. *)
LEMMA ModFacts ==
  ASSUME NEW m \in Nat, m > 0, NEW a \in Nat
  PROVE  /\ a % m \in 0 .. m - 1 /\ a \div m \in Nat
         /\ a = m * (a \div m) + (a % m)
<1>1. a % m \in 0 .. m - 1
  OBVIOUS
<1>2. a \div m \in Nat
  OBVIOUS
<1>3. a = m * (a \div m) + (a % m)
  OBVIOUS
<1> QED
  BY <1>1, <1>2, <1>3, Zenon

LEMMA SlotsDiffer ==
  ASSUME SfNum > 1, tti \in Tti
  PROVE  Due % SfNum # Now % SfNum /\ Due % SfNum \in 0 .. SfNum - 1 /\ Now % SfNum \in 0 .. SfNum - 1
<1> DEFINE d == Due
           n == Now
           x == Due \div SfNum
           y == Now \div SfNum
<1>1. Due \in Nat /\ Now \in Nat /\ Due < Period /\ SfNum \in Nat /\ SfNum > 1
  BY TtiStamps, PeriodFacts, SMTT(40) DEF Tti
<1>2. /\ Due % SfNum \in 0 .. SfNum - 1 /\ x \in Nat /\ Due = SfNum * x + (Due % SfNum)
      /\ Now % SfNum \in 0 .. SfNum - 1 /\ y \in Nat /\ Now = SfNum * y + (Now % SfNum)
  BY <1>1, ModFacts, SMTT(40)
<1> SUFFICES ASSUME Due % SfNum = Now % SfNum PROVE FALSE
  BY <1>2, Zenon
<1>3. \A u \in Int : SfNum * u # 1 /\ SfNum * u # -1
  <2> SUFFICES ASSUME NEW u \in Int PROVE SfNum * u # 1 /\ SfNum * u # -1
    BY Zenon
  <2>1. CASE u = 0
    BY <1>1, <2>1, SMTT(40)
  <2>2. CASE u > 0
    <3>1. SfNum * u >= SfNum
      BY <1>1, <2>2, SMTT(40)
    <3> QED
      BY <1>1, <3>1, SMTT(40)
  <2>3. CASE u < 0
    <3>1. SfNum * u <= -SfNum
      BY <1>1, <2>3, SMTT(40)
    <3> QED
      BY <1>1, <3>1
  <2> QED
    BY <2>1, <2>2, <2>3
<1>4. Now - Due = SfNum * (y - x)
  <2>1. Now - Due = SfNum * y - SfNum * x
    BY <1>1, <1>2
  <2> QED
    BY <1>1, <1>2, <2>1, SMTT(40)
<1>5. CASE Now = Due + 1
  <2>1. SfNum * (y - x) = 1 /\ y - x \in Int
    BY <1>1, <1>2, <1>4, <1>5, SMTT(40)
  <2> QED
    BY <1>3, <2>1, Zenon
<1>6. CASE Now = 0 /\ Due + 1 = Period
  <2>1. Now - Due = 1 - SfNum * FrameNum
    BY <1>1, <1>6, SMTT(40) DEF Period
  <2>2. FrameNum \in Nat /\ SfNum * (y - x) + SfNum * FrameNum = 1
    BY <1>1, <1>2, <1>4, <2>1, TtiAssumption, SMTT(40)
  <2>3. SfNum * (y - x + FrameNum) = 1 /\ y - x + FrameNum \in Int
    BY <1>1, <1>2, <2>2, SMTT(40)
  <2> QED
    BY <1>3, <2>3, Zenon
<1> QED
  BY <1>5, <1>6, TtiStamps, Zenon

(* What is behind a message when one is added to the channel or taken. *)
LEMMA AfterAppend ==
  ASSUME chan \in Seq(Messages), NEW m \in Messages, chan' = Append(chan, m)
  PROVE  /\ chan' \in Seq(Messages) /\ Len(chan) \in Nat /\ Len(chan') = Len(chan) + 1
         /\ chan'[Len(chan) + 1] = m /\ \A i \in 1 .. Len(chan) : chan'[i] = chan[i]
         /\ \A i \in Nat : SfAfter(i)' <=> SfAfter(i) \/ (m.cls = "sf" /\ i <= Len(chan))
<1>1. /\ chan' \in Seq(Messages) /\ Len(chan) \in Nat /\ Len(chan') = Len(chan) + 1
      /\ chan'[Len(chan) + 1] = m /\ \A i \in 1 .. Len(chan) : chan'[i] = chan[i]
  BY Added, SMTT(40)
<1>2. \A i \in Nat : SfAfter(i)' <=> SfAfter(i) \/ (m.cls = "sf" /\ i <= Len(chan))
  <2> SUFFICES ASSUME NEW i \in Nat PROVE SfAfter(i)' <=> SfAfter(i) \/ (m.cls = "sf" /\ i <= Len(chan))
    BY Zenon
  <2> HIDE DEF Messages
  <2>1. 1 .. Len(chan') = (1 .. Len(chan)) \cup {Len(chan) + 1}
    BY <1>1
  <2> QED
    BY <1>1, <2>1, SMTT(40) DEF SfAfter
<1> QED
  BY <1>1, <1>2, Zenon

LEMMA AfterTail ==
  ASSUME chan \in Seq(Messages), chan # <<>>, chan' = Tail(chan)
  PROVE  /\ chan' \in Seq(Messages) /\ Len(chan) \in Nat /\ Len(chan') = Len(chan) - 1 /\ Len(chan) > 0
         /\ Head(chan) = chan[1] /\ Head(chan) \in Messages
         /\ \A i \in 1 .. Len(chan') : i + 1 \in 1 .. Len(chan) /\ chan'[i] = chan[i + 1]
         /\ \A i \in Nat : SfAfter(i)' <=> SfAfter(i + 1)
<1>1. /\ chan' \in Seq(Messages) /\ Len(chan) \in Nat /\ Len(chan') = Len(chan) - 1 /\ Len(chan) > 0
      /\ Head(chan) = chan[1] /\ Head(chan) \in Messages
      /\ \A i \in 1 .. Len(chan') : i + 1 \in 1 .. Len(chan) /\ chan'[i] = chan[i + 1]
  BY Taken, Lengths, SMTT(40)
<1>2. ASSUME NEW i \in Nat PROVE SfAfter(i)' => SfAfter(i + 1)
  BY <1>1 DEF SfAfter
<1>3. ASSUME NEW i \in Nat PROVE SfAfter(i + 1) => SfAfter(i)'
  <2> SUFFICES ASSUME NEW j \in 1 .. Len(chan), j > i + 1, chan[j].cls = "sf" PROVE SfAfter(i)'
    BY Zenon DEF SfAfter
  <2>1. j - 1 \in 1 .. Len(chan') /\ j - 1 > i /\ (j - 1) + 1 = j
    BY <1>1
  <2>2. chan'[j - 1].cls = "sf"
    BY <1>1, <2>1, Zenon
  <2> QED
    BY <2>1, <2>2, Zenon DEF SfAfter
<1> QED
  BY <1>1, <1>2, <1>3, Zenon

LEMMA TtiSame ==
  ASSUME tti' = tti
  PROVE  Prev' = Prev /\ Now' = Now /\ Due' = Due
  BY Zenon DEF Prev, Now, Due, Minus

LEMMA KindFacts ==
  /\ Slotted \subseteq Kinds /\ Emptied \subseteq Slotted /\ Kinds \subseteq Fifos
  /\ "sf" \notin Fifos /\ "p5" \notin Slotted /\ "p5" \in Fifos /\ "bad" \notin Slotted /\ "sf" \notin Slotted
  /\ None \in Messages /\ None.cls = "bad"
  BY KindAssumption, Zenon DEF Slotted, Emptied, Fifos, None, Messages, Classes

(* A step that moves no message. *)
LEMMA FrameKeeps ==
  ASSUME RxInv, UNCHANGED <<chan, hand, sfq, tti, slot, undrained, tti_tx, late, cancelled>>,
         q' \in [Fifos -> Seq(Stamps \cup {Old})], \A k \in Emptied : q'[k] = q[k],
         phy' = "drain" <=> phy = "drain", then' # "drain",
         l1 \in {"idle", "running"} => l1' \in {"idle", "running"},
         disp' # "push" => disp # "push" \/ hand = None,
         ~late /\ disp' \in {"start", "reset"} =>
           /\ disp \in {"start", "reset"}
           /\ \/ phy' = "sleep" \/ (phy' = "send" /\ then' = "sleep")
              \/ phy' = phy /\ then' = then
  PROVE  RxInv'
<1>1. Prev' = Prev /\ Now' = Now /\ Due' = Due
  BY TtiSame, Zenon
<1>2. /\ \A i : SfAfter(i)' <=> SfAfter(i)
      /\ Coming' <=> Coming
      /\ Outstanding' <=> Outstanding
      /\ \A k : ToDrain(k)' <=> ToDrain(k)
  BY Zenon DEF SfAfter, Coming, Outstanding, ToDrain
<1>3. RxType'
  BY Zenon DEF RxInv, RxType
<1>4. ~late /\ SfInv => SfInv'
  BY <1>1, <1>2, ZenonT(40) DEF SfInv
<1>5. StampInv => StampInv'
  <2> SUFFICES ASSUME StampInv PROVE StampInv'
    BY Zenon
  <2>1. /\ \A i \in 1 .. Len(chan') :
             chan'[i].cls \in Slotted => chan'[i].at = IF SfAfter(i)' THEN Due' ELSE Now'
        /\ hand'.cls \in Slotted => hand'.at = IF SfAfter(0)' THEN Due' ELSE Now'
    BY <1>1, <1>2, Zenon DEF StampInv
  <2>2. ASSUME NEW k \in Emptied, NEW i \in 1 .. Len(q'[k])
        PROVE  \/ q'[k][i] = Due' /\ (Outstanding' \/ (phy' = "drain" /\ ToDrain(k)'))
               \/ q'[k][i] = Now' /\ ~Coming'
    BY <1>1, <1>2, Zenon DEF StampInv
  <2>3. ASSUME NEW k \in Slotted, NEW s \in 0 .. SfNum - 1
        PROVE  \/ slot'[k][s] = Old
               \/ slot'[k][s] = Due' /\ s = Due' % SfNum /\ (Outstanding' \/ phy' = "drain")
               \/ slot'[k][s] = Now' /\ s = Now' % SfNum /\ ~Outstanding'
    BY <1>1, <1>2, Zenon DEF StampInv
  <2>4. phy' = "drain" => \A k \in Slotted : ToDrain(k)' => k \in Emptied
    BY <1>2, Zenon DEF StampInv
  <2> QED
    BY <2>1, <2>2, <2>3, <2>4, Zenon DEF StampInv
<1> QED
  BY <1>3, <1>4, <1>5, Zenon DEF RxInv

(* The DSP sends something other than a subframe indication. *)
LEMMA SendsKeeps ==
  ASSUME RxInv, UNCHANGED <<hand, q, sfq, tti, slot, undrained, tti_tx, late, cancelled, phy, then, disp>>,
         NEW m \in Messages, chan' = Append(chan, m), m.cls # "sf", m.cls \in Slotted => m.at = Now,
         l1 \in {"idle", "running"} => l1' \in {"idle", "running"}
  PROVE  RxInv'
<1>1. Prev' = Prev /\ Now' = Now /\ Due' = Due
  BY TtiSame, Zenon
<1>2. /\ chan' \in Seq(Messages) /\ Len(chan) \in Nat /\ Len(chan') = Len(chan) + 1
      /\ chan'[Len(chan) + 1] = m /\ \A i \in 1 .. Len(chan) : chan'[i] = chan[i]
      /\ \A i \in Nat : SfAfter(i)' <=> SfAfter(i)
  BY AfterAppend, Zenon DEF RxInv, RxType
<1>3. /\ Coming' <=> Coming
      /\ Outstanding' <=> Outstanding
      /\ \A k : ToDrain(k)' <=> ToDrain(k)
  BY <1>2, Zenon DEF Coming, Outstanding, ToDrain
<1>4. ~SfAfter(Len(chan) + 1)
  BY <1>2, IndexNat, Zenon DEF SfAfter
<1>5. ASSUME NEW i \in 1 .. Len(chan') PROVE i \in 1 .. Len(chan) \/ i = Len(chan) + 1
  BY <1>2, LastOf, Zenon
<1>6. RxType'
  BY <1>2, Zenon DEF RxInv, RxType
<1>7. SfInv => SfInv'
  <2> SUFFICES ASSUME SfInv PROVE SfInv'
    BY ZenonT(40)
  <2>1. ASSUME NEW i \in 1 .. Len(chan'), chan'[i].cls = "sf"
        PROVE  chan'[i].at = Prev' /\ ~SfAfter(i)'
    <3>1. i \in 1 .. Len(chan)
      BY <1>2, <1>5, <2>1, Zenon
    <3>2. i \in Nat
      BY <1>2, <3>1, IndexNat, Zenon
    <3>3. chan'[i] = chan[i]
      BY <1>2, <3>1, Zenon
    <3>4. chan[i].at = Prev /\ ~SfAfter(i)
      BY <2>1, <3>1, <3>3, ZenonT(40) DEF SfInv
    <3> QED
      BY <1>1, <1>2, <3>2, <3>3, <3>4, Zenon
  <2> QED
    BY <1>1, <1>2, <1>3, <2>1, Zenon DEF SfInv
<1>8. StampInv => StampInv'
  <2> SUFFICES ASSUME StampInv PROVE StampInv'
    BY Zenon
  <2>1. ASSUME NEW i \in 1 .. Len(chan'), chan'[i].cls \in Slotted
        PROVE  chan'[i].at = IF SfAfter(i)' THEN Due' ELSE Now'
    <3>1. CASE i \in 1 .. Len(chan)
      <4>1. i \in Nat
        BY <1>2, <3>1, IndexNat, Zenon
      <4>2. chan'[i] = chan[i]
        BY <1>2, <3>1, Zenon
      <4>3. chan[i].at = IF SfAfter(i) THEN Due ELSE Now
        BY <2>1, <3>1, <4>2, Zenon DEF StampInv
      <4> QED
        BY <1>1, <1>2, <4>1, <4>2, <4>3, Zenon
    <3>2. CASE i = Len(chan) + 1
      <4>1. Len(chan) + 1 \in Nat
        BY <1>2, LastOf, Zenon
      <4>2. chan'[i] = m /\ ~SfAfter(i)'
        BY <1>2, <1>4, <3>2, <4>1, Zenon
      <4> QED
        BY <1>1, <2>1, <4>2, Zenon
    <3> QED
      BY <1>5, <3>1, <3>2, Zenon
  <2>2. hand'.cls \in Slotted => hand'.at = IF SfAfter(0)' THEN Due' ELSE Now'
    BY <1>1, <1>2, ZeroNat, Zenon DEF StampInv
  <2>3. ASSUME NEW k \in Emptied, NEW i \in 1 .. Len(q'[k])
        PROVE  \/ q'[k][i] = Due' /\ (Outstanding' \/ (phy' = "drain" /\ ToDrain(k)'))
               \/ q'[k][i] = Now' /\ ~Coming'
    BY <1>1, <1>3, Zenon DEF StampInv
  <2>4. ASSUME NEW k \in Slotted, NEW s \in 0 .. SfNum - 1
        PROVE  \/ slot'[k][s] = Old
               \/ slot'[k][s] = Due' /\ s = Due' % SfNum /\ (Outstanding' \/ phy' = "drain")
               \/ slot'[k][s] = Now' /\ s = Now' % SfNum /\ ~Outstanding'
    BY <1>1, <1>3, Zenon DEF StampInv
  <2>5. phy' = "drain" => \A k \in Slotted : ToDrain(k)' => k \in Emptied
    BY <1>3, Zenon DEF StampInv
  <2> QED
    BY <2>1, <2>2, <2>3, <2>4, <2>5, Zenon DEF StampInv
<1> QED
  BY <1>6, <1>7, <1>8, Zenon DEF RxInv

(* A TTI ends: what was sent in it is Due from now on. *)
LEMMA TickKeeps ==
  ASSUME SfNum > 1, RxInv, DspTick
  PROVE  RxInv'
<1> DEFINE m == [cls |-> "sf", at |-> tti]
<1>1. /\ UNCHANGED <<hand, q, sfq, slot, undrained, tti_tx, late, cancelled, phy, then, disp, l1>>
      /\ chan' = Append(chan, m) /\ tti' = (tti + 1) % Period
  BY Zenon DEF DspTick, DspSend, dispVars, phySide
<1>2. tti' \in Tti /\ Prev' = tti /\ Due' = Now
  BY <1>1, TickTtis, Zenon DEF RxInv, RxType
<1>3. m \in Messages
  BY TtiAssumption, Zenon DEF RxInv, RxType, Messages, Classes
<1>4. /\ chan' \in Seq(Messages) /\ Len(chan) \in Nat /\ Len(chan') = Len(chan) + 1
      /\ chan'[Len(chan) + 1] = m /\ \A i \in 1 .. Len(chan) : chan'[i] = chan[i]
      /\ \A i \in Nat : SfAfter(i)' <=> SfAfter(i) \/ i <= Len(chan)
  BY <1>1, <1>3, AfterAppend, Zenon DEF RxInv, RxType
<1>5. RxType'
  BY <1>1, <1>2, <1>4, Zenon DEF RxInv, RxType
<1> SUFFICES ASSUME ~late PROVE SfInv' /\ StampInv'
  BY <1>1, <1>5, Zenon DEF RxInv
<1>6. SfInv /\ StampInv
  BY Zenon DEF RxInv
<1>7. /\ phy \in {"loop", "pop"} /\ sfq.num = 0 /\ hand.cls # "sf"
      /\ \A i \in 1 .. Len(chan) : chan[i].cls # "sf"
  BY <1>6, ZenonT(40) DEF DspTick, Punctual, SfInv
<1>8. ~Outstanding /\ (\A i \in Nat : ~SfAfter(i)) /\ SfAfter(0)' /\ Outstanding' /\ Coming'
  <2>1. \A i \in Nat : ~SfAfter(i)
    BY <1>7, Zenon DEF SfAfter
  <2>2. ~Outstanding
    BY <1>7, <2>1, ZeroNat, Zenon DEF Outstanding, Coming
  <2>3. SfAfter(0)'
    <3>1. Len(chan) + 1 \in 1 .. Len(chan') /\ Len(chan) + 1 > 0
      BY <1>4, PastLast, Zenon
    <3>2. m.cls = "sf"
      BY Zenon
    <3> HIDE DEF m
    <3>3. chan'[Len(chan) + 1].cls = "sf"
      BY <1>4, <3>2, Zenon
    <3> QED
      BY <3>1, <3>3, Zenon DEF SfAfter
  <2> QED
    BY <2>1, <2>2, <2>3, Zenon DEF Outstanding, Coming
<1>9. ASSUME NEW i \in 1 .. Len(chan') PROVE i \in 1 .. Len(chan) \/ i = Len(chan) + 1
  BY <1>4, LastOf, Zenon
<1>10. (\A i \in 1 .. Len(chan) : SfAfter(i)') /\ SfAfter(0)'
  BY <1>4, <1>8, IndexNat, Zenon
<1>11. SfInv'
  <2>1. ASSUME NEW i \in 1 .. Len(chan'), chan'[i].cls = "sf"
        PROVE  chan'[i].at = Prev' /\ ~SfAfter(i)'
    <3>1. i = Len(chan) + 1
      BY <1>4, <1>7, <1>9, <2>1, Zenon
    <3>2. chan'[i] = m
      BY <1>4, <3>1, Zenon
    <3>3. m.at = tti
      BY Zenon
    <3>4. ~SfAfter(i)'
      <4>1. i \in Nat /\ ~(i <= Len(chan))
        BY <1>4, <3>1, PastLast, Zenon
      <4> QED
        BY <1>4, <1>8, <4>1, ZenonT(40)
    <3> HIDE DEF m
    <3> QED
      BY <1>2, <3>2, <3>3, <3>4, Zenon
  <2> QED
    BY <1>1, <1>6, <1>7, <2>1, Zenon DEF SfInv
<1>12. StampInv'
  <2>1. ASSUME NEW i \in 1 .. Len(chan'), chan'[i].cls \in Slotted
        PROVE  chan'[i].at = IF SfAfter(i)' THEN Due' ELSE Now'
    <3>1. i \in 1 .. Len(chan)
      <4>1. m.cls \notin Slotted
        BY KindFacts, Zenon
      <4> HIDE DEF m
      <4>2. i # Len(chan) + 1
        BY <1>4, <2>1, <4>1, Zenon
      <4> QED
        BY <1>9, <4>2, Zenon
    <3>2. chan'[i] = chan[i] /\ SfAfter(i)'
      BY <1>4, <1>10, <3>1, Zenon
    <3>3. ~SfAfter(i)
      BY <1>4, <1>8, <3>1, IndexNat, Zenon
    <3>4. chan[i].at = Now
      BY <1>6, <2>1, <3>1, <3>2, <3>3, Zenon DEF StampInv
    <3> QED
      BY <1>2, <3>2, <3>4, Zenon
  <2>2. hand'.cls \in Slotted => hand'.at = IF SfAfter(0)' THEN Due' ELSE Now'
    BY <1>1, <1>2, <1>6, <1>8, <1>10, Zenon DEF StampInv
  <2>3. \A k \in Emptied : \A i \in 1 .. Len(q'[k]) : q'[k][i] = Due'
    BY <1>1, <1>2, <1>6, <1>7, <1>8, Zenon DEF StampInv
  <2>4. \A k \in Slotted, s \in 0 .. SfNum - 1 : slot'[k][s] = Old \/ (slot'[k][s] = Due' /\ s = Due' % SfNum)
    BY <1>1, <1>2, <1>6, <1>7, <1>8, Zenon DEF StampInv
  <2> QED
    BY <1>1, <1>7, <1>8, <2>1, <2>2, <2>3, <2>4, ZenonT(40) DEF StampInv
<1> QED
  BY <1>11, <1>12, Zenon

(* The dispatcher empties the channel before its loop; nothing it throws    *)
(* away is a subframe indication.                                           *)
LEMMA ResetKeepsRx ==
  ASSUME RxInv, Reset, UNCHANGED <<dspSide, reqSide, phySide>>
  PROVE  RxInv'
<1>1. UNCHANGED <<hand, q, sfq, tti, slot, undrained, tti_tx, late, cancelled, phy, then, l1>>
  BY Zenon DEF Reset, dspSide, phySide
<1>2. CASE chan' = chan /\ disp' = "loop"
  BY <1>1, <1>2, FrameKeeps, Zenon DEF RxInv, RxType, Reset
<1>3. CASE chan # <<>> /\ chan' = Tail(chan) /\ disp' = "reset"
  <2>1. /\ chan' \in Seq(Messages) /\ Len(chan) \in Nat /\ Len(chan') = Len(chan) - 1
        /\ \A i \in 1 .. Len(chan') : i + 1 \in 1 .. Len(chan) /\ chan'[i] = chan[i + 1]
        /\ \A i \in Nat : SfAfter(i)' <=> SfAfter(i + 1)
    BY <1>3, AfterTail, Zenon DEF RxInv, RxType
  <2>2. RxType'
    BY <1>1, <2>1, Zenon DEF RxInv, RxType
  <2> SUFFICES ASSUME ~late PROVE SfInv' /\ StampInv'
    BY <1>1, <2>2, Zenon DEF RxInv
  <2>3. SfInv /\ StampInv /\ disp = "reset"
    BY Zenon DEF RxInv, Reset
  <2>4. /\ \A i \in Nat : ~SfAfter(i)
        /\ ~Outstanding
    <3>1. ~Outstanding
      BY <2>3, Zenon DEF SfInv
    <3>2. ~SfAfter(0)
      BY <3>1, Zenon DEF Outstanding, Coming
    <3>3. ASSUME NEW j \in 1 .. Len(chan) PROVE j > 0
      BY <2>1
    <3> QED
      BY <3>1, <3>2, <3>3, Zenon DEF SfAfter
  <2>5. (\A i \in Nat : ~SfAfter(i)') /\ (Outstanding' <=> Outstanding) /\ (Coming' <=> Coming)
        /\ \A k : ToDrain(k)' <=> ToDrain(k)
    <3>1. \A i \in Nat : ~SfAfter(i)'
      BY <2>1, <2>4, LastOf, Zenon
    <3>2. Coming' <=> Coming
      BY <1>1, <2>4, <3>1, ZeroNat, Zenon DEF Coming
    <3> QED
      BY <1>1, <3>1, <3>2, Zenon DEF Outstanding, ToDrain
  <2>6. Prev' = Prev /\ Now' = Now /\ Due' = Due
    BY <1>1, TtiSame, ZenonT(40)
  <2>7. SfInv'
    <3>1. ASSUME NEW i \in 1 .. Len(chan'), chan'[i].cls = "sf"
          PROVE  chan'[i].at = Prev' /\ ~SfAfter(i)'
      <4>1. i + 1 \in 1 .. Len(chan) /\ chan'[i] = chan[i + 1] /\ ~SfAfter(i)'
        <5>1. i \in Nat
          BY <2>1, SMTT(40)
        <5> QED
          BY <2>1, <2>5, <5>1, Zenon
      <4> QED
        BY <2>3, <2>6, <3>1, <4>1, Zenon DEF SfInv
    <3>2. hand'.cls = "sf" => hand'.at = Prev' /\ ~SfAfter(0)'
      BY <1>1, <2>3, <2>5, <2>6, ZeroNat, Zenon DEF SfInv
    <3> QED
      BY <1>1, <1>3, <2>3, <2>5, <2>6, <3>1, <3>2, Zenon DEF SfInv
  <2>8. StampInv'
    <3>1. ASSUME NEW i \in 1 .. Len(chan'), chan'[i].cls \in Slotted
          PROVE  chan'[i].at = IF SfAfter(i)' THEN Due' ELSE Now'
      <4>1. i + 1 \in 1 .. Len(chan) /\ chan'[i] = chan[i + 1] /\ ~SfAfter(i)' /\ ~SfAfter(i + 1)
        <5>1. i \in Nat /\ i + 1 \in Nat
          BY <2>1, SMTT(40)
        <5> QED
          BY <2>1, <2>4, <2>5, <5>1, Zenon
      <4> QED
        BY <2>3, <2>6, <3>1, <4>1, Zenon DEF StampInv
    <3> QED
      BY <1>1, <2>3, <2>4, <2>5, <2>6, <3>1, Zenon DEF StampInv
  <2> QED
    BY <2>7, <2>8, Zenon
<1> QED
  BY <1>2, <1>3, Zenon DEF Reset, DrainStep

(* The dispatcher takes a message from the channel. *)
LEMMA RecvKeepsRx ==
  ASSUME RxInv, Recv, UNCHANGED <<dspSide, reqSide, phySide>>
  PROVE  RxInv'
<1>1. /\ UNCHANGED <<q, sfq, tti, slot, undrained, tti_tx, late, cancelled, phy, then, l1>>
      /\ chan # <<>> /\ chan' = Tail(chan) /\ disp = "recv"
  BY Zenon DEF Recv, dspSide, phySide
<1>2. /\ chan' \in Seq(Messages) /\ Len(chan) \in Nat /\ Len(chan') = Len(chan) - 1 /\ Len(chan) > 0
      /\ Head(chan) = chan[1] /\ Head(chan) \in Messages
      /\ \A i \in 1 .. Len(chan') : i + 1 \in 1 .. Len(chan) /\ chan'[i] = chan[i + 1]
      /\ \A i \in Nat : SfAfter(i)' <=> SfAfter(i + 1)
  BY <1>1, AfterTail, Zenon DEF RxInv, RxType
<1>3. \/ hand' = hand /\ disp' = "loop" /\ Head(chan).cls \in {"inline", "bad", "p8"}
      \/ hand' = Head(chan) /\ disp' = "push"
  BY Zenon DEF Recv, P8TryPush
<1>4. RxType'
  BY <1>1, <1>2, <1>3, Zenon DEF RxInv, RxType
<1> SUFFICES ASSUME ~late PROVE SfInv' /\ StampInv'
  BY <1>1, <1>4, Zenon DEF RxInv
<1>5. SfInv /\ StampInv /\ hand = None /\ None.cls = "bad"
  BY <1>1, KindFacts, Zenon DEF RxInv, SfInv
<1>6. Prev' = Prev /\ Now' = Now /\ Due' = Due
  BY <1>1, TtiSame, Zenon
<1>7. 1 \in 1 .. Len(chan) /\ (SfAfter(0) <=> SfAfter(1) \/ chan[1].cls = "sf") /\ (SfAfter(0)' <=> SfAfter(1))
  <2>1. 1 \in 1 .. Len(chan)
    BY <1>2, SMTT(40)
  <2>2. SfAfter(0)' <=> SfAfter(0 + 1)
    BY <1>2, ZenonT(40)
  <2>3. SfAfter(0) => SfAfter(1) \/ chan[1].cls = "sf"
    BY <1>2, SMTT(40) DEF SfAfter
  <2>4. SfAfter(1) \/ chan[1].cls = "sf" => SfAfter(0)
    BY <1>2, <2>1, SMTT(40) DEF SfAfter
  <2> QED
    BY <2>1, <2>2, <2>3, <2>4, SMTT(40)
<1>8. /\ Coming' <=> Coming
      /\ Outstanding' <=> Outstanding
      /\ \A k : ToDrain(k)' <=> ToDrain(k)
  BY <1>1, <1>2, <1>3, <1>5, <1>7, Zenon DEF Coming, Outstanding, ToDrain
<1>9. chan[1].cls = "sf" => chan[1].at = Prev /\ ~SfAfter(1)
  BY <1>5, <1>7, Zenon DEF SfInv
<1>10. SfInv'
  <2>1. ASSUME NEW i \in 1 .. Len(chan'), chan'[i].cls = "sf"
        PROVE  chan'[i].at = Prev' /\ ~SfAfter(i)'
    <3>1. i + 1 \in 1 .. Len(chan) /\ chan'[i] = chan[i + 1] /\ (SfAfter(i)' <=> SfAfter(i + 1))
      <4>1. i \in Nat
        BY <1>2, SMTT(30)
      <4> QED
        BY <1>2, <4>1, ZenonT(40)
    <3> QED
      BY <1>5, <1>6, <2>1, <3>1, Zenon DEF SfInv
  <2>2. hand'.cls = "sf" => hand'.at = Prev' /\ ~SfAfter(0)'
    BY <1>2, <1>3, <1>5, <1>6, <1>7, <1>9, ZenonT(30)
  <2> QED
    BY <1>1, <1>3, <1>5, <1>6, <1>8, <2>1, <2>2, Zenon DEF SfInv
<1>11. StampInv'
  <2>1. ASSUME NEW i \in 1 .. Len(chan'), chan'[i].cls \in Slotted
        PROVE  chan'[i].at = IF SfAfter(i)' THEN Due' ELSE Now'
    <3>1. i + 1 \in 1 .. Len(chan) /\ chan'[i] = chan[i + 1] /\ (SfAfter(i)' <=> SfAfter(i + 1))
      <4>1. i \in Nat
        BY <1>2
      <4> QED
        BY <1>2, <4>1, Zenon
    <3> QED
      BY <1>5, <1>6, <2>1, <3>1, Zenon DEF StampInv
  <2>2. hand'.cls \in Slotted => hand'.at = IF SfAfter(0)' THEN Due' ELSE Now'
    BY <1>2, <1>3, <1>5, <1>6, <1>7, KindFacts, ZenonT(40) DEF StampInv
  <2> QED
    BY <1>1, <1>5, <1>6, <1>8, <2>1, <2>2, ZenonT(40) DEF StampInv
<1> QED
  BY <1>10, <1>11, Zenon

(* The dispatcher puts the message in its queue. *)
LEMMA PushKeepsRx ==
  ASSUME RxInv, Push, UNCHANGED <<dspSide, reqSide, phySide>>
  PROVE  RxInv'
<1>1. /\ UNCHANGED <<chan, tti, slot, undrained, tti_tx, late, cancelled, phy, then, l1>>
      /\ disp = "push" /\ disp' = "loop" /\ hand' = None
  BY Zenon DEF Push, dspSide, phySide
<1>2. /\ \A i : SfAfter(i)' <=> SfAfter(i)
      /\ \A k : ToDrain(k)' <=> ToDrain(k)
      /\ Prev' = Prev /\ Now' = Now /\ Due' = Due
  BY <1>1, TtiSame, Zenon DEF SfAfter, ToDrain
<1>3. None \in Messages /\ None.cls # "sf" /\ None.cls \notin Slotted
  BY KindFacts, Zenon
<1>4. CASE hand.cls = "sf" /\ q' = q /\ sfq' = [num |-> sfq.num + 1, last |-> hand.at]
  <2>1. RxType'
    BY <1>1, <1>3, <1>4, SMTT(40) DEF RxInv, RxType
  <2> SUFFICES ASSUME ~late PROVE SfInv' /\ StampInv'
    BY <1>1, <2>1, Zenon DEF RxInv
  <2>2. SfInv /\ StampInv
    BY Zenon DEF RxInv
  <2>3. Coming /\ ~SfAfter(0) /\ sfq.num = 0 /\ hand.at = Prev
    BY <1>4, <2>2, Zenon DEF SfInv, Coming
  <2>4. ~Coming' /\ Outstanding' /\ Outstanding /\ sfq'.num = 1 /\ sfq'.last = Prev
    BY <1>1, <1>2, <1>3, <1>4, <2>3, SMTT(30) DEF Coming, Outstanding
  <2>5. SfInv'
    BY <1>1, <1>2, <1>3, <2>2, <2>4, Zenon DEF SfInv
  <2>6. StampInv'
    BY <1>1, <1>2, <1>3, <1>4, <2>2, <2>3, <2>4, ZenonT(40) DEF StampInv
  <2> QED
    BY <2>5, <2>6, Zenon
<1>5. CASE hand.cls \in Fifos /\ q' = [q EXCEPT ![hand.cls] = Append(q[hand.cls], hand.at)] /\ sfq' = sfq
  <2>1. hand.at \in Stamps \cup {Old} /\ q \in [Fifos -> Seq(Stamps \cup {Old})]
    BY Zenon DEF RxInv, RxType, Messages
  <2>2. /\ q' \in [Fifos -> Seq(Stamps \cup {Old})]
        /\ \A k \in Fifos : k # hand.cls => q'[k] = q[k]
        /\ q'[hand.cls] = Append(q[hand.cls], hand.at)
    BY <1>5, <2>1, Added, Zenon
  <2>3. RxType'
    BY <1>1, <1>3, <1>5, <2>2, Zenon DEF RxInv, RxType
  <2> SUFFICES ASSUME ~late PROVE SfInv' /\ StampInv'
    BY <1>1, <2>3, Zenon DEF RxInv
  <2>4. SfInv /\ StampInv /\ hand.cls # "sf"
    BY <1>5, KindFacts, Zenon DEF RxInv
  <2>5. (Coming' <=> Coming) /\ (Outstanding' <=> Outstanding) /\ (Coming <=> SfAfter(0))
    BY <1>1, <1>2, <1>3, <1>5, <2>4, Zenon DEF Coming, Outstanding
  <2>6. SfInv'
    BY <1>1, <1>2, <1>3, <1>5, <2>4, <2>5, Zenon DEF SfInv
  <2>7. ASSUME NEW k \in Emptied, NEW i \in 1 .. Len(q'[k])
        PROVE  \/ q'[k][i] = Due /\ (Outstanding \/ (phy = "drain" /\ ToDrain(k)))
               \/ q'[k][i] = Now /\ ~Coming
    <3>1. CASE k # hand.cls
      <4>1. q'[k] = q[k]
        BY <2>2, <3>1, KindFacts, Zenon
      <4> QED
        BY <2>4, <4>1, Zenon DEF StampInv
    <3>2. CASE k = hand.cls
      <4>1. q[k] \in Seq(Stamps \cup {Old}) /\ q'[k] = Append(q[k], hand.at) /\ k \in Slotted
        BY <2>1, <2>2, <3>2, KindFacts, Zenon
      <4>2. /\ i \in 1 .. Len(q[k]) \/ i = Len(q[k]) + 1
            /\ i \in 1 .. Len(q[k]) => q'[k][i] = q[k][i]
            /\ q'[k][Len(q[k]) + 1] = hand.at
        <5> DEFINE T == Stamps \cup {Old}
                   u == q[k]
                   e == hand.at
        <5>1. u \in Seq(T) /\ e \in T /\ q'[k] = Append(u, e)
          BY <2>1, <4>1, Zenon
        <5> HIDE DEF T, u, e
        <5>2. /\ Len(u) \in Nat
              /\ Len(Append(u, e)) = Len(u) + 1 /\ Append(u, e)[Len(u) + 1] = e
              /\ \A j \in 1 .. Len(u) : Append(u, e)[j] = u[j]
          BY <5>1, Added, Lengths, SMTT(40)
        <5>3. i \in 1 .. Len(u) \/ i = Len(u) + 1
          BY <5>1, <5>2, LastOf, Zenon
        <5> QED
          BY <5>1, <5>2, <5>3, Zenon DEF u, e
      <4>3. hand.at = IF SfAfter(0) THEN Due ELSE Now
        BY <2>4, <3>2, <4>1, Zenon DEF StampInv
      <4>4. CASE i \in 1 .. Len(q[k])
        BY <2>4, <4>2, <4>4, Zenon DEF StampInv
      <4>5. CASE i = Len(q[k]) + 1
        BY <2>5, <4>2, <4>3, <4>5, Zenon DEF Outstanding
      <4> QED
        BY <4>2, <4>4, <4>5, Zenon
    <3> QED
      BY <3>1, <3>2, ZenonT(40)
  <2>8. StampInv'
    BY <1>1, <1>2, <1>3, <2>4, <2>5, <2>7, ZenonT(40) DEF StampInv
  <2> QED
    BY <2>6, <2>8, Zenon
<1> QED
  BY <1>4, <1>5, Zenon DEF Push

(* The thread takes the subframe indication: all queues are to be emptied. *)
LEMMA SubframeKeepsRx ==
  ASSUME RxInv, SubframeInd
  PROVE  RxInv'
<1>1. /\ UNCHANGED <<chan, hand, q, tti, slot, late, cancelled, then, l1, disp>>
      /\ phy = "pop" /\ phy' = "drain" /\ undrained' = Drained /\ tti_tx' = sfq.last
      /\ sfq.num # 0 /\ sfq' = [num |-> sfq.num - 1, last |-> IF sfq.num = 1 THEN Old ELSE sfq.last]
  BY Zenon DEF SubframeInd, PopLast, dspSide
<1>2. /\ \A i : SfAfter(i)' <=> SfAfter(i)
      /\ Prev' = Prev /\ Now' = Now /\ Due' = Due
      /\ Coming' <=> Coming
  BY <1>1, TtiSame, Zenon DEF SfAfter, Coming
<1>3. Drained \in Seq(Kinds)
  <2>1. \A k : IfKind(k) \in Seq(Kinds)
    BY SMTT(30) DEF IfKind
  <2> QED
    BY <2>1, Joined, Zenon DEF Drained
<1>4. RxType'
  BY <1>1, <1>3 DEF RxInv, RxType
<1> SUFFICES ASSUME ~late PROVE SfInv' /\ StampInv'
  BY <1>1, <1>4, Zenon DEF RxInv
<1>5. SfInv /\ StampInv /\ sfq.num = 1 /\ sfq.last = Prev /\ ~Coming /\ Outstanding
  BY <1>1, Zenon DEF RxInv, SfInv, Outstanding
<1>6. ~Outstanding' /\ sfq'.num = 0
  BY <1>1, <1>2, <1>5 DEF Outstanding
<1>7. \A k \in Slotted : ToDrain(k)' <=> k \in Emptied
  BY <1>1, Zenon DEF ToDrain, Emptied
<1>8. SfInv'
  BY <1>1, <1>2, <1>5, <1>6, Zenon DEF SfInv
<1>9. StampInv'
  BY <1>1, <1>2, <1>5, <1>6, <1>7, KindFacts, ZenonT(40) DEF StampInv
<1> QED
  BY <1>8, <1>9, Zenon

(* One round of emptying a queue. *)
LEMMA DrainKeepsRx ==
  ASSUME SfNum > 1, RxInv, DrainQueue
  PROVE  RxInv'
<1> DEFINE k == Head(undrained)
           h == Head(q[k])
<1>1. /\ UNCHANGED <<chan, hand, sfq, tti, late, cancelled, then, l1, disp, tti_tx, phy>>
      /\ phy = "drain" /\ undrained # <<>>
  BY Zenon DEF DrainQueue, Pop, dspSide, vars, dispVars
<1>2. /\ \A i : SfAfter(i)' <=> SfAfter(i)
      /\ Prev' = Prev /\ Now' = Now /\ Due' = Due
      /\ Coming' <=> Coming
      /\ Outstanding' <=> Outstanding
  BY <1>1, TtiSame, Zenon DEF SfAfter, Coming, Outstanding
<1>3. k \in Kinds /\ k \in Fifos /\ q[k] \in Seq(Stamps \cup {Old}) /\ ToDrain(k)
  <2>1. k \in Kinds /\ k = undrained[1] /\ 1 \in 1 .. Len(undrained)
    BY <1>1, Taken, Lengths, SMTT(30) DEF RxInv, RxType
  <2> QED
    BY <2>1, KindFacts, Zenon DEF RxInv, RxType, ToDrain
<1>4. ~late => SfInv /\ StampInv /\ ~Outstanding /\ ~Coming
  BY <1>1, Zenon DEF RxInv, SfInv, Outstanding
<1>5. CASE q[k] = <<>> /\ undrained' = Tail(undrained) /\ q' = q /\ slot' = slot
  <2>1. /\ undrained' \in Seq(Kinds) /\ Len(undrained) \in Nat /\ Len(undrained') = Len(undrained) - 1
        /\ k = undrained[1]
        /\ \A i \in 1 .. Len(undrained') : i + 1 \in 1 .. Len(undrained) /\ undrained'[i] = undrained[i + 1]
    BY <1>1, <1>5, Taken, Lengths, SMTT(40) DEF RxInv, RxType
  <2>2. \A d : ToDrain(d)' => ToDrain(d)
    BY <2>1, Zenon DEF ToDrain
  <2>3. ASSUME NEW d, ToDrain(d), d # k PROVE ToDrain(d)'
    <3>1. PICK i \in 1 .. Len(undrained) : undrained[i] = d
      BY <2>3, Zenon DEF ToDrain
    <3>2. i - 1 \in 1 .. Len(undrained') /\ (i - 1) + 1 = i
      BY <2>1, <2>3, <3>1, SMTT(30)
    <3> QED
      BY <2>1, <3>1, <3>2, Zenon DEF ToDrain
  <2>4. RxType'
    BY <1>1, <1>5, <2>1, Zenon DEF RxInv, RxType
  <2> SUFFICES ASSUME ~late PROVE SfInv' /\ StampInv'
    BY <1>1, <2>4, Zenon DEF RxInv
  <2>5. SfInv'
    BY <1>1, <1>2, <1>4, Zenon DEF SfInv
  <2>6. ASSUME NEW d \in Emptied, NEW i \in 1 .. Len(q'[d])
        PROVE  (q'[d][i] = Due /\ ToDrain(d)') \/ q'[d][i] = Now
    <3>1. d # k
      BY <1>5, <2>6, SMTT(30)
    <3>2. (q[d][i] = Due /\ ToDrain(d)) \/ q[d][i] = Now
      BY <1>4, <1>5, <2>6, Zenon DEF StampInv
    <3> QED
      BY <1>5, <2>3, <3>1, <3>2, Zenon
  <2>7. StampInv'
    BY <1>1, <1>2, <1>4, <1>5, <2>2, <2>6, ZenonT(40) DEF StampInv
  <2> QED
    BY <2>5, <2>7, Zenon
<1>6. CASE /\ q[k] # <<>> /\ q' = [q EXCEPT ![k] = Tail(q[k])] /\ undrained' = undrained
           /\ slot' = slot \/ (k \in Slotted /\ slot' = [slot EXCEPT ![k][h % SfNum] = h])
  <2>1. /\ Tail(q[k]) \in Seq(Stamps \cup {Old}) /\ Len(q[k]) \in Nat /\ Len(Tail(q[k])) = Len(q[k]) - 1
        /\ h = q[k][1] /\ h \in Stamps \cup {Old} /\ 1 \in 1 .. Len(q[k])
        /\ \A i \in 1 .. Len(Tail(q[k])) : i + 1 \in 1 .. Len(q[k]) /\ Tail(q[k])[i] = q[k][i + 1]
    BY <1>3, <1>6, Taken, Lengths, SMTT(30)
  <2>2. /\ q' \in [Fifos -> Seq(Stamps \cup {Old})]
        /\ q'[k] = Tail(q[k]) /\ \A d \in Fifos : d # k => q'[d] = q[d]
    BY <1>3, <1>6, <2>1, Zenon DEF RxInv, RxType
  <2>3. \A d : ToDrain(d)' <=> ToDrain(d)
    BY <1>6, Zenon DEF ToDrain
  <2>4. slot' \in [Slotted -> [0 .. SfNum - 1 -> Stamps \cup {Old}]]
    <3>1. h \in Stamps \cup {Old} /\ slot \in [Slotted -> [0 .. SfNum - 1 -> Stamps \cup {Old}]]
      BY <2>1, Zenon DEF RxInv, RxType
    <3> DEFINE Row == [0 .. SfNum - 1 -> Stamps \cup {Old}]
               row == [slot[k] EXCEPT ![h % SfNum] = h]
    <3> HIDE DEF k, h
    <3>2. CASE slot' = slot
      BY <3>1, <3>2, Zenon
    <3>3. CASE k \in Slotted /\ slot' = [slot EXCEPT ![k][h % SfNum] = h]
      <4>1. slot[k] \in Row
        BY <3>1, <3>3, Zenon
      <4>2. row \in Row
        BY <3>1, <4>1, Zenon
      <4>3. slot' = [slot EXCEPT ![k] = row]
        BY <3>3, Zenon
      <4> HIDE DEF row, Row
      <4>4. slot \in [Slotted -> Row]
        BY <3>1, Zenon DEF Row
      <4>5. slot' \in [Slotted -> Row]
        BY <4>2, <4>3, <4>4, ZenonT(40)
      <4> QED
        BY <4>5, Zenon DEF Row
    <3> QED
      BY <1>6, <3>2, <3>3, ZenonT(40)
  <2>5. RxType'
    BY <1>1, <1>6, <2>2, <2>4, Zenon DEF RxInv, RxType
  <2> SUFFICES ASSUME ~late PROVE SfInv' /\ StampInv'
    BY <1>1, <2>5, Zenon DEF RxInv
  <2>6. SfInv'
    BY <1>1, <1>2, <1>4, <1>6, Zenon DEF SfInv
  <2>7. ASSUME NEW d \in Emptied, NEW i \in 1 .. Len(q'[d])
        PROVE  (q'[d][i] = Due /\ ToDrain(d)) \/ q'[d][i] = Now
    <3>1. \A j \in 1 .. Len(q[d]) : (q[d][j] = Due /\ ToDrain(d)) \/ q[d][j] = Now
      BY <1>4, <2>7, Zenon DEF StampInv
    <3>2. CASE d # k
      BY <2>2, <3>1, <3>2, KindFacts, Zenon
    <3>3. CASE d = k
      BY <2>1, <2>2, <3>1, <3>3, ZenonT(40)
    <3> QED
      BY <3>2, <3>3, Zenon
  <2>8. ASSUME NEW d \in Slotted, NEW s \in 0 .. SfNum - 1
        PROVE  \/ slot'[d][s] = Old
               \/ slot'[d][s] = Due /\ s = Due % SfNum
               \/ slot'[d][s] = Now /\ s = Now % SfNum
    <3>1. slot[d][s] = Old \/ (slot[d][s] = Due /\ s = Due % SfNum) \/ (slot[d][s] = Now /\ s = Now % SfNum)
      BY <1>4, Zenon DEF StampInv
    <3>2. CASE slot' = slot
      BY <3>1, <3>2, Zenon
    <3>3. CASE k \in Slotted /\ slot' = [slot EXCEPT ![k][h % SfNum] = h]
      <4>1. k \in Emptied
        BY <1>1, <1>3, <1>4, <3>3, Zenon DEF StampInv
      <4>2. h \in {Due, Now}
        BY <1>4, <2>1, <4>1, Zenon DEF StampInv
      <4> HIDE DEF k, h
      <4>3. slot'[d][s] = IF d = k /\ s = h % SfNum THEN h ELSE slot[d][s]
        BY <3>3, ZenonT(40) DEF RxInv, RxType
      <4> QED
        BY <3>1, <4>2, <4>3, Zenon
    <3> QED
      BY <1>6, <3>2, <3>3, Zenon
  <2>9. StampInv'
    BY <1>1, <1>2, <1>4, <2>3, <2>7, <2>8, ZenonT(40) DEF StampInv
  <2> QED
    BY <2>6, <2>9, Zenon
<1> QED
  BY <1>5, <1>6, Zenon DEF DrainQueue, Pop, vars, dispVars

(* The slots of the subframe are decoded and emptied. *)
LEMMA DecodeKeepsRx ==
  ASSUME SfNum > 1, RxInv, Decode
  PROVE  RxInv'
<1>1. /\ UNCHANGED <<chan, hand, q, sfq, tti, late, cancelled, l1, disp, tti_tx, undrained>>
      /\ phy = "drain" /\ undrained = <<>> /\ phy' \in {"loop", "send"}
      /\ slot' = [k \in Slotted |-> [slot[k] EXCEPT ![TtiRx % SfNum] = Old]]
      /\ phy' = "send" => then' = "loop"
      /\ then' \in {then, "loop"}
  BY ZenonT(40) DEF Decode, SendNext, vars, dispVars, dspSide
<1>2. /\ \A i : SfAfter(i)' <=> SfAfter(i)
      /\ Prev' = Prev /\ Now' = Now /\ Due' = Due
      /\ Coming' <=> Coming
      /\ Outstanding' <=> Outstanding
  BY <1>1, TtiSame, Zenon DEF SfAfter, Coming, Outstanding
<1>3. slot' \in [Slotted -> [0 .. SfNum - 1 -> Stamps \cup {Old}]]
  BY <1>1, ZenonT(40) DEF RxInv, RxType
<1>4. RxType'
  BY <1>1, <1>3, Zenon DEF RxInv, RxType
<1> SUFFICES ASSUME ~late PROVE SfInv' /\ StampInv'
  BY <1>1, <1>4, Zenon DEF RxInv
<1>5. SfInv /\ StampInv /\ ~Outstanding /\ ~Coming /\ \A k : ~ToDrain(k)
  <2>1. SfInv /\ StampInv
    BY Zenon DEF RxInv
  <2>2. ~Outstanding /\ ~Coming
    BY <1>1, <2>1, Zenon DEF SfInv, Outstanding
  <2>3. \A k : ~ToDrain(k)
    <3>1. Len(undrained) = 0
      BY <1>1
    <3> QED
      BY <3>1, NoneIn, Zenon DEF ToDrain
  <2> QED
    BY <2>1, <2>2, <2>3, Zenon
<1>6. TtiRx = Due
  <2>1. tti_tx = Prev /\ tti \in Tti
    BY <1>1, <1>5, Zenon DEF SfInv, RxInv, RxType
  <2>2. tti_tx \in Tti
    BY <2>1, TtiStamps, Zenon
  <2>3. TtiRx = Minus(tti_tx, RxLag)
    BY <2>2, LagIsMinus, Zenon DEF TtiRx
  <2> QED
    BY <2>1, <2>3, Zenon DEF Due
<1>7. disp \notin {"start", "reset"}
  BY <1>1, <1>5, ZenonT(40) DEF SfInv
<1>8. SfInv'
  BY <1>1, <1>2, <1>5, <1>7, Zenon DEF SfInv
<1>9. ASSUME NEW k \in Slotted, NEW s \in 0 .. SfNum - 1
      PROVE  slot'[k][s] = Old \/ (slot'[k][s] = Now /\ s = Now % SfNum)
  <2>1. slot[k][s] = Old \/ (slot[k][s] = Due /\ s = Due % SfNum) \/ (slot[k][s] = Now /\ s = Now % SfNum)
    BY <1>5, Zenon DEF StampInv
  <2>2. slot'[k][s] = IF s = Due % SfNum THEN Old ELSE slot[k][s]
    BY <1>1, <1>6, ZenonT(40) DEF RxInv, RxType
  <2> QED
    BY <2>1, <2>2, Zenon
<1>10. StampInv'
  BY <1>1, <1>2, <1>5, <1>9, Zenon DEF StampInv
<1> QED
  BY <1>8, <1>10, Zenon

LEMMA RxInit == PhyInit => RxInv
<1> SUFFICES ASSUME PhyInit PROVE RxInv
  BY Zenon
<1>1. chan \in Seq(Messages) /\ Len(chan) = 0 /\ hand \in Messages /\ hand.cls = "bad" /\ hand = None
  BY KindFacts, SMTT(30) DEF PhyInit
<1>2. undrained \in Seq(Kinds) /\ Len(undrained) = 0
  BY SMTT(30) DEF PhyInit
<1>3. q \in [Fifos -> Seq(Stamps \cup {Old})] /\ \A k \in Fifos : Len(q[k]) = 0
  BY SMTT(30) DEF PhyInit
<1>4. sfq = [num |-> sfq.num, last |-> sfq.last] /\ sfq.num = 0
  BY Zenon DEF PhyInit
<1>5. /\ slot \in [Slotted -> [0 .. SfNum - 1 -> Stamps \cup {Old}]]
      /\ \A k \in Slotted, s \in 0 .. SfNum - 1 : slot[k][s] = Old
  BY Zenon DEF PhyInit
<1>6. RxType
  BY <1>1, <1>2, <1>3, <1>4, <1>5, Zenon DEF PhyInit, RxType
<1>7. (\A i : ~SfAfter(i)) /\ ~Coming /\ ~Outstanding
  BY <1>1, <1>4, SMTT(30) DEF SfAfter, Coming, Outstanding
<1>8. ~late => SfInv
  <2>1. \A i : i \notin 1 .. Len(chan)
    BY <1>1, NoneIn, Zenon
  <2> QED
    BY <1>1, <1>4, <1>7, <2>1, Zenon DEF PhyInit, SfInv
<1>9. StampInv
  <2>1. (\A i : i \notin 1 .. Len(chan)) /\ hand.cls \notin Slotted
    BY <1>1, NoneIn, KindFacts, Zenon
  <2>2. ASSUME NEW k \in Emptied PROVE \A i : i \notin 1 .. Len(q[k])
    BY <1>3, NoneIn, KindFacts, Zenon
  <2>3. phy # "drain"
    BY Zenon DEF PhyInit
  <2> QED
    BY <1>5, <2>1, <2>2, <2>3, Zenon DEF StampInv
<1> QED
  BY <1>6, <1>8, <1>9, ZenonT(40) DEF RxInv

LEMMA RxDispatch ==
  ASSUME RxInv, Dispatch
  PROVE  RxInv'
<1>1. UNCHANGED <<dspSide, reqSide, phySide>>
  BY Zenon DEF Dispatch
<1>2. CASE Reset \/ Recv \/ Push
  BY <1>1, <1>2, ResetKeepsRx, RecvKeepsRx, PushKeepsRx, Zenon
<1>3. CASE DispStart \/ Loop
  <2>1. UNCHANGED <<chan, hand, sfq, tti, slot, undrained, tti_tx, late, cancelled, q, phy, then, l1>>
    BY <1>1, <1>3, Zenon DEF DispStart, Loop, dspSide, phySide
  <2>2. /\ disp # "push" /\ (disp' \in {"start", "reset"} => disp \in {"start", "reset"})
        /\ q' \in [Fifos -> Seq(Stamps \cup {Old})] /\ then' # "drain"
    BY <1>3, <2>1, Zenon DEF DispStart, Loop, RxInv, RxType
  <2> QED
    BY <2>1, <2>2, FrameKeeps, Zenon
<1>4. ~Cancel
  BY Zenon DEF Cancel, RxInv, RxType
<1> QED
  BY <1>2, <1>3, <1>4, Zenon DEF Dispatch, DispStep

LEMMA RxDsp ==
  ASSUME RxInv, DspHandle \/ \E k \in Kinds : DspInd(k)
  PROVE  RxInv'
<1>1. CASE DspHandle
  <2>1. /\ UNCHANGED <<hand, q, sfq, tti, slot, undrained, tti_tx, late, cancelled, phy, then, disp>>
        /\ l1 \in {"idle", "running"} => l1' \in {"idle", "running"}
    BY <1>1, Zenon DEF DspHandle, DspSend, vars, dispVars, phySide
  <2>2. CASE chan' = chan
    <3>1. q' \in [Fifos -> Seq(Stamps \cup {Old})] /\ then' # "drain"
      BY <2>1, Zenon DEF RxInv, RxType
    <3> QED
      BY <2>1, <2>2, <3>1, FrameKeeps, ZenonT(40) DEF RxInv, SfInv
  <2>3. CASE chan' = Append(chan, [cls |-> "p5", at |-> tti])
    <3> DEFINE m == [cls |-> "p5", at |-> tti]
    <3>1. m \in Messages /\ m.cls # "sf" /\ m.cls \notin Slotted
      BY TtiAssumption, KindFacts, Zenon DEF RxInv, RxType, Messages, Classes
    <3> HIDE DEF m
    <3>2. chan' = Append(chan, m)
      BY <2>3, Zenon DEF m
    <3> QED
      BY <2>1, <3>1, <3>2, SendsKeeps, ZenonT(40)
  <2> QED
    BY <1>1, <2>2, <2>3, Zenon DEF DspHandle, DspSend, vars
<1>2. CASE \E k \in Kinds : DspInd(k)
  <2>1. PICK k \in Kinds : DspInd(k)
    BY <1>2, Zenon
  <2> DEFINE m == [cls |-> k, at |-> (tti - RxLag) % Period]
  <2>2. /\ UNCHANGED <<hand, q, sfq, tti, slot, undrained, tti_tx, late, cancelled, phy, then, disp, l1>>
        /\ chan' = Append(chan, m)
    BY <2>1, Zenon DEF DspInd, DspSend, dispVars, phySide
  <2>3. (tti - RxLag) % Period = Now /\ Now \in Stamps
    <3>1. tti \in Tti /\ RxLag \in Tti
      BY TtiAssumption, Zenon DEF RxInv, RxType, Tti
    <3> QED
      BY <3>1, MinusFacts, TtiAssumption, Zenon DEF Now
  <2>4. m \in Messages /\ m.cls # "sf" /\ m.at = Now
    BY <2>3, KindFacts, Zenon DEF Messages, Classes
  <2> HIDE DEF m
  <2> QED
    BY <2>2, <2>4, SendsKeeps, Zenon
<1> QED
  BY <1>1, <1>2, Zenon

LEMMA RxStep ==
  ASSUME SfNum > 1, RxInv, [PhyNext]_pvars
  PROVE  RxInv'
<1>1. CASE Dispatch
  BY <1>1, RxDispatch, Zenon
<1>2. CASE DspHandle \/ \E k \in Kinds : DspInd(k)
  BY <1>2, RxDsp, Zenon
<1>3. CASE DspTick \/ SubframeInd \/ DrainQueue \/ Decode
  BY <1>3, TickKeeps, SubframeKeepsRx, DrainKeepsRx, DecodeKeepsRx, Zenon
<1>4. CASE Send \/ Sent \/ Sleep \/ Configured \/ LoopTest \/ PhyStop \/ UNCHANGED pvars
  <2>1. UNCHANGED <<chan, hand, sfq, tti, slot, undrained, tti_tx, late, cancelled, l1, disp>>
    <3>1. CASE Send \/ Sent \/ Sleep
      BY <3>1, Zenon DEF Send, Sent, Sleep, vars, dispVars, dspSide
    <3>2. CASE Configured
      BY <3>2, Zenon DEF Configured, Pop, dspSide
    <3>3. CASE LoopTest \/ PhyStop
      BY <3>3, Zenon DEF LoopTest, PhyStop, vars, dispVars, dspSide
    <3>4. CASE UNCHANGED pvars
      BY <3>4, Zenon DEF pvars, vars, dispVars, dspSide, phySide
    <3> QED
      BY <1>4, <3>1, <3>2, <3>3, <3>4, Zenon
  <2>2. /\ q' \in [Fifos -> Seq(Stamps \cup {Old})]
        /\ \A k \in Emptied : q'[k] = q[k]
    <3>1. q \in [Fifos -> Seq(Stamps \cup {Old})]
      BY Zenon DEF RxInv, RxType
    <3>2. CASE q' = q
      BY <3>1, <3>2, Zenon
    <3>3. CASE q["p5"] # <<>> /\ q' = [q EXCEPT !["p5"] = Tail(q["p5"])]
      BY <3>1, <3>3, Taken, KindFacts, Zenon
    <3> QED
      BY <1>4, <3>2, <3>3, ZenonT(40) DEF Send, Sent, Sleep, Configured, Pop, LoopTest, PhyStop, pvars, vars, dispVars
  <2>3. then # "drain" /\ (~late => SfInv)
    BY Zenon DEF RxInv, RxType
  <2>4. (phy' = "drain" <=> phy = "drain") /\ then' # "drain"
    BY <1>4, <2>3, Zenon DEF Send, Sent, Sleep, Configured, LoopTest, PhyStop, SendNext, pvars, phySide
  <2>5. ~late /\ disp' \in {"start", "reset"} =>
          /\ disp \in {"start", "reset"}
          /\ \/ phy' = "sleep" \/ (phy' = "send" /\ then' = "sleep")
             \/ phy' = phy /\ then' = then
    <3> SUFFICES ASSUME ~late, disp \in {"start", "reset"}
                 PROVE  \/ phy' = "sleep" \/ (phy' = "send" /\ then' = "sleep")
                        \/ phy' = phy /\ then' = then
      BY <2>1, Zenon
    <3>1. phy = "sleep" \/ (phy = "send" /\ then = "sleep")
      BY <2>3, Zenon DEF SfInv
    <3> QED
      BY <1>4, <3>1, Zenon DEF Send, Sent, Sleep, Configured, LoopTest, PhyStop, pvars, phySide
  <2>6. disp' # "push" => disp # "push" \/ hand = None
    BY <2>1, Zenon
  <2> QED
    BY <2>1, <2>2, <2>4, <2>5, <2>6, FrameKeeps, ZenonT(40)
<1> QED
  BY <1>1, <1>2, <1>3, <1>4, Zenon DEF PhyNext, PhyStep

(* While the thread keeps up with the DSP, what phy.c decodes in a subframe *)
(* was received RxLag TTIs before it, never a frame earlier, whatever the   *)
(* depths of channel and queues, the order in which the dispatcher and the  *)
(* thread run and wherever the TTI counter wraps: provided that a frame has *)
(* more than one subframe, so that what the DSP sends early for the next    *)
(* subframe has a slot of its own.  The argument follows the one subframe   *)
(* indication that can be on its way through channel, dispatcher and queue: *)
(* it parts what is stamped for its subframe from what is stamped for the   *)
(* next (SfInv, StampInv).                                                  *)
THEOREM FreshDecodeTheorem ==
  ASSUME SfNum > 1
  PROVE  PhySpec => []FreshDecode
<1>1. RxInv => FreshDecode
  <2> SUFFICES ASSUME RxInv, ~late, phy = "drain", undrained = <<>>, NEW k \in Slotted
               PROVE  slot[k][TtiRx % SfNum] \in {Old, (tti_tx - RxLag) % Period}
    BY Zenon DEF FreshDecode
  <2>1. SfInv /\ StampInv /\ tti \in Tti /\ tti_tx = Prev
    BY Zenon DEF RxInv, RxType, SfInv
  <2>2. Prev \in Tti /\ RxLag \in Tti /\ TtiRx = Due
    <3>1. Prev \in Tti /\ RxLag \in Tti
      BY <2>1, TtiStamps, TtiAssumption, Zenon DEF Tti
    <3>2. TtiRx = Minus(tti_tx, RxLag)
      BY <2>1, <3>1, LagIsMinus, Zenon DEF TtiRx
    <3> QED
      BY <2>1, <3>1, <3>2, Zenon DEF Due
  <2>3. (tti_tx - RxLag) % Period = Due
    BY <2>1, <2>2, MinusFacts, Zenon DEF Due
  <2>4. Due % SfNum # Now % SfNum /\ Due % SfNum \in 0 .. SfNum - 1
    BY <2>1, SlotsDiffer, Zenon
  <2>5. \/ slot[k][Due % SfNum] = Old \/ slot[k][Due % SfNum] = Due
        \/ Due % SfNum = Now % SfNum
    BY <2>1, <2>4, Zenon DEF StampInv
  <2> QED
    BY <2>2, <2>3, <2>4, <2>5, Zenon
<1>2. RxInv /\ [PhyNext]_pvars => RxInv'
  BY RxStep, Zenon
<1> QED
  BY <1>1, <1>2, RxInit, PTL DEF PhySpec
=============================================================================
