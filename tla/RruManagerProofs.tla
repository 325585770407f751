-------------------------- MODULE RruManagerProofs --------------------------
(***************************************************************************)
(* Theorems about RruManager: for any number of units and slots, no unit   *)
(* has two slots, and with as many slots as units a registration always    *)
(* finds one; with one unit, its slot tells the truth about it.            *)
(***************************************************************************)
EXTENDS RruManager, FiniteSetTheorems, TLAPS

Less == {p \in Nat \X Nat : p[1] < p[2]}

LEMMA LessIsWellFounded == IsWellFoundedOn(Less, Nat)
  BY NatLessThanWellFounded, Zenon DEF OpToRel, Less

(* The first element of a set of slots or descriptors belongs to the set.   *)
LEMMA MinIsMember ==
  ASSUME NEW S \in SUBSET Nat, S # {}
  PROVE  Min(S) \in S /\ \A y \in S : Min(S) =< y
<1>1. PICK x \in S : \A y \in S : <<y, x>> \notin Less
  BY LessIsWellFounded, WFMin, Zenon
<1>2. ASSUME NEW y \in S PROVE x =< y
  <2>1. x \in Nat /\ y \in Nat /\ <<y, x>> \notin Less
    BY <1>1, Zenon
  <2>2. ~(y < x)
    BY <2>1, Zenon DEF Less
  <2> QED
    BY <2>1, <2>2
<1> QED
  BY <1>2, Zenon DEF Min

SlotType ==
  [state : RruStates, mac : Macs \cup {NoMac}, ip : Macs \cup {NoMac},
   fd : Nat, timeout : Nat, need_reset : BOOLEAN]

Table == rrus \in [Slots -> SlotType]

(* An occupied slot has a MAC: what makes a full table hold one slot per    *)
(* unit.                                                                    *)
OccupiedNamed == \A i \in Slots : rrus[i].state # "NONE" => rrus[i].mac # NoMac

TableInv == Table /\ MacsUnique /\ OccupiedNamed /\ SlotAvailable

LEMMA SlotsAreNat == Slots \in SUBSET Nat
  BY RruAssumption DEF Slots

(* A handler leaves the slot with its unit and occupied.                    *)
LEMMA HandledKeepsUnit ==
  ASSUME NEW r \in SlotType, NEW m, r.state # "NONE"
  PROVE  /\ Handled(r, m) \in SlotType
         /\ Handled(r, m).mac = r.mac
         /\ Handled(r, m).state # "NONE"
<1>1. process_rru_message(r, m)[2] \in RruStates \ {"NONE"}
  BY ZenonT(40) DEF process_rru_message, process_channel_establishment_req,
         process_channel_establishment_resp, process_delay_measure_resp,
         process_delay_configuration_resp, cell_resp, process_cell_clear_resp,
         process_cell_configuration_resp, process_rru_heartbeat,
         process_rru_init_calibration_report, send_channel_establishment_config,
         send_rru_reset_req, send_delay_measure, send_delay_configuration,
         send_parameter_configuration, send_cell_clear, send_cell_configuration,
         send_bbu_heartbeat, SlotType, RruStates
<1>2. (r.need_reset /\ m # "est_resp") \in BOOLEAN
  BY Zenon
<1> QED
  BY <1>1, <1>2, Zenon DEF Handled, SlotType

(* With every slot occupied, every unit has one.                            *)
LEMMA FullTableHasAll ==
  ASSUME TableInv, EmptySlots = {}, NEW m \in Macs
  PROVE  find_rru_by_mac(m) # {}
<1> SUFFICES ASSUME \A i \in Slots : rrus[i].mac # m
             PROVE  FALSE
  BY Zenon DEF find_rru_by_mac
<1> DEFINE owner == [i \in Slots |-> rrus[i].mac]
           others == Macs \ {m}
<1>1. \A i \in Slots : rrus[i].mac \in others
  BY Zenon DEF TableInv, Table, SlotType, OccupiedNamed, EmptySlots
<1>2. owner \in [Slots -> others]
  BY <1>1, Zenon
<1>3. IsFiniteSet(Slots) /\ Cardinality(Slots) = MAX_RRU_CLIENTS
  <2>1. MAX_RRU_CLIENTS \in Nat \ {0}
    BY RruAssumption, Zenon
  <2>2. IsFiniteSet(0 .. MAX_RRU_CLIENTS - 1)
        /\ Cardinality(0 .. MAX_RRU_CLIENTS - 1) = MAX_RRU_CLIENTS
    BY <2>1, FS_Interval
  <2> QED
    BY <2>2, Zenon DEF Slots
<1>4. IsFiniteSet(others) /\ Cardinality(others) = Cardinality(Macs) - 1
  BY UnitsFit, FS_RemoveElement, Zenon
<1>5. Cardinality(others) < Cardinality(Slots)
  <2>1. Cardinality(Macs) \in Nat
    BY UnitsFit, FS_CardinalityType, Zenon
  <2> QED
    BY <2>1, <1>3, <1>4, UnitsFit, RruAssumption
<1>6. \E i, j \in Slots : i # j /\ owner[i] = owner[j]
  <2> HIDE DEF owner, others
  <2> QED
    BY <1>2, <1>3, <1>4, <1>5, FS_PigeonHole, Zenon
<1>7. PICK i \in Slots, j \in Slots : i # j /\ rrus[i].mac = rrus[j].mac
  BY <1>6, Zenon
<1>8. rrus[i].mac # NoMac
  BY <1>1, RruAssumption, Zenon
<1> QED
  BY <1>7, <1>8, Zenon DEF TableInv, MacsUnique

LEMMA TableInit == Init => TableInv
<1> SUFFICES ASSUME Init PROVE TableInv
  BY Zenon
<1>1. EmptySlot \in SlotType
  BY Zenon DEF EmptySlot, SlotType, RruStates
<1> QED
  BY <1>1, Zenon DEF Init, TableInv, Table, MacsUnique, OccupiedNamed, SlotAvailable, EmptySlot

(* The slot a registration takes has its fields of their types and the MAC  *)
(* of the request.                                                          *)
LEMMA RegisteredSlot ==
  ASSUME NEW s \in SlotType, NEW m \in Macs, NEW reset \in BOOLEAN
  PROVE  Registered(s, m, reset) \in SlotType /\ Registered(s, m, reset).mac = m
BY Zenon DEF Registered, SlotType, RruStates

(* Every step keeps the table: one case per action.                         *)
LEMMA TableStep == TableInv /\ [Next]_vars => TableInv'
<1> SUFFICES ASSUME TableInv, [Next]_vars PROVE TableInv'
  BY Zenon
<1> USE DEF TableInv, SlotAvailable
<1>0. ASSUME UNCHANGED rrus, dead' # "null_slot" PROVE TableInv'
  BY <1>0, Zenon DEF Table, MacsUnique, OccupiedNamed
<1>1. ASSUME rrus' \in [Slots -> SlotType], dead' # "null_slot",
             \A i \in Slots : /\ rrus'[i].mac = rrus[i].mac
                              /\ rrus[i].state = "NONE" => rrus'[i].state = "NONE"
      PROVE  TableInv'
  BY <1>1 DEF Table, MacsUnique, OccupiedNamed
<1>2. CASE Poll \/ TapPacket \/ TapFailed
  BY <1>2, <1>0, Zenon DEF Poll, TapPacket, TapFailed
<1>3. CASE Quiet
  <2>1. \A i \in Slots : /\ rrus'[i] \in SlotType
                         /\ rrus'[i].mac = rrus[i].mac
                         /\ rrus[i].state = "NONE" => rrus'[i].state = "NONE"
    <3> TAKE i \in Slots
    <3>1. rrus[i] \in SlotType
      BY Zenon DEF Table
    <3>2. CASE i \in Expired
      BY <1>3, <3>1, <3>2, Zenon DEF Quiet, SlotType, RruStates
    <3>3. CASE i \notin Expired /\ i \in EmptySlots
      BY <1>3, <3>1, <3>3, Zenon DEF Quiet
    <3>4. CASE i \notin Expired /\ i \notin EmptySlots
      <4>1. rrus'[i] = [rrus[i] EXCEPT !.timeout = @ + 1]
        BY <1>3, <3>4, Zenon DEF Quiet
      <4>2. rrus[i].state # "NONE"
        BY <3>4, Zenon DEF EmptySlots
      <4> QED
        BY <3>1, <4>1, <4>2 DEF SlotType
    <3> QED
      BY <3>2, <3>3, <3>4, Zenon
  <2>2. rrus' \in [Slots -> SlotType]
    BY <1>3, <2>1, Zenon DEF Quiet
  <2> QED
    BY <1>3, <2>1, <2>2, <1>1, Zenon DEF Quiet
<1>4. ASSUME NEW m \in Macs, CfgRequest(m) PROVE TableInv'
  <2> DEFINE old == find_rru_by_mac(m)
             cand == IF old # {} THEN old ELSE EmptySlots
             i == Min(cand)
  <2>1. cand # {}
    BY FullTableHasAll, Zenon
  <2>2. cand \in SUBSET Nat /\ cand \in SUBSET Slots
    BY SlotsAreNat, Zenon DEF find_rru_by_mac, EmptySlots
  <2>3. i \in cand /\ i \in Slots
    BY <2>1, <2>2, MinIsMember, Zenon
  <2> HIDE DEF i
  <2>4. /\ rrus' = [rrus EXCEPT ![i] = Registered(@, m, @.need_reset \/ old = {})]
        /\ dead' = dead
    BY <1>4, <2>1, Zenon DEF CfgRequest, i
  <2>5. rrus[i] \in SlotType
    BY <2>3, Zenon DEF Table
  <2>6. (rrus[i].need_reset \/ old = {}) \in BOOLEAN
    BY Zenon
  <2>7. rrus'[i] \in SlotType /\ rrus'[i].mac = m /\ m # NoMac
    <3> DEFINE reset == rrus[i].need_reset \/ old = {}
    <3>1. rrus'[i] = Registered(rrus[i], m, reset)
      BY <2>3, <2>4, Zenon DEF Table
    <3>2. reset \in BOOLEAN
      BY <2>6, Zenon
    <3> HIDE DEF reset
    <3> QED
      BY <2>5, <3>1, <3>2, RegisteredSlot, RruAssumption
  <2>8. \A j \in Slots \ {i} : rrus'[j] = rrus[j] /\ rrus[j].mac # m
    <3>1. \A j \in Slots \ {i} : rrus'[j] = rrus[j]
      BY <2>3, <2>4, Zenon DEF Table
    <3>2. CASE old = {}
      BY <3>1, <3>2, Zenon DEF find_rru_by_mac
    <3>3. CASE old # {}
      <4>1. rrus[i].mac = m
        BY <2>3, <3>3, Zenon DEF find_rru_by_mac
      <4> QED
        BY <2>3, <2>7, <3>1, <4>1, Zenon DEF MacsUnique
    <3> QED
      BY <3>2, <3>3, Zenon
  <2>9. rrus' \in [Slots -> SlotType]
    BY <2>3, <2>4, <2>7, <2>8, Zenon DEF Table
  <2> QED
    BY <2>3, <2>4, <2>7, <2>8, <2>9 DEF Table, MacsUnique, OccupiedNamed
<1>5. CASE Accept
  <2> DEFINE free == {f \in Fds : fds[f] = NoConn}
             fd == Min(free)
             found == find_rru_by_ip(conn[Head(backlog)].peer)
  <2>1. fd \in Nat
    <3>1. free # {} /\ free \in SUBSET Nat
      <4>1. \E f \in Fds : fds[f] = NoConn
        BY <1>5, Zenon DEF Accept
      <4>2. Fds \in SUBSET Nat
        BY RruAssumption DEF Fds
      <4> QED
        BY <4>1, <4>2, Zenon
    <3> QED
      BY <3>1, MinIsMember, Zenon
  <2> HIDE DEF fd
  <2>2. rrus' = [j \in Slots |->
          IF found # {} /\ j = Min(found) /\ rrus[j].state = "INIT"
          THEN [rrus[j] EXCEPT !.state = "CONNECTED", !.fd = fd, !.timeout = 0]
          ELSE rrus[j]]
    BY <1>5, ZenonT(40) DEF Accept, fd
  <2> HIDE DEF found
  <2>3. \A j \in Slots : /\ rrus'[j] \in SlotType
                         /\ rrus'[j].mac = rrus[j].mac
                         /\ rrus[j].state = "NONE" => rrus'[j].state = "NONE"
    BY <2>1, <2>2, ZenonT(40) DEF Table, SlotType, RruStates
  <2>4. rrus' \in [Slots -> SlotType]
    BY <2>2, <2>3, Zenon
  <2> QED
    BY <1>5, <2>3, <2>4, <1>1, Zenon DEF Accept
<1>6. ASSUME NEW i \in Slots, NEW m, i \notin EmptySlots,
             rrus' = [rrus EXCEPT ![i] = Handled(@, m)], dead' # "null_slot"
      PROVE  TableInv'
  <2>1. rrus[i] \in SlotType /\ rrus[i].state # "NONE"
    BY <1>6, Zenon DEF Table, EmptySlots
  <2>2. /\ rrus'[i] = Handled(rrus[i], m)
        /\ \A j \in Slots \ {i} : rrus'[j] = rrus[j]
    BY <1>6, Zenon DEF Table
  <2>3. rrus' \in [Slots -> SlotType]
    BY <1>6, <2>1, HandledKeepsUnit, Zenon DEF Table
  <2> QED
    BY <2>1, <2>2, <2>3, HandledKeepsUnit, <1>1, <1>6
<1>7. ASSUME NEW i \in Slots, ReadMessage(i) PROVE TableInv'
  BY <1>6, <1>7, Zenon DEF ReadMessage, Serving
<1>8. ASSUME NEW i \in Slots, ReadEof(i) PROVE TableInv'
  <2>1. rrus[i] \in SlotType /\ rrus' = [rrus EXCEPT ![i].state = "NONE"] /\ dead' = dead
    BY <1>8, Zenon DEF Table, ReadEof
  <2>2. rrus'[i] \in SlotType /\ rrus'[i].mac = rrus[i].mac /\ rrus'[i].state = "NONE"
    BY <2>1, Zenon DEF Table, SlotType, RruStates
  <2>3. \A j \in Slots \ {i} : rrus'[j] = rrus[j]
    BY <2>1, Zenon DEF Table
  <2>4. rrus' \in [Slots -> SlotType]
    BY <2>1, <2>2, <2>3, Zenon DEF Table
  <2> QED
    BY <2>1, <2>2, <2>3, <2>4, <1>1, Zenon
<1>9. ASSUME NEW i \in Slots, ReadError(i) PROVE TableInv'
  <2>1. i \notin EmptySlots
    BY <1>9, Zenon DEF ReadError, Serving
  <2>2. PICK m : /\ rrus' = [rrus EXCEPT ![i] = Handled(@, m)]
                 /\ dead' \in {"sigpipe", dead}
    BY <1>9, Zenon DEF ReadError
  <2> QED
    BY <1>6, <2>1, <2>2, Zenon
<1>10. ASSUME NEW m \in Macs, UnitStep(m) \/ Chatter(m) \/ Trouble(m) PROVE TableInv'
  BY <1>0, <1>10, Zenon
  DEF UnitStep, Chatter, Trouble, thread, Register, Connect, Hello, Obey, Calibrated,
      Restart, GiveUp, Reboot, Abort, Hang, Recover, Lose, Leave
<1>11. CASE UNCHANGED vars
  BY <1>0, <1>11, Zenon DEF vars, thread
<1> QED
  BY <1>2, <1>3, <1>4, <1>5, <1>7, <1>8, <1>9, <1>10, <1>11, Zenon DEF Next, Manager, Work, Tick

(* For any set of units the table stays a map from units to slots: a unit   *)
(* is never registered twice by find_rru_by_mac and add_rru_by_mac.  With   *)
(* as many slots as units, the registration handler never gets a null slot  *)
(* from add_rru_by_mac, which it does not test for.                         *)
THEOREM TableTheorem == Spec => []TableSound
<1>1. TableInv => TableSound
  BY Zenon DEF TableInv, TableSound
<1> QED
  BY <1>1, TableInit, TableStep, PTL DEF Spec

-----------------------------------------------------------------------------
(* A site with one unit: what its slot says is true.  Two units can come to *)
(* share a socket (SocketsNotShared is violated), and then it is not.       *)
OneUnit == \A m, n \in Macs : m = n

(* The messages that move the start-up of a unit on, each answered by the   *)
(* next; the others change nothing.                                         *)
Questions == {"est_cfg", "reset", "delay_measure", "delay_cfg", "param_cfg", "cell_clear", "cell_cfg"}
Answers == {"est_req", "est_resp", "delay_resp", "delay_cfg_resp", "calib", "cell_resp"}
Outputs == Questions \cup {"bbu_heartbeat"}

Carries(s, P) == \E k \in 1 .. Len(s) : s[k] \in P
Single(s) == \A k, l \in 1 .. Len(s) : s[k] \in Questions /\ s[l] \in Questions => k = l

(* A live connection carries at most one of them, in one direction, and     *)
(* none while the unit has the next step to make by itself.                 *)
Talk(in, out, phase) ==
  /\ in \in Seq(RruMsgs) /\ out \in Seq(Outputs)
  /\ phase = "dialed" => in = <<>> /\ out = <<>>
  /\ Single(out)
  /\ Carries(in, Answers) => phase = "up" /\ ~Carries(out, Questions)
  /\ Carries(out, Questions) => phase = "up"

(* The slot's state, for what is on its way over its connection.            *)
Agrees(state, in, out, configured) ==
  /\ Carries(out, {"cell_clear"}) => state = "WAIT_CELL_CLEAR_RESP"
  /\ Carries(in, {"cell_resp"}) => state = "WAIT_CELL_CLEAR_RESP" \/ configured
  /\ state = "READY" => configured

Phases == {"off", "asked", "dialed", "up", "calibrating", "hung"}

ConnType == [peer : Macs \cup {NoMac}, in : Seq(RruMsgs), out : Seq(Outputs),
             end : {"open", "fin", "rst"}]
UnitType == [phase : Phases, link : Conns \cup {NoConn}, configured : BOOLEAN]

WorldType ==
  /\ fds \in [Fds -> Conns \cup {NoConn, Stdin}]
  /\ conn \in [Conns -> ConnType]
  /\ backlog \in Seq(Conns)
  /\ unit \in [Macs -> UnitType]
  /\ pollfds \in [Slots -> Int]

(* Descriptors.  A slot that was ever polled has a positive one, descriptor *)
(* 0 is then never handed out again, and a slot poll has reported is open.  *)
SlotFd(i) ==
  /\ rrus[i].fd \in Fds /\ rrus[i].ip = rrus[i].mac
  /\ rrus[i].mac = NoMac => rrus[i].fd = 0
  /\ pollfds[i] # -1 => rrus[i].fd # 0
  /\ rrus[i].fd # 0 => fds[0] # NoConn
  /\ i \in revents => rrus[i].fd # 0 /\ fds[rrus[i].fd] \in Conns
  /\ Connected(i) => fds[rrus[i].fd] \in Conns

(* A connection that was accepted, or waits for it, is a unit's; it waits   *)
(* once, and not after it was accepted.                                     *)
Accepted(f) == fds[f] \in Conns => conn[fds[f]].peer \in Macs
Waits(k) ==
  /\ conn[backlog[k]].peer \in Macs
  /\ \A f \in Fds : fds[f] # backlog[k]
  /\ \A l \in 1 .. Len(backlog) : backlog[l] = backlog[k] => l = k

FdInv ==
  /\ \A i \in Slots : SlotFd(i)
  /\ POLL_FD_CONTROL \in revents => backlog # <<>>
  /\ \A f \in Fds : Accepted(f)
  /\ \A k \in 1 .. Len(backlog) : Waits(k)

(* A unit asks for an address once, and then waits for it.                  *)
Asking(m) ==
  /\ m \in cfgq \cup told => unit[m].phase = "asked"
  /\ m \notin cfgq \cap told

(* The connection of a unit that is up.                                     *)
Live(m) ==
  Linked(m) =>
    /\ unit[m].link \in Conns /\ conn[unit[m].link].end = "open"
    /\ Talk(In(m), Out(m), unit[m].phase)
    /\ \A k \in 1 .. Len(backlog) :
         backlog[k] = unit[m].link => Out(m) = <<>> /\ ~Carries(In(m), {"cell_resp"})
    /\ \A i \in Slots :
         rrus[i].state # "NONE" /\ fds[rrus[i].fd] = unit[m].link
         => Agrees(rrus[i].state, In(m), Out(m), unit[m].configured)

LinkInv == \A m \in Macs : Asking(m) /\ Live(m)

WorldInv == WorldType /\ FdInv /\ LinkInv
TruthInv == TableInv /\ WorldInv

(* An assignment of the output a connection has changes nothing. *)
LEMMA KeepsOut ==
  ASSUME NEW r \in ConnType, NEW e
  PROVE  [r EXCEPT !.in = e] = [r EXCEPT !.in = e, !.out = r.out]
<1> DEFINE w == [r EXCEPT !.in = e]
<1>1. r = [peer |-> r.peer, in |-> r.in, out |-> r.out, end |-> r.end]
  BY SMTT(40) DEF ConnType
<1>2. w = [peer |-> r.peer, in |-> e, out |-> r.out, end |-> r.end]
  BY <1>1, SMTT(40)
<1>3. [w EXCEPT !.out = r.out] = [r EXCEPT !.in = e, !.out = r.out]
  BY Zenon
<1> HIDE DEF w
<1>4. [w EXCEPT !.out = r.out] = w
  BY <1>2, SMTT(40)
<1> QED
  BY <1>3, <1>4, Zenon DEF w

(* The message a read takes is one a unit sends. *)
LEMMA HeadIn ==
  ASSUME NEW T, NEW u \in Seq(T), u # <<>>
  PROVE  Head(u) \in T
  BY SMTT(40)

-----------------------------------------------------------------------------
(* What a sequence carries after a message is added, taken or joined.       *)
LEMMA CarriesNothing ==
  ASSUME NEW P
  PROVE  ~Carries(<<>>, P)
BY DEF Carries

LEMMA CarriesAdded ==
  ASSUME NEW S, NEW s \in Seq(S), NEW x \in S, NEW P, Carries(Append(s, x), P), x \notin P
  PROVE  Carries(s, P)
BY DEF Carries

LEMMA CarriesTaken ==
  ASSUME NEW S, NEW s \in Seq(S), s # <<>>, NEW P
  PROVE  /\ Carries(Tail(s), P) => Carries(s, P)
         /\ Head(s) \in P => Carries(s, P)
BY DEF Carries

LEMMA CarriesJoined ==
  ASSUME NEW S, NEW s \in Seq(S), NEW t \in Seq(S), NEW P, Carries(s \o t, P), ~Carries(t, P)
  PROVE  Carries(s, P)
BY DEF Carries

LEMMA CarriesMore ==
  ASSUME NEW s, NEW P, NEW Q, P \subseteq Q, Carries(s, P)
  PROVE  Carries(s, Q)
BY Zenon DEF Carries

LEMMA SingleAdded ==
  ASSUME NEW S, NEW s \in Seq(S), NEW x \in S, Single(s),
         x \notin Questions \/ ~Carries(s, Questions)
  PROVE  Single(Append(s, x))
BY DEF Single, Carries

LEMMA SingleTaken ==
  ASSUME NEW S, NEW s \in Seq(S), s # <<>>, Single(s)
  PROVE  /\ Single(Tail(s))
         /\ Head(s) \in Questions => ~Carries(Tail(s), Questions)
<1>1. /\ Len(Tail(s)) = Len(s) - 1 /\ Len(s) \in Nat \ {0} /\ Head(s) = s[1]
      /\ \A k \in 1 .. Len(Tail(s)) : Tail(s)[k] = s[k + 1]
  OBVIOUS
<1>2. Single(Tail(s))
  BY <1>1 DEF Single
<1>3. ASSUME Head(s) \in Questions, NEW k \in 1 .. Len(Tail(s)), Tail(s)[k] \in Questions
      PROVE  FALSE
  BY <1>1, <1>3 DEF Single
<1> QED
  BY <1>2, <1>3, Zenon DEF Carries

-----------------------------------------------------------------------------
(* The conversation over a live connection: one lemma per kind of step.     *)
LEMMA TalkHello ==
  ASSUME NEW in, NEW out, Talk(in, out, "dialed"), NEW st, NEW conf
  PROVE  /\ Talk(Append(in, "est_req"), out, "up")
         /\ ~Carries(Append(in, "est_req"), {"cell_resp"})
         /\ Agrees(st, in, out, conf) => Agrees(st, Append(in, "est_req"), out, conf)
<1> DEFINE new == Append(in, "est_req")
<1>1. in = <<>> /\ out = <<>> /\ in \in Seq(RruMsgs) /\ "est_req" \in RruMsgs
  BY Zenon DEF Talk, RruMsgs
<1>2. new \in Seq(RruMsgs)
  BY <1>1
<1>3. ~Carries(new, {"cell_resp"})
  <2>1. "est_req" \notin {"cell_resp"}
    BY Zenon
  <2> QED
    BY <1>1, <2>1, CarriesAdded, CarriesNothing, Zenon
<1>4. \A P : ~Carries(out, P)
  BY <1>1, CarriesNothing, Zenon
<1> HIDE DEF new
<1>5. Talk(new, out, "up")
  BY <1>2, <1>4, Zenon DEF Talk
<1> QED
  BY <1>3, <1>4, <1>5, Zenon DEF Agrees, new

(* A message that is no answer changes nothing in the conversation.         *)
LEMMA TalkChatter ==
  ASSUME NEW in, NEW out, NEW phase, phase # "dialed", Talk(in, out, phase),
         NEW what \in RruMsgs \ Answers, NEW st, NEW conf
  PROVE  /\ Talk(Append(in, what), out, phase)
         /\ Carries(Append(in, what), {"cell_resp"}) => Carries(in, {"cell_resp"})
         /\ Agrees(st, in, out, conf) => Agrees(st, Append(in, what), out, conf)
<1> DEFINE new == Append(in, what)
<1>1. in \in Seq(RruMsgs)
  BY Zenon DEF Talk
<1>2. new \in Seq(RruMsgs)
  BY <1>1
<1>3. what \notin {"cell_resp"}
  BY Zenon DEF Answers
<1>4. Carries(new, Answers) => Carries(in, Answers)
  BY <1>1, CarriesAdded, Zenon
<1>5. Carries(new, {"cell_resp"}) => Carries(in, {"cell_resp"})
  BY <1>1, <1>3, CarriesAdded, Zenon
<1> HIDE DEF new
<1>6. Talk(new, out, phase)
  BY <1>2, <1>4, Zenon DEF Talk
<1> QED
  BY <1>5, <1>6, Zenon DEF Agrees, new

LEMMA TalkCalibrated ==
  ASSUME NEW in, NEW out, Talk(in, out, "calibrating"), NEW st, NEW conf
  PROVE  /\ Talk(Append(in, "calib"), out, "up")
         /\ Carries(Append(in, "calib"), {"cell_resp"}) => Carries(in, {"cell_resp"})
         /\ Agrees(st, in, out, conf) => Agrees(st, Append(in, "calib"), out, conf)
<1> DEFINE new == Append(in, "calib")
<1>1. in \in Seq(RruMsgs) /\ "calib" \in RruMsgs
  BY Zenon DEF Talk, RruMsgs
<1>2. new \in Seq(RruMsgs)
  BY <1>1
<1>3. "calib" \notin {"cell_resp"}
  BY Zenon
<1>4. Carries(new, {"cell_resp"}) => Carries(in, {"cell_resp"})
  BY <1>1, <1>3, CarriesAdded, Zenon
<1>5. ~Carries(out, Questions)
  BY Zenon DEF Talk
<1> HIDE DEF new
<1>6. Talk(new, out, "up")
  BY <1>2, <1>5, Zenon DEF Talk
<1> QED
  BY <1>4, <1>6, Zenon DEF Agrees, new

(* The unit takes a message and answers: a question was alone on the        *)
(* connection, so its answer is.                                            *)
LEMMA TalkObey ==
  ASSUME NEW in, NEW out, NEW phase \in {"up", "calibrating"}, Talk(in, out, phase),
         out # <<>>, NEW b, b = Head(out), NEW conf \in BOOLEAN, NEW next,
         next = IF b = "param_cfg" THEN "calibrating" ELSE phase,
         NEW conf2, conf2 = (b = "cell_cfg" \/ (conf /\ b # "cell_clear"))
  PROVE  /\ Talk(in \o Reply(b), Tail(out), next)
         /\ \A st : Agrees(st, in, out, conf) => Agrees(st, in \o Reply(b), Tail(out), conf2)
<1> DEFINE new == in \o Reply(b)
           rest == Tail(out)
<1>1. in \in Seq(RruMsgs) /\ out \in Seq(Outputs) /\ Single(out)
  BY Zenon DEF Talk
<1>2. b \in Outputs /\ rest \in Seq(Outputs)
  BY <1>1
<1>3. Reply(b) \in Seq(RruMsgs)
  <2>1. Reply(b) \in {<<"est_resp">>, <<"delay_resp">>, <<"delay_cfg_resp">>, <<"param_resp">>,
                     <<"cell_resp">>, <<>>}
    BY Zenon DEF Reply
  <2>2. \A x \in RruMsgs : <<x>> \in Seq(RruMsgs)
    OBVIOUS
  <2>3. <<>> \in Seq(RruMsgs)
    OBVIOUS
  <2>4. /\ "est_resp" \in RruMsgs /\ "delay_resp" \in RruMsgs /\ "delay_cfg_resp" \in RruMsgs
        /\ "param_resp" \in RruMsgs /\ "cell_resp" \in RruMsgs
    BY Zenon DEF RruMsgs
  <2> QED
    BY <2>1, <2>2, <2>3, <2>4, Zenon
<1>4. new \in Seq(RruMsgs)
  BY <1>1, <1>3
<1>5. \A P : Carries(rest, P) => Carries(out, P)
  BY <1>1, CarriesTaken, Zenon
<1>6. \A P : b \in P => Carries(out, P)
  BY <1>1, CarriesTaken, Zenon
<1>7. Single(rest) /\ (b \in Questions => ~Carries(rest, Questions))
  BY <1>1, SingleTaken, Zenon
<1>8. \A P : Carries(new, P) => Carries(in, P) \/ Carries(Reply(b), P)
  BY <1>1, <1>3, CarriesJoined, Zenon
<1>9. Carries(Reply(b), Answers) => b \in Questions /\ b # "param_cfg"
  <2>1. CASE b = "param_cfg"
    <3>1. Reply(b) = <<"param_resp">>
      BY <2>1, Zenon DEF Reply
    <3> QED
      BY <3>1 DEF Carries, Answers
  <2>2. CASE b \notin Questions
    <3>1. Reply(b) = <<>>
      BY <2>2, Zenon DEF Reply, Questions
    <3> QED
      BY <2>2, <3>1, CarriesNothing, Zenon
  <2> QED
    BY <2>1, <2>2, Zenon
<1>10. Carries(Reply(b), {"cell_resp"}) => b \in {"cell_clear", "cell_cfg"}
  <2> SUFFICES ASSUME b \notin {"cell_clear", "cell_cfg"} PROVE ~Carries(Reply(b), {"cell_resp"})
    BY Zenon
  <2>1. Reply(b) \in {<<"est_resp">>, <<"delay_resp">>, <<"delay_cfg_resp">>, <<"param_resp">>, <<>>}
    BY Zenon DEF Reply
  <2> QED
    BY <2>1 DEF Carries
<1> HIDE DEF new, rest
<1>11. Talk(new, rest, next)
  <2>1. next # "dialed" /\ (b # "param_cfg" => next = phase)
    BY Zenon
  <2>2. ASSUME Carries(new, Answers) PROVE next = "up" /\ ~Carries(rest, Questions)
    <3>1. CASE Carries(in, Answers)
      <4>1. phase = "up" /\ ~Carries(out, Questions)
        BY <3>1, Zenon DEF Talk
      <4>2. b # "param_cfg"
        BY <1>6, <4>1, Zenon DEF Questions
      <4> QED
        BY <1>5, <2>1, <4>1, <4>2, Zenon
    <3>2. CASE Carries(Reply(b), Answers)
      <4>1. b \in Questions /\ b # "param_cfg"
        BY <1>9, <3>2, Zenon
      <4>2. phase = "up"
        BY <1>6, <4>1, Zenon DEF Talk
      <4> QED
        BY <1>7, <2>1, <4>1, <4>2, Zenon
    <3> QED
      BY <1>8, <2>2, <3>1, <3>2, Zenon
  <2>3. ASSUME Carries(rest, Questions) PROVE next = "up"
    <3>1. phase = "up" /\ b \notin Questions
      BY <1>5, <1>7, <2>3, Zenon DEF Talk
    <3> QED
      BY <2>1, <3>1, Zenon DEF Questions
  <2> QED
    BY <1>2, <1>4, <1>7, <2>1, <2>2, <2>3, Zenon DEF Talk
<1>12. ASSUME NEW st, Agrees(st, in, out, conf) PROVE Agrees(st, new, rest, conf2)
  <2>1. CASE b = "cell_clear"
    <3>1. st = "WAIT_CELL_CLEAR_RESP"
      BY <1>6, <1>12, <2>1, Zenon DEF Agrees
    <3> QED
      BY <3>1, Zenon DEF Agrees
  <2>2. CASE b = "cell_cfg"
    BY <1>5, <1>12, <2>2, Zenon DEF Agrees
  <2>3. CASE b \notin {"cell_clear", "cell_cfg"}
    BY <1>5, <1>8, <1>10, <1>12, <2>3, Zenon DEF Agrees
  <2> QED
    BY <2>1, <2>2, <2>3, Zenon
<1> QED
  BY <1>11, <1>12, Zenon DEF new, rest

(* What a slot makes of a message: an answer leads to the next question,    *)
(* and only the answer to the cell configuration, or nothing, to READY.     *)
LEMMA Dispatch ==
  ASSUME NEW r, NEW m \in RruMsgs, NEW q, NEW st,
         q = process_rru_message(r, m)[1], st = process_rru_message(r, m)[2]
  PROVE  /\ q \in Outputs \cup {Junk}
         /\ q \in Questions => m \in Answers
         /\ q = "cell_clear" => st = "WAIT_CELL_CLEAR_RESP"
         /\ m \notin Answers => st = r.state
         /\ st # "READY" \/ (st = r.state /\ m # "cell_resp")
              \/ (m = "cell_resp" /\ r.state # "WAIT_CELL_CLEAR_RESP")
<1>1. \/ m \in Answers /\ process_rru_message(r, m) \in
           {<<"est_cfg", "CONN_SETUP_SENT">>, <<"reset", "CONN_SETUP_ACK">>,
            <<"delay_measure", "WAIT_CELL_CONFIG_RESP">>, <<"delay_cfg", "WAIT_CELL_CONFIG_RESP">>,
            <<"param_cfg", "WAIT_PARAMS_CONFIG_RESP">>, <<"cell_clear", "WAIT_CELL_CLEAR_RESP">>,
            <<"cell_cfg", "WAIT_CELL_CONFIG_RESP">>}
      \/ m = "cell_resp" /\ r.state # "WAIT_CELL_CLEAR_RESP"
           /\ process_rru_message(r, m) = <<Junk, "READY">>
      \/ m # "cell_resp"
           /\ process_rru_message(r, m) \in {<<"bbu_heartbeat", r.state>>, <<Junk, r.state>>}
  BY ZenonT(40) DEF process_rru_message, process_channel_establishment_req,
         process_channel_establishment_resp, process_delay_measure_resp,
         process_delay_configuration_resp, cell_resp, process_cell_clear_resp,
         process_cell_configuration_resp, process_rru_heartbeat,
         process_rru_init_calibration_report, send_channel_establishment_config,
         send_rru_reset_req, send_delay_measure, send_delay_configuration,
         send_parameter_configuration, send_cell_clear, send_cell_configuration,
         send_bbu_heartbeat, RruMsgs, Answers
<1> QED
  BY <1>1 DEF Questions, Outputs, Answers, Junk

(* The slot reads a message of its unit's live connection and answers it;   *)
(* what else had arrived is dropped.                                        *)
LEMMA TalkRead ==
  ASSUME NEW in, NEW out, NEW phase, Talk(in, out, phase), in # <<>>, NEW r, NEW conf,
         Agrees(r.state, in, out, conf), NEW q, NEW st, NEW next,
         q = process_rru_message(r, Head(in))[1], st = process_rru_message(r, Head(in))[2],
         next = IF q = Junk THEN out ELSE Append(out, q)
  PROVE  Talk(<<>>, next, phase) /\ Agrees(st, <<>>, next, conf)
<1> DEFINE m == Head(in)
<1>1. in \in Seq(RruMsgs) /\ out \in Seq(Outputs) /\ Single(out) /\ phase # "dialed"
  BY Zenon DEF Talk
<1>2. m \in RruMsgs
  BY <1>1
<1>3. \A P : m \in P => Carries(in, P)
  BY <1>1, CarriesTaken, Zenon
<1>4. m \in Answers => phase = "up" /\ ~Carries(out, Questions)
  BY <1>3, Zenon DEF Talk
<1>5. <<>> \in Seq(RruMsgs) /\ \A P : ~Carries(<<>>, P)
  BY CarriesNothing
<1> HIDE DEF m
<1>6. /\ q \in Outputs \cup {Junk}
      /\ q \in Questions => m \in Answers
      /\ q = "cell_clear" => st = "WAIT_CELL_CLEAR_RESP"
      /\ m \notin Answers => st = r.state
      /\ st # "READY" \/ (st = r.state /\ m # "cell_resp")
           \/ (m = "cell_resp" /\ r.state # "WAIT_CELL_CLEAR_RESP")
  <2>1. q = process_rru_message(r, m)[1] /\ st = process_rru_message(r, m)[2]
    BY Zenon DEF m
  <2> QED
    BY <1>2, <2>1, Dispatch, Zenon
<1>7. next \in Seq(Outputs)
  <2>1. CASE q = Junk
    BY <1>1, <2>1, Zenon
  <2>2. CASE q # Junk
    <3>1. next = Append(out, q) /\ q \in Outputs
      BY <1>6, <2>2, Zenon
    <3> QED
      BY <1>1, <3>1
  <2> QED
    BY <2>1, <2>2, Zenon
<1>8. \A P : Carries(next, P) => Carries(out, P) \/ (q \in P /\ q # Junk)
  <2>1. CASE q = Junk
    BY <2>1, Zenon
  <2>2. CASE q # Junk
    BY <1>1, <1>6, <2>2, CarriesAdded, Zenon
  <2> QED
    BY <2>1, <2>2, Zenon
<1>9. Single(next)
  <2>1. CASE q = Junk
    BY <1>1, <2>1, Zenon
  <2>2. CASE q # Junk
    BY <1>1, <1>4, <1>6, <2>2, SingleAdded, Zenon
  <2> QED
    BY <2>1, <2>2, Zenon
<1>10. Talk(<<>>, next, phase)
  <2>1. Carries(next, Questions) => phase = "up"
    BY <1>4, <1>6, <1>8, Zenon DEF Talk
  <2> QED
    BY <1>1, <1>5, <1>7, <1>9, <2>1, Zenon DEF Talk
<1>11. Carries(next, {"cell_clear"}) => st = "WAIT_CELL_CLEAR_RESP"
  <2>0. Carries(next, {"cell_clear"}) => Carries(out, {"cell_clear"}) \/ q \in {"cell_clear"}
    BY <1>8, Zenon
  <2> SUFFICES ASSUME Carries(out, {"cell_clear"}) PROVE st = "WAIT_CELL_CLEAR_RESP"
    BY <1>6, <2>0
  <2>1. Carries(out, Questions)
    <3>1. {"cell_clear"} \subseteq Questions
      BY Zenon DEF Questions
    <3> QED
      BY <3>1, CarriesMore, Zenon
  <2>2. st = r.state
    BY <1>4, <1>6, <2>1, Zenon
  <2> QED
    BY <2>2, Zenon DEF Agrees
<1>12. st = "READY" => conf
  BY <1>3, <1>6, Zenon DEF Agrees
<1> QED
  BY <1>5, <1>10, <1>11, <1>12, Zenon DEF Agrees

-----------------------------------------------------------------------------
(* The steps of the unit.                                                   *)
LEMMA FdFrame ==
  ASSUME FdInv, UNCHANGED <<thread, backlog>>,
         \A c \in Conns : conn'[c].peer = conn[c].peer, backlog \in Seq(Conns)
  PROVE  FdInv'
<1> USE DEF thread
<1>1. \A i \in Slots : SlotFd(i)'
  BY Zenon DEF FdInv, SlotFd, Connected
<1>2. \A f \in Fds : Accepted(f)'
  BY Zenon DEF FdInv, Accepted
<1>3. \A k \in 1 .. Len(backlog) : backlog[k] \in Conns
  OBVIOUS
<1>4. \A k \in 1 .. Len(backlog) : Waits(k)'
  BY <1>3, Zenon DEF FdInv, Waits
<1> QED
  BY <1>1, <1>2, <1>4, Zenon DEF FdInv

(* The unit is not, or no longer, up.                                       *)
LEMMA GoneKeeps ==
  ASSUME OneUnit, WorldInv, NEW m \in Macs,
         UNCHANGED <<thread, backlog>>, unit' \in [Macs -> UnitType],
         conn' \in [Conns -> ConnType], \A c \in Conns : conn'[c].peer = conn[c].peer,
         ~Linked(m)', Asking(m)'
  PROVE  WorldInv'
<1>1. WorldType'
  BY Zenon DEF WorldInv, WorldType, thread
<1>2. FdInv'
  BY FdFrame, Zenon DEF WorldInv, WorldType
<1>3. \A n \in Macs : n = m
  BY Zenon DEF OneUnit
<1>4. LinkInv'
  BY <1>3, Zenon DEF LinkInv, Live
<1> QED
  BY <1>1, <1>2, <1>4, Zenon DEF WorldInv

(* The unit, up before and after, sends or takes a message.                 *)
LEMMA SpeakKeeps ==
  ASSUME OneUnit, WorldInv, NEW m \in Macs, Linked(m), Linked(m)',
         UNCHANGED <<thread, backlog, cfgq, told>>, unit' \in [Macs -> UnitType],
         conn' \in [Conns -> ConnType], \A c \in Conns : conn'[c].peer = conn[c].peer,
         unit'[m].link = unit[m].link, conn'[unit[m].link].end = "open",
         Talk(In(m), Out(m), unit[m].phase)',
         Out(m) = <<>> /\ ~Carries(In(m), {"cell_resp"})
           => (Out(m) = <<>> /\ ~Carries(In(m), {"cell_resp"}))',
         \A st : Agrees(st, In(m), Out(m), unit[m].configured)
                 => Agrees(st, In(m)', Out(m)', unit'[m].configured)
  PROVE  WorldInv'
<1>1. WorldType'
  BY Zenon DEF WorldInv, WorldType, thread
<1>2. FdInv'
  BY FdFrame, Zenon DEF WorldInv, WorldType
<1>3. \A n \in Macs : n = m
  BY Zenon DEF OneUnit
<1>4. Asking(m)'
  BY Zenon DEF Linked, Asking, WorldInv, LinkInv
<1>5. Live(m)
  BY Zenon DEF WorldInv, LinkInv
<1>6. /\ backlog' = backlog /\ rrus' = rrus /\ fds' = fds
  BY Zenon DEF thread
<1>7. Live(m)'
  <2>1. unit'[m].link \in Conns /\ conn'[unit'[m].link].end = "open"
    BY <1>5, Zenon DEF Live
  <2>2. \A k \in 1 .. Len(backlog') :
          backlog'[k] = unit'[m].link => (Out(m) = <<>> /\ ~Carries(In(m), {"cell_resp"}))'
    BY <1>5, <1>6, Zenon DEF Live
  <2>3. \A i \in Slots : rrus'[i].state # "NONE" /\ fds'[rrus'[i].fd] = unit'[m].link
          => Agrees(rrus'[i].state, In(m)', Out(m)', unit'[m].configured)
    BY <1>5, <1>6, Zenon DEF Live
  <2> QED
    BY <2>1, <2>2, <2>3, Zenon DEF Live
<1>8. LinkInv'
  BY <1>3, <1>4, <1>7, Zenon DEF LinkInv
<1> QED
  BY <1>1, <1>2, <1>8, Zenon DEF WorldInv

(* What a live unit's connection is.                                        *)
LEMMA LiveConn ==
  ASSUME WorldInv, NEW m \in Macs, Linked(m)
  PROVE  /\ unit[m].link \in Conns /\ conn[unit[m].link] \in ConnType
         /\ conn[unit[m].link].end = "open" /\ unit[m] \in UnitType
         /\ Talk(In(m), Out(m), unit[m].phase)
BY Zenon DEF WorldInv, WorldType, LinkInv, Live

(* A connection in which some fields change.                                *)
LEMMA ConnField ==
  ASSUME conn \in [Conns -> ConnType], NEW c \in Conns, NEW new \in ConnType,
         new.peer = conn[c].peer, conn' = [conn EXCEPT ![c] = new]
  PROVE  /\ conn' \in [Conns -> ConnType]
         /\ conn'[c] = new
         /\ \A d \in Conns : conn'[d].peer = conn[d].peer
<1>1. conn' \in [Conns -> ConnType]
  BY Zenon
<1>2. conn'[c] = new
  BY Zenon
<1>3. ASSUME NEW d \in Conns PROVE conn'[d].peer = conn[d].peer
  <2>1. CASE d = c
    BY <1>2, <2>1, Zenon
  <2>2. CASE d # c
    BY <2>2, Zenon
  <2> QED
    BY <2>1, <2>2, Zenon
<1> QED
  BY <1>1, <1>2, <1>3, Zenon

(* The unit sends a message.                                                *)
LEMMA SayConn ==
  ASSUME WorldInv, NEW m \in Macs, Linked(m), NEW what \in RruMsgs, Say(m, what),
         unit'[m].link = unit[m].link
  PROVE  /\ conn' \in [Conns -> ConnType]
         /\ \A d \in Conns : conn'[d].peer = conn[d].peer
         /\ conn'[unit[m].link].end = "open"
         /\ In(m)' = Append(In(m), what) /\ Out(m)' = Out(m)
<1> DEFINE c == unit[m].link
           new == [conn[c] EXCEPT !.in = Append(@, what)]
<1>1. c \in Conns /\ conn[c] \in ConnType /\ conn[c].end = "open" /\ conn \in [Conns -> ConnType]
  BY LiveConn, Zenon DEF WorldInv, WorldType
<1>2. conn' = [conn EXCEPT ![c] = new]
  BY Zenon DEF Say
<1> HIDE DEF c
<1>3. Append(conn[c].in, what) \in Seq(RruMsgs)
  <2>1. conn[c].in \in Seq(RruMsgs)
    BY <1>1, Zenon DEF ConnType
  <2> QED
    BY <2>1
<1>4. /\ new \in ConnType /\ new.peer = conn[c].peer /\ new.end = conn[c].end
      /\ new.in = Append(conn[c].in, what) /\ new.out = conn[c].out
  BY <1>1, <1>3, Zenon DEF ConnType
<1> HIDE DEF new
<1>5. /\ conn' \in [Conns -> ConnType] /\ conn'[c] = new
      /\ \A d \in Conns : conn'[d].peer = conn[d].peer
  BY <1>1, <1>2, <1>4, ConnField, Zenon
<1> QED
  BY <1>1, <1>4, <1>5, Zenon DEF In, Out, c

LEMMA HelloKeeps ==
  ASSUME OneUnit, WorldInv, NEW m \in Macs, Hello(m)
  PROVE  WorldInv'
<1>1. unit[m].phase = "dialed" /\ Linked(m)
  BY Zenon DEF Hello, Linked
<1>2. /\ unit[m] \in UnitType /\ Talk(In(m), Out(m), "dialed")
      /\ unit \in [Macs -> UnitType]
  BY <1>1, LiveConn, Zenon DEF WorldInv, WorldType
<1>3. /\ unit' \in [Macs -> UnitType] /\ unit'[m].phase = "up"
      /\ unit'[m].link = unit[m].link /\ unit'[m].configured = unit[m].configured
  BY <1>2, Zenon DEF Hello, UnitType, Phases
<1>4. Say(m, "est_req") /\ "est_req" \in RruMsgs
  BY Zenon DEF Hello, RruMsgs
<1>5. /\ conn' \in [Conns -> ConnType]
      /\ \A d \in Conns : conn'[d].peer = conn[d].peer
      /\ conn'[unit[m].link].end = "open"
      /\ In(m)' = Append(In(m), "est_req") /\ Out(m)' = Out(m)
  BY <1>1, <1>3, <1>4, SayConn, Zenon
<1>6. /\ Talk(In(m)', Out(m)', "up") /\ ~Carries(In(m)', {"cell_resp"})
      /\ \A st, conf : Agrees(st, In(m), Out(m), conf) => Agrees(st, In(m)', Out(m)', conf)
  BY <1>2, <1>5, TalkHello, Zenon
<1>7. Linked(m)' /\ UNCHANGED <<thread, backlog, cfgq, told>>
  BY <1>3, Zenon DEF Hello, Linked
<1>8. Talk(In(m), Out(m), unit[m].phase)'
  BY <1>3, <1>6, Zenon
<1> QED
  BY <1>1, <1>3, <1>5, <1>6, <1>7, <1>8, SpeakKeeps, ZenonT(40)

LEMMA CalibratedKeeps ==
  ASSUME OneUnit, WorldInv, NEW m \in Macs, Calibrated(m)
  PROVE  WorldInv'
<1>1. unit[m].phase = "calibrating" /\ Linked(m)
  BY Zenon DEF Calibrated, Linked
<1>2. /\ unit[m] \in UnitType /\ Talk(In(m), Out(m), "calibrating")
      /\ unit \in [Macs -> UnitType]
  BY <1>1, LiveConn, Zenon DEF WorldInv, WorldType
<1>3. /\ unit' \in [Macs -> UnitType] /\ unit'[m].phase = "up"
      /\ unit'[m].link = unit[m].link /\ unit'[m].configured = unit[m].configured
  BY <1>2, Zenon DEF Calibrated, UnitType, Phases
<1>4. Say(m, "calib") /\ "calib" \in RruMsgs
  BY Zenon DEF Calibrated, RruMsgs
<1>5. /\ conn' \in [Conns -> ConnType]
      /\ \A d \in Conns : conn'[d].peer = conn[d].peer
      /\ conn'[unit[m].link].end = "open"
      /\ In(m)' = Append(In(m), "calib") /\ Out(m)' = Out(m)
  BY <1>1, <1>3, <1>4, SayConn, Zenon
<1>6. /\ Talk(In(m)', Out(m)', "up")
      /\ Carries(In(m)', {"cell_resp"}) => Carries(In(m), {"cell_resp"})
      /\ \A st, conf : Agrees(st, In(m), Out(m), conf) => Agrees(st, In(m)', Out(m)', conf)
  BY <1>2, <1>5, TalkCalibrated, Zenon
<1>7. Linked(m)' /\ UNCHANGED <<thread, backlog, cfgq, told>>
  BY <1>3, Zenon DEF Calibrated, Linked
<1>8. Talk(In(m), Out(m), unit[m].phase)'
  BY <1>3, <1>6, Zenon
<1> QED
  BY <1>1, <1>3, <1>5, <1>6, <1>7, <1>8, SpeakKeeps, ZenonT(40)

LEMMA ChatterKeeps ==
  ASSUME OneUnit, WorldInv, NEW m \in Macs, Chatter(m)
  PROVE  WorldInv'
<1>1. unit[m].phase # "dialed" /\ Linked(m) /\ unit' = unit
  BY Zenon DEF Chatter, Linked
<1>2. /\ Talk(In(m), Out(m), unit[m].phase) /\ unit \in [Macs -> UnitType]
  BY <1>1, LiveConn, Zenon DEF WorldInv, WorldType
<1>3. PICK what \in {"heartbeat", "alarm"} : Say(m, what)
  BY Zenon DEF Chatter
<1>4. what \in RruMsgs \ Answers
  BY Zenon DEF RruMsgs, Answers
<1>5. /\ conn' \in [Conns -> ConnType]
      /\ \A d \in Conns : conn'[d].peer = conn[d].peer
      /\ conn'[unit[m].link].end = "open"
      /\ In(m)' = Append(In(m), what) /\ Out(m)' = Out(m)
  BY <1>1, <1>3, <1>4, SayConn, Zenon
<1>6. /\ Talk(In(m)', Out(m)', unit[m].phase)
      /\ Carries(In(m)', {"cell_resp"}) => Carries(In(m), {"cell_resp"})
      /\ \A st, conf : Agrees(st, In(m), Out(m), conf) => Agrees(st, In(m)', Out(m)', conf)
  BY <1>1, <1>2, <1>4, <1>5, TalkChatter, Zenon
<1>7. Linked(m)' /\ UNCHANGED <<thread, backlog, cfgq, told>>
  BY <1>1, Zenon DEF Chatter, Linked
<1>8. Talk(In(m), Out(m), unit[m].phase)'
  BY <1>1, <1>6, Zenon
<1> QED
  BY <1>1, <1>2, <1>5, <1>6, <1>7, <1>8, SpeakKeeps, ZenonT(40)

LEMMA ObeyKeeps ==
  ASSUME OneUnit, WorldInv, NEW m \in Macs, Obey(m)
  PROVE  WorldInv'
<1> DEFINE c == unit[m].link
           b == Head(Out(m))
           new == [conn[c] EXCEPT !.in = @ \o Reply(b), !.out = Tail(@)]
           phase == IF b = "param_cfg" THEN "calibrating" ELSE unit[m].phase
           conf == b = "cell_cfg" \/ (unit[m].configured /\ b # "cell_clear")
<1>1. unit[m].phase \in {"up", "calibrating"} /\ Linked(m) /\ Out(m) # <<>>
  BY Zenon DEF Obey, Linked
<1>2. /\ unit[m] \in UnitType /\ Talk(In(m), Out(m), unit[m].phase)
      /\ c \in Conns /\ conn[c] \in ConnType /\ conn[c].end = "open"
      /\ unit \in [Macs -> UnitType] /\ conn \in [Conns -> ConnType]
  BY <1>1, LiveConn, Zenon DEF WorldInv, WorldType
<1>3. conf \in BOOLEAN /\ unit[m].configured \in BOOLEAN
  BY <1>2, Zenon DEF UnitType
<1>4. phase \in {"up", "calibrating"}
  BY <1>1, Zenon
<1>5. /\ conn' = [conn EXCEPT ![c] = new]
      /\ unit' = [unit EXCEPT ![m] = [unit[m] EXCEPT !.phase = phase, !.configured = conf]]
  BY ZenonT(40) DEF Obey
<1>6. /\ Talk(In(m) \o Reply(b), Tail(Out(m)), phase)
      /\ \A st : Agrees(st, In(m), Out(m), unit[m].configured)
                 => Agrees(st, In(m) \o Reply(b), Tail(Out(m)), conf)
  <2> HIDE DEF b
  <2>1. b = Head(Out(m))
    BY Zenon DEF b
  <2> QED
    BY <1>1, <1>2, <1>3, <2>1, TalkObey, Zenon
<1> HIDE DEF phase, conf
<1>7. /\ unit' \in [Macs -> UnitType] /\ unit'[m].phase = phase
      /\ unit'[m].link = unit[m].link /\ unit'[m].configured = conf
  BY <1>2, <1>3, <1>4, <1>5, Zenon DEF UnitType, Phases
<1>8. In(m) = conn[c].in /\ Out(m) = conn[c].out
  BY Zenon DEF In, Out
<1>9. conn[c].in \o Reply(b) \in Seq(RruMsgs) /\ Tail(conn[c].out) \in Seq(Outputs)
  BY <1>6, <1>8, Zenon DEF Talk
<1> HIDE DEF c, b
<1>10. /\ new \in ConnType /\ new.peer = conn[c].peer /\ new.end = "open"
       /\ new.in = conn[c].in \o Reply(b) /\ new.out = Tail(conn[c].out)
  BY <1>2, <1>9, Zenon DEF ConnType
<1> HIDE DEF new
<1>11. /\ conn' \in [Conns -> ConnType] /\ conn'[c] = new
       /\ \A d \in Conns : conn'[d].peer = conn[d].peer
  BY <1>2, <1>5, <1>10, ConnField, Zenon
<1>12. /\ In(m)' = In(m) \o Reply(b) /\ Out(m)' = Tail(Out(m))
       /\ conn'[unit[m].link].end = "open"
  BY <1>7, <1>8, <1>10, <1>11, Zenon DEF In, Out, c
<1>13. Linked(m)' /\ UNCHANGED <<thread, backlog, cfgq, told>>
  BY <1>4, <1>7, Zenon DEF Obey, Linked
<1>14. Talk(In(m), Out(m), unit[m].phase)'
  BY <1>6, <1>7, <1>12, Zenon
<1>15. \A st : Agrees(st, In(m), Out(m), unit[m].configured)
               => Agrees(st, In(m)', Out(m)', unit'[m].configured)
  BY <1>6, <1>7, <1>12, Zenon
<1> QED
  BY <1>1, <1>7, <1>11, <1>12, <1>13, <1>14, <1>15, SpeakKeeps, ZenonT(40)

(* The unit is off, waits for an address, or is silent.                     *)
LEMMA QuietUnitKeeps ==
  ASSUME OneUnit, WorldInv, NEW m \in Macs,
         Register(m) \/ Hang(m) \/ Recover(m) \/ Lose(m)
  PROVE  WorldInv'
<1>1. /\ unit \in [Macs -> UnitType] /\ unit[m] \in UnitType /\ Asking(m)
      /\ conn \in [Conns -> ConnType]
  BY Zenon DEF WorldInv, WorldType, LinkInv
<1>2. UNCHANGED <<thread, backlog>> /\ conn' = conn
  BY Zenon DEF Register, Hang, Recover, Lose
<1>3. OffUnit \in UnitType
  BY Zenon DEF OffUnit, UnitType, Phases
<1>4. unit' \in [Macs -> UnitType] /\ unit'[m].phase \in {"off", "asked", "hung"} /\ Asking(m)'
  <2>1. CASE Register(m)
    <3>1. unit' \in [Macs -> UnitType] /\ unit'[m].phase = "asked"
      BY <1>1, <2>1, Zenon DEF Register, UnitType, Phases
    <3>2. m \notin cfgq \cup told /\ told' = told
      BY <1>1, <2>1, Zenon DEF Register, Asking
    <3> QED
      BY <3>1, <3>2, Zenon DEF Asking
  <2>2. CASE Hang(m)
    <3>1. unit' \in [Macs -> UnitType] /\ unit'[m].phase = "hung"
      BY <1>1, <2>2, Zenon DEF Hang, UnitType, Phases
    <3>2. m \notin cfgq' \cup told'
      BY <1>1, <2>2, Zenon DEF Hang, Asking, Linked
    <3> QED
      BY <3>1, <3>2, Zenon DEF Asking
  <2>3. CASE Recover(m)
    <3>1. unit' \in [Macs -> UnitType] /\ unit'[m].phase = "off"
      BY <1>1, <1>3, <2>3, Zenon DEF Recover, OffUnit
    <3>2. m \notin cfgq' \cup told'
      BY <1>1, <2>3, Zenon DEF Recover, Asking
    <3> QED
      BY <3>1, <3>2, Zenon DEF Asking
  <2>4. CASE Lose(m)
    <3>1. unit' \in [Macs -> UnitType] /\ unit'[m].phase = "off"
      BY <1>1, <2>4, Zenon DEF Lose, UnitType, Phases
    <3>2. m \notin cfgq' \cup told'
      BY <2>4, Zenon DEF Lose
    <3> QED
      BY <3>1, <3>2, Zenon DEF Asking
  <2> QED
    BY <2>1, <2>2, <2>3, <2>4, Zenon
<1>5. ~Linked(m)'
  BY <1>4, Zenon DEF Linked
<1> QED
  BY <1>1, <1>2, <1>4, <1>5, GoneKeeps, Zenon

(* The unit closes or resets its connection and is off.                     *)
LEMMA LeaveKeeps ==
  ASSUME OneUnit, WorldInv, NEW m \in Macs, Linked(m), NEW how \in {"fin", "rst"},
         Leave(m, how)
  PROVE  WorldInv'
<1> DEFINE c == unit[m].link
           new == [conn[c] EXCEPT !.end = how, !.out = <<>>]
<1>1. /\ c \in Conns /\ conn[c] \in ConnType /\ conn \in [Conns -> ConnType]
      /\ unit \in [Macs -> UnitType] /\ Asking(m)
  BY LiveConn, Zenon DEF WorldInv, WorldType, LinkInv
<1>2. conn' = [conn EXCEPT ![c] = new]
  BY Zenon DEF Leave
<1>3. <<>> \in Seq(Outputs)
  OBVIOUS
<1> HIDE DEF c
<1>4. new \in ConnType /\ new.peer = conn[c].peer
  BY <1>1, <1>3, Zenon DEF ConnType
<1> HIDE DEF new
<1>5. conn' \in [Conns -> ConnType] /\ \A d \in Conns : conn'[d].peer = conn[d].peer
  BY <1>1, <1>2, <1>4, ConnField, Zenon
<1>6. OffUnit \in UnitType
  BY Zenon DEF OffUnit, UnitType, Phases
<1>7. unit' \in [Macs -> UnitType] /\ unit'[m].phase = "off"
  BY <1>1, <1>6, Zenon DEF Leave, OffUnit
<1>8. Asking(m)' /\ ~Linked(m)' /\ UNCHANGED <<thread, backlog>>
  BY <1>1, <1>7, Zenon DEF Leave, Asking, Linked
<1> QED
  BY <1>5, <1>7, <1>8, GoneKeeps, Zenon

LEMMA NumbersApart ==
  /\ Conns \in SUBSET Nat /\ Fds \in SUBSET Nat /\ 0 \in Fds
  /\ NoConn \notin Conns
  /\ POLL_FD_CFG \notin Slots /\ POLL_FD_CONTROL \notin Slots /\ POLL_FD_TAP \notin Slots
  /\ POLL_FD_CONTROL # POLL_FD_CFG /\ POLL_FD_CONTROL # POLL_FD_TAP
BY RruAssumption DEF Conns, Fds, NoConn, POLL_FD_CFG, POLL_FD_CONTROL, POLL_FD_TAP, Slots

(* The unit dials: its connection is a fresh one and waits for accept.      *)
LEMMA ConnectKeeps ==
  ASSUME OneUnit, WorldInv, NEW m \in Macs, Connect(m)
  PROVE  WorldInv'
<1> DEFINE c == Min(Idle)
           new == [IdleConn EXCEPT !.peer = m]
<1>1. c \in Idle /\ c \in Conns
  <2>1. Idle # {} /\ Idle \subseteq Conns
    BY Zenon DEF Connect, Idle
  <2> QED
    BY <2>1, NumbersApart, MinIsMember, Zenon
<1>2. /\ conn' = [conn EXCEPT ![c] = new]
      /\ unit' = [unit EXCEPT ![m] = [unit[m] EXCEPT !.phase = "dialed", !.link = c]]
      /\ backlog' = Append(backlog, c) /\ told' = told \ {m}
      /\ UNCHANGED <<thread, cfgq>> /\ m \in told
  BY ZenonT(40) DEF Connect
<1>3. <<>> \in Seq(Outputs) /\ <<>> \in Seq(RruMsgs)
  OBVIOUS
<1>4. new \in ConnType /\ new.peer = m /\ new.in = <<>> /\ new.out = <<>> /\ new.end = "open"
  BY <1>3, Zenon DEF ConnType, IdleConn
<1>5. /\ \A f \in Fds : fds[f] # c
      /\ \A k \in DOMAIN backlog : backlog[k] # c
  BY <1>1, Zenon DEF Idle
<1> HIDE DEF c, new
<1>6. /\ conn \in [Conns -> ConnType] /\ unit \in [Macs -> UnitType] /\ unit[m] \in UnitType
      /\ backlog \in Seq(Conns)
  BY Zenon DEF WorldInv, WorldType
<1>7. conn' \in [Conns -> ConnType] /\ conn'[c] = new /\ \A d \in Conns \ {c} : conn'[d] = conn[d]
  BY <1>1, <1>2, <1>4, <1>6, Zenon
<1>8. unit' \in [Macs -> UnitType] /\ unit'[m].phase = "dialed" /\ unit'[m].link = c
  BY <1>1, <1>2, <1>6, Zenon DEF UnitType, Phases
<1>9. /\ backlog' \in Seq(Conns) /\ Len(backlog') = Len(backlog) + 1 /\ Len(backlog) \in Nat
      /\ backlog' # <<>> /\ DOMAIN backlog = 1 .. Len(backlog)
      /\ backlog'[Len(backlog) + 1] = c
      /\ \A k \in 1 .. Len(backlog) : backlog'[k] = backlog[k] /\ backlog[k] \in Conns
  BY <1>1, <1>2, <1>6
<1>10. \A k \in 1 .. Len(backlog') : k \in 1 .. Len(backlog) \/ k = Len(backlog) + 1
  BY <1>9
<1>11. WorldType'
  BY <1>2, <1>7, <1>8, <1>9, Zenon DEF WorldInv, WorldType, thread
<1>12. FdInv'
  <2>1. \A i \in Slots : SlotFd(i)'
    BY <1>2, Zenon DEF WorldInv, FdInv, SlotFd, Connected, thread
  <2>2. \A f \in Fds : Accepted(f)'
    BY <1>2, <1>5, <1>7, Zenon DEF WorldInv, FdInv, Accepted, thread
  <2>3. ASSUME NEW k \in 1 .. Len(backlog') PROVE Waits(k)'
    <3>1. CASE k = Len(backlog) + 1
      BY <1>2, <1>4, <1>5, <1>7, <1>9, <1>10, <3>1, Zenon DEF Waits, thread
    <3>2. CASE k \in 1 .. Len(backlog)
      <4>1. backlog'[k] = backlog[k] /\ backlog[k] \in Conns /\ backlog[k] # c /\ Waits(k)
        BY <1>5, <1>9, <3>2, Zenon DEF WorldInv, FdInv
      <4> QED
        BY <1>2, <1>7, <1>9, <1>10, <4>1, Zenon DEF Waits, thread
    <3> QED
      BY <1>10, <3>1, <3>2, Zenon
  <2> QED
    BY <1>9, <2>1, <2>2, <2>3, Zenon DEF FdInv
<1>13. \A n \in Macs : n = m
  BY Zenon DEF OneUnit
<1>14. Asking(m)'
  <2>1. m \notin cfgq
    BY <1>2, Zenon DEF WorldInv, LinkInv, Asking
  <2> QED
    BY <1>2, <2>1, Zenon DEF Asking
<1>15. Live(m)'
  <2>1. In(m)' = <<>> /\ Out(m)' = <<>>
    BY <1>4, <1>7, <1>8, Zenon DEF In, Out
  <2>2. \A P : ~Carries(<<>>, P)
    BY CarriesNothing, Zenon
  <2>3. Single(<<>>)
    BY DEF Single
  <2>4. Talk(<<>>, <<>>, "dialed")
    BY <1>3, <2>2, <2>3, Zenon DEF Talk
  <2>5. \A i \in Slots : fds'[rrus'[i].fd] # c
    BY <1>2, <1>5, Zenon DEF WorldInv, FdInv, SlotFd, thread
  <2> QED
    BY <1>1, <1>4, <1>7, <1>8, <2>1, <2>2, <2>4, <2>5, Zenon DEF Live
<1> QED
  BY <1>11, <1>12, <1>13, <1>14, <1>15, Zenon DEF WorldInv, LinkInv

-----------------------------------------------------------------------------
(* The steps of the thread.  With one unit, one slot is ever used.          *)
LEMMA OneSlot ==
  ASSUME OneUnit, TableInv, NEW i \in Slots, NEW j \in Slots,
         rrus[i].mac # NoMac, rrus[j].mac # NoMac
  PROVE  i = j
<1>1. rrus[i].mac \in Macs /\ rrus[j].mac \in Macs
  BY Zenon DEF TableInv, Table, SlotType
<1> QED
  BY <1>1, Zenon DEF OneUnit, TableInv, MacsUnique

(* The unit's connection is as it was, and a slot that is occupied was      *)
(* in the same state on the same socket, or is on none.                     *)
LEMMA LinkFrame ==
  ASSUME WorldInv, UNCHANGED <<conn, backlog, cfgq, told, unit>>,
         \A i \in Slots : rrus'[i].state # "NONE" =>
           /\ rrus'[i].state = rrus[i].state
           /\ fds'[rrus'[i].fd] \in {fds[rrus[i].fd], NoConn}
  PROVE  LinkInv'
<1> SUFFICES ASSUME NEW m \in Macs PROVE Asking(m)' /\ Live(m)'
  BY Zenon DEF LinkInv
<1>1. Asking(m)'
  BY Zenon DEF WorldInv, LinkInv, Asking
<1>2. ASSUME Linked(m)' PROVE Live(m)'
  <2>1. Linked(m) /\ Live(m) /\ unit[m].link \in Conns
    BY <1>2, Zenon DEF WorldInv, LinkInv, Live, Linked
  <2>2. unit[m].link # NoConn
    BY <2>1, NumbersApart, Zenon
  <2>3. In(m)' = In(m) /\ Out(m)' = Out(m) /\ unit' = unit /\ backlog' = backlog
    BY Zenon DEF In, Out
  <2>4. \A i \in Slots : rrus'[i].state # "NONE" /\ fds'[rrus'[i].fd] = unit'[m].link
          => Agrees(rrus'[i].state, In(m)', Out(m)', unit'[m].configured)
    BY <2>1, <2>2, <2>3, Zenon DEF Live
  <2> QED
    BY <2>1, <2>3, <2>4, Zenon DEF Live
<1> QED
  BY <1>1, <1>2, Zenon DEF Live

(* Descriptors are closed or left; the rest of the world does not move.     *)
LEMMA QueueFrame ==
  ASSUME WorldInv, UNCHANGED backlog, \A c \in Conns : conn'[c].peer = conn[c].peer,
         \A f \in Fds : fds'[f] \in {fds[f], NoConn}
  PROVE  /\ \A f \in Fds : Accepted(f)'
         /\ \A k \in 1 .. Len(backlog') : Waits(k)'
<1>1. \A k \in 1 .. Len(backlog) : backlog[k] \in Conns
  <2>1. backlog \in Seq(Conns)
    BY Zenon DEF WorldInv, WorldType
  <2> QED
    BY <2>1
<1>2. \A f \in Fds : Accepted(f)'
  BY NumbersApart, Zenon DEF WorldInv, FdInv, Accepted
<1>3. \A k \in 1 .. Len(backlog) : Waits(k)'
  BY <1>1, NumbersApart, Zenon DEF WorldInv, FdInv, Waits
<1> QED
  BY <1>2, <1>3, Zenon

(* A slot in the next poll set is polled on its own, positive descriptor.   *)
LEMMA PollsOwn ==
  ASSUME TableInv, WorldInv, NEW i \in Slots
  PROVE  /\ PollSet[i] \in Int
         /\ PollSet[i] # -1 => rrus[i].fd # 0 /\ PollSet[i] = rrus[i].fd
<1>1. /\ rrus[i].fd \in Fds /\ (pollfds[i] # -1 => rrus[i].fd # 0)
      /\ pollfds[i] \in Int
  BY Zenon DEF WorldInv, WorldType, FdInv, SlotFd
<1>2. rrus[i].fd \in Nat
  BY <1>1, NumbersApart, Zenon
<1>3. PollSet[i] = IF i \in EmptySlots THEN -1
                   ELSE IF rrus[i].fd > 0 THEN rrus[i].fd ELSE pollfds[i]
  BY Zenon DEF PollSet
<1> HIDE DEF PollSet
<1> QED
  BY <1>1, <1>2, <1>3

(* The poll set is stored; of the slots, those are reported that poll found *)
(* readable.                                                                *)
LEMMA PollKeeps ==
  ASSUME TableInv, WorldInv, Poll
  PROVE  WorldInv'
<1>1. PICK tap \in BOOLEAN :
        /\ pollfds' = PollSet
        /\ revents' = Ready(PollSet) \cup (IF tap THEN {POLL_FD_TAP} ELSE {})
        /\ UNCHANGED <<rrus, recv_buf, dead, fds, conn, backlog, cfgq, told, unit>>
  BY ZenonT(40) DEF Poll
<1>2. WorldType'
  <2>1. PollSet \in [Slots -> Int]
    BY PollsOwn, Zenon DEF PollSet
  <2> QED
    BY <1>1, <2>1, Zenon DEF WorldInv, WorldType
<1>3. FdInv'
  <2>1. ASSUME NEW i \in Slots PROVE SlotFd(i)'
    <3>1. SlotFd(i)
      BY Zenon DEF WorldInv, FdInv
    <3>2. pollfds'[i] # -1 => rrus[i].fd # 0 /\ PollSet[i] = rrus[i].fd
      BY <1>1, PollsOwn, Zenon
    <3>3. ASSUME i \in revents' PROVE rrus[i].fd # 0 /\ fds[rrus[i].fd] \in Conns
      <4>1. i \in Ready(PollSet)
        BY <1>1, <3>3, NumbersApart, Zenon
      <4>2. PollSet[i] # -1 /\ fds[PollSet[i]] \in Conns
        BY <4>1, NumbersApart, Zenon DEF Ready, Polled
      <4> QED
        BY <1>1, <3>2, <4>2, Zenon
    <3> QED
      BY <1>1, <3>1, <3>2, <3>3, Zenon DEF SlotFd, Connected
  <2>2. POLL_FD_CONTROL \in revents' => backlog' # <<>>
    <3>1. POLL_FD_CONTROL \in Ready(PollSet) => backlog # <<>>
      BY NumbersApart, Zenon DEF Ready, Polled
    <3> QED
      BY <1>1, <3>1, NumbersApart, Zenon
  <2>3. (\A f \in Fds : Accepted(f)') /\ \A k \in 1 .. Len(backlog') : Waits(k)'
    BY <1>1, QueueFrame, Zenon
  <2> QED
    BY <2>1, <2>2, <2>3, Zenon DEF FdInv
<1>4. LinkInv'
  BY <1>1, LinkFrame, Zenon
<1> QED
  BY <1>2, <1>3, <1>4, Zenon DEF WorldInv

LEMMA QuietKeeps ==
  ASSUME OneUnit, TableInv, WorldInv, Quiet
  PROVE  WorldInv'
<1> DEFINE F == {rrus[i].fd : i \in Expired}
<1>1. /\ fds' = Close(F) /\ pollfds' = PollSet /\ revents' = {}
      /\ UNCHANGED <<conn, backlog, cfgq, told, unit>>
  BY Zenon DEF Quiet
<1>2. \A f \in Fds : fds'[f] = IF f \in F THEN NoConn ELSE fds[f]
  BY <1>1, Zenon DEF Close
<1>3. fds' \in [Fds -> Conns \cup {NoConn, Stdin}]
  BY <1>1, Zenon DEF Close, WorldInv, WorldType
<1>4. ASSUME NEW i \in Slots
      PROVE  /\ rrus'[i].fd = rrus[i].fd /\ rrus'[i].mac = rrus[i].mac /\ rrus'[i].ip = rrus[i].ip
             /\ rrus'[i].state = IF i \in Expired THEN "NONE" ELSE rrus[i].state
  <2>1. rrus[i] \in SlotType
    BY Zenon DEF TableInv, Table
  <2>2. CASE i \in Expired
    <3>0. i \notin EmptySlots
      BY <2>2, Zenon DEF Expired
    <3>1. rrus'[i] = [rrus[i] EXCEPT !.state = "NONE", !.timeout = 0]
      BY <2>2, <3>0, Zenon DEF Quiet
    <3> QED
      BY <2>1, <2>2, <3>1, Zenon DEF SlotType
  <2>3. CASE i \notin Expired /\ i \in EmptySlots
    BY <2>1, <2>3, Zenon DEF Quiet, SlotType
  <2>4. CASE i \notin Expired /\ i \notin EmptySlots
    BY <2>1, <2>4, Zenon DEF Quiet, SlotType
  <2> QED
    BY <2>2, <2>3, <2>4, Zenon
<1>5. ASSUME NEW i \in Slots, rrus[i].mac # NoMac, i \notin Expired PROVE F = {}
  <2>1. ASSUME NEW j \in Expired PROVE FALSE
    <3>1. j \in Slots /\ rrus[j].mac # NoMac
      BY <2>1, Zenon DEF Expired, EmptySlots, TableInv, OccupiedNamed
    <3> QED
      BY <1>5, <3>1, OneSlot, Zenon
  <2> QED
    BY <2>1, Zenon
<1> HIDE DEF F
<1>6. WorldType'
  <2>1. PollSet \in [Slots -> Int]
    BY PollsOwn, Zenon DEF PollSet
  <2> QED
    BY <1>1, <1>3, <2>1, Zenon DEF WorldInv, WorldType
<1>7. ASSUME NEW i \in Slots PROVE SlotFd(i)'
  <2>1. SlotFd(i) /\ rrus[i].fd \in Fds /\ 0 \in Fds
    BY NumbersApart, Zenon DEF WorldInv, FdInv, SlotFd
  <2>2. ASSUME rrus[i].fd # 0 PROVE fds'[0] # NoConn
    <3>1. rrus[i].mac # NoMac /\ fds[0] # NoConn
      BY <2>1, <2>2, Zenon DEF SlotFd
    <3>2. 0 \notin F
      <4>1. ASSUME NEW j \in Expired, rrus[j].fd = 0 PROVE FALSE
        <5>1. j \in Slots /\ rrus[j].mac # NoMac
          BY <4>1, Zenon DEF Expired, EmptySlots, TableInv, OccupiedNamed
        <5> QED
          BY <2>2, <3>1, <4>1, <5>1, OneSlot, Zenon
      <4> QED
        BY <4>1, Zenon DEF F
    <3> QED
      BY <1>2, <2>1, <3>1, <3>2, Zenon
  <2>3. ASSUME Connected(i)' PROVE fds'[rrus[i].fd] \in Conns
    <3>1. i \notin Expired /\ Connected(i) /\ rrus[i].state # "NONE"
      BY <1>4, <2>3, Zenon DEF Connected
    <3>2. F = {}
      BY <1>5, <3>1, Zenon DEF TableInv, OccupiedNamed
    <3> QED
      BY <1>2, <2>1, <3>1, <3>2, Zenon DEF SlotFd
  <2>4. pollfds'[i] # -1 => rrus[i].fd # 0
    BY <1>1, PollsOwn, Zenon
  <2> QED
    BY <1>1, <1>4, <2>1, <2>2, <2>3, <2>4, Zenon DEF SlotFd
<1>8. (\A f \in Fds : Accepted(f)') /\ \A k \in 1 .. Len(backlog') : Waits(k)'
  BY <1>1, <1>2, QueueFrame, Zenon
<1>9. FdInv'
  BY <1>1, <1>7, <1>8, Zenon DEF FdInv
<1>10. LinkInv'
  <2>1. \A i \in Slots : rrus[i].fd \in Fds
    BY Zenon DEF WorldInv, FdInv, SlotFd
  <2>2. \A i \in Slots : rrus'[i].state # "NONE" =>
          /\ rrus'[i].state = rrus[i].state
          /\ fds'[rrus'[i].fd] \in {fds[rrus[i].fd], NoConn}
    BY <1>2, <1>4, <2>1, Zenon
  <2> QED
    BY <1>1, <2>2, LinkFrame, Zenon
<1> QED
  BY <1>6, <1>9, <1>10, Zenon DEF WorldInv

LEMMA TapKeeps ==
  ASSUME WorldInv, TapPacket \/ TapFailed \/ UNCHANGED vars
  PROVE  WorldInv'
<1>1. /\ UNCHANGED <<rrus, pollfds, fds, conn, backlog, cfgq, told, unit>>
      /\ revents' \subseteq revents
  BY Zenon DEF TapPacket, TapFailed, vars, thread
<1>2. WorldType'
  BY <1>1, Zenon DEF WorldInv, WorldType
<1>3. \A i \in Slots : SlotFd(i)'
  BY <1>1, Zenon DEF WorldInv, FdInv, SlotFd, Connected
<1>4. (\A f \in Fds : Accepted(f)') /\ \A k \in 1 .. Len(backlog') : Waits(k)'
  BY <1>1, QueueFrame, Zenon
<1>5. FdInv'
  BY <1>1, <1>3, <1>4, Zenon DEF WorldInv, FdInv
<1>6. LinkInv'
  BY <1>1, LinkFrame, Zenon
<1> QED
  BY <1>2, <1>5, <1>6, Zenon DEF WorldInv

(* A registration changes a slot only while its unit is not connected.      *)
LEMMA CfgRequestKeeps ==
  ASSUME OneUnit, TableInv, WorldInv, NEW m \in Macs, CfgRequest(m)
  PROVE  WorldInv'
<1> DEFINE old == find_rru_by_mac(m)
           cand == IF old # {} THEN old ELSE EmptySlots
           i == Min(cand)
           reset == rrus[i].need_reset \/ old = {}
<1>1. cand # {}
  BY FullTableHasAll, Zenon
<1>2. i \in Slots
  <2>1. cand \in SUBSET Slots
    BY Zenon DEF find_rru_by_mac, EmptySlots
  <2> QED
    BY <1>1, <2>1, SlotsAreNat, MinIsMember, Zenon
<1>3. /\ rrus' = [rrus EXCEPT ![i] = Registered(@, m, @.need_reset \/ old = {})]
      /\ cfgq' = cfgq \ {m} /\ told' = told \cup {m} /\ m \in cfgq
      /\ revents' = revents \ {POLL_FD_CFG}
      /\ UNCHANGED <<pollfds, fds, conn, backlog, unit>>
  BY <1>1, ZenonT(40) DEF CfgRequest
<1> HIDE DEF i
<1>4. rrus[i] \in SlotType /\ rrus \in [Slots -> SlotType]
  BY <1>2, Zenon DEF TableInv, Table
<1>5. rrus'[i] = Registered(rrus[i], m, reset) /\ \A j \in Slots \ {i} : rrus'[j] = rrus[j]
  BY <1>2, <1>3, <1>4, Zenon
<1> HIDE DEF reset
<1>6. /\ rrus'[i].fd = rrus[i].fd /\ rrus'[i].mac = m /\ rrus'[i].ip = m
      /\ rrus'[i].state = "INIT"
  BY <1>4, <1>5, Zenon DEF Registered, SlotType
<1>7. WorldType'
  BY <1>3, Zenon DEF WorldInv, WorldType
<1>8. ASSUME NEW j \in Slots PROVE SlotFd(j)'
  <2>1. SlotFd(j)
    BY Zenon DEF WorldInv, FdInv
  <2>2. CASE j = i
    <3>1. m # NoMac
      BY RruAssumption, Zenon
    <3> QED
      BY <1>3, <1>6, <2>1, <2>2, <3>1, Zenon DEF SlotFd, Connected
  <2>3. CASE j # i
    BY <1>3, <1>5, <2>1, <2>3, Zenon DEF SlotFd, Connected
  <2> QED
    BY <2>2, <2>3, Zenon
<1>9. (\A f \in Fds : Accepted(f)') /\ \A k \in 1 .. Len(backlog') : Waits(k)'
  BY <1>3, QueueFrame, Zenon
<1>10. FdInv'
  BY <1>3, <1>8, <1>9, Zenon DEF WorldInv, FdInv
<1>11. unit[m].phase = "asked"
  BY <1>3, Zenon DEF WorldInv, LinkInv, Asking
<1>12. Asking(m)' /\ Live(m)'
  BY <1>3, <1>11, Zenon DEF Asking, Live, Linked
<1>13. LinkInv'
  BY <1>12, Zenon DEF LinkInv, OneUnit
<1> QED
  BY <1>7, <1>10, <1>13, Zenon DEF WorldInv

(* A handler leaves the slot with its descriptor and address.               *)
LEMMA HandledKeepsFd ==
  ASSUME NEW r \in SlotType, NEW m
  PROVE  /\ Handled(r, m).fd = r.fd /\ Handled(r, m).mac = r.mac /\ Handled(r, m).ip = r.ip
         /\ Handled(r, m).state = process_rru_message(r, m)[2]
BY Zenon DEF Handled, SlotType

(* The slot being read: a message is handled, which opens or closes nothing.*)
LEMMA ServeFd ==
  ASSUME TableInv, WorldInv, NEW i \in Slots, i \in revents, NEW m,
         rrus' = [rrus EXCEPT ![i] = Handled(@, m)], revents' = revents \ {i},
         UNCHANGED <<pollfds, fds, backlog>>, \A c \in Conns : conn'[c].peer = conn[c].peer
  PROVE  FdInv'
<1>1. rrus[i] \in SlotType /\ rrus \in [Slots -> SlotType]
  BY Zenon DEF TableInv, Table
<1>2. rrus'[i] = Handled(rrus[i], m) /\ \A j \in Slots \ {i} : rrus'[j] = rrus[j]
  BY <1>1, Zenon
<1>3. rrus'[i].fd = rrus[i].fd /\ rrus'[i].mac = rrus[i].mac /\ rrus'[i].ip = rrus[i].ip
  BY <1>1, <1>2, HandledKeepsFd, Zenon
<1>4. ASSUME NEW j \in Slots PROVE SlotFd(j)'
  <2>1. SlotFd(j)
    BY Zenon DEF WorldInv, FdInv
  <2>2. CASE j = i
    BY <1>3, <2>1, <2>2, Zenon DEF SlotFd
  <2>3. CASE j # i
    BY <1>2, <2>1, <2>3, Zenon DEF SlotFd, Connected
  <2> QED
    BY <2>2, <2>3, Zenon
<1>5. (\A f \in Fds : Accepted(f)') /\ \A k \in 1 .. Len(backlog') : Waits(k)'
  BY QueueFrame, Zenon
<1> QED
  BY <1>4, <1>5, Zenon DEF WorldInv, FdInv

LEMMA ReadEofKeeps ==
  ASSUME OneUnit, TableInv, WorldInv, NEW i \in Slots, ReadEof(i)
  PROVE  WorldInv'
<1>1. /\ rrus' = [rrus EXCEPT ![i].state = "NONE"] /\ fds' = Close({rrus[i].fd})
      /\ revents' = revents \ {i} /\ i \in revents /\ i \notin EmptySlots
      /\ UNCHANGED <<pollfds, conn, backlog, cfgq, told, unit>>
  BY Zenon DEF ReadEof, Serving
<1>2. rrus[i] \in SlotType /\ rrus \in [Slots -> SlotType]
  BY Zenon DEF TableInv, Table
<1>3. /\ rrus'[i].fd = rrus[i].fd /\ rrus'[i].mac = rrus[i].mac /\ rrus'[i].ip = rrus[i].ip
      /\ rrus'[i].state = "NONE" /\ \A j \in Slots \ {i} : rrus'[j] = rrus[j]
  BY <1>1, <1>2, Zenon DEF SlotType
<1>4. \A f \in Fds : fds'[f] = IF f = rrus[i].fd THEN NoConn ELSE fds[f]
  BY <1>1, Zenon DEF Close
<1>5. WorldType'
  BY <1>1, Zenon DEF Close, WorldInv, WorldType
<1>6. rrus[i].mac # NoMac /\ rrus[i].fd # 0 /\ rrus[i].fd \in Fds /\ fds[0] # NoConn
  BY <1>1, Zenon DEF EmptySlots, TableInv, OccupiedNamed, WorldInv, FdInv, SlotFd
<1>7. ASSUME NEW j \in Slots PROVE SlotFd(j)'
  <2>1. SlotFd(j) /\ fds'[0] # NoConn
    BY <1>4, <1>6, NumbersApart, Zenon DEF WorldInv, FdInv
  <2>2. CASE j = i
    BY <1>1, <1>3, <2>1, <2>2, Zenon DEF SlotFd, Connected
  <2>3. CASE j # i
    <3>1. rrus[j].mac = NoMac
      BY <1>6, <2>3, OneSlot, Zenon
    <3>2. rrus[j].fd = 0 /\ rrus'[j] = rrus[j]
      BY <1>3, <2>1, <2>3, <3>1, Zenon DEF SlotFd
    <3> QED
      BY <1>1, <1>4, <1>6, <2>1, <3>2, NumbersApart, Zenon DEF SlotFd, Connected
  <2> QED
    BY <2>2, <2>3, Zenon
<1>8. (\A f \in Fds : Accepted(f)') /\ \A k \in 1 .. Len(backlog') : Waits(k)'
  BY <1>1, <1>4, QueueFrame, Zenon
<1>9. FdInv'
  BY <1>1, <1>7, <1>8, Zenon DEF WorldInv, FdInv
<1>10. LinkInv'
  <2>1. \A j \in Slots : rrus[j].fd \in Fds
    BY Zenon DEF WorldInv, FdInv, SlotFd
  <2>2. \A j \in Slots : rrus'[j].state # "NONE" =>
          /\ rrus'[j].state = rrus[j].state
          /\ fds'[rrus'[j].fd] \in {fds[rrus[j].fd], NoConn}
    BY <1>3, <1>4, <2>1, Zenon
  <2> QED
    BY <1>1, <2>2, LinkFrame, Zenon
<1> QED
  BY <1>5, <1>9, <1>10, Zenon DEF WorldInv

(* A read fails only on a connection its unit has reset and left.           *)
LEMMA ReadErrorKeeps ==
  ASSUME OneUnit, TableInv, WorldInv, NEW i \in Slots, ReadError(i)
  PROVE  WorldInv'
<1> DEFINE c == fds[rrus[i].fd]
           new == [conn[c] EXCEPT !.end = "fin"]
<1>1. /\ revents' = revents \ {i} /\ i \in revents /\ i \notin EmptySlots
      /\ UNCHANGED <<pollfds, fds, backlog, cfgq, told, unit>>
  BY Zenon DEF ReadError, Serving
<1>2. PICK m : rrus' = [rrus EXCEPT ![i] = Handled(@, m)]
  BY Zenon DEF ReadError
<1>3. c \in Conns /\ c # NoConn
  BY <1>1, NumbersApart, Zenon DEF WorldInv, FdInv, SlotFd
<1>4. conn[c].end = "rst" /\ conn' = [conn EXCEPT ![c] = new]
  BY <1>3, Zenon DEF ReadError
<1>5. conn \in [Conns -> ConnType] /\ conn[c] \in ConnType
  BY <1>3, Zenon DEF WorldInv, WorldType
<1> HIDE DEF c
<1>6. new \in ConnType /\ new.peer = conn[c].peer
  BY <1>5, Zenon DEF ConnType
<1> HIDE DEF new
<1>7. conn' \in [Conns -> ConnType] /\ \A d \in Conns : conn'[d].peer = conn[d].peer
  BY <1>3, <1>4, <1>5, <1>6, ConnField, Zenon
<1>8. WorldType'
  BY <1>1, <1>7, Zenon DEF WorldInv, WorldType
<1>9. FdInv'
  BY <1>1, <1>2, <1>7, ServeFd, Zenon
<1>10. ASSUME NEW n \in Macs PROVE Asking(n)' /\ Live(n)'
  <2>1. Asking(n) /\ Live(n)
    BY Zenon DEF WorldInv, LinkInv
  <2>2. Asking(n)'
    BY <1>1, <2>1, Zenon DEF Asking
  <2>3. ASSUME Linked(n)' PROVE Live(n)'
    <3>1. Linked(n) /\ unit[n].link \in Conns /\ conn[unit[n].link].end = "open"
      BY <1>1, <2>1, <2>3, Zenon DEF Linked, Live
    <3>2. unit[n].link # c
      BY <1>4, <3>1, Zenon
    <3>3. conn'[unit[n].link] = conn[unit[n].link]
      BY <1>4, <1>5, <3>1, <3>2, Zenon
    <3>4. In(n)' = In(n) /\ Out(n)' = Out(n)
      BY <1>1, <3>3, Zenon DEF In, Out
    <3>5. ASSUME NEW j \in Slots, rrus'[j].state # "NONE", fds'[rrus'[j].fd] = unit[n].link
          PROVE  Agrees(rrus'[j].state, In(n), Out(n), unit[n].configured)
      <4>1. rrus[i] \in SlotType /\ rrus \in [Slots -> SlotType]
        BY Zenon DEF TableInv, Table
      <4>2. rrus'[i] = Handled(rrus[i], m) /\ \A l \in Slots \ {i} : rrus'[l] = rrus[l]
        BY <1>2, <4>1, Zenon
      <4>3. rrus'[i].fd = rrus[i].fd
        <5>1. Handled(rrus[i], m).fd = rrus[i].fd
          BY <4>1, HandledKeepsFd, Zenon
        <5> QED
          BY <4>2, <5>1, Zenon
      <4>4. j # i
        BY <1>1, <3>2, <3>5, <4>3, Zenon DEF c
      <4>5. rrus'[j] = rrus[j] /\ fds' = fds
        BY <1>1, <4>2, <4>4, Zenon
      <4>6. rrus[j].state # "NONE" /\ fds[rrus[j].fd] = unit[n].link
        BY <3>5, <4>5, Zenon
      <4>7. Agrees(rrus[j].state, In(n), Out(n), unit[n].configured)
        BY <2>1, <3>1, <4>6, Zenon DEF Live
      <4> QED
        BY <4>5, <4>7, Zenon
    <3> QED
      BY <1>1, <2>1, <3>1, <3>3, <3>4, <3>5, Zenon DEF Live
  <2> QED
    BY <2>2, <2>3, Zenon DEF Live
<1> QED
  BY <1>8, <1>9, <1>10, Zenon DEF WorldInv, LinkInv

(* The first message that has arrived is handled and answered, on the live  *)
(* connection of the unit or on one it has left.                            *)
LEMMA ReadMessageKeeps ==
  ASSUME OneUnit, TableInv, WorldInv, NEW i \in Slots, ReadMessage(i)
  PROVE  WorldInv'
<1> DEFINE c == fds[rrus[i].fd]
           m == Head(conn[c].in)
           q == process_rru_message(rrus[i], m)[1]
           st == process_rru_message(rrus[i], m)[2]
           out == IF q = Junk THEN conn[c].out ELSE Append(conn[c].out, q)
           new == [conn[c] EXCEPT !.in = <<>>, !.out = out]
<1>1. /\ revents' = revents \ {i} /\ i \in revents /\ i \notin EmptySlots
      /\ c \in Conns /\ conn[c].in # <<>>
      /\ UNCHANGED <<pollfds, fds, backlog, cfgq, told, unit>>
  BY Zenon DEF ReadMessage, Serving
<1>2. /\ conn \in [Conns -> ConnType] /\ conn[c] \in ConnType
      /\ rrus[i] \in SlotType /\ rrus \in [Slots -> SlotType]
  BY <1>1, Zenon DEF WorldInv, WorldType, TableInv, Table
<1>3. /\ rrus' = [rrus EXCEPT ![i] = Handled(@, m)]
      /\ conn' = Answer(rrus[i], m, [conn EXCEPT ![c].in = <<>>])
  BY Zenon DEF ReadMessage
<1>4. conn[c].in \in Seq(RruMsgs) /\ conn[c].out \in Seq(Outputs)
  BY <1>2, Zenon DEF ConnType
<1>5. m \in RruMsgs
  <2> HIDE DEF c
  <2> QED
    BY <1>1, <1>4, HeadIn, Zenon
<1>6. q \in Outputs \cup {Junk}
  <2> DEFINE r == rrus[i]
  <2> HIDE DEF m, q, st, r
  <2>1. q = process_rru_message(r, m)[1] /\ st = process_rru_message(r, m)[2]
    BY Zenon DEF q, st, r
  <2> QED
    BY <1>5, <2>1, Dispatch
<1>7. conn' = [conn EXCEPT ![c] = new]
  <2> HIDE DEF m
  <2>1. CASE q = Junk
    <3>1. conn' = [conn EXCEPT ![c].in = <<>>] /\ out = conn[c].out
      BY <1>1, <1>3, <2>1, Zenon DEF Answer
    <3>2. [conn[c] EXCEPT !.in = <<>>] = new
      <4> HIDE DEF c, q, out
      <4> QED
        BY <1>2, <3>1, KeepsOut, Zenon
    <3> QED
      BY <3>1, <3>2, Zenon
  <2>2. CASE q # Junk
    <3> DEFINE cs == [conn EXCEPT ![c].in = <<>>]
    <3>1. conn' = [cs EXCEPT ![c].out = Append(@, q)] /\ out = Append(conn[c].out, q)
      BY <1>1, <1>3, <2>2, Zenon DEF Answer
    <3>2. cs \in [Conns -> ConnType] /\ cs[c] = [conn[c] EXCEPT !.in = <<>>]
          /\ \A d \in Conns \ {c} : cs[d] = conn[d]
      <4>1. <<>> \in Seq(RruMsgs)
        OBVIOUS
      <4> QED
        BY <1>1, <1>2, <4>1, Zenon DEF ConnType
    <3> HIDE DEF cs, q, out
    <3>3. cs[c].out = conn[c].out
      BY <1>2, <3>2, Zenon DEF ConnType
    <3>4. [cs[c] EXCEPT !.out = Append(@, q)] = new
      BY <3>1, <3>2, <3>3, Zenon
    <3>5. conn' = [cs EXCEPT ![c] = new]
      BY <3>1, <3>4, Zenon
    <3> QED
      BY <1>2, <3>2, <3>5, Zenon
  <2> QED
    BY <2>1, <2>2, Zenon
<1>8. out \in Seq(Outputs) /\ <<>> \in Seq(RruMsgs)
  <2> HIDE DEF q
  <2>1. q # Junk => Append(conn[c].out, q) \in Seq(Outputs)
    <3> HIDE DEF c
    <3> QED
      BY <1>4, <1>6
  <2>2. <<>> \in Seq(RruMsgs)
    OBVIOUS
  <2> QED
    BY <1>4, <2>1, <2>2, Zenon
<1> HIDE DEF c, m, q, st, out
<1>9. /\ new \in ConnType /\ new.peer = conn[c].peer /\ new.end = conn[c].end
      /\ new.in = <<>> /\ new.out = out
  BY <1>2, <1>8, Zenon DEF ConnType
<1> HIDE DEF new
<1>10. /\ conn' \in [Conns -> ConnType] /\ conn'[c] = new
       /\ \A d \in Conns : conn'[d].peer = conn[d].peer
  BY <1>1, <1>2, <1>7, <1>9, ConnField, Zenon
<1>11. WorldType'
  BY <1>1, <1>10, Zenon DEF WorldInv, WorldType
<1>12. FdInv'
  BY <1>1, <1>3, <1>10, ServeFd, Zenon
<1>13. /\ rrus'[i].fd = rrus[i].fd /\ rrus'[i].state = st
       /\ \A l \in Slots \ {i} : rrus'[l] = rrus[l]
  <2>1. rrus'[i] = Handled(rrus[i], m) /\ \A l \in Slots \ {i} : rrus'[l] = rrus[l]
    BY <1>2, <1>3, Zenon
  <2>2. /\ Handled(rrus[i], m).fd = rrus[i].fd
        /\ Handled(rrus[i], m).state = process_rru_message(rrus[i], m)[2]
    BY <1>2, HandledKeepsFd, Zenon
  <2> QED
    BY <2>1, <2>2, Zenon DEF st
<1>14. ASSUME NEW n \in Macs, Linked(n)' PROVE Live(n)'
  <2>1. /\ Live(n) /\ Linked(n) /\ unit[n].link \in Conns
        /\ conn[unit[n].link].end = "open" /\ Talk(In(n), Out(n), unit[n].phase)
    BY <1>1, <1>14, Zenon DEF WorldInv, LinkInv, Linked, Live
  <2>2. CASE unit[n].link # c
    <3>1. conn'[unit[n].link] = conn[unit[n].link]
      BY <1>2, <1>7, <2>1, <2>2, Zenon
    <3>2. In(n)' = In(n) /\ Out(n)' = Out(n)
      BY <1>1, <3>1, Zenon DEF In, Out
    <3>3. ASSUME NEW j \in Slots, rrus'[j].state # "NONE", fds'[rrus'[j].fd] = unit[n].link
          PROVE  Agrees(rrus'[j].state, In(n), Out(n), unit[n].configured)
      <4>1. j # i
        BY <1>1, <1>13, <2>2, <3>3, Zenon DEF c
      <4> QED
        BY <1>1, <1>13, <2>1, <3>3, <4>1, Zenon DEF Live
    <3> QED
      BY <1>1, <2>1, <3>1, <3>2, <3>3, Zenon DEF Live
  <2>3. CASE unit[n].link = c
    <3>1. /\ In(n) = conn[c].in /\ Out(n) = conn[c].out
          /\ In(n)' = <<>> /\ Out(n)' = out /\ conn'[unit[n].link].end = "open"
      BY <1>1, <1>9, <1>10, <2>1, <2>3, Zenon DEF In, Out
    <3>2. rrus[i].state # "NONE" /\ rrus[i].mac # NoMac
      BY <1>1, Zenon DEF EmptySlots, TableInv, OccupiedNamed
    <3>3. Agrees(rrus[i].state, conn[c].in, conn[c].out, unit[n].configured)
      BY <2>1, <2>3, <3>1, <3>2, Zenon DEF Live, c
    <3>4. Talk(<<>>, out, unit[n].phase) /\ Agrees(st, <<>>, out, unit[n].configured)
      <4>1. Talk(conn[c].in, conn[c].out, unit[n].phase)
        BY <2>1, <3>1, Zenon
      <4>2. /\ q = process_rru_message(rrus[i], Head(conn[c].in))[1]
            /\ st = process_rru_message(rrus[i], Head(conn[c].in))[2]
            /\ out = IF q = Junk THEN conn[c].out ELSE Append(conn[c].out, q)
        BY Zenon DEF q, st, out, m
      <4> QED
        BY <1>1, <3>3, <4>1, <4>2, TalkRead, Zenon
    <3>5. ASSUME NEW k \in 1 .. Len(backlog) PROVE backlog[k] # c
      BY Zenon DEF WorldInv, FdInv, Waits, SlotFd, c
    <3>6. ASSUME NEW j \in Slots, rrus'[j].state # "NONE", fds'[rrus'[j].fd] = unit[n].link
          PROVE  Agrees(rrus'[j].state, <<>>, out, unit[n].configured)
      <4>1. j = i
        <5>1. j # i => rrus[j].mac # NoMac
          BY <1>13, <3>6, Zenon DEF TableInv, OccupiedNamed
        <5> QED
          BY <3>2, <5>1, OneSlot, Zenon
      <4> QED
        BY <1>13, <3>4, <4>1, Zenon
    <3> QED
      BY <1>1, <2>1, <2>3, <3>1, <3>4, <3>5, <3>6, Zenon DEF Live
  <2> QED
    BY <2>2, <2>3, Zenon
<1>15. LinkInv'
  <2>1. \A n \in Macs : Asking(n)'
    BY <1>1, Zenon DEF WorldInv, LinkInv, Asking
  <2> QED
    BY <1>14, <2>1, Zenon DEF LinkInv, Live
<1> QED
  BY <1>11, <1>12, <1>15, Zenon DEF WorldInv

(* A connection is accepted on the lowest free descriptor: the unit's slot  *)
(* takes it if it waits for one, and then nothing has been said on it.      *)
LEMMA AcceptKeeps ==
  ASSUME OneUnit, TableInv, WorldInv, Accept
  PROVE  WorldInv'
<1> DEFINE free == {f \in Fds : fds[f] = NoConn}
           fd == Min(free)
           c == Head(backlog)
           found == find_rru_by_ip(conn[c].peer)
           taken == [j \in Slots |->
             IF found # {} /\ j = Min(found) /\ rrus[j].state = "INIT"
             THEN [rrus[j] EXCEPT !.state = "CONNECTED", !.fd = fd, !.timeout = 0]
             ELSE rrus[j]]
<1>1. /\ POLL_FD_CONTROL \in revents /\ free # {}
      /\ fds' = [fds EXCEPT ![fd] = c] /\ backlog' = Tail(backlog)
      /\ revents' = revents \ {POLL_FD_CONTROL}
      /\ UNCHANGED <<pollfds, conn, cfgq, told, unit>>
  BY ZenonT(40) DEF Accept
<1>2. rrus' = taken
  BY ZenonT(40) DEF Accept
<1>3. /\ backlog \in Seq(Conns) /\ backlog # <<>>
      /\ fds \in [Fds -> Conns \cup {NoConn, Stdin}] /\ rrus \in [Slots -> SlotType]
  BY <1>1, Zenon DEF WorldInv, WorldType, FdInv, TableInv, Table
<1>4. /\ c = backlog[1] /\ c \in Conns /\ 1 \in 1 .. Len(backlog)
      /\ backlog' \in Seq(Conns)
      /\ \A k \in 1 .. Len(backlog') :
           backlog'[k] = backlog[k + 1] /\ k + 1 \in 1 .. Len(backlog) /\ k + 1 # 1
      /\ \A k, l \in 1 .. Len(backlog') : k + 1 = l + 1 => k = l
  BY <1>1, <1>3
<1>5. /\ fd \in Fds /\ fds[fd] = NoConn
      /\ \A f \in free : fd =< f
  <2>1. free \in SUBSET Fds
    BY Zenon
  <2>2. fd \in free /\ \A f \in free : fd =< f
    BY <1>1, <2>1, NumbersApart, MinIsMember, Zenon
  <2> QED
    BY <2>2, Zenon
<1>6. fds[0] = NoConn => fd = 0
  <2>1. 0 \in Fds /\ fd \in Nat
    BY <1>5, NumbersApart, Zenon
  <2>2. fds[0] = NoConn => fd =< 0
    BY <1>5, <2>1, Zenon
  <2> HIDE DEF fd
  <2> QED
    BY <2>1, <2>2
<1>7. conn[c].peer \in Macs
  <2>1. Waits(1)
    BY <1>4, Zenon DEF WorldInv, FdInv
  <2> QED
    BY <1>4, <2>1, Zenon DEF Waits
<1>8. ASSUME NEW j \in Slots, rrus[j].mac # NoMac PROVE found # {} /\ Min(found) = j
  <2>1. rrus[j].mac \in Macs /\ rrus[j].ip = rrus[j].mac
    BY <1>3, <1>8, Zenon DEF SlotType, WorldInv, FdInv, SlotFd
  <2>2. j \in found
    BY <1>7, <2>1, Zenon DEF find_rru_by_ip, OneUnit
  <2>3. found \in SUBSET Slots
    BY Zenon DEF find_rru_by_ip
  <2>4. Min(found) \in found
    BY <2>2, <2>3, SlotsAreNat, MinIsMember, Zenon
  <2>5. Min(found) \in Slots /\ rrus[Min(found)].ip \in Macs
    BY <1>7, <2>4, Zenon DEF find_rru_by_ip
  <2>6. rrus[Min(found)].mac # NoMac
    BY <2>5, RruAssumption, Zenon DEF WorldInv, FdInv, SlotFd
  <2> HIDE DEF found
  <2> QED
    BY <1>8, <2>2, <2>5, <2>6, OneSlot, Zenon
<1> HIDE DEF c, fd, found
<1>9. ASSUME NEW j \in Slots
      PROVE  \/ /\ rrus[j].state = "INIT" /\ rrus[j].mac # NoMac /\ rrus'[j].state = "CONNECTED"
                /\ rrus'[j].fd = fd /\ rrus'[j].mac = rrus[j].mac /\ rrus'[j].ip = rrus[j].ip
             \/ rrus[j].state # "INIT" /\ rrus'[j] = rrus[j]
  <2>1. CASE rrus[j].state = "INIT"
    <3>1. rrus[j].mac # NoMac /\ rrus[j] \in SlotType
      BY <1>3, <2>1, Zenon DEF TableInv, OccupiedNamed
    <3>2. rrus'[j] = [rrus[j] EXCEPT !.state = "CONNECTED", !.fd = fd, !.timeout = 0]
      BY <1>2, <1>8, <2>1, <3>1, Zenon
    <3> QED
      BY <2>1, <3>1, <3>2, Zenon DEF SlotType
  <2>2. CASE rrus[j].state # "INIT"
    BY <1>2, <2>2, Zenon
  <2> QED
    BY <2>1, <2>2, Zenon
<1> HIDE DEF taken
<1>10. /\ fds'[fd] = c /\ c # NoConn
       /\ \A f \in Fds : f # fd => fds'[f] = fds[f]
  BY <1>1, <1>3, <1>4, <1>5, NumbersApart, Zenon
<1>11. WorldType'
  <2>1. fds' \in [Fds -> Conns \cup {NoConn, Stdin}]
    BY <1>1, <1>3, <1>4, Zenon
  <2> QED
    BY <1>1, <1>4, <2>1, Zenon DEF WorldInv, WorldType
<1>12. ASSUME NEW j \in Slots PROVE SlotFd(j)'
  <2>1. SlotFd(j) /\ 0 \in Fds
    BY NumbersApart, Zenon DEF WorldInv, FdInv
  <2>2. j \in revents' => j \in revents
    BY <1>1, Zenon
  <2>3. CASE /\ rrus[j].mac # NoMac /\ rrus'[j].state = "CONNECTED"
             /\ rrus'[j].fd = fd /\ rrus'[j].mac = rrus[j].mac /\ rrus'[j].ip = rrus[j].ip
    <3>1. rrus[j].fd # 0 => fd # 0
      BY <1>5, <2>1, Zenon DEF SlotFd
    <3>2. fd # 0 => fds'[0] # NoConn
      BY <1>6, <1>10, <2>1, Zenon
    <3> QED
      BY <1>1, <1>4, <1>5, <1>10, <2>1, <2>2, <2>3, <3>1, <3>2, Zenon DEF SlotFd
  <2>4. CASE rrus[j].state # "INIT" /\ rrus'[j] = rrus[j]
    <3>1. rrus[j].fd \in Fds /\ (fds[0] # NoConn => fds'[0] # NoConn)
      BY <1>10, <2>1, Zenon DEF SlotFd
    <3>2. fds[rrus[j].fd] \in Conns => fds'[rrus[j].fd] \in Conns
      BY <1>4, <1>10, <3>1, Zenon
    <3> QED
      BY <1>1, <2>1, <2>2, <2>4, <3>1, <3>2, Zenon DEF SlotFd, Connected
  <2> QED
    BY <1>9, <2>3, <2>4, Zenon
<1>13. \A f \in Fds : Accepted(f)'
  BY <1>1, <1>7, <1>10, Zenon DEF WorldInv, FdInv, Accepted
<1>14. ASSUME NEW k \in 1 .. Len(backlog') PROVE Waits(k)'
  <2>1. /\ k + 1 \in 1 .. Len(backlog) /\ k + 1 # 1 /\ backlog'[k] = backlog[k + 1]
    BY <1>4, Zenon
  <2>2. Waits(k + 1)
    BY <2>1, Zenon DEF WorldInv, FdInv
  <2>3. backlog'[k] # c
    BY <1>4, <2>1, <2>2, Zenon DEF Waits
  <2>4. \A f \in Fds : fds'[f] # backlog'[k]
    BY <1>10, <2>1, <2>2, <2>3, Zenon DEF Waits
  <2>5. ASSUME NEW l \in 1 .. Len(backlog'), backlog'[l] = backlog'[k] PROVE l = k
    <3>1. l + 1 = k + 1
      BY <1>4, <2>1, <2>2, <2>5, Zenon DEF Waits
    <3> QED
      BY <1>4, <3>1, Zenon
  <2> QED
    BY <1>1, <2>1, <2>2, <2>4, <2>5, Zenon DEF Waits
<1>15. FdInv'
  BY <1>1, <1>12, <1>13, <1>14, Zenon DEF FdInv
<1>16. ASSUME NEW n \in Macs, Linked(n)' PROVE Live(n)'
  <2>1. Live(n) /\ Linked(n) /\ In(n)' = In(n) /\ Out(n)' = Out(n)
    BY <1>1, <1>16, Zenon DEF WorldInv, LinkInv, Linked, In, Out
  <2>2. \A k \in 1 .. Len(backlog') :
          backlog'[k] = unit[n].link => Out(n) = <<>> /\ ~Carries(In(n), {"cell_resp"})
    BY <1>4, <2>1, Zenon DEF Live
  <2>3. ASSUME NEW j \in Slots, rrus'[j].state # "NONE", fds'[rrus'[j].fd] = unit[n].link
        PROVE  Agrees(rrus'[j].state, In(n), Out(n), unit[n].configured)
    <3>1. CASE rrus'[j].state = "CONNECTED" /\ rrus'[j].fd = fd
      <4>1. c = unit[n].link
        BY <1>10, <2>3, <3>1, Zenon
      <4>2. Out(n) = <<>> /\ ~Carries(In(n), {"cell_resp"})
        BY <1>4, <2>1, <4>1, Zenon DEF Live
      <4>3. ~Carries(Out(n), {"cell_clear"})
        BY <4>2, CarriesNothing, Zenon
      <4> QED
        BY <3>1, <4>2, <4>3, Zenon DEF Agrees
    <3>2. CASE rrus[j].state # "INIT" /\ rrus'[j] = rrus[j]
      <4>1. rrus[j].fd \in Fds /\ fds[rrus[j].fd] \in Conns
        BY <2>3, <3>2, Zenon DEF WorldInv, FdInv, SlotFd, Connected
      <4>2. rrus[j].fd # fd
        BY <1>5, <4>1, NumbersApart, Zenon
      <4>3. fds[rrus[j].fd] = unit[n].link
        BY <1>10, <2>3, <3>2, <4>1, <4>2, Zenon
      <4> QED
        BY <2>1, <2>3, <3>2, <4>3, Zenon DEF Live
    <3> QED
      BY <1>9, <3>1, <3>2, Zenon
  <2> QED
    BY <1>1, <2>1, <2>2, <2>3, Zenon DEF Live
<1>17. LinkInv'
  <2>1. \A n \in Macs : Asking(n)'
    BY <1>1, Zenon DEF WorldInv, LinkInv, Asking
  <2> QED
    BY <1>16, <2>1, Zenon DEF LinkInv, Live
<1> QED
  BY <1>11, <1>15, <1>17, Zenon DEF WorldInv

LEMMA WorldInit == Init => WorldInv
<1> SUFFICES ASSUME Init PROVE WorldInv
  BY Zenon
<1>1. <<>> \in Seq(Conns) /\ <<>> \in Seq(RruMsgs) /\ <<>> \in Seq(Outputs) /\ -1 \in Int
      /\ 1 .. Len(<<>>) = {}
  OBVIOUS
<1>2. IdleConn \in ConnType /\ OffUnit \in UnitType
  BY <1>1, Zenon DEF IdleConn, OffUnit, ConnType, UnitType, Phases
<1>3. WorldType
  BY <1>1, <1>2, Zenon DEF Init, WorldType
<1>4. Stdin # NoConn /\ Stdin \notin Conns
  BY NumbersApart DEF Stdin, NoConn, Conns
<1>5. \A i \in Slots : SlotFd(i)
  BY <1>4, NumbersApart, Zenon DEF Init, SlotFd, EmptySlot, Connected
<1>6. \A f \in Fds : Accepted(f)
  BY <1>4, NumbersApart, Zenon DEF Init, Accepted
<1>7. FdInv
  BY <1>1, <1>5, <1>6, Zenon DEF Init, FdInv
<1>8. LinkInv
  BY Zenon DEF Init, LinkInv, Asking, Live, Linked, OffUnit
<1> QED
  BY <1>3, <1>7, <1>8, Zenon DEF WorldInv

LEMMA WorldStep ==
  ASSUME OneUnit, TruthInv, [Next]_vars
  PROVE  TruthInv'
<1>1. TableInv /\ WorldInv /\ TableInv'
  BY TableStep, Zenon DEF TruthInv
<1>2. CASE Poll \/ Quiet \/ Accept \/ TapPacket \/ TapFailed \/ UNCHANGED vars
  BY <1>1, <1>2, PollKeeps, QuietKeeps, AcceptKeeps, TapKeeps, Zenon DEF TruthInv
<1>3. ASSUME NEW m \in Macs, CfgRequest(m) PROVE TruthInv'
  BY <1>1, <1>3, CfgRequestKeeps, Zenon DEF TruthInv
<1>4. ASSUME NEW i \in Slots, ReadMessage(i) \/ ReadEof(i) \/ ReadError(i) PROVE TruthInv'
  BY <1>1, <1>4, ReadMessageKeeps, ReadEofKeeps, ReadErrorKeeps, Zenon DEF TruthInv
<1>5. ASSUME NEW m \in Macs, UnitStep(m) PROVE TruthInv'
  <2>1. CASE Register(m)
    BY <1>1, <2>1, QuietUnitKeeps, Zenon DEF TruthInv
  <2>2. CASE Connect(m) \/ Hello(m) \/ Obey(m) \/ Calibrated(m)
    BY <1>1, <2>2, ConnectKeeps, HelloKeeps, ObeyKeeps, CalibratedKeeps, Zenon DEF TruthInv
  <2>3. CASE Restart(m) \/ GiveUp(m)
    BY <1>1, <2>3, LeaveKeeps, Zenon DEF TruthInv, Restart, GiveUp
  <2> QED
    BY <1>5, <2>1, <2>2, <2>3, Zenon DEF UnitStep
<1>6. ASSUME NEW m \in Macs, Trouble(m) PROVE TruthInv'
  <2>1. CASE Reboot(m) \/ Abort(m)
    BY <1>1, <2>1, LeaveKeeps, Zenon DEF TruthInv, Reboot, Abort
  <2>2. CASE Hang(m) \/ Recover(m) \/ Lose(m)
    BY <1>1, <2>2, QuietUnitKeeps, Zenon DEF TruthInv
  <2> QED
    BY <1>6, <2>1, <2>2, Zenon DEF Trouble
<1>7. ASSUME NEW m \in Macs, Chatter(m) PROVE TruthInv'
  BY <1>1, <1>7, ChatterKeeps, Zenon DEF TruthInv
<1> QED
  BY <1>2, <1>3, <1>4, <1>5, <1>6, <1>7, Zenon DEF Next, Manager, Work, Tick

(* With one unit, whatever it, the network and the TAP device do and in     *)
(* whatever order (reboots, resets, silences, lost datagrams, messages in   *)
(* bursts or late, a restart before the old socket is closed), a slot past  *)
(* INIT has an open connection of that unit, and a slot that is READY       *)
(* reads from a unit whose cell is set up.  A closed descriptor stays in    *)
(* its slot and is handed out again, and the two cell requests are answered *)
(* by one message number: it holds because the unit is told its address     *)
(* only while it has no connection, and has at most one request or answer   *)
(* under way.                                                               *)
THEOREM SlotsTruthfulTheorem ==
  ASSUME OneUnit
  PROVE  Spec => []SlotsTruthful
<1>1. TruthInv => SlotsTruthful
  <2> SUFFICES ASSUME TruthInv PROVE OwnSocket /\ ReadyConfigured
    BY Zenon DEF SlotsTruthful
  <2>1. OwnSocket
    <3> SUFFICES ASSUME NEW i \in Slots, Connected(i)
                 PROVE  fds[rrus[i].fd] \in Conns /\ conn[fds[rrus[i].fd]].peer = rrus[i].mac
      BY Zenon DEF OwnSocket
    <3>1. SlotFd(i) /\ rrus[i].fd \in Fds /\ fds[rrus[i].fd] \in Conns
      BY Zenon DEF TruthInv, WorldInv, FdInv, SlotFd
    <3>2. conn[fds[rrus[i].fd]].peer \in Macs
      BY <3>1, Zenon DEF TruthInv, WorldInv, FdInv, Accepted
    <3>3. rrus[i].mac \in Macs
      BY Zenon DEF TruthInv, TableInv, Table, SlotType, OccupiedNamed, Connected
    <3> QED
      BY <3>1, <3>2, <3>3, Zenon DEF OneUnit
  <2>2. ReadyConfigured
    BY Zenon DEF TruthInv, WorldInv, LinkInv, Live, Agrees, ReadyConfigured
  <2> QED
    BY <2>1, <2>2, Zenon
<1>2. Init => TruthInv
  BY TableInit, WorldInit, Zenon DEF TruthInv
<1>3. TruthInv /\ [Next]_vars => TruthInv'
  BY WorldStep, Zenon
<1> QED
  BY <1>1, <1>2, <1>3, PTL DEF Spec
=============================================================================
