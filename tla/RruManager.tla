----------------------------- MODULE RruManager -----------------------------
(***************************************************************************)
(* The thread that registers and configures the remote radio units (RRUs)  *)
(* over the CPRI Ethernet: cpri_rru_manager_run_thread and its handlers    *)
(* (src/b4860/fapi_b4860_cpri_eth.c).  The slot table rrus[], the poll     *)
(* set and the receive buffer are the thread's; sockets belong to the      *)
(* kernel and the units are peers, both modelled from how the thread uses  *)
(* them.  A message is its type.                                           *)
(*                                                                         *)
(* Left out: the state NEED_PARAMS_CONFIG (only rrus_reconfigure enters    *)
(* it, and nothing calls that); ports with no configured address; messages *)
(* with a wrong information element; the FDD build, whose handlers make    *)
(* the same steps.                                                         *)
(***************************************************************************)
EXTENDS Integers, Sequences, FiniteSets, FiniteSetsExt, Functions

CONSTANTS
  Macs,             \* the units, by MAC address
  NoMac,            \* an all-zero address
  MAX_RRU_CLIENTS,  \* slots
  RRU_INACTIVITY_TIMEOUT_SECS,
  MaxConn,          \* bound: connections at a time
  MaxIn,            \* bound: unread messages of a connection
  MaxTroubles,      \* bound: failures of units, in all
  FaultSets         \* what may go wrong outside the thread, see below

(* "reboot": a unit restarts and closes its socket; "hang": it falls       *)
(* silent, socket open; "recover": it comes back from that; "lose": a      *)
(* registration datagram, or its answer, is lost; "abort": a restart       *)
(* resets the connection; "burst": a unit sends while its previous message *)
(* is unread; "slow": a unit may take longer than the inactivity limit     *)
(* over a step; "fast": a restarted unit may register before the thread    *)
(* has closed its old socket; "chatter": heartbeats and alarms; "tap":     *)
(* user packets from the TAP device; "tapdown": it fails.                  *)
ASSUME RruAssumption ==
  /\ NoMac \notin Macs
  /\ MAX_RRU_CLIENTS \in Nat \ {0}
  /\ RRU_INACTIVITY_TIMEOUT_SECS \in Nat
  /\ MaxConn \in Nat /\ MaxTroubles \in Nat /\ MaxIn \in Nat \ {0}
  /\ FaultSets \subseteq SUBSET {"reboot", "hang", "recover", "lose", "abort", "burst",
                                "slow", "fast", "chatter", "tap", "tapdown"}

(* The table has a slot for every unit of the site.                         *)
ASSUME UnitsFit == IsFiniteSet(Macs) /\ Cardinality(Macs) =< MAX_RRU_CLIENTS

Slots == 0 .. MAX_RRU_CLIENTS - 1
POLL_FD_CFG == MAX_RRU_CLIENTS
POLL_FD_CONTROL == MAX_RRU_CLIENTS + 1
POLL_FD_TAP == MAX_RRU_CLIENTS + 3

Conns == 1 .. MaxConn
Fds == 0 .. MaxConn
NoConn == 0        \* a descriptor that is not open
Stdin == -1        \* what descriptor 0 is when the program starts

RruMsgs == {"est_req", "est_resp", "delay_resp", "delay_cfg_resp", "param_resp",
            "calib", "cell_resp", "heartbeat", "alarm"}
Junk == "junk"     \* the receive buffer before the first read

RruStates == {"NONE", "INIT", "CONNECTED", "CONN_SETUP_SENT", "CONN_SETUP_ACK",
              "WAIT_PARAMS_CONFIG_RESP", "WAIT_CELL_CONFIG_RESP",
              "WAIT_CELL_CLEAR_RESP", "READY"}

VARIABLES
  rrus,      \* the slot table; ip names the unit the address was given to
  pollfds,   \* pollfds[i].fd of the slots, -1 when not polled
  revents,   \* poll entries reported readable and not yet served
  recv_buf,  \* the message the receive buffer holds
  dead,      \* what ended the thread, or "no"
  fds,       \* kernel: open descriptors
  conn,      \* kernel: connections
  backlog,   \* kernel: connections waiting for accept
  cfgq,      \* registration datagrams waiting on cfg_fd
  told,      \* units an address answer is on its way to
  unit,      \* the units
  faults,    \* the faults of this behaviour, one of FaultSets
  troubles   \* failures so far

thread == <<rrus, pollfds, revents, recv_buf, dead, fds>>
vars == <<thread, conn, backlog, cfgq, told, unit, troubles, faults>>

EmptySlot == [state |-> "NONE", mac |-> NoMac, ip |-> NoMac, fd |-> 0,
              timeout |-> 0, need_reset |-> FALSE]
IdleConn == [peer |-> NoMac, in |-> <<>>, out |-> <<>>, end |-> "open"]
OffUnit == [phase |-> "off", link |-> NoConn, configured |-> FALSE]

Init ==
  /\ rrus = [i \in Slots |-> EmptySlot]
  /\ pollfds = [i \in Slots |-> -1]
  /\ revents = {} /\ recv_buf = Junk /\ dead = "no"
  /\ fds = [f \in Fds |-> IF f = 0 THEN Stdin ELSE NoConn]
  /\ conn = [c \in Conns |-> IdleConn]
  /\ backlog = <<>> /\ cfgq = {} /\ told = {}
  /\ unit = [m \in Macs |-> OffUnit]
  /\ troubles = 0 /\ faults \in FaultSets

(***************************************************************************)
(* Tables and tests the thread uses                                        *)
(***************************************************************************)
find_rru_by_mac(m) == {i \in Slots : rrus[i].mac = m}
find_rru_by_ip(m) == {i \in Slots : rrus[i].ip = m}
EmptySlots == {i \in Slots : rrus[i].state = "NONE"}

(* The poll set of the next poll: an empty slot is skipped, and a slot      *)
(* without a positive descriptor keeps the entry it had.                    *)
PollSet ==
  [i \in Slots |-> IF i \in EmptySlots THEN -1
                   ELSE IF rrus[i].fd > 0 THEN rrus[i].fd ELSE pollfds[i]]

(* read on a connection returns at once: data, end of file or an error.     *)
Readable(c) == conn[c].in # <<>> \/ conn[c].end # "open"

Polled(ps) == {i \in Slots : ps[i] # -1}
Ready(ps) ==
  {i \in Polled(ps) : fds[ps[i]] \in Conns /\ Readable(fds[ps[i]])}
    \cup (IF cfgq # {} THEN {POLL_FD_CFG} ELSE {})
    \cup (IF backlog # <<>> THEN {POLL_FD_CONTROL} ELSE {})
(* POLLNVAL: poll reports a closed descriptor at once, and not as POLLIN.   *)
Invalid(ps) == {i \in Polled(ps) : fds[ps[i]] = NoConn}

(* All entries of the last poll were served: the loop is back at its top.   *)
AtPoll == dead = "no" /\ revents \cap (Slots \ EmptySlots) = {}
            /\ revents \subseteq Slots

(* What each handler sends, and the state it leaves the slot in.            *)
send_channel_establishment_config == <<"est_cfg", "CONN_SETUP_SENT">>
send_rru_reset_req == <<"reset", "CONN_SETUP_ACK">>
send_delay_measure == <<"delay_measure", "WAIT_CELL_CONFIG_RESP">>
send_delay_configuration == <<"delay_cfg", "WAIT_CELL_CONFIG_RESP">>
send_parameter_configuration == <<"param_cfg", "WAIT_PARAMS_CONFIG_RESP">>
send_cell_clear == <<"cell_clear", "WAIT_CELL_CLEAR_RESP">>
send_cell_configuration == <<"cell_cfg", "WAIT_CELL_CONFIG_RESP">>
send_bbu_heartbeat(r) == <<"bbu_heartbeat", r.state>>

process_channel_establishment_req == send_channel_establishment_config
process_channel_establishment_resp(r) ==
  IF r.need_reset THEN send_rru_reset_req ELSE send_delay_measure
process_delay_measure_resp == send_delay_configuration
process_delay_configuration_resp == send_parameter_configuration
process_rru_init_calibration_report == send_cell_clear
process_cell_clear_resp == send_cell_configuration
process_cell_configuration_resp == <<Junk, "READY">>
process_rru_heartbeat(r) == send_bbu_heartbeat(r)

(* The answers to the two cell requests have one message number.            *)
cell_resp(r) ==
  IF r.state = "WAIT_CELL_CLEAR_RESP" THEN process_cell_clear_resp
                                      ELSE process_cell_configuration_resp

(* The dispatch on the message number.  "calib" is the calibration report   *)
(* or the reset event; the answer to the parameters and an alarm change     *)
(* nothing, nor does an unknown number.                                     *)
process_rru_message(r, m) ==
  CASE m = "est_req" -> process_channel_establishment_req
    [] m = "est_resp" -> process_channel_establishment_resp(r)
    [] m = "delay_resp" -> process_delay_measure_resp
    [] m = "delay_cfg_resp" -> process_delay_configuration_resp
    [] m = "cell_resp" -> cell_resp(r)
    [] m = "heartbeat" -> process_rru_heartbeat(r)
    [] m = "calib" /\ r.state # "READY" -> process_rru_init_calibration_report
    [] OTHER -> <<Junk, r.state>>

(* Mutant: need_reset is not cleared.                                       *)
HandledResetAgain(r, m) == [r EXCEPT !.state = process_rru_message(r, m)[2], !.timeout = 0]
Handled(r, m) ==
  [r EXCEPT !.state = process_rru_message(r, m)[2], !.timeout = 0,
            !.need_reset = @ /\ m # "est_resp"]

(* send on the slot's descriptor; on a closed one it fails and is ignored.  *)
Answer(r, m, cs) ==
  LET c == fds[r.fd] IN
  IF process_rru_message(r, m)[1] = Junk \/ c \notin Conns THEN cs
  ELSE [cs EXCEPT ![c].out = Append(@, process_rru_message(r, m)[1])]

Close(F) == [f \in Fds |-> IF f \in F THEN NoConn ELSE fds[f]]

(***************************************************************************)
(* The thread                                                              *)
(***************************************************************************)
(* poll found something: the round begins.                                  *)
Poll ==
  /\ AtPoll
  /\ \E tap \in (IF "tap" \in faults THEN BOOLEAN ELSE {FALSE}) :
       LET ps == PollSet
           ready == Ready(ps) \cup (IF tap THEN {POLL_FD_TAP} ELSE {})
       IN /\ ready \cup Invalid(ps) # {}
          /\ pollfds' = ps
          /\ revents' = ready
  /\ UNCHANGED <<rrus, recv_buf, dead, fds, conn, backlog, cfgq, told, unit>>

(* The slots whose inactivity count has passed the limit.                   *)
Expired ==
  {i \in Slots \ EmptySlots : rrus[i].timeout > RRU_INACTIVITY_TIMEOUT_SECS}

(* Mutant: the seconds are not counted.                                     *)
QuietNoCount ==
  /\ AtPoll
  /\ Ready(PollSet) \cup Invalid(PollSet) = {}
  /\ pollfds' = PollSet
  /\ revents' = {}
  /\ UNCHANGED <<rrus, fds, recv_buf, dead, conn, backlog, cfgq, told, unit>>

(* poll timed out with no activity at all: count, and drop the slots whose  *)
(* count has passed the limit.                                              *)
Quiet ==
  /\ AtPoll
  /\ Ready(PollSet) \cup Invalid(PollSet) = {}
  /\ rrus' = [i \in Slots |->
       CASE i \in Expired -> [rrus[i] EXCEPT !.state = "NONE", !.timeout = 0]
         [] i \in EmptySlots -> rrus[i]
         [] OTHER -> [rrus[i] EXCEPT !.timeout = @ + 1]]
  /\ fds' = Close({rrus[i].fd : i \in Expired})
  /\ pollfds' = PollSet
  /\ revents' = {}
  /\ UNCHANGED <<recv_buf, dead, conn, backlog, cfgq, told, unit>>

(* Mutant: the MAC is not copied into a new slot.                           *)
CfgRequestNoMac(m) ==
  /\ dead = "no" /\ POLL_FD_CFG \in revents /\ m \in cfgq
  /\ cfgq' = cfgq \ {m}
  /\ IF EmptySlots = {}
     THEN dead' = "null_slot" /\ UNCHANGED <<rrus, told>>
     ELSE /\ rrus' = [rrus EXCEPT ![Min(EmptySlots)] =
               [@ EXCEPT !.state = "INIT", !.timeout = 0, !.ip = m, !.need_reset = TRUE]]
          /\ told' = told \cup {m}
          /\ UNCHANGED dead
  /\ revents' = revents \ {POLL_FD_CFG}
  /\ UNCHANGED <<pollfds, recv_buf, fds, conn, backlog, unit>>

(* The slot a registration takes.                                           *)
Registered(slot, m, reset) ==
  [slot EXCEPT !.state = "INIT", !.timeout = 0, !.mac = m, !.ip = m, !.need_reset = reset]

(* A registration: the slot that holds the MAC, else the first empty one    *)
(* (the caller does not test for none).  The answer is broadcast.           *)
CfgRequest(m) ==
  /\ dead = "no" /\ POLL_FD_CFG \in revents /\ m \in cfgq
  /\ cfgq' = cfgq \ {m}
  /\ LET old == find_rru_by_mac(m)
         cand == IF old # {} THEN old ELSE EmptySlots
     IN IF cand = {}
        THEN dead' = "null_slot" /\ UNCHANGED <<rrus, told>>
        ELSE LET i == Min(cand) IN
             /\ rrus' = [rrus EXCEPT ![i] = Registered(@, m, @.need_reset \/ old = {})]
             /\ told' = told \cup {m}
             /\ UNCHANGED dead
  /\ revents' = revents \ {POLL_FD_CFG}
  /\ UNCHANGED <<pollfds, recv_buf, fds, conn, backlog, unit>>

(* A connection: the first slot with the peer's address takes it if it is   *)
(* waiting for one; otherwise the socket stays open and unused.  (Running   *)
(* out of descriptors is not modelled.)                                     *)
Accept ==
  /\ dead = "no" /\ POLL_FD_CFG \notin revents /\ POLL_FD_CONTROL \in revents
  /\ \E f \in Fds : fds[f] = NoConn
  /\ LET c == Head(backlog)
         fd == Min({f \in Fds : fds[f] = NoConn})
         found == find_rru_by_ip(conn[c].peer)
     IN /\ fds' = [fds EXCEPT ![fd] = c]
        /\ rrus' = [i \in Slots |->
             IF found # {} /\ i = Min(found) /\ rrus[i].state = "INIT"
             THEN [rrus[i] EXCEPT !.state = "CONNECTED", !.fd = fd, !.timeout = 0]
             ELSE rrus[i]]
  /\ backlog' = Tail(backlog)
  /\ revents' = revents \ {POLL_FD_CONTROL}
  /\ UNCHANGED <<pollfds, recv_buf, dead, conn, cfgq, told, unit>>

(* A user packet goes on to the CPRI; the slots are not concerned.          *)
TapPacket ==
  /\ dead = "no" /\ {POLL_FD_CFG, POLL_FD_CONTROL} \cap revents = {} /\ POLL_FD_TAP \in revents
  /\ revents' = revents \ {POLL_FD_TAP}
  /\ UNCHANGED <<rrus, pollfds, recv_buf, dead, fds, conn, backlog, cfgq, told, unit>>

(* A failed read of the TAP device ends the thread.                         *)
TapFailed ==
  /\ "tapdown" \in faults
  /\ dead = "no" /\ {POLL_FD_CFG, POLL_FD_CONTROL} \cap revents = {} /\ POLL_FD_TAP \in revents
  /\ dead' = "tap"
  /\ UNCHANGED <<rrus, pollfds, revents, recv_buf, fds, conn, backlog, cfgq, told, unit>>

(* Mutant: a slot is read again until it is closed.                         *)
ServingToEof(i) ==
  /\ dead = "no" /\ revents \subseteq Slots
  /\ i \in revents \ EmptySlots
  /\ i = Min(revents \ EmptySlots)
  /\ UNCHANGED revents

(* The slot i is the next one the loop over the slots reads.                *)
Serving(i) ==
  /\ dead = "no" /\ revents \subseteq Slots
  /\ i \in revents \ EmptySlots
  /\ i = Min(revents \ EmptySlots)
  /\ revents' = revents \ {i}

(* read takes everything that has arrived; the first message is handled.    *)
ReadMessage(i) ==
  /\ Serving(i)
  /\ LET c == fds[rrus[i].fd] IN
     /\ c \in Conns
     /\ conn[c].in # <<>>
     /\ recv_buf' = Head(conn[c].in)
     /\ rrus' = [rrus EXCEPT ![i] = Handled(@, recv_buf')]
     /\ conn' = Answer(rrus[i], recv_buf', [conn EXCEPT ![c].in = <<>>])
  /\ UNCHANGED <<pollfds, dead, fds, backlog, cfgq, told, unit>>

(* Mutant: the socket is closed and the slot stays occupied.                *)
ReadEofKeepsState(i) ==
  /\ Serving(i)
  /\ LET c == fds[rrus[i].fd] IN c \in Conns /\ conn[c].in = <<>> /\ conn[c].end = "fin"
  /\ fds' = Close({rrus[i].fd})
  /\ UNCHANGED <<rrus, pollfds, recv_buf, dead, conn, backlog, cfgq, told, unit>>

(* read returns 0: the peer has closed.                                     *)
ReadEof(i) ==
  /\ Serving(i)
  /\ LET c == fds[rrus[i].fd] IN c \in Conns /\ conn[c].in = <<>> /\ conn[c].end = "fin"
  /\ rrus' = [rrus EXCEPT ![i].state = "NONE"]
  /\ fds' = Close({rrus[i].fd})
  /\ UNCHANGED <<pollfds, recv_buf, dead, conn, backlog, cfgq, told, unit>>

(* read returns -1: the descriptor is closed, or the connection was reset   *)
(* (reported once).  -1 is compared with a sizeof as a size_t, so the old   *)
(* contents of the buffer are handled as a message.  An answer sent on a    *)
(* reset connection raises SIGPIPE, which the program does not handle.      *)
ReadError(i) ==
  /\ Serving(i)
  /\ LET c == fds[rrus[i].fd] IN
     /\ c = NoConn \/ (c \in Conns /\ conn[c].end = "rst" /\ conn[c].in = <<>>)
     /\ \E m \in (IF recv_buf = Junk THEN RruMsgs \cup {Junk} ELSE {recv_buf}) :
          /\ rrus' = [rrus EXCEPT ![i] = Handled(@, m)]
          /\ dead' = IF c \in Conns /\ process_rru_message(rrus[i], m)[1] # Junk
                     THEN "sigpipe" ELSE dead
     /\ conn' = IF c = NoConn THEN conn ELSE [conn EXCEPT ![c].end = "fin"]
  /\ UNCHANGED <<pollfds, recv_buf, fds, backlog, cfgq, told, unit>>

Work ==
  \/ Poll \/ Accept \/ TapPacket \/ TapFailed
  \/ \E m \in Macs : CfgRequest(m)
  \/ \E i \in Slots : ReadMessage(i) \/ ReadEof(i) \/ ReadError(i)

(***************************************************************************)
(* The units: what the thread expects of its peers                         *)
(***************************************************************************)
In(m) == conn[unit[m].link].in
Out(m) == conn[unit[m].link].out
CanSend(m) == Len(In(m)) < (IF "burst" \in faults THEN MaxIn ELSE 1)
Idle == {c \in Conns : /\ \A f \in Fds : fds[f] # c
                       /\ \A i \in DOMAIN backlog : backlog[i] # c
                       /\ \A m \in Macs : unit[m].link # c}
(* The thread has closed the unit's connection, or nobody reads it.         *)
Abandoned(m) ==
  /\ \A k \in DOMAIN backlog : backlog[k] # unit[m].link
  /\ \A i \in Slots : fds[rrus[i].fd] # unit[m].link \/ rrus[i].state \in {"NONE", "INIT"}

(* The thread has dropped the unit's earlier connection.                    *)
Forgotten(m) ==
  \A c \in Conns : conn[c].peer = m =>
    /\ \A k \in DOMAIN backlog : backlog[k] # c
    /\ \A i \in Slots : rrus[i].state = "NONE" \/ fds[rrus[i].fd] # c

Register(m) ==
  /\ unit[m].phase = "off"
  /\ "fast" \in faults \/ Forgotten(m)
  /\ unit' = [unit EXCEPT ![m].phase = "asked"]
  /\ cfgq' = cfgq \cup {m}
  /\ UNCHANGED <<thread, conn, backlog, told>>

Connect(m) ==
  /\ unit[m].phase = "asked" /\ m \in told
  /\ Idle # {}
  /\ LET c == Min(Idle) IN
     /\ conn' = [conn EXCEPT ![c] = [IdleConn EXCEPT !.peer = m]]
     /\ unit' = [unit EXCEPT ![m].phase = "dialed", ![m].link = c]
     /\ backlog' = Append(backlog, c)
  /\ told' = told \ {m}
  /\ UNCHANGED <<thread, cfgq>>

Say(m, what) ==
  conn' = [conn EXCEPT ![unit[m].link].in = Append(@, what)]

Hello(m) ==
  /\ unit[m].phase = "dialed"
  /\ Say(m, "est_req")
  /\ unit' = [unit EXCEPT ![m].phase = "up"]
  /\ UNCHANGED <<thread, backlog, cfgq, told>>

(* What a unit sends back; a calibration follows new parameters.            *)
Reply(b) ==
  CASE b = "est_cfg" -> <<"est_resp">>
    [] b = "delay_measure" -> <<"delay_resp">>
    [] b = "delay_cfg" -> <<"delay_cfg_resp">>
    [] b = "param_cfg" -> <<"param_resp">>
    [] b \in {"cell_clear", "cell_cfg"} -> <<"cell_resp">>
    [] OTHER -> <<>>

Obey(m) ==
  /\ unit[m].phase \in {"up", "calibrating"} /\ Out(m) # <<>> /\ Head(Out(m)) # "reset"
  /\ CanSend(m)
  /\ LET b == Head(Out(m)) IN
     /\ conn' = [conn EXCEPT ![unit[m].link].in = @ \o Reply(b), ![unit[m].link].out = Tail(@)]
     /\ unit' = [unit EXCEPT ![m].phase = IF b = "param_cfg" THEN "calibrating" ELSE @,
                             ![m].configured = b = "cell_cfg" \/ (@ /\ b # "cell_clear")]
  /\ UNCHANGED <<thread, backlog, cfgq, told>>

Calibrated(m) ==
  /\ unit[m].phase = "calibrating" /\ CanSend(m)
  /\ Say(m, "calib")
  /\ unit' = [unit EXCEPT ![m].phase = "up"]
  /\ UNCHANGED <<thread, backlog, cfgq, told>>

Chatter(m) ==
  /\ "chatter" \in faults
  /\ unit[m].phase \in {"up", "calibrating"} /\ CanSend(m) /\ Out(m) = <<>>
  /\ \E what \in {"heartbeat", "alarm"} : Say(m, what)
  /\ UNCHANGED <<thread, backlog, cfgq, told, unit, troubles, faults>>

Leave(m, how) ==
  /\ conn' = [conn EXCEPT ![unit[m].link].end = how, ![unit[m].link].out = <<>>]
  /\ unit' = [unit EXCEPT ![m] = OffUnit]
  /\ UNCHANGED <<thread, backlog, cfgq, told>>

Linked(m) == unit[m].phase \in {"dialed", "up", "calibrating"}
Restart(m) == Linked(m) /\ Out(m) # <<>> /\ Head(Out(m)) = "reset" /\ Leave(m, "fin")
GiveUp(m) == Linked(m) /\ Abandoned(m) /\ Leave(m, "fin")
Reboot(m) == "reboot" \in faults /\ Linked(m) /\ Leave(m, "fin")
Abort(m) == "abort" \in faults /\ Linked(m) /\ Leave(m, "rst")

Hang(m) ==
  /\ "hang" \in faults /\ Linked(m)
  /\ unit' = [unit EXCEPT ![m].phase = "hung"]
  /\ UNCHANGED <<thread, conn, backlog, cfgq, told>>

(* A silent unit is switched off and on again; its old socket stays.        *)
Recover(m) ==
  /\ "recover" \in faults /\ unit[m].phase = "hung"
  /\ unit' = [unit EXCEPT ![m] = OffUnit]
  /\ UNCHANGED <<thread, conn, backlog, cfgq, told>>

(* A datagram is lost, and the unit is switched off before it asks again.   *)
Lose(m) ==
  /\ "lose" \in faults /\ unit[m].phase = "asked" /\ m \in cfgq \cup told
  /\ cfgq' = cfgq \ {m} /\ told' = told \ {m}
  /\ unit' = [unit EXCEPT ![m].phase = "off"]
  /\ UNCHANGED <<thread, conn, backlog>>

UnitStep(m) ==
  /\ Register(m) \/ Connect(m) \/ Hello(m) \/ Obey(m) \/ Calibrated(m) \/ Restart(m) \/ GiveUp(m)
  /\ UNCHANGED <<troubles, faults>>

Trouble(m) ==
  /\ troubles < MaxTroubles
  /\ troubles' = troubles + 1
  /\ UNCHANGED faults
  /\ Reboot(m) \/ Abort(m) \/ Hang(m) \/ Recover(m) \/ Lose(m)

(* The unit has nothing to do until the thread makes a step.                *)
Waiting(m) ==
  \/ unit[m].phase = "hung"
  \/ unit[m].phase = "off" /\ ~Forgotten(m)
  \/ unit[m].phase = "asked" /\ m \notin told
  \/ unit[m].phase = "up" /\ Out(m) = <<>> /\ ~Abandoned(m)
(* Seconds pass only while the units wait, unless they may be slow.         *)
Tick == Quiet /\ ("slow" \in faults \/ \A m \in Macs : Waiting(m))
Manager == (Work \/ Tick) /\ UNCHANGED <<troubles, faults>>

Next == Manager \/ \E m \in Macs : UnitStep(m) \/ Chatter(m) \/ Trouble(m)

Spec == Init /\ [][Next]_vars
(* The thread is scheduled, the units answer, and one that chatters does so *)
(* for ever, which does not keep it from reporting its calibration.         *)
FairSpec ==
  /\ Spec /\ WF_vars(Manager)
  /\ \A m \in Macs :
       /\ WF_vars(UnitStep(m)) /\ WF_vars(Chatter(m))
       /\ SF_vars(Calibrated(m) /\ UNCHANGED <<troubles, faults>>)

(***************************************************************************)
(* Properties                                                              *)
(***************************************************************************)
Connected(i) == rrus[i].state \notin {"NONE", "INIT"}
ReadyFor(m) == \E i \in Slots : rrus[i].mac = m /\ rrus[i].state = "READY"

(* No unit occupies two slots: find_rru_by_mac and add_rru_by_mac keep the  *)
(* table a map, whatever order units register, fail and return in.          *)
MacsUnique ==
  \A i, j \in Slots : rrus[i].mac = rrus[j].mac /\ rrus[i].mac # NoMac => i = j

(* A registration always finds a slot when there are as many slots as       *)
(* units, so the unchecked result of add_rru_by_mac is never null.          *)
SlotAvailable == dead # "null_slot"

(* The table of units is a map with room for every unit.                    *)
TableSound == MacsUnique /\ SlotAvailable

(* With one unit, a connected slot's descriptor is an open connection of    *)
(* that unit, although closing a slot leaves its old descriptor in it.      *)
OwnSocket ==
  \A i \in Slots : Connected(i) =>
    /\ fds[rrus[i].fd] \in Conns
    /\ conn[fds[rrus[i].fd]].peer = rrus[i].mac

(* A slot reported READY (what cpri_rru_manager_connected looks for) is a   *)
(* unit whose cell is set up, not merely cleared: the two answers have the  *)
(* same message number.                                                     *)
ReadyConfigured ==
  \A i \in Slots, m \in Macs :
    rrus[i].state = "READY" /\ Linked(m) /\ fds[rrus[i].fd] = unit[m].link
      => unit[m].configured

(* A slot tells the truth about its unit, whatever failures and             *)
(* reconnections went before (cpri_rru_manager_connected relies on it).     *)
SlotsTruthful == OwnSocket /\ ReadyConfigured

(* The units fail, but keep to the protocol and the time it allows.         *)
Orderly ==
  faults \cap {"abort", "burst", "slow", "fast", "tap", "tapdown"} = {}

(* With orderly units the thread always comes back to poll: it never waits  *)
(* for good in a read.                                                      *)
NeverStuck == Orderly => []<>AtPoll

(* Once failures stop, every orderly unit that still works is brought up,   *)
(* and again whenever it is dropped.                                        *)
Served == Orderly => \A m \in Macs : []<>(ReadyFor(m) \/ unit[m].phase = "hung")

(* A unit that falls silent is dropped (while user packets do not keep poll *)
(* from timing out).                                                        *)
SilentDropped ==
  Orderly => \A m \in Macs :
    unit[m].phase = "hung" ~>
      (unit[m].phase # "hung" \/ \A i \in Slots : rrus[i].mac = m => rrus[i].state = "NONE")

(* After a close the slot holds no descriptor, so no two occupied slots     *)
(* read the same socket.                                                    *)
SocketsNotShared ==
  \A i, j \in Slots :
    rrus[i].fd = rrus[j].fd /\ fds[rrus[i].fd] \in Conns /\ i # j
      => rrus[i].state = "NONE" \/ rrus[j].state = "NONE"
=============================================================================
