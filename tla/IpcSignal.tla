----------------------------- MODULE IpcSignal ------------------------------
(***************************************************************************)
(* Channels with a callback: fsl_ipc_configure_channel_int registers a     *)
(* real-time signal with the het_ipc driver, the DSP's message interrupt   *)
(* makes the driver send it (msg_intr), and signal_handler takes one       *)
(* message.  The process may end and start again; the DSP goes on.  The    *)
(* handler runs in the middle of whatever the process does.                *)
(***************************************************************************)
EXTENDS Naturals, FiniteSets

CONSTANTS SigChannels,   \* channels configured with a callback
          MAX_MSG_IRQ,   \* message units of the driver
          SigDepth,      \* bd_ring_size
          MaxMsgs,       \* bound: messages per channel
          MaxLives       \* bound: starts of the process

(* Channels are numbered from 1 here: 0 stands for no channel. *)
ASSUME SigAssumption ==
  MAX_MSG_IRQ \in Nat \ {0} /\ SigDepth \in Nat \ {0} /\ 0 \notin SigChannels

VARIABLES proc,     \* pc, channel being configured, channels configured, starts
          uirq,     \* driver's table: channel and signal of each message unit
          unit,     \* unit[c]: the one the channel's indication names, or None
          irq,      \* units with a message interrupt pending
          sigs,     \* queued real-time signals: signal |-> how many
          uch,      \* uch[c]: signal stored in ipc_channel_us_t, or None
          chinit,   \* consumer_initialized
          made, taken, \* messages of each channel
          missed    \* history: a signal for which nothing was taken

sigVars == <<proc, uirq, unit, irq, sigs, uch, chinit, made, taken, missed>>

None == 0
Units == 1 .. MAX_MSG_IRQ
(* Signals are named after the channel they were picked for; sigaction has  *)
(* made each one taken, so that ipc_get_free_rt_signal never gives it twice *)
(* to a process.                                                            *)
Free == [c |-> None, sig |-> None]

SigInit ==
  /\ proc = [pc |-> "off", c |-> None, lives |-> 0]
  /\ uirq = [i \in Units |-> Free]
  /\ unit = [c \in SigChannels |-> None]
  /\ irq = {}
  /\ sigs = [c \in SigChannels |-> 0]
  /\ uch = [c \in SigChannels |-> None]
  /\ chinit = {}
  /\ made = [c \in SigChannels |-> 0] /\ taken = [c \in SigChannels |-> 0]
  /\ missed = FALSE

-----------------------------------------------------------------------------
(* het_ipc_open, which empties the table for everyone but leaves the        *)
(* signal numbers in it.                                                    *)
het_ipc_open_signal ==
  /\ proc.pc = "off" /\ proc.lives < MaxLives
  /\ proc' = [pc |-> "idle", c |-> None, lives |-> proc.lives + 1]
  /\ uirq' = [i \in Units |-> [uirq[i] EXCEPT !.c = None]]
  /\ UNCHANGED <<unit, irq, sigs, uch, chinit, made, taken, missed>>

(* The process ends: het_ipc_release, and with the process its signals and  *)
(* its channel list.                                                        *)
het_ipc_release ==
  /\ proc.pc # "off"
  /\ proc' = [proc EXCEPT !.pc = "off", !.c = None]
  /\ uirq' = [i \in Units |-> Free]
  /\ sigs' = [c \in SigChannels |-> 0]
  /\ uch' = [c \in SigChannels |-> None]
  /\ UNCHANGED <<unit, irq, chinit, made, taken, missed>>

(* fsl_ipc_configure_channel_int: the ring is set up only for a channel     *)
(* that is not initialised; then the channel list and the signal.           *)
ConfigureStarts(c) ==
  /\ proc.pc = "idle" /\ uch[c] = None
  /\ proc' = [proc EXCEPT !.pc = "register", !.c = c]
  /\ unit' = IF c \in chinit THEN unit ELSE [unit EXCEPT ![c] = None]
  /\ UNCHANGED <<uirq, irq, sigs, uch, chinit, made, taken, missed>>

(* IOCTL_IPC_REGISTER_SIGNAL: the first unit not used; none is no error. *)
FirstUnused == {i \in Units : uirq[i].c = None /\ \A j \in Units : j < i => uirq[j].c # None}
het_ipc_ioctl ==
  /\ proc.pc = "register"
  /\ IF FirstUnused = {} THEN UNCHANGED <<uirq, unit>>
     ELSE \E i \in FirstUnused :
            /\ uirq' = [uirq EXCEPT ![i] = [c |-> proc.c, sig |-> proc.c]]
            /\ unit' = [unit EXCEPT ![proc.c] = i]
  /\ proc' = [proc EXCEPT !.pc = "list"]
  /\ UNCHANGED <<irq, sigs, uch, chinit, made, taken, missed>>

(* Mutant: the signal is not noted in the channel list. *)
ConfigureForgets ==
  /\ proc.pc = "list"
  /\ proc' = [proc EXCEPT !.pc = "open"]
  /\ UNCHANGED <<uirq, unit, irq, sigs, uch, chinit, made, taken, missed>>

(* uch->signal and the callback are stored, ... *)
ConfigureLists ==
  /\ proc.pc = "list"
  /\ uch' = [uch EXCEPT ![proc.c] = proc.c]
  /\ proc' = [proc EXCEPT !.pc = "open"]
  /\ UNCHANGED <<uirq, unit, irq, sigs, chinit, made, taken, missed>>

(* ... and only then may the DSP produce. *)
ConfigureOpens ==
  /\ proc.pc = "open"
  /\ chinit' = chinit \cup {proc.c}
  /\ proc' = [proc EXCEPT !.pc = "idle", !.c = None]
  /\ UNCHANGED <<uirq, unit, irq, sigs, uch, made, taken, missed>>

-----------------------------------------------------------------------------
(* The DSP sends a message on a channel that is open, and indicates it.  A  *)
(* second message before the interrupt is served is not seen separately.    *)
DspSends(c) ==
  /\ c \in chinit /\ made[c] < MaxMsgs /\ made[c] - taken[c] < SigDepth
  /\ made' = [made EXCEPT ![c] = @ + 1]
  /\ irq' = irq \cup ({unit[c]} \ {None})
  /\ UNCHANGED <<proc, uirq, unit, sigs, uch, chinit, taken, missed>>

(* msg_intr for one unit, registered for a channel or not. *)
msg_intr_signal(i) ==
  /\ i \in irq
  /\ irq' = irq \ {i}
  /\ sigs' = IF uirq[i].c # None /\ uirq[i].sig # None /\ proc.pc # "off"
             THEN [sigs EXCEPT ![uirq[i].sig] = @ + 1] ELSE sigs
  /\ UNCHANGED <<proc, uirq, unit, uch, chinit, made, taken, missed>>

(* signal_handler looks for the channel of the signal and takes a message.  *)
signal_handler(c) ==
  /\ sigs[c] > 0
  /\ sigs' = [sigs EXCEPT ![c] = @ - 1]
  /\ LET found == uch[c] = c /\ taken[c] < made[c]
     IN /\ taken' = IF found THEN [taken EXCEPT ![c] = @ + 1] ELSE taken
        /\ missed' = (missed \/ ~found)
  /\ UNCHANGED <<proc, uirq, unit, irq, uch, chinit, made>>

SigNext ==
  \/ het_ipc_open_signal \/ het_ipc_release
  \/ het_ipc_ioctl \/ ConfigureLists \/ ConfigureOpens
  \/ \E c \in SigChannels : ConfigureStarts(c) \/ DspSends(c) \/ signal_handler(c)
  \/ \E i \in Units : msg_intr_signal(i)

SigSpec == SigInit /\ [][SigNext]_sigVars

-----------------------------------------------------------------------------
(* In the first life of the process every signal finds its channel and a    *)
(* message there: fsl_ipc_configure_channel_int opens the channel to the    *)
(* DSP last, and an interrupt stands for at least one message.  In a later  *)
(* life the channel is already open while it is being registered, and an    *)
(* early signal is dropped.                                                 *)
EverySignalTakes == proc.lives <= 1 => ~missed

=============================================================================
