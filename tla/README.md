# Verification of the B4860 LTE L1, PowerPC side

TLA+ models of the PowerPC side of an LTE physical layer for the NXP B4860:
the layer between an L2 stack and the DSP cores that do the signal processing.
TLC checks the models on small instances; TLAPS proves the central properties
for every value of the constants.

## The system

| part | source | state it keeps | what it does |
|---|---|---|---|
| blocking queue | `lib/core/block_queue.c` | ring, counters, break flags, two condition variables | hands messages between threads |
| IPC library | `b4860/libb4860/ipc/lib/fsl_ipc_channel.c` | per channel: descriptors, two free-running counters, two local indices | passes messages to and from the DSP through shared memory, without a lock |
| transmit requests | `fsl_ipc_channel.c`, `fsl_user_dma.c` | a chain of DMA entries, status | has the DMA engine copy blocks and counters |
| het_ipc driver | `b4860/libb4860/kernel/fsl_ipc.c` | registrations, ready mask, wait queue | turns the DSP's interrupts into wake-ups or signals |
| heterogeneous manager | `b4860/libb4860/kernel/fsl_hetmgr.c` | the control area and a mark up to which it is used | lays out what PowerPC and DSP share |
| shared-memory allocator | `b4860/libb4860/kernel/fsl_shm.c` | free lists by size, list of all areas | allocates aligned blocks of the memory shared with the DSP |
| L1 defense | `b4860/libb4860/kernel/fsl_L1_defense.c` | mask of expired watchdogs | reports a DSP core that hangs |
| DSP boot | `b4860/libb4860/dsp_boot/` | registers, images, status words | loads and restarts the DSP cores |
| FAPI dispatcher | `b4860/fapi_b4860.c` | queues per message class, send buffers, L1 state | sends FAPI requests, sorts incoming messages into queues |
| RRU manager | `b4860/fapi_b4860_cpri_eth.c` | ten RRU slots with a state and a time each | brings up radio units over CPRI Ethernet |
| P8 dump | `b4860/p8.c` | running flag, message number | writes diagnostic PDUs to files |
| L2 generator | `l2_fapi_generator/` | PHY thread, TTI counters | a minimal L2 to drive the L1 |
| ASN.1 runtime | `asn1/` | decoding contexts | reads configurations and stimuli (GSER); BER, OER and PER as a library |

A message from the DSP takes this way: descriptor ring -> interrupt -> het_ipc
driver -> `fsl_ipc_recv_ptr_block` in the dispatcher thread -> one of the
blocking queues -> the thread that asked for it.  A request takes the opposite
way: a send buffer, the send mutex, the descriptor ring to the DSP, a virtual
interrupt.

What makes it hard: the ring has no lock (the build does not define
`CONFIG_LOCK`), its counters wrap; threads sleep on conditions that others have
to signal, in user space and in the drivers; every blocking call can be broken
from outside; radio units and the DSP answer late or not at all; the DSP and
the processes restart independently of each other.

## Modules

`AbstractQueue` is what both queues promise: a bounded FIFO.

`BlockQueue` models `block_queue.c`.  A critical section is one action, with
`pthread_cond_wait` as membership in a set of sleepers that a broadcast
empties; a wake-up without a broadcast is possible, as POSIX allows.  What
`block_queue_push` does after its unlock is an action of its own
(`PushReturn`).  `Calls` says which thread calls which functions, so one module
serves every way the queues are used.

`BdRing` models one channel of `fsl_ipc_channel.c`, with an action for each
access to the shared words: test, descriptor, counter, local index.  Counters
wrap at `CountMod` (2^32 in the code), local indices at `Size`.

`HetIpc` extends `BdRing` with the driver and `fsl_ipc_recv_ptr_block`.  The DSP
is external: it is modelled as a user of the same ring protocol that raises the
channel's message register after each message.  The interrupt handler takes two
steps (mark the channel, wake the queue) because the reader runs on another
core.

`L1Watchdog` models the third way of waiting on the DSP, `fsl_L1_defense.c` and the
thread that takes its reports: the handler records, clears and wakes in three steps,
and the ioctl takes the mask or sleeps.

`IpcSignal` models the channels that announce a message by a signal: open, release,
the registering ioctl, the three stages of `fsl_ipc_configure_channel_int`, the
interrupt, the handler in the process.  Interrupts that come before the last was
taken are one.

`TxReq` models the transmit-request channel.  `fsl_ipc_send_tx_req` copies the message
and lists, for the DMA engine, the blocks and then the counters; it waits for nothing.
The engine, one entry at a time, and the DSP are external.

`HetMgr` keeps where the structures of the control area lie: the layout of
`init_sh_ctrl_area`, the bump allocator `get_hetmgr_mem`, the channels that the het_ipc
driver places, the two functions by which a boot lays them out again
(`fsl_B4_ipc_init`, `fsl_913x_ipc_init`), and the addresses a process caches.  `Dsp913x`
extends it with the load and reload of a 913x DSP: PASTATE, the VNMI, the copy, the
words both sides wait for.

`DspBoot` models the B4860 half of `libdspboot.c` and `dsp_boot.c`: cold boot, load of
new images and the warm reset `fsl_start_L1_defense`, one action per function, in the
order of the code, with every early return.  Between two steps the cores go on, and
every step may be the process's last.

`ShmAlloc` models `fsl_shm.c`: the free lists by size, the global list, splitting,
aligning and merging, failures of `kmalloc`, and the processes that initialise the
segment (again) through `lg_shm.c` and `fsl_usmmgr.c`.

`RruManager` models the manager thread of `fapi_b4860_cpri_eth.c`.  The slot
table, poll set and receive buffer are its state; one round of the poll loop is
`Poll` followed by `CfgRequest`, `Accept`, `TapPacket` and the reads of the
slots, in the order of the code, so that the outside world moves between poll's
report and the reads.  Every handler is an operator that gives the message it
sends and the state it leaves.  Sockets and descriptors (the lowest free number
is handed out again), and the units themselves, are external.  `FaultSets` selects
what the units may do wrong, `MaxTroubles` how often.

`FapiDispatch` models the life of the FAPI library: `fapi_init_late` with its two
draining loops, the dispatcher thread, `fapi_stop`, and the P8 dump thread of
`p8.c`.  The queues are those of `BlockQueue`, reduced to what their users can
tell: a FIFO, `num_items` and the newest item for the subframe indications
(`pop_last`), `num_items` and the break flag for P8.  A dispatcher cancelled inside
`pthread_cond_wait` leaves the mutex of the queue locked (`held`).  The channel
from the DSP is a FIFO here, which `BdRing` and `HetIpc` justify, and a message in it
is received; `ipc_tti` shows the case where the notice of it is lost.

`PhyDispatcher` extends it with the PHY thread of the generator and the requests it
sends.  A request takes the next of `BufNum` send buffers and then a descriptor, if
there is one (`Send`).  The DSP is external: it answers CONFIG, and while it runs it
sends for each TTI uplink indications and then the subframe indication.  It may be
running already when the process starts (`l1 = "left"`), and the thread may keep up
with it or not (`late`).

`Asn1`, `BerCodec`, `OerCodec`, `PerCodec` and `GserCodec` model the ASN.1 runtime as
operators.  A type descriptor is a record (kind, tags, members, constraints), a value a
number or a sequence, an encoding a sequence of octets (bits for PER, characters
for GSER).  An encoder gives a sequence that is empty when it fails.  A decoder gives the
return code, what it consumed and the structure so far, which for BER and OER includes
the context (`phase`, `step`, `left`) that lets it go on.  `Asn1Session` is the caller:
it feeds a BER or OER decoder piece by piece, calls a PER decoder once, and reads a
configuration file the way `fapi_b4860_parse_config` does.  The decoders reach it as the
constant function `Answer`, which `MCAsn1` makes of `Decoder`.

Each MC module gives the constants.  `MCIpc` puts the three ways of waiting side by
side, `MCPlatform` the libraries and drivers under the application: a behaviour
exercises one of them, chosen at the start, since they share no state.  `MCAsn1` holds
the types, values and files.

## Runs

| run | checks | instance |
|---|---|---|
| `queue_fifo` | exact counters, no lost wake-up, refused pushes fail, FIFO, sleepers are woken while the other side works or by `break_push` | 2 producers, 2 consumers, a breaker; length 2 |
| `queue_all` | no lost wake-up with `break_pop`, `clear`, `pop_last` as well | all functions |
| `queue_subframe` | violated: `num_items` after `pop_last` | 1 producer, 1 consumer |
| `ipc` | FIFO, messages are consumed, lost notices are recorded, a notice delivers a message, an expired watchdog is reported | depth 3, counters modulo 4; 2 cores, 4 expiries |
| `ipc_tti` | violated: every message is received | depth 2, counters modulo 4 |
| `rru` | slots agree with sockets and units, slot table is a map with room; with orderly faults: return to poll, a unit is served again, a silent one is dropped | 1 unit, 2 slots, 3 sets of faults, 2 failures |
| `rru_shared` | violated: separate sockets | 2 units, 2 slots |
| `fapi_dispatch` | old messages are dropped, `fapi_stop` returns and leaves nothing behind but a dispatcher that had not begun, the dump never holds up the dispatcher | one P7 queue besides P5, subframe and P8; all of length 1 |
| `phy_served` | subframes are handled for ever, pending requests are not overwritten, `phy_stop` stops the L1 | queues of 2, 3 buffers, 3 descriptors |
| `phy_decode` | what is decoded was received in `tti_rx` | 2 frames of 2 subframes, a lag of 1 |
| `platform` | heap lists agree, areas in use are disjoint, a large request is not refused for nothing; images are written into stopped cores, success means a restart; the layout has no overlap, cached addresses stay good, a 913x starts only into a fresh image; DMA requests arrive whole and in order; every signal finds its message | see below |
| `asn1` | a value is what was encoded, whatever the encoding and wherever BER and OER are interrupted; a configuration is read whole or refused | 25 types; BER, OER, both PERs; 3 configurations in several spellings, 4 faulty files |

Bounds.  Two slots are the shortest queue that can be partly full; five threads
let a woken producer lose its slot to another.  A depth that does not divide
the counter modulus (3 and 4) makes the indices and the counters wrap at
different times.  `NumItemsBound` stops `queue_all` where `num_items` has gone
two below zero: from -1 on every pop behaves alike.  Two units and two slots are
the fewest that can trade slots or descriptors (`rru_shared`); what needs several units
in the table is proved.  An inactivity limit of one second keeps the order of events
and shortens the wait.  A second failure may come while the unit recovers from the first.
Running out of descriptors is not modelled.

In `fapi_dispatch` length 1 makes every queue full as soon as it is used.  Two frames of
two subframes are the least with which an indication can be mistaken for that of another
frame; `phy_served` does not depend on TTI numbers and has one.  As in the code there
are as many buffers as descriptors, enough for the three requests of a subframe; `phy_served`
stops where a request is refused, as its properties do.  `LeftAssumption` says that an L1 left running
does not fill a queue of 64 before the STOP that the thread sends first.

In `platform` the memory has eleven units, two of them the DSP's, and one size list besides the list of large
areas, enough for four areas, each of which can be split, aligned and merged on
both sides; two processes initialise it, and once one has done so under the areas of the
other, `StaleBound` keeps two areas.  Three cores in two clusters are the fewest for
which one cluster can be reset without the other; two calls let the second meet what the
first has left, one core at a time fails.  The control area is laid out for one and two
regions and for drivers that agree or disagree about the number of channels.
Three transfers wrap a ring of two.  Two channels with an interrupt each send two
messages to a process that lives twice.

In `asn1` a stream arrives in pieces of 1, 2, 3 or more octets in every order; behind the
message the next one has begun or not.  The BER forms of a value are the encoder's, long
lengths, and indefinite lengths with strings in two parts.

Runs of libraries and drivers that may stop (a failed start, a stopped library, an
ended thread, a spent bound) do not check for deadlock; their liveness properties take its
place.

Fairness.  A thread inside a call of a queue goes on, since the mutex is held for
a few instructions and the scheduler runs every thread.  That the consumers
(producers) call again and again, as their loops do, is a premise of
`WaitersWoken` where it needs it.  Nothing is assumed of breaks, timeouts and spurious
wake-ups.  In `ipc_tti` the DSP sends a message whenever it has room, as it does in every
subframe; in `ipc` it may stop, and the fairness of reader, handlers and DSP is a premise of
each property.  The RRU manager's loop goes on while it can; a unit that works answers,
and one that sends heartbeats goes on doing so without putting off its calibration report
for ever.  Seconds pass (`Tick`) only when every unit waits for the thread, unless
the fault "slow" lifts that: the limit of ten seconds is long against an answer.
`Served` is claimed for units that register again only after the thread has seen
the end of their old connection (no fault "fast").

In `fapi_dispatch` the three threads go on while they can; nobody has to call
`fapi_stop`, to pop or to send.  That clients pop is a premise of `NoStall`; that the
DSP does not refill the channel for ever faster than it is drained one of
`StopCompletes`, as the draining loop ends on an empty channel only.  In `phy_served`
the DSP handles requests and, while it runs, sends an indication for each subframe.
`platform` and `asn1` check safety only.

## What the violated runs show

* `pop_last` empties the queue but takes one off `num_items`; the PHY thread of
  the generator is then handed the same subframe indication again.
* `het_ipc_read` sleeps without testing the mask.  A notice between the
  reader's last look at the ring and `swait_prepare` is lost; usually the next
  message wakes it, but if the ring is full by then, neither side ever moves.
* In the RRU manager a closed slot keeps its descriptor number, and two units can
  come to share a socket (`rru_shared`).  The blocking read can then wait for
  good, which is why `NeverStuck` is claimed for one unit only.

## Behaviour the properties leave out

The models contain it; each property says up to where it is claimed.

* Queues and dispatcher.  A pop broken out of an empty queue leaves `num_items` at -1,
  and the next pops return what the slots held.  A dispatcher that has not yet set
  `running` survives `fapi_stop`; one cancelled in `pthread_cond_wait` leaves a mutex locked.
  A request refused for want of a descriptor has been written over the oldest pending one.
* RRU manager.  A slot dropped before it was connected closes descriptor 0; only the first
  message of a read is handled (the fault "burst"); a failed read handles the previous
  message again; seconds count only when nothing at all arrives, so user packets keep a
  silent unit connected (the fault "tap").  `Orderly` names the faults for which liveness
  is claimed.
* Signals.  `het_ipc_open` and `het_ipc_release` by one process clear the registrations of
  all; a channel still open from an earlier life may signal before it is listed again.
* Transmit requests.  A second request over a running transfer rewrites the list under the
  engine, and the start is refused without a word.  A transfer that ends between
  `producer_num` and the local index leaves them apart.
* Memory.  `fsl_usmmgr_init` initialises the whole segment again in each process.  The free
  lists are only loosely sorted, so that a small request may be refused although an area
  would fit.
* Control area.  Both user-space versions of the channel layout place channels over their
  neighbours; `fsl_ipc_init_rat` keeps one address table for two instances; a reload of the
  driver takes new memory without a test for the end.
* DSP boot.  Corruption found by `check_validation_fields` is ignored (positive, tested with
  `< 0`); on a 913x a mismatch of the semaphore counts as success.

The ASN.1 run keeps away from inputs for which the runtime is known to differ from its own
contract; each was met while the operators were written, and the operators show it:

* BER: between two tags in indefinite form the number of expected end marks is lost when
  the input ends there.
* OER: the length of the map of extensions is lost when the input ends behind it; tags from
  128 on, lengths from 128 on on a big-endian host and unknown `CHOICE` extensions are not
  handled.
* PER: 64 and more extensions are written with a count of eight bits and read with nine;
  a semi-constrained INTEGER with a bound other than 0 cannot be encoded; aligned PER
  aligns variable BIT STRINGs and large enumerations differently on the two sides.
* GSER: an empty list and a text that ends behind a comma are not read; a PrintableString
  is written in a form that is not read back.

## Theorems

The assumptions are the named `ASSUME`s of the modules: positive lengths, a ring
shorter than the counter range, a null pointer that is not an item, sizes that are
natural numbers.  What else a theorem assumes it says itself.

* `QueueProofs`, the queue.  `WakeupsNeverLost` rests on `WakeInv`, which adds that a
  sleeper is inside the matching call.  `RefusedPushTheorem` rests on `RefusedInv`: a push
  on its way out without its item has seen the break flag, and nobody takes it back.
  `NumItemsTheorem` and `FifoTheorem` rest
  on `FifoInv` and assume `FifoUse`: nobody calls `break_pop`, `clear` or
  `pop_last` (the violated runs show why).  `AccumulatedTheorem` adds to `FifoInv` the sum
  of the queued lengths: a push adds its length behind the last of them, a pop takes the
  first away, and remainders by the width of `size_t` follow sums and differences.
* `IpcProofs`, the descriptor ring.  `RingInv` adds what each side knows in the middle of a call:
  a producer past its test has room, and the slot it fills is not one that can
  be read; a consumer past its test has a message, and holds what the slot
  holds.  From it follow `LocalsTheorem` (the indices agree with the wrapping counters and
  the ring is never over-committed) and `RingFifoTheorem`.  Every step of `HetIpc` is a step
  of `BdRing` or leaves the ring alone, hence `HetFifoTheorem`.  `RecordedTheorem` rests on
  `HetInv`: a message that arrives after the reader saw an empty ring has a notice of its
  own, and nobody but the reader clears the mask.
* `QueueProofs`, the channels.  `EverySignalTakesTheorem` rests on `SigInv`: in its first life a process
  opens a channel to the DSP only after it has registered and listed it, and messages
  outnumber the notices not yet taken.  `TxIntactTheorem` rests on `TxInv`, which
  follows the list of entries through the engine: what the engine has copied
  fills the slot behind the counters, what is left of the list ends with them, and the slots
  between the counters hold the requests sent last.  The argument needs a producer that
  waits for each transfer and a transfer not cut between its two counters, as `TxIntact`
  says.
* `IpcProofs`, the control area.  `FreshInv` follows PASTATE through a load or reload of a 913x; `StartsFreshTheorem`
  follows.  `AreaInv` holds of the layout: the fixed structures follow each other
  from the start of the area (`FrameFixed`), each region's channels and rings lie between them
  and the allocator's mark, in the order in which the drivers placed them (`ChannelsPlaced`),
  and a process that is attached caches the addresses of its instance.  `AttachedCurrentTheorem`
  and `LayoutDisjointTheorem` follow.
* `BootProofs`.  `BootInv` says for each step of a boot or reset what has been done by then:
  which cores are held, which images are in place, which status words were cleared
  (`LoadInv`, `RestartInv` and their like).  `SuccessIsRestartTheorem` and
  `ImagesInOrderTheorem` follow.  `Nxt`, the core or image a loop comes to next,
  and the list that `bubble_sort` returns exist because the naturals are well-founded
  (`LeastNat`, `OrderExists`); no induction is needed.
* `RruManagerProofs`.  `TableTheorem` rests on
  `TableInv`: occupied slots carry the MAC of a unit, no MAC is in two slots.  If
  no slot were empty, the slots would hold as many different MACs as there are
  slots, hence all units (`UnitsFit`, pigeonhole), so the search by MAC finds one.
  `SlotsTruthfulTheorem` is for a site with one unit (`OneUnit`): with two, the stale
  descriptor of one slot can be the other's socket, which the run `rru_shared` shows.  All
  faults may occur together, where the run `rru` has them in three sets.  `TruthInv` adds
  to `TableInv` the descriptors (`FdInv`: descriptor 0 is free only until a slot was polled, a
  reported slot is open, a waiting connection is in no descriptor) and the conversation
  (`LinkInv`): on a live connection at most one request or answer is under way, a cell clear
  only while the slot waits for its answer, and a cell answer only then or after the cell
  was set up.  A unit that waits for its address has no live connection, so a
  registration never changes the state of a slot in the middle of a conversation.
* `FapiProofs`, the dispatcher.  `IInv` adds to the properties who is alive when
  (`ThreadInv`), that the break of the P8 queue is set once, after `p8_running` is
  cleared, so that the pop it ends is the last (`DumpInv`), and that the queues are
  empty until the dispatcher has seen the channel empty (`DrainInv`).  From it follow
  `OldDroppedTheorem`, `NoMissedBreakTheorem`, `StoppedOrLateTheorem`,
  `NoDumpAfterStopTheorem` and `DumpBoundTheorem`.  `RequestsIntactTheorem` rests on `BufInv`:
  while nothing was refused, pending requests lie in the buffers taken last, in order; it
  needs at least as many buffers as descriptors (`BufAssumption`).
* `FapiProofs`, the decoding.  While the thread keeps up, at most one subframe indication is on its way
  through channel, dispatcher and queue (`SfInv`).  What the DSP sent before it is stamped
  with the subframe now due, what it sent after it with the next one, and each
  lies in the slot of its subframe (`StampInv`).  `FreshDecodeTheorem` assumes that a
  frame has more than one subframe (the code has ten), since the two would otherwise
  share a slot; it holds for every lag, depth and place where the TTI counter wraps.
* `TotalsProofs`.  `Total` sums a sequence by its partial sums.  That they exist and are
  unique is shown without induction: the first place where they would fail has a
  predecessor (`LeastNat`).  `TotalInsert` and `TotalRemove`, a number put in or taken out
  anywhere, are what the queue and the heap need.
* `HeapLemmas`, `HeapProofs`.  `HeapInv` holds of a heap between two calls:
  the areas tile the segment (`Tiled`), the lists hold the free ones with their totals
  (`ListsOk`), the allocated addresses are those of the others and no two free areas are
  neighbours (`NoPairs`).  Every change of a list is a `Splice`, so one family of lemmas
  says what a splice does to tiling, to neighbours, to the set of free nodes and to a total.
  In the middle of `__free` the freed area is in no list and may have a free neighbour on
  each side: `Mid` says so, and `MergeDown` and `MergeUp` lead from it back to `HeapInv`.
  `ShmInv` adds that, unless the segment was initialised again under them, the areas the
  processes hold are allocated areas, no two the same (`Owned`); it is inductive
  (`ShmInvInductive`).  `HeapSoundTheorem` and `OwnersDisjointTheorem` follow.
  `LargeServedTheorem` needs no order of the lists: a larger request searches the last list
  whatever its head says, and for a smaller one the head of the last list promises enough
  and every node there is big enough, its tail included; if an earlier list is searched
  instead, its tail serves the request.  All
  three hold for every segment, list boundaries, processes, requests, alignments and
  failures of `kmalloc`.

Only model-checked: all liveness properties, which the prover cannot reach, and the
properties of `asn1`, whose operators are recursive.

## Not modelled

* ASN.1: XER, open types, REAL, OBJECT IDENTIFIER, ANY and random values, which nothing in
  the application uses; printing, freeing and constraint checking, which change nothing a
  decoder sees; the generated type descriptors, which are data.
* The IPC semaphores: compiled to nothing without `CONFIG_LOCK`.
* The stimuli of the generator (`abs_tti` is compared with the subframe modulo 10 only, so
  that a gap of whole frames goes unnoticed), and its application apart from the reading
  of its file.
* The RRU manager's forwarding threads and its stop; the mapping of addresses in
  `fsl_usmmgr.c`, a search without state; the FAPI scheduler, a table of callbacks; logging,
  test programs and the contents of FAPI messages, which carry no control.
* Memory is sequentially consistent in the models; the code has no barriers between a
  descriptor and its counter.  A process does not die in the middle of a ring operation.
