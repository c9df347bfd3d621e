# A verification project for SystemC-Components

SystemC-Components (SCC) is a C++ library of building blocks for SystemC/TLM virtual
platforms. This directory holds TLA+ modules that model its concurrent core, the TLC
configurations that check them, and TLAPS proofs of their safety properties. Paths below
are relative to `src/src/` of the repository unless they say otherwise; `PROJECT.json` maps
every definition to the lines it models.

## 1. The system

### Threads and processes

Three kinds of concurrency occur in SCC, and the models treat them differently.

* **SystemC processes** are coroutines of one kernel thread. Between two calls of `wait`
  a process is not interrupted, but the order in which the kernel runs the processes of
  one evaluation phase is free. An operation that does not wait is one action.
* **Host threads** (`std::thread`, boost::asio pool threads) interleave with the kernel
  thread at every access to shared memory. An action ends where a thread has touched
  something that another one reads.
* **Other programs**, reached over TCP: the bridge connects two simulations.

### Components

| component | state | operations | talks to |
|---|---|---|---|
| `ordered_semaphore` (`sysc/scc`) | value, capacity, two queues of processes, an event | `wait`, `trywait`, `post`, `set_capacity`, `lock` | SystemC processes; routers, bus adapters and mixins use it for arbitration |
| `rigtorp::SPSCQueue` (`common/rigtorp`) | ring of slots, two atomic indices, two cached copies | `push`, `try_push`, `front`, `pop`, `size` | carries every hand-over between threads below |
| multi-threaded quantum keeper (`sysc/tlm/scc/quantum_keeper_mt.h`, `qk/`) | local times, a channel per client, the published window, deputies | `check_and_sync`, `execute_on_sysc`, `run_thread`, `sync_local_times`, `sc_method` | client threads, time keeper thread, kernel |
| `tcp4tlm_bridge` (`components/scc`) | connection, request ids, task queues, time stamps | `do_access`, `server_receive_completed`, `timing_thread`, `process_task_que`, shutdown | two kernels and two I/O threads over TCP |
| `tcp4tlm_client`, `tcp4tlm_server` | the same, one direction each | | |
| `at_router` (`components/scc/at_router`) | routes of outstanding transactions, arbitration queues | nb_transport phases through arbiter and decoder | initiators and targets |
| `router`, `nu_router`, `dmi_mgr`, `range_lut` | address map, DMI ranges | decode, forward, invalidate | initiators and targets |
| `target_mixin`, `tagged_target_mixin`, `b2nb_adapter` | the request in progress, its phase | nb to b and b to nb conversion | TLM sockets |
| `peq`, `fifo_w_cb`, `async_queue`, `async_event` | timed entries, an event | `notify`, `get`, `push` | SystemC processes and host threads |
| `sc_thread_pool`, `thread_pool`, `thread_syncronizer`, `watchdog` | queues, counters, flags | `execute`, `enqueue`, `arm` | threads |
| memories and registers | bytes, callbacks | read, write, reset | TLM targets |
| `tlm_mm`, `pool_allocator` | pools and reference counts of payloads | allocate, free | everybody |
| CXS link (`interfaces/cxs`) | packets waiting, the cut packet, credits on both sides, flits under way | `clock` and `handle_received_credits` of either side, `fw`, `bw`, reset | packet sockets on both ends |
| bus interfaces (AHB, APB, AXI/ACE, OBI, TileLink ...) | per-phase queues | phases, pins | TLM sockets and signals |
| tracing, recording, configuration, reporting, loaders | files | input and output | |

`PROJECT.json` lists all of them with their files, modelled or not.

### What is hard, and what makes each part correct

* *Semaphore.* All waiters sleep on one event, so a release wakes all of them and each
  decides for itself whether it is its turn. Correct means: arrival order and priority
  are respected, units are neither lost nor created (also across a resize), nobody
  sleeps for ever.
* *SPSC queue.* Each side works with an old copy of the other's index. Correct means: it
  is a bounded queue, and no slot is touched by both sides at once.
* *Quantum keeper.* Client threads run ahead of SystemC inside a window that a third
  thread computes from reports which are already old when they are read. Correct means:
  the window follows the slowest client, tasks do not run before their time, the busy waits end.
* *Bridge.* A blocking socket read inside a SystemC process stops a whole simulation.
  Correct means: each access is executed once, at its time, and gets its own answer;
  the two simulations do not wait for each other.
* *Approximately-timed router.* Payloads travel as plain pointers through arbiters,
  decoders and threads of targets, and an event that fires while its process waits for
  something else is lost. Correct means: one answer per access and to its owner, nothing
  touched after it was given back, fair arbitration, no access left behind.
* *Address map.* Ranges are stored as begin and end entries that may overwrite each other,
  and DMI uses a second description of them. Correct means: an address decodes to a range
  that covers it, and DMI reaches the byte that `b_transport` reaches.
* *CXS link.* Packets are cut over flits, credits travel separately, and a reset may come
  at any moment. Correct means: credits are conserved, packets arrive once and in order.

The list of hazards in `PROJECT.json` names the lines.

## 2. Modules

| module | what it is |
|---|---|
| `OrderedSemaphore` | the semaphore and the lock class; one action per operation, `Retry` for a resumed `wait`, `Deliver` for the kernel's delta notification |
| `OrderedSemaphoreProofs` | theorems about it |
| `BoundedFifo` | the abstract specification: a first-in first-out queue with a capacity |
| `SpscQueue` | the ring buffer, one action per access to shared memory; refines `BoundedFifo` |
| `SpscQueueProofs` | theorems about it, the refinement included |
| `QuantumKeeperMt` | client threads, time keeper thread and kernel thread |
| `QuantumKeeperMtProofs` | theorems about it |
| `Tcp4TlmBridge` | two bridged simulations, each with a kernel thread and an I/O thread |
| `Tcp4TlmBridgeProofs` | theorems about it |
| `AtRouter` | the approximately-timed router composed with the adapter in front of it and the target's threads behind it |
| `MCAtRouter` | the accesses of its instance |
| `AtRouterProofs` | theorems about it |
| `AddressMap` | `range_lut` and the router's use of it |
| `AddressMapProofs` | theorems about it |
| `CxsLink` | transmitter, channel and receiver |
| `CxsLinkProofs` | theorems about it |
| `NaturalSets` | lemmas about minimum, maximum and remainder that several proofs share |

### OrderedSemaphore

`value`, `capacity` and `queue` are the members of the class; `pc[p]` says whether a
process runs, is blocked in `wait(free_evt)` or was woken by it; `free_evt` is the
pending delta notification; `owned` are the lock objects that own a unit. `ahead` is a
history variable, the processes that must be granted a unit before `p`; it is written and
never read by the actions. `WaitLoop` is one pass of `while(in_use()) wait(free_evt)`;
`in_use` pops the queue when it answers false, so `PopFront` belongs to it. Processes are
lockers, which use the RAII class, or raw users, which may post without holding a unit,
as the interface allows.

`trywait` on a negative `value` succeeds in the code (`value == 0` is the only check) and
in the model. A locker takes one lock at a time: a process that waits for a second unit
it holds itself is a deadlock of the caller, not of the semaphore.

`GrantInOrder` looks at every unit that `wait` grants: to a process resumed by `free_evt`,
and to one whose call takes a unit at once while others are queued (between a `post` and its
notification, say). `trywait` only looks at `value`, takes no place in the line and may
overtake all of it, although `ordered_semaphore.h:42` speaks of access in general; it is not
part of the property. `LocksAccounted` is about steps: only `wait`, `trywait` and `post` of a
raw user can upset the balance of units, locks and capacity.

### SpscQueue

`Loadable` is the memory model: an acquire load of the index that the other thread stores
returns some value the index has had since the loader last observed it. Coherence allows
nothing older, and nothing forces a newer one; fairness only says that stores become
visible eventually. `Construct` and `Publish` are separate, as are `Destroy` and
`Release`, so that an element exists before the index tells of it. A push takes effect
at `Publish` and a pop at `Destroy`; `Items` is the refinement mapping. In the other
modules the queue appears as the bounded sequence that this refinement justifies.

### QuantumKeeperMt

The clients' program is free: it may advance by one of `Increments`, hand over a task
(`ExecuteOnSysc`) and return (`FinishThread`). `PushTime` and `FlagUpdate`, which are
`update_client_time_ticks`, are two steps because the time keeper may run between the push and
the store of `update_it`. A task may be handed over for any time (`when`), as the second
overload of `execute_on_sysc` allows, and `asked` remembers it. The time keeper takes one step
per entry it drains (`TkTake`, after which the kernel may already run a forwarded task and the
client push its next report into the same drain), one per channel (`TkCollect`) and one per
store of `client_min_time`, `client_max_time` and `sc_kernel_time`. The kernel alternates
between its processes (the deputies' `RunTask` and `EndTask`) and `sc_method`, which is
`ScheduleTasks`, or `NoTasks` followed by `Decide`. Setting a deputy's flag and storing
`sc_is_free_running` are separate steps on both sides, because `run_thread` calls
`notify_client_blocked` from the client thread without synchronisation. The SystemC scheduler
is modelled as far as it is used: the time of the next event, and that a time step happens
when nothing is left to do now.

All clients enter `run_thread` at time 0; registration before the start of the simulation,
the finish event of `async_thread` and calls of `reset` by a client are left out.

`SyncEnds` excuses two cases, both of which the code has. A client that returned keeps its last
time in the minimum (run `quantum_finish`). And a time report that is drained together with the
task before it is `Misjudged`: `has_task` stays set for the whole drain, so `waiting4sc` says
that the client waits for SystemC although it spins in `check_and_sync`; nothing corrects it
before the next report, which the client cannot make. `TasksComplete` excuses a client that is
held in that spin.

### Tcp4TlmBridge

`kpc[s]` is the kernel thread of peer `s`, `io[s]` its I/O thread. `Access` sends a
request and blocks the kernel (`kpc = "access"`), no process of that simulation runs until
`ReadResponse`. The I/O thread handles one request at a time (`HandleBusOp`, `PushStamp`,
`HandlerDone`) and the tasks it queues run in the kernel: at once (`ProcessTask`), at
their time (`ProcessTimedTask`), or with a `wait` of the target in between (`EndWait`).
`Advance` is a step of SystemC time; that of the connection server needs a time stamp
(`TakeStamp`), since `timing_thread` otherwise spins in delta cycles. TCP is reliable and
keeps the order, as the code assumes: it has no reconnect and no resend.

Left out: `wall_time_simulation_speed`, `no_systemc_sync`, `SigOpMsg` and malformed
requests (no bridge sends them), socket errors, the data, byte enables and statistics.

`do_access` can block its simulation for ever, and `AccessCompletes` names every way: both
peers access each other at once and neither kernel runs the other's request (`Crossed`); a
target of the server waits for a time which only the blocked client could announce
(`TargetStarves`); the client's I/O thread waits for room in `next_time_stamp`, which nobody
empties in the client (`StampsFull`). The run contains all three, each is reached, and nothing
else keeps an access from coming back, unless the simulation of the other peer ends.

### AtRouter

`arch` is chosen in the initial state: a hub is one arbiter before one decoder, a crossbar a
decoder per initiator before an arbiter per target. `Request` is `nb_transport_fw` with
`BEGIN_REQ`, by an initiator of its own or by the `b2nb_thread` of `target_mixin`; `Arbitrate`
and `ArbiterResumes` are the halves of `arbitrate()` before and behind its wait for the time
of the transfer; `TargetResponds` and `ResponseEnds` those of `nb2b_thread`; `ArbiterStarts`
is the way of `arbitrate()` to its first `wait(evt)`: it waits `SC_ZERO_TIME` and, without a
clock period, for the clock. `DecoderBw` is `bw()` with its `next_trigger` in `bw_waits`.
`note`, `bw_note` and `retrigger` are pending notifications; `ArbiterMissesEvent` and
`DecoderMissesEvent` lose those nobody waits for. A request whose event fires while the
arbiter is still starting stays in its queue until another request comes to the same arbiter,
because nothing looks at the queues before `wait(evt)` (`nb_arbiter.h:125`, `136`): `missed`
records this and `Drains` excuses exactly these requests. Time is abstracted to the order of
steps. `Return` is the end of `b_transport`, which waits until the payload is no longer
referenced.

The exclusion of responses holds in the crossbar only: the arbiter of the hub turns an
accepted response into a completed one, and the next may follow before `END_RESP`.

### AddressMap

The variables are the members of `range_lut` and of `router`; the actions configure the
router, with any ranges, overlapping ones too. `Route` and `DmiRegion` are what
`b_transport` and `get_direct_mem_ptr` compute; the invariants compare them with each other
and with `ranges`, the history of what was configured. Addresses are modulo `AddressSpace`.
`validate()` accepts some tables with overlapping ranges (the end entry of one range may
replace the begin or the only byte of another); `DecodesToOwner` therefore does not rely on
it: whatever was overwritten, an address decodes to a target mapped to it or to none.

### CxsLink

One action per SystemC method. A flit is the sequence of packets that end in it; the
`Backlog`, the cut packet followed by the queue, is packed by `Fitting` and `Cut`.
`received_credits` and `returned_credits` are the entries that `handle_received_credits`
takes over in a later delta cycle. `EnterReset` may come at any moment. The code does not
clear `burst_credits` and `transfered_pkt_bytes` in a reset, and neither does the model:
`surplus` records the first, and after the second a shorter packet makes the difference
of sizes wrap around (`Overrun`), from where the transmitter may send flits for ever in
which no packet ends. `LeaveReset` assumes that a reset lasts until the channel has
drained; a shorter one would add the credits under way to the new ones.

## 3. Runs

Passing runs:

| run | instance | shows |
|---|---|---|
| `semaphore` | 3 lockers, 1 raw user, capacity 2, resizes to 1, 2, 3, both priorities, fair | `QueueDiscipline`, `NeverOverfull`, `FreeSemaphoreServes`, `GrantInOrder`, `LocksAccounted`, `LockServed` |
| `spsc_queue` | 4 slots, 2 values, fair | `NoClash`, `FrontAfterSize`, refinement of `BoundedFifo`, `PushCompletes` |
| `quantum_single` | 1 client, quantum 1, increments 1 and 2, tasks of duration 0 and 1 for any time up to 2, an event, fair | `SyncEnds`, `TasksComplete`, `KernelNotStuck` |
| `quantum_pair` | 2 clients, quantum 1, one with tasks for any time, one that returns, channels of two entries | `NoReportLeftBehind`, `WindowFollowsSlowest`, `TaskNeverEarly` |
| `bridge` | either peer or both make up to 3 reads or posted writes, reads may fail, targets of either peer may wait, one place for time stamps, time up to 2, fair | `OneTaskAtATime`, `ResponseBelongs`, `ServerNotAhead`, `ExecutedOnTime`, `AccessCompletes`, `HandshakeCompletes`, `ShutdownArrives` |
| `at_router` | hub and crossbar, 2 initiators, one of them blocking, 2 targets and a hole, 3 payloads, one used by both, fair | `AnsweredOnceToOwner`, `UnusedAfterReturn`, `BoundedBypass`, `ResponseExclusion`, `Drains` |
| `cxs_link` | 4 packets of 1, 5 or 20 bytes, flits of 8 bytes, 3 credits, bursts of 2, one reset, fair | `CreditsConserved`, `DeliveredInOrder`, `PacketArrives` |
| `address_map` | 6 addresses, 3 targets, up to 3 ranges, with and without the overlap check | `DecodesToOwner`, `DmiMatchesRoute` |

`TypeOK` is checked by one of them, or proved (`CxsLink`). Every property has a mutant, a plausible
slip in the code that TLC finds to violate it; the mutated forms stand in front of the
definitions they replace.

Runs that show the code to differ from what its documentation says:

| run | document | what happens |
|---|---|---|
| `semaphore_blocks` | `ordered_semaphore.h:71` "block if not available" | capacity 2, two releases in one delta cycle: the second waiter is evaluated before the first one has left the queue, sleeps again and is not notified although a unit is free; it is served at the next release |
| `quantum_finish` | `quantum_keeper_mt.h:57` "holds the thread until it is within the quantum" | the last time of a client that returned stays in the minimum and another client spins for ever; with `Finishing = {}` the same instance passes |
| `quantum_slowest` | `qk/global_time_keeper.h:18-19` "always the last/slowest thread" | two clients: one has not reported yet, counts as waiting for SystemC (`waiting4sc` starts set, `qk/types.h:60`) and is left out of the minimum; SystemC passes it |
| `bridge_posted` | `tcp4tlm_bridge.md:144` no response "unless" requested | a failed posted write is answered, and the next access takes that answer |

Further disagreements are part of passing properties, where the excuse names them: the three
deadlocks of the bridge (`Crossed` against `tcp4tlm_bridge.md:7`, "acts in two directions at
once", `TargetStarves` against `tcp4tlm_bridge.md:143`, and `StampsFull`) in `AccessCompletes`,
the misjudged report in `SyncEnds`, the requests lost at the start of an arbiter in `Drains`,
and the transmitter that never ends a packet after a reset (`Overrun`) in `PacketArrives`.
Dropping any one of these excuses makes TLC show the case.

### Bounds

`MaxDebt` and `MaxValue` bound the semaphore's value; a resize by one in each direction
with more waiters than units already reaches negative values, a full queue of both
priorities and overtaking. The ring of four slots wraps with every mixture of stale
indices, and two values tell neighbouring elements apart; the theorems cover all
capacities. `MaxTime` ends the simulation like the argument of `sc_start`: with one client
it allows a window beyond the first, increments of one and of two quanta, and tasks that
overlap an event; with two clients one window, since the interesting interleavings are those
inside a window. An increment of 0 is left out of the fair run: a client that reports for
ever without advancing may keep the time keeper in the drain of its channel.
`ChannelSize` is smaller than the 7 of the code so that pushes block, and 2 where a task and
the next report must meet in one drain. `MaxAccesses = 3` lets a response be confused with the
one before and after it; with `StampQueue = 1` the client's `next_time_stamp`, which nobody
empties, does reach its limit. A read and a write with a response behave alike in the bridge,
so the passing run has reads and posted writes; `bridge_posted` has all three.

The router's third payload passes from one initiator to the other and from one target to
the other, so that it meets its old entry in `source_by_tx`, and any queue can hold two
requests. Three ranges in six addresses touch, overlap and contain each other in every
way, also at the last address. A packet of 20 bytes spans three flits, one of 1 or 5 bytes
shares its flit; with 3 credits and bursts of 2 a burst uses up all but one credit, and
`UInt = 32`, a multiple of the flit as in the code, is small enough for
`transfered_pkt_bytes` to wrap around.

`CHECK_DEADLOCK FALSE` is used where the system may stop: in `semaphore` (a process that waits
while raw users hold the units), in the passing runs of the quantum keeper, the bridge, the
router and the link (simulations end or idle), and in `address_map` (configuration ends).

### Fairness

`semaphore`: the kernel runs runnable processes and delivers notifications, and a lock object
is destroyed at the end of its scope; `LockServed` asks nothing while raw users hold or invent
units or urgent requests keep coming. `spsc_queue`: both threads run, stores
become visible, the consumer drains. Quantum keeper: the operating system runs every
thread; the kernel runs every runnable process (strong fairness for the deputies, whose
steps alternate with `sc_method`); a client does not hand over tasks for ever without
advancing its time (strong fairness of an increment). Bridge: the threads run, processes
that are due run, and the server's model ends when it sees `shutdown_evt`. Nothing forces
an initiator to access, a client program to end, or a `trywait` to succeed. Router: the
kernel runs what can run, time advances, there is a clock period in the end, and an initiator
answers a response. `Drains`
asks nothing while accesses go on, since the kernel may then prefer other threads each
time `m_end_response` is notified. Link: the clocks tick, triggered methods run, and a
reset ends; nobody has to send.

## 4. Proofs

The proof modules hold for every value of the constants that satisfies the assumptions
next to their declaration.

**OrderedSemaphoreProofs.** `QueueDiscipline` alone is not inductive together with order:
the inductive invariant `Inv` adds to `TypeOK` and to the discipline of the two queues,
(stated for a pair of queues and a set of waiters, so that push and pop become lemmas),
that every process in `ahead[p]` stands before `p`. When
`in_use` lets `p` go it is at the head of the line, hence `ahead[p]` is empty:
`GrantsInOrder`. For the wake-up theorem, `ServeInv` adds `capacity # 0` and
`value <= capacity`; `FreeSemaphoreServesWaiters` and `LimitedNeverOverfull` assume
`Limited` (a positive initial capacity and positive resizes), which an unlimited
semaphore, capacity 0, does not promise. For a unit that `wait` takes at once, the processes
that are ahead on arrival are those queued before the new entry, so that a call which finds
itself at the head has none. `LocksAddUp` proves `LocksAccounted` with `LockInv`, which says
that the owners of a lock are finitely many and run; `LocksAlwaysAddUp` concludes for
`RawUsers = {}` that the units always add up (a raw `post` without a `wait` creates a unit).

**SpscQueueProofs.** The inductive invariant is `TypeOK`, the order on the ring of the five
indices `readIdx`, `seen`, `writeIdxCache`, `writeIdx`, `readIdxCache` (`RingOrder`), what
each thread may conclude from its cached copy (`Knowledge`), which slots hold living
elements (`Alive`) and that the object about to be published is the value being pushed
(`Constructed`). `NoClash`, `FrontAfterSize` and the refinement
`QueueImplementsFifo` (initial states map to the empty queue; `Publish` is a push,
`Destroy` a pop, every other step a stutter) follow from it.

**CxsLinkProofs.** `Conservation`: `CreditInv`, which is `TypeOK` with `CreditsConserved`, is
inductive; by the lemma `CreditsMove` a step that only moves credits between transmitter,
channel and receiver keeps their sum, and `LeaveReset` establishes the sum anew. `Order`:
`DeliveredInOrder` alone is not inductive; `OrderInv` adds that the packets of the backlog,
of the flits under way and of the history form one increasing sequence of ids, all of
those in the backlog above those under way and all of these above those delivered
(`BacklogOrder`, `FlitOrder`, `ChannelOrder`, `HistoryOrder`), and that none of them was
dropped. The proof needs of `Fitting` only that it is a prefix of the backlog, hence it
holds for every packing. `transfered_pkt_bytes` is not part of `TypeOK`: its type depends
on what the recursive function `UsedBuckets` computes, which needs an induction the prover
does not do.

**QuantumKeeperMtProofs.** `Inv` says of each client that its task, if it has one, is in one
place (the channel, `pending`, with the deputy, in progress, or done) while the client waits
for it (`OneTask`), and that reports are not ahead of their client and tasks carry the time
that was asked for (`Reports`). `TypeCorrect` includes the bounds of the channels. `NeverEarly`
follows from `Inv` alone. `NoReportLost` needs
`Noticed`: a channel that is not empty has `update_it` set, or its sender between push and
store, or the time keeper's pass still before it; without the last case a report pushed while
the time keeper collects would break the induction. `WindowFollows` needs `Window`, that during
a pass the minimum so far bounds the clients visited and between passes the window bounds all of
them, and `Drain` and `Judged`, which say what the flags of a drain in progress and
`waiting4sc` mean for the time noted of the client: `when` may lie ahead of its local time, but
such an entry also sets `has_task`.

**Tcp4TlmBridgeProofs.** `Inv` is `TypeOK`, the phases of the handshake (`Handshake`) and
`Held`: a peer has at most one task, in one of three places, and either its handler waits for
that task or it is the announcement of the endpoint, which the handler does not wait for.
`OneTask` is a consequence; the second half is what makes it inductive. `ServerBehind` uses
`Ordered`, a chain of times from the server's `now` over the target of `timing_thread`,
`next_time_stamp`, the message in progress and the requests on the wire to the client's `now`.
`ExecutesOnTime` is about the beginning of `b_transport` and holds for any latencies; a target
that waits ends later, by intent. `ResponsesBelong` uses `Answers`: at most one answer is to
come, its request being the last on the wire, in hand of the peer, or answered; it assumes
that no posted write fails, and `bridge_posted` shows what happens otherwise. All of them hold
for any workload, those under which the two peers block each other included.

**AtRouterProofs.** `Inv` tracks a payload: queues hold nothing twice, and according to the
state of its access a payload is at its arbiter, at its target, at its decoder or nowhere, with
the matching entry in the map of sources (`Tracked`). `AnsweredToOwner` and `NoUseAfterReturn`
follow. `ResponsesExclude` adds `Exclusive`: the decoder of an initiator that still owes
`END_RESP` waits for its retrigger. `ArbitrationFair` adds `Rotates`: the number of times an
initiator was bypassed plus its distance from the arbiter's pointer stays below the number of
initiators, since each grant to another one brings the pointer nearer.

**AddressMapProofs.** `Inv` says where the entries of the table come from: each is the begin or
the end of some range (`Stems`); each range has some entry at its begin and its end, perhaps
another's (`Marked`); if no two ranges overlap, they are its own (`Exact`); and `tranges` holds
one of the ranges of each target (`Remembered`). A range cannot begin where an entry stands,
since `addEntry` throws, but its end may replace any entry: it leaves another one in its place,
and one that overlaps. `NoWrap` shows that `addEntry` also throws when a range would leave the
address space. From this `OwnerFound` and `FoundOwns` compute `getEntry`, and
`DisjointValidates` the loop of `validate`. `DmiAgrees` adds `RegionAddress`: a region whose two
ends are moved modulo the address space is either the moved region or empty.

Proved are thus all invariants and action properties of the passing runs, for all values of
the constants, apart from the assumptions named above (`Limited`, and that no posted write
fails). Only model-checked are the liveness properties (`LockServed`, `PushCompletes`,
`SyncEnds`, `KernelNotStuck`, `TasksComplete`, `AccessCompletes`, `HandshakeCompletes`,
`ShutdownArrives`, `Drains`, `PacketArrives`), since fairness is beyond the prover, and what
the recursive function `UsedBuckets` of the link computes.

## 5. What is not modelled

Vendored and generated code (the headers under `common/nonstd`, the flatc output, and the
JavaScript bundles under `contrib/d3-hwschematic`, which are D3, the ELK layouter and a
netlist converter used by the schematic viewer), file formats, tracing, recording,
configuration and reporting are input and output. The AXI/ACE and CHI protocol engines live
in submodules that are not part of the sources.

Of the modelled components, left out are: in the router the default target, a clock whose
period is set back to zero during the simulation (the loop of `nb_arbiter.h:131-135` is
modelled as part of the arbiter's start only) and targets of other libraries that answer
within `nb_transport_fw` (a target that returns `BEGIN_RESP` there is answered by the
decoder's queue as well as by the arbiter, `nb_decoder.h:95` and `nb_arbiter.h:156`); in the
address map `removeEntry`, ranges of size 0, the mutex per target, `transport_dbg` and
`dmi_mgr`; in the link `b_transport` and the start and end pointers of a flit.
`set_initiator_base` is not applied on the approximately-timed path, so that `Route` speaks of
`b_transport` alone. A burst longer than `max_credit` never starts; `CreditAssumption`
excludes it. Everything else that is not modelled is in the plan.

## 6. Plan

In this order:

1. An abstract specification of the router, a blocking target per address, refined by
   `AtRouter`.
2. `Peq`, `AsyncQueue`, `ThreadSyncronizer`, `ScThreadPool`, `Watchdog`: small concurrent
   helpers, over the queue that `SpscQueue` refines. Properties: no task lost, the bound on
   threads, no missed wake-up.
3. APB and AHB protocol engines and pin adapters; the one-directional `tcp4tlm` modules.
4. Algorithms as operators with a reference definition: `ring_buffer`, `sparse_array`,
   register access decoding, `dmi_mgr`.
5. `TlmMm`: reference counts and pools.
