-------------------------- MODULE QuantumKeeperMt ---------------------------
(***************************************************************************)
(* The multi-threaded quantum keeper (sysc/tlm/scc/quantum_keeper_mt.h and   *)
(* sysc/tlm/scc/qk): instruction set simulators run in client threads of     *)
(* their own, ahead of SystemC time, and hand tasks to the SystemC kernel.   *)
(*   - each client thread reports its local time, or a task with its time,   *)
(*     through a queue of its own (quantumkeeper_mt);                        *)
(*   - the time keeper thread collects the reports, forwards the tasks and   *)
(*     publishes the window the clients may run in (global_time_keeper);     *)
(*   - the SystemC kernel thread schedules the tasks and decides how far     *)
(*     SystemC time advances (sc_time_syncronizer).                          *)
(* An action ends where a thread has touched what another one reads.  Only   *)
(* the kernel's own queue and pending_tasks, whose readers act on what they  *)
(* found when they are through, are emptied in a single step.  The kernel is *)
(* the SystemC 3 scheduler as far as sc_time_syncronizer uses it.  Every     *)
(* client entered run_thread at time 0.                                      *)
(***************************************************************************)
EXTENDS Integers, Sequences, FiniteSets, FiniteSetsExt

CONSTANTS
    NumClients,     \* client threads, in the order of their channel index
    Quantum,        \* max(global quantum, sc_time_step), in ticks
    FreeStep,       \* the global quantum, or 1_us if that is zero, in ticks
    Increments,     \* the core_inc arguments of check_and_sync
    Durations,      \* how long tasks keep the SystemC kernel busy
    Events,         \* times at which other SystemC processes are scheduled
    Tasking,        \* the clients that hand tasks to SystemC
    Finishing,      \* the clients whose thread function may return
    ChannelSize,    \* capacity of client2time_keeper (7 in the code)
    MaxTime         \* bound: sc_start(MaxTime), and no client runs beyond it

Clients == 1 .. NumClients
None == -1
Infinity == MaxTime + Quantum + 1
Times == 0 .. MaxTime

ASSUME QuantumAssumption ==
    /\ Quantum \in Nat \ {0} /\ FreeStep \in Nat \ {0} /\ FreeStep <= Quantum
    /\ MaxTime \in Nat
ASSUME WorkloadAssumption ==
    /\ NumClients \in Nat \ {0} /\ ChannelSize \in Nat \ {0}
    /\ Increments \subseteq Nat /\ Durations \subseteq Nat
    /\ Events \subseteq Times /\ Tasking \subseteq Clients /\ Finishing \subseteq Clients

VARIABLES
    \* client threads (quantumkeeper_mt)
    cpc, local, limit,  \* local_absolute_time, local_time_ticks_limit
    took, ready,        \* the task's future: the duration it returns, is it set
    asked,              \* the time the client asked for its task
    \* what the threads share
    chan, scChan,       \* client2time_keeper of the clients and of SystemC
    update_it, pending, \* pending_tasks: <<client, time>>
    clientMin, clientMax, scKernel,
    \* time keeper thread (global_time_keeper)
    tkpc, tlt, scTlt,   \* thread_local_time of the clients and of SystemC
    waiting4sc, tkMin,  \* min_local_time
    has_entries, has_task,
    \* SystemC kernel thread (sc_time_syncronizer)
    kpc, now, target,
    due, busy,          \* the deputies: task scheduled at, task running until
    blocked, freeRunning, phase,
    deputy              \* the deputy that is to unblock its client

clientVars == <<cpc, local, limit, took, ready, asked>>
windowVars == <<clientMin, clientMax, scKernel>>
drainVars == <<has_entries, has_task>>
keeperVars == <<tkpc, tlt, scTlt, waiting4sc, tkMin, drainVars>>
deputyVars == <<due, busy, blocked, freeRunning>>
kernelVars == <<kpc, now, target, phase, deputy>>
vars == <<clientVars, chan, scChan, update_it, pending, windowVars, keeperVars,
          deputyVars, kernelVars>>

\* All clients are in run_thread: their deputies are marked not blocked, and
\* the two updates of SC_POST_END_OF_ELABORATION and SC_POST_START_OF_SIMULATION
\* are on their way.
Init ==
    /\ cpc = [c \in Clients |-> "sync"]
    /\ local = [c \in Clients |-> 0] /\ limit = [c \in Clients |-> 0]
    /\ took = [c \in Clients |-> 0] /\ ready = [c \in Clients |-> FALSE]
    /\ asked = [c \in Clients |-> 0]
    /\ chan = [c \in Clients |-> <<>>] /\ scChan = <<0, 0>>
    /\ update_it = TRUE /\ pending = <<>>
    /\ clientMin = 0 /\ clientMax = 0 /\ scKernel = 0
    /\ tkpc = 0 /\ tlt = [c \in Clients |-> 0] /\ scTlt = 0
    /\ waiting4sc = [c \in Clients |-> TRUE] /\ tkMin = Infinity
    /\ has_entries = FALSE /\ has_task = FALSE
    /\ kpc = "method" /\ now = 0 /\ target = 0 /\ phase = "INITIAL" /\ deputy = None
    /\ due = [c \in Clients |-> None] /\ busy = [c \in Clients |-> None]
    /\ blocked = [c \in Clients |-> FALSE] /\ freeRunning = FALSE

-----------------------------------------------------------------------------
(* Client threads                                                            *)

\* check_and_sync(d), first half: inc(d)
Inc(c, d) ==
    /\ local[c] + d <= MaxTime
    /\ local' = [local EXCEPT ![c] = @ + d]
    /\ limit' = [limit EXCEPT ![c] = clientMax]
    /\ cpc' = [cpc EXCEPT ![c] = "push"]
    /\ ready' = [ready EXCEPT ![c] = FALSE] /\ asked' = [asked EXCEPT ![c] = 0]
    /\ UNCHANGED <<took, chan, scChan, update_it, pending, windowVars, keeperVars,
                   deputyVars, kernelVars>>

\* called by the thread function
CheckAndSync(c, d) == cpc[c] = "run" /\ Inc(c, d)

\* run_thread's own check_and_sync(SC_ZERO_TIME) in the new thread
EnterThread(c) == cpc[c] = "sync" /\ Inc(c, 0)

\* execute_on_sysc after ret.get(): check_and_sync(duration)
AfterTask(c) == cpc[c] = "wait" /\ ready[c] /\ Inc(c, took[c])

\* update_it.store(true) and update.notify_all()
SetUpdateForgotten == UNCHANGED update_it

SetUpdate == update_it' = TRUE

\* push into the client's channel, which blocks while it is full
Report(c, time, task) ==
    /\ Len(chan[c]) < ChannelSize
    /\ chan' = [chan EXCEPT ![c] = Append(@, [tick |-> time, task |-> task])]
    /\ UNCHANGED <<local, limit, took, ready, scChan, update_it, pending, windowVars,
                   keeperVars, deputyVars, kernelVars>>

\* update_client_time_ticks: push the local time, ...
PushTime(c) ==
    /\ cpc[c] = "push"
    /\ Report(c, local[c], FALSE)
    /\ cpc' = [cpc EXCEPT ![c] = "flag"]
    /\ UNCHANGED asked

\* execute_on_sysc(fct, when), and execute_on_sysc(fct) with when = the local time:
\* schedule_task pushes the task, ...
ExecuteOnSysc(c, when) ==
    /\ cpc[c] = "run" /\ c \in Tasking
    /\ Report(c, when, TRUE)
    /\ cpc' = [cpc EXCEPT ![c] = "taskflag"]
    /\ asked' = [asked EXCEPT ![c] = when]

\* ... then set update_it
FlagUpdate(c) ==
    /\ cpc[c] \in {"flag", "taskflag"}
    /\ SetUpdate
    /\ cpc' = [cpc EXCEPT ![c] = IF @ = "flag" THEN "spin" ELSE "wait"]
    /\ UNCHANGED <<local, limit, took, ready, asked, chan, scChan, pending, windowVars,
                   keeperVars, deputyVars, kernelVars>>

\* while(local > limit) limit = client_max_time
Spin(c) ==
    /\ cpc[c] = "spin"
    /\ IF local[c] > limit[c]
       THEN limit' = [limit EXCEPT ![c] = clientMax] /\ UNCHANGED cpc
       ELSE cpc' = [cpc EXCEPT ![c] = "run"] /\ limit' = [limit EXCEPT ![c] = 0]
    /\ UNCHANGED <<local, took, ready, asked, chan, scChan, update_it, pending, windowVars,
                   keeperVars, deputyVars, kernelVars>>

AllBlocked(b) == \A c \in Clients : b[c]

\* run_thread: the thread function returned; notify_client_blocked(c, true) runs
\* in the client thread, unsynchronized with the kernel thread's calls: blocked
\* is set and all of them are read, ...
FinishThread(c) ==
    /\ cpc[c] = "run" /\ c \in Finishing
    /\ blocked' = [blocked EXCEPT ![c] = TRUE]
    /\ cpc' = [cpc EXCEPT ![c] = IF AllBlocked(blocked') THEN "free" ELSE "notfree"]
    /\ UNCHANGED <<local, limit, took, ready, asked, chan, scChan, update_it, pending,
                   windowVars, keeperVars, due, busy, freeRunning, kernelVars>>

\* ... then sc_is_free_running is stored
FinishStore(c) ==
    /\ cpc[c] \in {"free", "notfree"}
    /\ freeRunning' = (cpc[c] = "free")
    /\ cpc' = [cpc EXCEPT ![c] = "done"]
    /\ UNCHANGED <<local, limit, took, ready, asked, chan, scChan, update_it, pending,
                   windowVars, keeperVars, due, busy, blocked, kernelVars>>

-----------------------------------------------------------------------------
(* The time keeper thread: sync_local_times                                  *)

\* update_it.exchange(false) and the SystemC channel; wait_for returns at the
\* latest after its timeout, so a missed notification only delays this step
TkBegin ==
    /\ tkpc = 0 /\ update_it
    /\ update_it' = FALSE
    /\ scTlt' = IF scChan = <<>> THEN scTlt ELSE scChan[Len(scChan)]
    /\ scChan' = <<>>
    /\ tkpc' = 1
    /\ UNCHANGED <<clientVars, chan, pending, windowVars, tlt, waiting4sc, tkMin, drainVars,
                   deputyVars, kernelVars>>

\* one pass of the inner loop: take an entry from the channel of client tkpc and
\* forward its task; the other threads go on meanwhile
TkTake ==
    /\ tkpc \in Clients /\ chan[tkpc] # <<>>
    /\ LET entry == Head(chan[tkpc])
       IN  /\ has_entries' = TRUE
           /\ tlt' = [tlt EXCEPT ![tkpc] = entry.tick]
           /\ pending' = IF entry.task THEN Append(pending, <<tkpc, entry.tick>>) ELSE pending
           /\ has_task' = (has_task \/ entry.task)
    /\ chan' = [chan EXCEPT ![tkpc] = Tail(@)]
    /\ UNCHANGED <<clientVars, scChan, update_it, windowVars, tkpc, scTlt, waiting4sc, tkMin,
                   deputyVars, kernelVars>>

\* waiting4sc of client c once its channel is empty
StillWaiting(c) == IF has_entries THEN has_task ELSE waiting4sc[c]

\* the minimum of the local times so far and that of one more client
SlowestLast(m, t) == t

Slowest(m, t) == Min({m, t})

\* the rest of the loop body for client tkpc: take the minimum over the clients
\* that do not wait for SystemC
TkCollect ==
    /\ tkpc \in Clients /\ chan[tkpc] = <<>>
    /\ waiting4sc' = [waiting4sc EXCEPT ![tkpc] = StillWaiting(tkpc)]
    /\ tkMin' = IF StillWaiting(tkpc) THEN tkMin ELSE Slowest(tkMin, tlt[tkpc])
    /\ has_entries' = FALSE /\ has_task' = FALSE
    /\ tkpc' = tkpc + 1
    /\ UNCHANGED <<clientVars, chan, scChan, update_it, pending, windowVars, tlt, scTlt,
                   deputyVars, kernelVars>>

WindowMinNoFallback == tkMin

\* if all clients wait for SystemC its time is the minimum
WindowMin == IF tkMin = Infinity THEN scTlt ELSE tkMin

\* the three stores that end a pass: client_min_time, client_max_time and
\* sc_kernel_time
TkStoreMin ==
    /\ tkpc = NumClients + 1
    /\ clientMin' = WindowMin
    /\ tkpc' = tkpc + 1
    /\ UNCHANGED <<clientVars, chan, scChan, update_it, pending, clientMax, scKernel,
                   tlt, scTlt, waiting4sc, tkMin, drainVars, deputyVars, kernelVars>>

TkStoreMax ==
    /\ tkpc = NumClients + 2
    /\ clientMax' = WindowMin + Quantum
    /\ tkpc' = tkpc + 1
    /\ UNCHANGED <<clientVars, chan, scChan, update_it, pending, clientMin, scKernel,
                   tlt, scTlt, waiting4sc, tkMin, drainVars, deputyVars, kernelVars>>

\* the time of SystemC the kernel waits to see
KernelTimeOfClients == WindowMin

KernelTime == scTlt

TkStoreKernel ==
    /\ tkpc = NumClients + 3
    /\ scKernel' = KernelTime
    /\ tkpc' = 0 /\ tkMin' = Infinity
    /\ UNCHANGED <<clientVars, chan, scChan, update_it, pending, clientMin, clientMax,
                   tlt, scTlt, waiting4sc, drainVars, deputyVars, kernelVars>>

-----------------------------------------------------------------------------
(* The SystemC kernel thread: sc_time_syncronizer                            *)

\* the times at which something is scheduled after now
FutureEvents ==
    {e \in Events \cup {due[c] : c \in Clients} \cup {busy[c] : c \in Clients} : e > now}

NextEvent == IF FutureEvents = {} THEN Infinity ELSE Min(FutureEvents)

\* a task that is overdue is scheduled now
DueTimeNow(t) == now

DueTime(t) == Max({now, t})

\* process_pending_tasks() with tasks: each is scheduled with its deputy, not
\* before now, and its client is marked blocked
ScheduleTasks ==
    /\ kpc = "method" /\ pending # <<>>
    /\ LET of(c) == {pending[i][2] : i \in {j \in 1 .. Len(pending) : pending[j][1] = c}}
       IN  /\ due' = [c \in Clients |-> IF of(c) = {} THEN due[c]
                                        ELSE DueTime(Max(of(c)))]
           /\ blocked' = [c \in Clients |-> blocked[c] \/ of(c) # {}]
    /\ pending' = <<>>
    /\ kpc' = IF AllBlocked(blocked') THEN "free" ELSE "notfree"
    /\ UNCHANGED <<clientVars, chan, scChan, update_it, windowVars, keeperVars,
                   busy, freeRunning, now, target, phase, deputy>>

\* notify_client_blocked in the kernel thread ends with the store of sc_is_free_running
StoreFreeRunning ==
    /\ kpc \in {"free", "notfree"}
    /\ freeRunning' = (kpc = "free")
    /\ kpc' = "method"
    /\ UNCHANGED <<clientVars, chan, scChan, update_it, pending, windowVars, keeperVars,
                   due, busy, blocked, now, target, phase, deputy>>

\* sc_method without tasks goes on to decide about time
NoTasks ==
    /\ kpc = "method" /\ pending = <<>>
    /\ phase' = IF phase = "INITIAL" THEN "PROCESSING" ELSE phase
    /\ kpc' = "decide"
    /\ UNCHANGED <<clientVars, chan, scChan, update_it, pending, windowVars, keeperVars,
                   deputyVars, now, target, deputy>>

\* A deputy starts its task, or completes one that waited in SystemC.
DueNow(c) == due[c] # None /\ due[c] <= now
DoneNow(c) == busy[c] # None /\ busy[c] <= now

\* the task's future becomes ready, ...
Complete(c, duration) ==
    /\ took' = [took EXCEPT ![c] = duration]
    /\ ready' = [ready EXCEPT ![c] = TRUE]
    /\ deputy' = c
    /\ kpc' = "unblock"

\* get_channel_index: the deputy process of client c runs the task it got
RunTask(c, duration) ==
    /\ kpc = "method" /\ DueNow(c)
    /\ now + duration <= MaxTime /\ local[c] + duration <= MaxTime
    /\ due' = [due EXCEPT ![c] = None]
    /\ IF duration = 0
       THEN Complete(c, 0) /\ UNCHANGED busy
       ELSE /\ busy' = [busy EXCEPT ![c] = now + duration]
            /\ took' = [took EXCEPT ![c] = duration]
            /\ UNCHANGED <<ready, deputy, kpc>>
    /\ UNCHANGED <<cpc, local, limit, asked, chan, scChan, update_it, pending, windowVars,
                   keeperVars, blocked, freeRunning, now, target, phase>>

EndTask(c) ==
    /\ kpc = "method" /\ DoneNow(c)
    /\ busy' = [busy EXCEPT ![c] = None]
    /\ Complete(c, took[c])
    /\ UNCHANGED <<cpc, local, limit, asked, due, chan, scChan, update_it, pending, windowVars,
                   keeperVars, blocked, freeRunning, now, target, phase>>

\* ... then the deputy, whose peq has no more entry, calls notify_client_blocked(c, false)
Unblock ==
    /\ kpc = "unblock"
    /\ blocked' = [blocked EXCEPT ![deputy] = FALSE]
    /\ deputy' = None
    /\ kpc' = IF AllBlocked(blocked') THEN "free" ELSE "notfree"
    /\ UNCHANGED <<clientVars, chan, scChan, update_it, pending, windowVars, keeperVars,
                   due, busy, freeRunning, now, target, phase>>

\* sc_method: run again in the next delta cycle
Again == kpc' = "method" /\ UNCHANGED <<target, phase>>

\* sc_method: next_trigger at time t; beyond the end of sc_start the simulation is over
AdvanceTo(t) ==
    /\ target' = t
    /\ kpc' = IF t <= MaxTime THEN "timestep" ELSE "ended"
    /\ UNCHANGED phase

\* no client thread is behind the next SystemC event
ClientsPassed == clientMin >= NextEvent

\* sc_method, second part
Decide ==
    /\ kpc = "decide"
    /\ IF \E c \in Clients : DueNow(c) \/ DoneNow(c) THEN Again
       ELSE IF ~freeRunning THEN
            IF ClientsPassed THEN AdvanceTo(NextEvent)
            ELSE IF clientMin > now THEN AdvanceTo(clientMin)
            ELSE Again
       ELSE IF phase = "PROCESSING"
            THEN phase' = "ARMED" /\ kpc' = "method" /\ UNCHANGED target
       ELSE AdvanceTo(IF NextEvent = Infinity THEN now + FreeStep ELSE NextEvent)
    /\ UNCHANGED <<clientVars, chan, scChan, update_it, pending, windowVars, keeperVars,
                   deputyVars, now, deputy>>

\* SC_PRE_TIMESTEP: update_sc_time_ticks(next_time), ...
PushKernelTime ==
    /\ kpc = "timestep" /\ Len(scChan) < ChannelSize
    /\ scChan' = Append(scChan, target)
    /\ kpc' = "flag"
    /\ UNCHANGED <<clientVars, chan, update_it, pending, windowVars, keeperVars,
                   deputyVars, now, target, phase, deputy>>

FlagKernelTime ==
    /\ kpc = "flag"
    /\ SetUpdate
    /\ kpc' = "spin"
    /\ UNCHANGED <<clientVars, chan, scChan, pending, windowVars, keeperVars,
                   deputyVars, now, target, phase, deputy>>

\* ... then wait until the time keeper has seen it; time advances
Timestep ==
    /\ kpc = "spin" /\ scKernel = target
    /\ now' = target
    /\ phase' = "INITIAL"
    /\ kpc' = "method"
    /\ UNCHANGED <<clientVars, chan, scChan, update_it, pending, windowVars, keeperVars,
                   deputyVars, target, deputy>>

-----------------------------------------------------------------------------
ClientNext(c) ==
    \/ \E d \in Increments : CheckAndSync(c, d)
    \/ EnterThread(c)
    \/ AfterTask(c)
    \/ PushTime(c)
    \/ \E when \in Times : ExecuteOnSysc(c, when)
    \/ FlagUpdate(c)
    \/ Spin(c)
    \/ FinishThread(c)
    \/ FinishStore(c)

KeeperNext == TkBegin \/ TkTake \/ TkCollect \/ TkStoreMin \/ TkStoreMax \/ TkStoreKernel

KernelNext ==
    \/ ScheduleTasks
    \/ NoTasks
    \/ \E c \in Clients, d \in Durations : RunTask(c, d)
    \/ \E c \in Clients : EndTask(c)
    \/ StoreFreeRunning
    \/ Unblock
    \/ Decide
    \/ PushKernelTime
    \/ FlagKernelTime
    \/ Timestep

Next == (\E c \in Clients : ClientNext(c)) \/ KeeperNext \/ KernelNext

Spec == Init /\ [][Next]_vars

\* The operating system runs every thread; the kernel runs every runnable process;
\* a client does not hand over tasks for ever without advancing its local time.
FairSpec ==
    /\ Spec
    /\ WF_vars(KeeperNext) /\ WF_vars(KernelNext)
    /\ \A c \in Clients :
        /\ SF_vars(EndTask(c) \/ \E d \in Durations : RunTask(c, d))
        /\ WF_vars(ClientNext(c))
        /\ SF_vars(\E d \in Increments \ {0} : CheckAndSync(c, d))

-----------------------------------------------------------------------------
\* Type correctness of the three kinds of threads and of what they share; no channel
\* holds more than it has room for.
TypeOK ==
    /\ cpc \in [Clients -> {"sync", "run", "push", "flag", "spin", "taskflag", "wait",
                            "free", "notfree", "done"}]
    /\ local \in [Clients -> Times] /\ limit \in [Clients -> Nat]
    /\ took \in [Clients -> Nat] /\ ready \in [Clients -> BOOLEAN] /\ asked \in [Clients -> Times]
    /\ chan \in [Clients -> Seq([tick : Times, task : BOOLEAN])] /\ scChan \in Seq(Times)
    /\ Len(scChan) <= Max({2, ChannelSize}) /\ \A c \in Clients : Len(chan[c]) <= ChannelSize
    /\ update_it \in BOOLEAN /\ pending \in Seq(Clients \X Times)
    /\ clientMin \in Times /\ clientMax \in Nat /\ scKernel \in Times
    /\ tkpc \in 0 .. NumClients + 3 /\ tlt \in [Clients -> Times] /\ scTlt \in Times
    /\ waiting4sc \in [Clients -> BOOLEAN] /\ tkMin \in Nat
    /\ has_entries \in BOOLEAN /\ has_task \in BOOLEAN
    /\ kpc \in {"method", "unblock", "free", "notfree", "decide", "timestep", "flag", "spin",
                "ended"}
    /\ deputy \in Clients \cup {None}
    /\ now \in Times /\ target \in Nat
    /\ due \in [Clients -> Times \cup {None}] /\ busy \in [Clients -> Times \cup {None}]
    /\ blocked \in [Clients -> BOOLEAN] /\ freeRunning \in BOOLEAN
    /\ phase \in {"INITIAL", "PROCESSING", "ARMED"}

\* The threads in the clients' own code or on the way through check_and_sync.
Simulating(c) == cpc[c] \in {"sync", "run", "push", "flag", "spin"}

\* No report is left behind: while the time keeper sleeps with update_it cleared,
\* a non-empty channel belongs to a thread that is about to set update_it.
NoReportLeftBehind ==
    tkpc = 0 /\ ~update_it =>
        /\ \A c \in Clients : chan[c] # <<>> => cpc[c] \in {"flag", "taskflag"}
        /\ scChan # <<>> => kpc = "flag"

\* The window that the time keeper published does not exceed the local time of a
\* client it considers running by more than the quantum.
WindowFollowsSlowest ==
    tkpc = 0 => \A c \in Clients :
        waiting4sc[c] \/ clientMax <= local[c] + Quantum

\* global_time_keeper.h:18 "The SystemC thread is special in that it is time wise
\* always the last/slowest thread": it does not pass the local time of a simulating
\* client thread.
SystemCSlowest == \A c \in Clients : Simulating(c) => now <= local[c]

\* quantum_keeper_mt.h:80 "when the time at which simulation time to execute the
\* function": a task never runs in SystemC before the time its client asked for,
\* whether that lies behind or ahead of the client's local time.
TaskNeverEarly ==
    [][\A c \in Clients : due[c] # None /\ due'[c] = None => now >= asked[c]]_vars

\* quantum_keeper_mt.h:57 "holds the thread until it is within the quantum": the
\* busy wait of check_and_sync ends.
SyncCompletes == \A c \in Clients : cpc[c] = "spin" ~> cpc[c] # "spin"

\* The time report of client c was taken together with the task before it, so that the
\* time keeper believes that c still waits for SystemC.
Misjudged(c) ==
    cpc[c] = "spin" /\ waiting4sc[c] /\ chan[c] = <<>> /\ tkpc # c

\* The busy wait of check_and_sync ends, unless another client's thread function has
\* returned or the report was misjudged.
SyncEnds ==
    \A c \in Clients :
        cpc[c] = "spin" ~>
            \/ cpc[c] # "spin"
            \/ Misjudged(c)
            \/ \E d \in Clients : cpc[d] = "done"

\* Every task handed to SystemC completes, unless a client is held in check_and_sync
\* for ever.
TasksComplete ==
    \/ \E d \in Clients : <>[](cpc[d] = "spin")
    \/ \A c \in Clients : cpc[c] = "wait" ~> cpc[c] # "wait"

\* The kernel gets past the busy wait for its own time report.
KernelNotStuck == kpc = "spin" ~> kpc # "spin"
=============================================================================
