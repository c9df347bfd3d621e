--------------------------- MODULE Tcp4TlmBridge ----------------------------
(***************************************************************************)
(* Two peers of scc::tcp4tlm_bridge (components/scc/tcp4tlm_bridge.{h,cpp}   *)
(* with tcp4tlm/{server,client,serialized_connection,messages}.h) that        *)
(* tunnel TLM accesses between two SystemC simulations: "srv" is the one      *)
(* with is_connection_server, "cli" the one that connects.                    *)
(*                                                                            *)
(* Each peer has a SystemC kernel thread, whose processes are coroutines: a   *)
(* blocking socket call in one of them stops all of them; and an I/O thread   *)
(* that handles one request of the other peer at a time.  TCP is reliable     *)
(* and ordered.  Simulated-time mode: wall_time_simulation_speed and          *)
(* no_systemc_sync are off.                                                   *)
(***************************************************************************)
EXTENDS Integers, Sequences, FiniteSets

CONSTANTS
    Workloads,      \* sets of peers whose local model accesses the bridge
    Ops,            \* the accesses: "read", "write", "posted" (write_no_response)
    Failing,        \* those that the remote target may answer with an error
    SrvLatencies,   \* how long b_transport of a target in srv may wait()
    CliLatencies,   \* the same of a target in cli
    FirstAccess,    \* the SystemC time at which the models begin to access it
    SyncPeriod,     \* the 1_ms of timing_thread, in ticks
    StampQueue,     \* capacity of next_time_stamp (16 in the code)
    MaxAccesses,    \* bound: accesses of an initiator
    MaxTime         \* bound: on SystemC time

Peers == {"srv", "cli"}
Other(s) == IF s = "srv" THEN "cli" ELSE "srv"

ASSUME WorkloadAssumption ==
    /\ Workloads \subseteq SUBSET Peers /\ Ops \subseteq {"read", "write", "posted"}
    /\ Failing \subseteq Ops
    /\ SrvLatencies \subseteq Nat /\ CliLatencies \subseteq Nat
ASSUME BoundAssumption ==
    /\ SyncPeriod \in Nat \ {0} /\ StampQueue \in Nat \ {0}
    /\ FirstAccess \in Nat /\ MaxAccesses \in Nat /\ MaxTime \in Nat

VARIABLES
    kpc,            \* kernel thread of a peer
    now,            \* its SystemC time
    connected,      \* is_connected of its client side
    want,           \* request whose response do_access waits for
    nextId,         \* next_request_id()
    left,           \* accesses its initiator may still make
    req, resp,      \* requests it sent, and the responses to them, on the wire
    io, msg,        \* I/O thread: reading, or where in the handler of msg
    taskq, timed,   \* task_que and timed_task_que
    running,        \* tasks whose b_transport waits
    fut,            \* the future the handler waits for is ready
    stamps,         \* next_time_stamp
    con_est, tgt, shutdown_evt,     \* srv: time that timing_thread waits for
    syncDue                         \* cli: timing_thread is to send a SyncMsg

wire == <<req, resp>>
kernel == <<kpc, now, connected, want, nextId, left>>
tasks == <<taskq, timed, running, fut>>
timing == <<stamps, con_est, tgt, shutdown_evt, syncDue>>
vars == <<kernel, wire, io, msg, tasks, timing>>

Init ==
    /\ kpc = [s \in Peers |-> "boot"] /\ now = [s \in Peers |-> 0]
    /\ connected = [s \in Peers |-> FALSE]
    /\ want = [s \in Peers |-> 0] /\ nextId = [s \in Peers |-> 0]
    /\ \E initiators \in Workloads :
            left = [s \in Peers |-> IF s \in initiators THEN MaxAccesses ELSE 0]
    /\ req = [s \in Peers |-> <<>>] /\ resp = [s \in Peers |-> <<>>]
    /\ io = [s \in Peers |-> "off"]
    /\ msg = [s \in Peers |-> [type |-> "endpoint", op |-> "none", id |-> 0, ts |-> 0]]
    /\ taskq = [s \in Peers |-> <<>>] /\ timed = [s \in Peers |-> <<>>]
    /\ running = [s \in Peers |-> {}] /\ fut = [s \in Peers |-> FALSE]
    /\ stamps = [s \in Peers |-> <<>>]
    /\ con_est = FALSE /\ tgt = 0 /\ shutdown_evt = FALSE /\ syncDue = FALSE

-----------------------------------------------------------------------------
(* Messages                                                                  *)

Message(s, type, op) == [type |-> type, op |-> op, id |-> nextId[s], ts |-> now[s]]

\* client_connection().write_data of one or more messages
Send(s, msgs) ==
    /\ req' = [req EXCEPT ![s] = @ \o msgs]
    /\ nextId' = [nextId EXCEPT ![s] = @ + Len(msgs)]

\* con->async_write of a response to peer s
Respond(s, id, ok) == resp' = [resp EXCEPT ![s] = Append(@, [id |-> id, ok |-> ok])]

\* The handler of s reads the next request of its peer.
Request(s) == Head(req[Other(s)])
Handles(s, type) == io[s] = "read" /\ req[Other(s)] # <<>> /\ Request(s).type = type
Consume(s) == req' = [req EXCEPT ![Other(s)] = Tail(@)]

-----------------------------------------------------------------------------
(* Connection setup                                                          *)

\* srv: start_of_simulation starts the server; timing_thread then blocks the
\* kernel in wait4connection
StartServer ==
    /\ kpc["srv"] = "boot"
    /\ kpc' = [kpc EXCEPT !["srv"] = "wait4"]
    /\ UNCHANGED <<now, connected, want, nextId, left, wire, io, msg, tasks, timing>>

\* cli: start_of_simulation connects, starts its own server and announces it
Connect ==
    /\ kpc["cli"] = "boot" /\ kpc["srv"] # "boot"
    /\ connected' = [connected EXCEPT !["cli"] = TRUE]
    /\ io' = [io EXCEPT !["srv"] = "read"]
    /\ Send("cli", <<Message("cli", "endpoint", "none")>>)
    /\ kpc' = [kpc EXCEPT !["cli"] = "notify"]
    /\ UNCHANGED <<now, want, left, resp, msg, tasks, timing>>

\* cli: the retries of connect() are used up and client_connection() throws
GiveUp ==
    /\ kpc["cli"] = "boot" /\ kpc["srv"] = "boot"
    /\ kpc' = [kpc EXCEPT !["cli"] = "failed"]
    /\ UNCHANGED <<now, connected, want, nextId, left, wire, io, msg, tasks, timing>>

\* con_est.store(true) and con_est_sig.notify_all()
EstablishForgotten == UNCHANGED con_est

Establish == con_est' = TRUE

\* srv: NotifyEndpointMsg opens the reverse connection and queues the response
HandleEndpoint ==
    /\ Handles("srv", "endpoint") /\ Consume("srv")
    /\ connected' = [connected EXCEPT !["srv"] = TRUE]
    /\ io' = [io EXCEPT !["cli"] = "read"]
    /\ taskq' = [taskq EXCEPT !["srv"] = Append(@, [Request("srv") EXCEPT !.ts = 0])]
    /\ Establish
    /\ UNCHANGED <<kpc, now, want, nextId, left, resp, msg, timed, running, fut,
                   stamps, tgt, shutdown_evt, syncDue>>

\* srv: wait4connection returns
Connected ==
    /\ kpc["srv"] = "wait4" /\ con_est
    /\ kpc' = [kpc EXCEPT !["srv"] = "run"]
    /\ UNCHANGED <<now, connected, want, nextId, left, wire, io, msg, tasks, timing>>

\* cli: the response arrived; start_of_simulation looks at its status only
Notified ==
    /\ kpc["cli"] = "notify" /\ resp["cli"] # <<>>
    /\ resp' = [resp EXCEPT !["cli"] = Tail(@)]
    /\ kpc' = [kpc EXCEPT !["cli"] = IF Head(resp["cli"]).ok THEN "run" ELSE "failed"]
    /\ UNCHANGED <<now, connected, want, nextId, left, req, io, msg, tasks, timing>>

-----------------------------------------------------------------------------
(* do_access: the calling process blocks its kernel until the response came  *)

Access(s, op) ==
    /\ kpc[s] = "run" /\ connected[s] /\ left[s] > 0 /\ now[s] >= FirstAccess
    /\ Send(s, <<Message(s, "bus", op)>>)
    /\ left' = [left EXCEPT ![s] = @ - 1]
    /\ want' = [want EXCEPT ![s] = nextId[s]]
    /\ kpc' = [kpc EXCEPT ![s] = IF op = "posted" THEN "run" ELSE "access"]
    /\ UNCHANGED <<now, connected, resp, io, msg, tasks, timing>>

\* read_data takes whatever response is next
ReadResponse(s) ==
    /\ kpc[s] = "access" /\ resp[s] # <<>>
    /\ resp' = [resp EXCEPT ![s] = Tail(@)]
    /\ kpc' = [kpc EXCEPT ![s] = "run"]
    /\ UNCHANGED <<now, connected, want, nextId, left, req, io, msg, tasks, timing>>

-----------------------------------------------------------------------------
(* server_receive_completed, in the I/O thread                               *)

\* BusOpMsg: queue the task, ...
HandleBusOp(s) ==
    /\ Handles(s, "bus") /\ Consume(s)
    /\ taskq' = [taskq EXCEPT ![s] = Append(@, Request(s))]
    /\ fut' = [fut EXCEPT ![s] = FALSE]
    /\ msg' = [msg EXCEPT ![s] = Request(s)]
    /\ io' = [io EXCEPT ![s] = "stamp"]
    /\ UNCHANGED <<kernel, resp, timed, running, timing>>

\* ... push its time stamp, which blocks while next_time_stamp is full, ...
PushStamp(s) ==
    /\ io[s] = "stamp" /\ Len(stamps[s]) < StampQueue
    /\ stamps' = [stamps EXCEPT ![s] = Append(@, msg[s].ts)]
    /\ io' = [io EXCEPT ![s] = IF msg[s].type = "bus" THEN "fut" ELSE "read"]
    /\ UNCHANGED <<kernel, wire, msg, tasks, con_est, tgt, shutdown_evt, syncDue>>

\* ... wait for the task; NotifyShutdownMsg is the last request that is read
HandlerDoesNotWait(s) ==
    /\ io[s] = "fut"
    /\ io' = [io EXCEPT ![s] = IF msg[s].type = "shutdown" THEN "stopped" ELSE "read"]
    /\ UNCHANGED <<kernel, wire, msg, tasks, timing>>

HandlerDone(s) ==
    /\ io[s] = "fut" /\ fut[s]
    /\ io' = [io EXCEPT ![s] = IF msg[s].type = "shutdown" THEN "stopped" ELSE "read"]
    /\ UNCHANGED <<kernel, wire, msg, tasks, timing>>

\* SyncMsg, which only srv takes notice of
HandleSync(s) ==
    /\ Handles(s, "sync") /\ Consume(s)
    /\ msg' = [msg EXCEPT ![s] = Request(s)]
    /\ io' = [io EXCEPT ![s] = IF s = "srv" THEN "stamp" ELSE "read"]
    /\ UNCHANGED <<kernel, resp, tasks, timing>>

\* NotifyShutdownMsg: close the client side, stop the I/O service, queue a task
HandleShutdown(s) ==
    /\ Handles(s, "shutdown") /\ Consume(s)
    /\ connected' = [connected EXCEPT ![s] = FALSE]
    /\ taskq' = [taskq EXCEPT ![s] = Append(@, [Request(s) EXCEPT !.ts = 0])]
    /\ fut' = [fut EXCEPT ![s] = FALSE]
    /\ msg' = [msg EXCEPT ![s] = Request(s)]
    /\ io' = [io EXCEPT ![s] = "fut"]
    /\ UNCHANGED <<kpc, now, want, nextId, left, resp, timed, running, timing>>

-----------------------------------------------------------------------------
(* The SystemC processes of a peer                                           *)

\* What a task of s does when b_transport returned: a read is answered with its
\* data, a failure always, a success unless the write was posted.
FinishAnswersAll(s, t, ok) == Respond(Other(s), t.id, ok)

FinishForgetsFailure(s, t, ok) == IF ~ok \/ t.op = "posted" THEN UNCHANGED resp
                                  ELSE Respond(Other(s), t.id, ok)

Finish(s, t, ok) == IF ok /\ t.op = "posted" THEN UNCHANGED resp
                    ELSE Respond(Other(s), t.id, ok)

\* Peer s runs task t, whose target waits for the given latency.
RunTask(s, t, latency, ok) ==
    CASE t.type = "endpoint" ->
            Respond(Other(s), t.id, TRUE) /\ UNCHANGED <<running, fut, shutdown_evt>>
      [] t.type = "shutdown" ->
            /\ shutdown_evt' = TRUE /\ fut' = [fut EXCEPT ![s] = TRUE]
            /\ UNCHANGED <<running, resp>>
      [] t.type = "bus" /\ latency = 0 ->
            /\ Finish(s, t, ok) /\ fut' = [fut EXCEPT ![s] = TRUE]
            /\ UNCHANGED <<running, shutdown_evt>>
      [] OTHER ->
            /\ running' = [running EXCEPT ![s] =
                            @ \cup {[task |-> t, until |-> now[s] + latency, ok |-> ok]}]
            /\ UNCHANGED <<resp, fut, shutdown_evt>>

\* within the bound on time
Latencies(s) ==
    {d \in IF s = "srv" THEN SrvLatencies ELSE CliLatencies : now[s] + d <= MaxTime}

Outcomes(t) == IF t.op \in Failing THEN BOOLEAN ELSE {TRUE}

\* A task whose time has come is run at once by process_task_que.
RunsAtOnceAlways(s, t) == TRUE

RunsAtOnce(s, t) == now[s] >= t.ts

\* process_task_que takes the next task, unless a task it runs is waiting
ProcessTask(s) ==
    /\ kpc[s] = "run" /\ taskq[s] # <<>> /\ running[s] = {}
    /\ LET t == Head(taskq[s])
       IN  \/ /\ RunsAtOnce(s, t)
              /\ \E latency \in Latencies(s), ok \in Outcomes(t) : RunTask(s, t, latency, ok)
              /\ timed' = timed
           \/ /\ ~RunsAtOnce(s, t)
              /\ timed' = [timed EXCEPT ![s] = Append(@, t)]
              /\ UNCHANGED <<resp, running, fut, shutdown_evt>>
    /\ taskq' = [taskq EXCEPT ![s] = Tail(@)]
    /\ UNCHANGED <<kernel, req, io, msg, stamps, con_est, tgt, syncDue>>

\* process_timed_task_que runs a task at its time
ProcessTimedTask(s) ==
    /\ kpc[s] = "run" /\ timed[s] # <<>> /\ Head(timed[s]).ts <= now[s]
    /\ \E latency \in Latencies(s), ok \in Outcomes(Head(timed[s])) :
            RunTask(s, Head(timed[s]), latency, ok)
    /\ timed' = [timed EXCEPT ![s] = Tail(@)]
    /\ UNCHANGED <<kernel, req, io, msg, taskq, stamps, con_est, tgt, syncDue>>

\* the target's wait() is over
EndWait(s) ==
    /\ kpc[s] = "run"
    /\ \E r \in running[s] :
        /\ r.until <= now[s]
        /\ Finish(s, r.task, r.ok)
        /\ running' = [running EXCEPT ![s] = @ \ {r}]
    /\ fut' = [fut EXCEPT ![s] = TRUE]
    /\ UNCHANGED <<kernel, req, io, msg, taskq, timed, timing>>

\* timing_thread of srv takes the next time stamp and waits for that time
TakeStampBeyond ==
    /\ kpc["srv"] = "run" /\ tgt <= now["srv"] /\ stamps["srv"] # <<>>
    /\ tgt' = Head(stamps["srv"]) + 1
    /\ stamps' = [stamps EXCEPT !["srv"] = Tail(@)]
    /\ UNCHANGED <<kernel, wire, io, msg, tasks, con_est, shutdown_evt, syncDue>>

TakeStamp ==
    /\ kpc["srv"] = "run" /\ tgt <= now["srv"] /\ stamps["srv"] # <<>>
    /\ tgt' = Head(stamps["srv"])
    /\ stamps' = [stamps EXCEPT !["srv"] = Tail(@)]
    /\ UNCHANGED <<kernel, wire, io, msg, tasks, con_est, shutdown_evt, syncDue>>

\* timing_thread of cli sends a SyncMsg every SyncPeriod
SendSync ==
    /\ kpc["cli"] = "run" /\ syncDue
    /\ Send("cli", <<Message("cli", "sync", "none")>>)
    /\ syncDue' = FALSE
    /\ UNCHANGED <<kpc, now, connected, want, left, resp, io, msg, tasks, stamps, con_est,
                   tgt, shutdown_evt>>

\* No process of s is due at the current time.
Idle(s) ==
    /\ \A i \in 1 .. Len(timed[s]) : timed[s][i].ts > now[s]
    /\ \A r \in running[s] : r.until > now[s]

\* While it has no time stamp the timing_thread of srv waits for the next delta
\* cycle only, which keeps its SystemC time where it is.
Advance(s) ==
    /\ kpc[s] = "run" /\ Idle(s) /\ now[s] < MaxTime
    /\ s = "srv" => tgt > now[s]
    /\ s = "cli" => ~syncDue
    /\ now' = [now EXCEPT ![s] = @ + 1]
    /\ syncDue' = IF s = "cli" THEN (now[s] + 1) % SyncPeriod = 0 ELSE syncDue
    /\ UNCHANGED <<kpc, connected, want, nextId, left, wire, io, msg, tasks, stamps,
                   con_est, tgt, shutdown_evt>>

\* end_connection sends a last SyncMsg and NotifyShutdownMsg
GoodbyeSyncOnly(s) == <<Message(s, "sync", "none")>>

Goodbye(s) == <<Message(s, "sync", "none"),
                [Message(s, "shutdown", "none") EXCEPT !.id = @ + 1]>>

\* end_of_simulation: cli says goodbye; srv ends when its model saw shutdown_evt
EndOfSimulation(s) ==
    /\ kpc[s] = "run" /\ (s = "srv" => shutdown_evt)
    /\ IF s = "cli" /\ connected[s]
       THEN Send(s, Goodbye(s))
       ELSE UNCHANGED <<req, nextId>>
    /\ io' = [io EXCEPT ![s] = "stopped"]
    /\ kpc' = [kpc EXCEPT ![s] = "ended"]
    /\ UNCHANGED <<now, connected, want, left, resp, msg, tasks, timing>>

-----------------------------------------------------------------------------
KernelNext(s) ==
    \/ ReadResponse(s) \/ ProcessTask(s) \/ ProcessTimedTask(s) \/ EndWait(s)
    \/ Advance(s)

IoNext(s) ==
    \/ HandleBusOp(s) \/ PushStamp(s) \/ HandlerDone(s) \/ HandleSync(s)
    \/ HandleShutdown(s)

Next ==
    \/ StartServer \/ Connect \/ GiveUp \/ HandleEndpoint \/ Connected \/ Notified
    \/ TakeStamp \/ SendSync
    \/ \E s \in Peers :
        \/ KernelNext(s) \/ IoNext(s) \/ EndOfSimulation(s)
        \/ \E op \in Ops : Access(s, op)

Spec == Init /\ [][Next]_vars

\* The threads of a started simulation run, the kernel runs every process that is
\* due, and the target's wait() ends with its time.
FairSpec ==
    /\ Spec
    /\ WF_vars(HandleEndpoint) /\ WF_vars(Connected) /\ WF_vars(Notified)
    /\ WF_vars(TakeStamp) /\ WF_vars(SendSync) /\ WF_vars(EndOfSimulation("srv"))
    /\ \A s \in Peers :
        /\ WF_vars(ReadResponse(s)) /\ WF_vars(ProcessTask(s))
        /\ WF_vars(ProcessTimedTask(s)) /\ WF_vars(EndWait(s)) /\ WF_vars(Advance(s))
        /\ WF_vars(IoNext(s))

-----------------------------------------------------------------------------
Requests == [type : {"endpoint", "bus", "sync", "shutdown"}, id : Nat, ts : 0 .. MaxTime,
             op : {"none", "read", "write", "posted"}]

\* Type correctness of both peers and of the wire.
TypeOK ==
    /\ kpc \in [Peers -> {"boot", "wait4", "notify", "run", "access", "ended", "failed"}]
    /\ now \in [Peers -> 0 .. MaxTime] /\ connected \in [Peers -> BOOLEAN]
    /\ want \in [Peers -> Nat] /\ nextId \in [Peers -> Nat]
    /\ left \in [Peers -> 0 .. MaxAccesses]
    /\ req \in [Peers -> Seq(Requests)]
    /\ resp \in [Peers -> Seq([id : Nat, ok : BOOLEAN])]
    /\ io \in [Peers -> {"off", "read", "stamp", "fut", "stopped"}]
    /\ msg \in [Peers -> Requests]
    /\ taskq \in [Peers -> Seq(Requests)] /\ timed \in [Peers -> Seq(Requests)]
    /\ running \in [Peers -> SUBSET [task : Requests, until : Nat, ok : BOOLEAN]]
    /\ fut \in [Peers -> BOOLEAN] /\ stamps \in [Peers -> Seq(0 .. MaxTime)]
    /\ con_est \in BOOLEAN /\ tgt \in 0 .. MaxTime /\ shutdown_evt \in BOOLEAN
    /\ syncDue \in BOOLEAN

\* A peer has at most one request of the other one in its hands, in task_que, in
\* timed_task_que and in b_transport together: the handler does not read on before
\* the task is done, and the peer that announces its endpoint waits for the answer.
\* process_timed_task_que relies on it, it would miss the event of a second task
\* while it runs the first one.
OneTaskAtATime ==
    \A s \in Peers : Len(taskq[s]) + Len(timed[s]) + Cardinality(running[s]) <= 1

\* do_access never gets the response of another request: belongs_to holds.
ResponseBelongs ==
    \A s \in Peers : kpc[s] = "access" /\ resp[s] # <<>> => Head(resp[s]).id = want[s]

\* Remote time stamps drive the time of srv: it does not run ahead of cli.
ServerNotAhead == now["srv"] <= now["cli"]

\* srv begins a task, which may wait or be done at once.
TaskBegins ==
    running["srv"] = {} /\ (running'["srv"] # {} \/ (fut'["srv"] /\ ~fut["srv"]))

\* An access of cli begins in srv, in b_transport of its target, at the SystemC time at
\* which cli made it.
ExecutedOnTime ==
    [][TaskBegins /\ msg["srv"].type = "bus" => now["srv"] = msg["srv"].ts]_vars

\* Three ways in which do_access blocks its simulation for ever.  Both peers access each
\* other at once, and neither kernel runs the request of the other:
Crossed == \A s \in Peers : kpc[s] = "access" /\ resp[s] = <<>>

\* the target of srv waits for a time that no time stamp announces any more, while the I/O
\* thread waits for the target instead of reading one:
TargetStarves ==
    /\ running["srv"] # {} /\ \A r \in running["srv"] : r.until > now["srv"]
    /\ tgt <= now["srv"] /\ stamps["srv"] = <<>> /\ io["srv"] = "fut"

\* the I/O thread of cli waits for room in next_time_stamp, from which nobody takes in cli.
StampsFull ==
    /\ io["cli"] = "stamp" /\ Len(stamps["cli"]) = StampQueue
    /\ taskq["cli"] = <<>> /\ timed["cli"] = <<>> /\ running["cli"] = {}

\* An access comes back, unless the simulation of the other peer ends or the peers are in one
\* of these three deadlocks; nothing else blocks do_access for ever.  That they happen
\* contradicts tcp4tlm_bridge.md:7 "acts in two directions at once" and :143.
AccessCompletes ==
    \A s \in Peers :
        kpc[s] = "access" ~>
            \/ kpc[s] # "access" \/ kpc[Other(s)] = "ended"
            \/ Crossed
            \/ s = "cli" /\ resp[s] = <<>> /\ TargetStarves
            \/ s = "srv" /\ resp[s] = <<>> /\ StampsFull

\* The connection handshake ends.
HandshakeCompletes == kpc["cli"] = "notify" ~> kpc["cli"] = "run"

\* The shutdown message of cli ends the simulation of srv, unless srv is blocked in
\* an access to the peer that is gone or by a target that waits for a time of that peer.
ShutdownArrives ==
    kpc["cli"] = "ended" ~> kpc["srv"] \in {"ended", "access"} \/ TargetStarves
=============================================================================
