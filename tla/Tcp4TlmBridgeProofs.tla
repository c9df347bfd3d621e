------------------------ MODULE Tcp4TlmBridgeProofs -------------------------
(***************************************************************************)
(* Theorems about two peers of tcp4tlm_bridge, for any accesses, latencies,  *)
(* synchronisation period and capacity of next_time_stamp, and for any bound *)
(* on accesses and on time.                                                  *)
(***************************************************************************)
EXTENDS Tcp4TlmBridge, SequenceTheorems, FiniteSetTheorems, TLAPS

-----------------------------------------------------------------------------
(* The invariants *)

\* What peer s has in its hands: nothing, or one task in one of three places.
Nothing(s) == taskq[s] = <<>> /\ timed[s] = <<>> /\ running[s] = {}

Queued(s, t) == taskq[s] = <<t>> /\ timed[s] = <<>> /\ running[s] = {}
Delayed(s, t) == taskq[s] = <<>> /\ timed[s] = <<t>> /\ running[s] = {}
Waits(s, r) == taskq[s] = <<>> /\ timed[s] = <<>> /\ running[s] = {r}

\* The handler of s waits for task t, or was stopped while it did.
Handled(s, t) ==
    /\ io[s] \in {"stamp", "fut", "stopped"} /\ ~fut[s]
    /\ \/ t = msg[s] /\ t.type = "bus"
       \/ t.type = "shutdown" /\ t.ts = 0 /\ msg[s].type = "shutdown" /\ io[s] # "stamp"

\* cli has announced its endpoint and srv has not answered yet.
Announced(s, t) ==
    /\ s = "srv" /\ t.type = "endpoint" /\ t.ts = 0
    /\ kpc["cli"] = "notify" /\ req["cli"] = <<>> /\ resp["cli"] = <<>>

Held(s) ==
    \/ Nothing(s)
    \/ \E t \in Requests :
        \/ Queued(s, t) /\ (Handled(s, t) \/ Announced(s, t))
        \/ Delayed(s, t) /\ t.type = "bus" /\ Handled(s, t)
    \/ \E r \in [task : Requests, until : Nat, ok : BOOLEAN] :
        /\ Waits(s, r) /\ r.task.type = "bus" /\ Handled(s, r.task)
        /\ r.ok \/ r.task.op \in Failing

\* The handshake, as cli goes through it: it has not connected yet; its announcement
\* is on the wire, in the hands of srv, or answered; it is over.
Handshake ==
    /\ kpc["cli"] = "boot" =>
           /\ io["srv"] = "off" /\ io["cli"] = "off" /\ Nothing("srv") /\ ~con_est
           /\ req["cli"] = <<>> /\ resp["cli"] = <<>> /\ kpc["srv"] \in {"boot", "wait4"}
    /\ kpc["cli"] = "notify" =>
           \/ /\ Len(req["cli"]) = 1 /\ req["cli"][1].type = "endpoint"
              /\ resp["cli"] = <<>> /\ Nothing("srv") /\ io["cli"] = "off"
           \/ /\ \E t \in Requests : Queued("srv", t) /\ t.type = "endpoint"
              /\ req["cli"] = <<>> /\ resp["cli"] = <<>>
           \/ req["cli"] = <<>> /\ Len(resp["cli"]) = 1 /\ Nothing("srv")
    /\ \A i \in DOMAIN req["cli"] : req["cli"][i].type = "endpoint" => kpc["cli"] = "notify"

Inv == TypeOK /\ Handshake /\ \A s \in Peers : Held(s)

\* A request that is answered, if the target does not refuse it.
Asks(t) == t.type = "endpoint" \/ (t.type = "bus" /\ t.op # "posted")

InHand(s, t) ==
    \/ taskq[s] = <<t>> \/ timed[s] = <<t>> \/ \E r \in running[s] : r.task = t

\* s waits for an answer, in do_access for that to the request with this id.
Expects(s, id) == kpc[s] = "notify" \/ (kpc[s] = "access" /\ id = want[s])

\* There is at most one answer to come: its request is the last one on the wire, or
\* in the hands of the other peer, or the answer itself is on the wire.
Asked(s) ==
    /\ \A i \in DOMAIN req[s] : Asks(req[s][i]) =>
           /\ i = Len(req[s]) /\ resp[s] = <<>> /\ Expects(s, req[s][i].id)
           /\ \A t \in Requests : InHand(Other(s), t) => ~Asks(t)
    /\ \A t \in Requests : InHand(Other(s), t) /\ Asks(t) =>
           resp[s] = <<>> /\ Expects(s, t.id)
    /\ resp[s] # <<>> => Len(resp[s]) = 1 /\ Expects(s, resp[s][1].id)

Answers == \A s \in Peers : Asked(s)

\* Time stamps are in order, from the time srv waits for to the time of cli.
Rising(q, low, high) ==
    /\ \A i \in DOMAIN q : low <= q[i] /\ q[i] <= high
    /\ \A i, j \in DOMAIN q : i <= j => q[i] <= q[j]

RisingTs(q, low, high) ==
    /\ \A i \in DOMAIN q : low <= q[i].ts /\ q[i].ts <= high
    /\ \A i, j \in DOMAIN q : i <= j => q[i].ts <= q[j].ts

Ordered ==
    /\ now["srv"] <= tgt /\ tgt <= msg["srv"].ts /\ msg["srv"].ts <= now["cli"]
    /\ Rising(stamps["srv"], tgt, msg["srv"].ts)
    /\ RisingTs(req["cli"], msg["srv"].ts, now["cli"])

-----------------------------------------------------------------------------
(* Sequences *)

\* Sequences of one element.
LEMMA One ==
    ASSUME NEW t
    PROVE  /\ Append(<<>>, t) = <<t>> /\ Tail(<<t>>) = <<>> /\ Head(<<t>>) = t
           /\ <<t>> # <<>> /\ Len(<<t>>) = 1 /\ DOMAIN <<t>> = {1} /\ <<t>>[1] = t
           /\ \A u : <<t>> = <<u>> => t = u
  OBVIOUS

\* A sequence after a push.
LEMMA Pushed ==
    ASSUME NEW S, NEW s \in Seq(S), NEW e \in S
    PROVE  /\ Append(s, e) \in Seq(S) /\ Len(s) \in Nat /\ Len(Append(s, e)) = Len(s) + 1
           /\ DOMAIN s = 1 .. Len(s) /\ DOMAIN Append(s, e) = 1 .. Len(s) + 1
           /\ \A i \in 1 .. Len(s) : Append(s, e)[i] = s[i]
           /\ Append(s, e)[Len(s) + 1] = e
  BY AppendProperties, LenProperties

\* A sequence after a pop.
LEMMA Popped ==
    ASSUME NEW S, NEW s \in Seq(S), s # <<>>
    PROVE  /\ Tail(s) \in Seq(S) /\ Len(s) \in Nat \ {0} /\ Len(Tail(s)) = Len(s) - 1
           /\ DOMAIN s = 1 .. Len(s) /\ DOMAIN Tail(s) = 1 .. Len(s) - 1
           /\ Head(s) = s[1] /\ Head(s) \in S
           /\ \A i \in 1 .. Len(s) - 1 : Tail(s)[i] = s[i + 1]
  BY HeadTailProperties, LenProperties, EmptySeq

\* A queue of one entry is empty after a pop.
LEMMA LastPopped ==
    ASSUME NEW S, NEW s \in Seq(S), Len(s) = 1
    PROVE  Tail(s) = <<>>
  <1>1. s # <<>>
    BY EmptySeq
  <1>2. Tail(s) \in Seq(S) /\ Len(Tail(s)) = 0
    BY <1>1, Popped
  <1> QED
    BY <1>2, EmptySeq

\* What is sent follows what is on the wire.
LEMMA Sent ==
    ASSUME NEW S, NEW s \in Seq(S), NEW m \in Seq(S)
    PROVE  /\ s \o m \in Seq(S) /\ Len(s) \in Nat /\ Len(m) \in Nat
           /\ Len(s \o m) = Len(s) + Len(m)
           /\ DOMAIN s = 1 .. Len(s) /\ DOMAIN (s \o m) = 1 .. Len(s) + Len(m)
           /\ \A i \in 1 .. Len(s) : (s \o m)[i] = s[i]
           /\ \A i \in 1 .. Len(m) : (s \o m)[Len(s) + i] = m[i]
           /\ \A i \in 1 .. Len(s) + Len(m) : i > Len(s) =>
                  i - Len(s) \in 1 .. Len(m) /\ (s \o m)[i] = m[i - Len(s)]
  <1>1. /\ s \o m \in Seq(S) /\ Len(s) \in Nat /\ Len(m) \in Nat
        /\ Len(s \o m) = Len(s) + Len(m)
        /\ DOMAIN s = 1 .. Len(s) /\ DOMAIN (s \o m) = 1 .. Len(s) + Len(m)
        /\ \A i \in 1 .. Len(s) + Len(m) :
               (s \o m)[i] = IF i <= Len(s) THEN s[i] ELSE m[i - Len(s)]
    BY ConcatProperties, LenProperties
  <1> QED
    BY <1>1

-----------------------------------------------------------------------------
(* Types *)

\* There are two peers, each the other of the other.
LEMMA OtherPeer ==
    /\ "srv" \in Peers /\ "cli" \in Peers /\ Other("srv") = "cli" /\ Other("cli") = "srv"
    /\ \A s \in Peers : Other(s) \in Peers /\ Other(s) # s /\ Other(Other(s)) = s
    /\ \A s \in Peers : s = "srv" \/ s = "cli"
    /\ \A s, u \in Peers : u # s => u = Other(s)
  BY DEF Peers, Other

\* A message carries the next id and the time of its sender.
LEMMA MessageType ==
    ASSUME TypeOK, NEW s \in Peers,
           NEW type \in {"endpoint", "bus", "sync", "shutdown"},
           NEW op \in {"none", "read", "write", "posted"}
    PROVE  /\ Message(s, type, op) \in Requests
           /\ Message(s, type, op).type = type /\ Message(s, type, op).op = op
           /\ Message(s, type, op).id = nextId[s] /\ Message(s, type, op).ts = now[s]
  BY DEF TypeOK, Message, Requests

\* The goodbye is a time stamp followed by the shutdown message.
LEMMA GoodbyeType ==
    ASSUME TypeOK, NEW s \in Peers
    PROVE  /\ Goodbye(s) \in Seq(Requests) /\ Len(Goodbye(s)) = 2
           /\ Goodbye(s)[1].type = "sync" /\ Goodbye(s)[1].ts = now[s]
           /\ Goodbye(s)[2].type = "shutdown" /\ Goodbye(s)[2].ts = now[s]
  <1> DEFINE m == [Message(s, "shutdown", "none") EXCEPT !.id = @ + 1]
  <1>1. Message(s, "sync", "none") \in Requests
        /\ Message(s, "sync", "none").type = "sync" /\ Message(s, "sync", "none").ts = now[s]
    BY MessageType
  <1>2. m \in Requests /\ m.type = "shutdown" /\ m.ts = now[s]
    <2>1. nextId[s] + 1 \in Nat
      BY DEF TypeOK
    <2>2. Message(s, "shutdown", "none") \in Requests
          /\ Message(s, "shutdown", "none").type = "shutdown"
          /\ Message(s, "shutdown", "none").id = nextId[s]
          /\ Message(s, "shutdown", "none").ts = now[s]
      BY MessageType
    <2> HIDE DEF Message
    <2> QED
      BY <2>1, <2>2 DEF Requests
  <1> HIDE DEF m
  <1>3. Goodbye(s) = <<Message(s, "sync", "none"), m>>
    BY DEF Goodbye, m
  <1> QED
    BY <1>1, <1>2, <1>3

\* A request that is read.
LEMMA ReadType ==
    ASSUME TypeOK, NEW s \in Peers, req[Other(s)] # <<>>
    PROVE  /\ Request(s) \in Requests /\ Request(s) = req[Other(s)][1]
           /\ Tail(req[Other(s)]) \in Seq(Requests)
           /\ [Request(s) EXCEPT !.ts = 0] \in Requests
           /\ [Request(s) EXCEPT !.ts = 0].ts = 0
           /\ [Request(s) EXCEPT !.ts = 0].type = Request(s).type
  <1>1. req[Other(s)] \in Seq(Requests)
    BY OtherPeer DEF TypeOK
  <1>2. Request(s) \in Requests /\ Request(s) = req[Other(s)][1]
        /\ Tail(req[Other(s)]) \in Seq(Requests)
    BY <1>1, Popped DEF Request
  <1>3. 0 \in 0 .. MaxTime
    BY BoundAssumption
  <1> QED
    BY <1>2, <1>3 DEF Requests

\* The wait of a target ends at a point in time.
LEMMA LatencyType ==
    ASSUME TypeOK, NEW s \in Peers, NEW latency \in Latencies(s)
    PROVE  latency \in Nat /\ now[s] + latency \in Nat
  BY WorkloadAssumption DEF Latencies, TypeOK

\* A target succeeds or fails.
LEMMA OutcomeType == \A t : Outcomes(t) \subseteq BOOLEAN
  BY DEF Outcomes

\* A response is typed.
LEMMA RespondType ==
    ASSUME TypeOK, NEW s \in Peers, NEW id \in Nat, NEW ok \in BOOLEAN, Respond(s, id, ok)
    PROVE  resp' \in [Peers -> Seq([id : Nat, ok : BOOLEAN])]
  <1>1. Append(resp[s], [id |-> id, ok |-> ok]) \in Seq([id : Nat, ok : BOOLEAN])
    BY Pushed DEF TypeOK
  <1> QED
    BY <1>1 DEF Respond, TypeOK

\* The end of an access leaves the responses typed.
LEMMA FinishType ==
    ASSUME TypeOK, NEW s \in Peers, NEW t \in Requests, NEW ok \in BOOLEAN, Finish(s, t, ok)
    PROVE  resp' \in [Peers -> Seq([id : Nat, ok : BOOLEAN])]
  <1>1. t.id \in Nat /\ Other(s) \in Peers
    BY OtherPeer DEF Requests
  <1>2. CASE ok /\ t.op = "posted"
    BY <1>2 DEF Finish, TypeOK
  <1>3. CASE ~(ok /\ t.op = "posted")
    BY <1>1, <1>3, RespondType DEF Finish
  <1> QED
    BY <1>2, <1>3

\* The run of a task leaves what it changes typed.
LEMMA RunTaskType ==
    ASSUME TypeOK, NEW s \in Peers, NEW t \in Requests, NEW latency \in Latencies(s),
           NEW ok \in BOOLEAN, RunTask(s, t, latency, ok)
    PROVE  /\ resp' \in [Peers -> Seq([id : Nat, ok : BOOLEAN])]
           /\ running' \in [Peers -> SUBSET [task : Requests, until : Nat, ok : BOOLEAN]]
           /\ fut' \in [Peers -> BOOLEAN] /\ shutdown_evt' \in BOOLEAN
  <1>1. latency \in Nat /\ now[s] + latency \in Nat /\ t.id \in Nat /\ Other(s) \in Peers
    BY LatencyType, OtherPeer DEF Requests
  <1>2. CASE t.type = "endpoint" /\ Respond(Other(s), t.id, TRUE)
             /\ UNCHANGED <<running, fut, shutdown_evt>>
    BY <1>1, <1>2, RespondType DEF TypeOK
  <1>3. CASE t.type = "shutdown" /\ shutdown_evt' = TRUE /\ fut' = [fut EXCEPT ![s] = TRUE]
             /\ UNCHANGED <<running, resp>>
    BY <1>3 DEF TypeOK
  <1>4. CASE Finish(s, t, ok) /\ fut' = [fut EXCEPT ![s] = TRUE]
             /\ UNCHANGED <<running, shutdown_evt>>
    BY <1>4, FinishType DEF TypeOK
  <1>5. CASE running' = [running EXCEPT ![s] =
                             @ \cup {[task |-> t, until |-> now[s] + latency, ok |-> ok]}]
             /\ UNCHANGED <<resp, fut, shutdown_evt>>
    <2>1. running[s] \cup {[task |-> t, until |-> now[s] + latency, ok |-> ok]}
              \in SUBSET [task : Requests, until : Nat, ok : BOOLEAN]
      <3>1. [task |-> t, until |-> now[s] + latency, ok |-> ok]
                \in [task : Requests, until : Nat, ok : BOOLEAN]
        BY <1>1
      <3>2. running[s] \subseteq [task : Requests, until : Nat, ok : BOOLEAN]
        BY DEF TypeOK
      <3> QED
        BY <3>1, <3>2
    <2> QED
      BY <1>5, <2>1 DEF TypeOK
  <1>6. latency \in Nat
    BY <1>1
  <1>7. \/ t.type = "endpoint" /\ Respond(Other(s), t.id, TRUE)
           /\ UNCHANGED <<running, fut, shutdown_evt>>
        \/ t.type = "shutdown" /\ shutdown_evt' = TRUE /\ fut' = [fut EXCEPT ![s] = TRUE]
           /\ UNCHANGED <<running, resp>>
        \/ Finish(s, t, ok) /\ fut' = [fut EXCEPT ![s] = TRUE]
           /\ UNCHANGED <<running, shutdown_evt>>
        \/ running' = [running EXCEPT ![s] =
                           @ \cup {[task |-> t, until |-> now[s] + latency, ok |-> ok]}]
           /\ UNCHANGED <<resp, fut, shutdown_evt>>
    BY <1>6 DEF RunTask, Requests
  <1> QED
    BY <1>2, <1>3, <1>4, <1>5, <1>7

\* Sending leaves requests and ids typed.
LEMMA SendType ==
    ASSUME TypeOK, NEW s \in Peers, NEW m \in Seq(Requests), Send(s, m)
    PROVE  req' \in [Peers -> Seq(Requests)] /\ nextId' \in [Peers -> Nat]
  <1>1. req[s] \o m \in Seq(Requests) /\ Len(m) \in Nat
    BY Sent DEF TypeOK
  <1> QED
    BY <1>1 DEF Send, TypeOK

\* Every step keeps TypeOK.
LEMMA TypeNext ==
    ASSUME TypeOK, [Next]_vars
    PROVE  TypeOK'
  <1> USE OtherPeer
  <1>1. CASE StartServer \/ GiveUp \/ Connected
    <2>1. kpc' \in [Peers -> {"boot", "wait4", "notify", "run", "access", "ended", "failed"}]
      <3>1. PICK s \in Peers, v \in {"wait4", "failed", "run"} : kpc' = [kpc EXCEPT ![s] = v]
        BY <1>1 DEF StartServer, GiveUp, Connected
      <3> QED
        BY <3>1 DEF TypeOK
    <2>2. UNCHANGED <<now, connected, want, nextId, left, wire, io, msg, tasks, timing>>
      BY <1>1 DEF StartServer, GiveUp, Connected
    <2> QED
      BY <2>1, <2>2 DEF TypeOK, wire, tasks, timing
  <1>2. CASE Connect
    <2>1. <<Message("cli", "endpoint", "none")>> \in Seq(Requests)
      BY MessageType
    <2>2. req' \in [Peers -> Seq(Requests)] /\ nextId' \in [Peers -> Nat]
      BY <1>2, <2>1, SendType DEF Connect
    <2> QED
      BY <1>2, <2>2 DEF Connect, TypeOK, tasks, timing
  <1>3. CASE HandleEndpoint
    <2>1. Tail(req["cli"]) \in Seq(Requests) /\ [Request("srv") EXCEPT !.ts = 0] \in Requests
      BY <1>3, ReadType DEF HandleEndpoint, Handles
    <2>2. Append(taskq["srv"], [Request("srv") EXCEPT !.ts = 0]) \in Seq(Requests)
      BY <2>1, Pushed DEF TypeOK
    <2>3. req' \in [Peers -> Seq(Requests)]
      BY <1>3, <2>1 DEF HandleEndpoint, Consume, TypeOK
    <2>4. taskq' \in [Peers -> Seq(Requests)]
      BY <1>3, <2>2 DEF HandleEndpoint, TypeOK
    <2> QED
      BY <1>3, <2>3, <2>4 DEF HandleEndpoint, Establish, TypeOK
  <1>4. CASE Notified
    <2>1. Tail(resp["cli"]) \in Seq([id : Nat, ok : BOOLEAN])
      BY <1>4, Popped DEF Notified, TypeOK
    <2> QED
      BY <1>4, <2>1 DEF Notified, TypeOK, tasks, timing
  <1>5. CASE TakeStamp
    <2>1. Head(stamps["srv"]) \in 0 .. MaxTime /\ Tail(stamps["srv"]) \in Seq(0 .. MaxTime)
      BY <1>5, Popped DEF TakeStamp, TypeOK
    <2> QED
      BY <1>5, <2>1 DEF TakeStamp, TypeOK, kernel, wire, tasks
  <1>6. CASE SendSync
    <2>1. <<Message("cli", "sync", "none")>> \in Seq(Requests)
      BY MessageType
    <2>2. req' \in [Peers -> Seq(Requests)] /\ nextId' \in [Peers -> Nat]
      BY <1>6, <2>1, SendType DEF SendSync
    <2> QED
      BY <1>6, <2>2 DEF SendSync, TypeOK, tasks
  <1>7. ASSUME NEW s \in Peers, NEW op \in Ops, Access(s, op)  PROVE TypeOK'
    <2>1. <<Message(s, "bus", op)>> \in Seq(Requests)
      BY MessageType, WorkloadAssumption
    <2>2. req' \in [Peers -> Seq(Requests)] /\ nextId' \in [Peers -> Nat]
      BY <1>7, <2>1, SendType DEF Access
    <2>3. left' \in [Peers -> 0 .. MaxAccesses]
      <3>1. left[s] - 1 \in 0 .. MaxAccesses
        <4>1. left[s] \in 0 .. MaxAccesses
          BY DEF TypeOK
        <4>2. left[s] > 0
          BY <1>7 DEF Access
        <4> QED
          BY <4>1, <4>2, BoundAssumption
      <3> QED
        BY <1>7, <3>1 DEF Access, TypeOK
    <2> QED
      BY <1>7, <2>2, <2>3 DEF Access, TypeOK, tasks, timing
  <1>8. ASSUME NEW s \in Peers, ReadResponse(s)  PROVE TypeOK'
    <2>1. Tail(resp[s]) \in Seq([id : Nat, ok : BOOLEAN])
      BY <1>8, Popped DEF ReadResponse, TypeOK
    <2> QED
      BY <1>8, <2>1 DEF ReadResponse, TypeOK, tasks, timing
  <1>9. ASSUME NEW s \in Peers, HandleBusOp(s)  PROVE TypeOK'
    <2>1. Tail(req[Other(s)]) \in Seq(Requests) /\ Request(s) \in Requests
      BY <1>9, ReadType DEF HandleBusOp, Handles
    <2>2. Append(taskq[s], Request(s)) \in Seq(Requests)
      BY <2>1, Pushed DEF TypeOK
    <2>3. req' \in [Peers -> Seq(Requests)]
      BY <1>9, <2>1 DEF HandleBusOp, Consume, TypeOK
    <2>4. taskq' \in [Peers -> Seq(Requests)]
      BY <1>9, <2>2 DEF HandleBusOp, TypeOK
    <2>5. msg' \in [Peers -> Requests]
      BY <1>9, <2>1 DEF HandleBusOp, TypeOK
    <2> QED
      BY <1>9, <2>3, <2>4, <2>5 DEF HandleBusOp, TypeOK, kernel, timing
  <1>10. ASSUME NEW s \in Peers, PushStamp(s)  PROVE TypeOK'
    <2>1. msg[s].ts \in 0 .. MaxTime
      BY DEF TypeOK, Requests
    <2>2. Append(stamps[s], msg[s].ts) \in Seq(0 .. MaxTime)
      BY <2>1, Pushed DEF TypeOK
    <2>3. stamps' \in [Peers -> Seq(0 .. MaxTime)]
      BY <1>10, <2>2 DEF PushStamp, TypeOK
    <2> QED
      BY <1>10, <2>3 DEF PushStamp, TypeOK, kernel, wire, tasks
  <1>11. ASSUME NEW s \in Peers, HandlerDone(s)  PROVE TypeOK'
    BY <1>11 DEF HandlerDone, TypeOK, kernel, wire, tasks, timing
  <1>12. ASSUME NEW s \in Peers, HandleSync(s)  PROVE TypeOK'
    <2>1. Tail(req[Other(s)]) \in Seq(Requests) /\ Request(s) \in Requests
      BY <1>12, ReadType DEF HandleSync, Handles
    <2>2. req' \in [Peers -> Seq(Requests)] /\ msg' \in [Peers -> Requests]
      BY <1>12, <2>1 DEF HandleSync, Consume, TypeOK
    <2> QED
      BY <1>12, <2>2 DEF HandleSync, TypeOK, kernel, tasks, timing
  <1>13. ASSUME NEW s \in Peers, HandleShutdown(s)  PROVE TypeOK'
    <2>1. Tail(req[Other(s)]) \in Seq(Requests) /\ Request(s) \in Requests
          /\ [Request(s) EXCEPT !.ts = 0] \in Requests
      BY <1>13, ReadType DEF HandleShutdown, Handles
    <2>2. Append(taskq[s], [Request(s) EXCEPT !.ts = 0]) \in Seq(Requests)
      BY <2>1, Pushed DEF TypeOK
    <2>3. req' \in [Peers -> Seq(Requests)]
      BY <1>13, <2>1 DEF HandleShutdown, Consume, TypeOK
    <2>4. taskq' \in [Peers -> Seq(Requests)]
      BY <1>13, <2>2 DEF HandleShutdown, TypeOK
    <2>5. msg' \in [Peers -> Requests]
      BY <1>13, <2>1 DEF HandleShutdown, TypeOK
    <2> QED
      BY <1>13, <2>3, <2>4, <2>5 DEF HandleShutdown, TypeOK, timing
  <1>14. ASSUME NEW s \in Peers, ProcessTask(s)  PROVE TypeOK'
    <2> DEFINE t == Head(taskq[s])
    <2>1. t \in Requests /\ Tail(taskq[s]) \in Seq(Requests)
      BY <1>14, Popped DEF ProcessTask, TypeOK
    <2>2. taskq' \in [Peers -> Seq(Requests)]
      BY <1>14, <2>1 DEF ProcessTask, TypeOK
    <2>3. CASE RunsAtOnce(s, t)
      <3>1. PICK latency \in Latencies(s), ok \in BOOLEAN : RunTask(s, t, latency, ok)
        BY <1>14, <2>3, OutcomeType DEF ProcessTask
      <3>2. timed' = timed
        BY <1>14, <2>3 DEF ProcessTask
      <3> HIDE DEF t
      <3>3. /\ resp' \in [Peers -> Seq([id : Nat, ok : BOOLEAN])]
            /\ running' \in [Peers -> SUBSET [task : Requests, until : Nat, ok : BOOLEAN]]
            /\ fut' \in [Peers -> BOOLEAN] /\ shutdown_evt' \in BOOLEAN
        BY <2>1, <3>1, RunTaskType
      <3>4. UNCHANGED <<kernel, req, io, msg, stamps, con_est, tgt, syncDue>>
        BY <1>14 DEF ProcessTask
      <3> QED
        BY <2>2, <3>2, <3>3, <3>4 DEF TypeOK, kernel
    <2>4. CASE ~RunsAtOnce(s, t)
      <3>1. Append(timed[s], t) \in Seq(Requests)
        BY <2>1, Pushed DEF TypeOK
      <3>2. timed' \in [Peers -> Seq(Requests)]
        <4>1. timed' = [timed EXCEPT ![s] = Append(@, t)]
          BY <1>14, <2>4 DEF ProcessTask
        <4> QED
          BY <3>1, <4>1 DEF TypeOK
      <3> QED
        BY <1>14, <2>2, <2>4, <3>2 DEF ProcessTask, TypeOK, kernel
    <2> QED
      BY <2>3, <2>4
  <1>15. ASSUME NEW s \in Peers, ProcessTimedTask(s)  PROVE TypeOK'
    <2>1. Head(timed[s]) \in Requests /\ Tail(timed[s]) \in Seq(Requests)
      BY <1>15, Popped DEF ProcessTimedTask, TypeOK
    <2>2. timed' \in [Peers -> Seq(Requests)]
      BY <1>15, <2>1 DEF ProcessTimedTask, TypeOK
    <2>3. PICK latency \in Latencies(s), ok \in BOOLEAN : RunTask(s, Head(timed[s]), latency, ok)
      BY <1>15, OutcomeType DEF ProcessTimedTask
    <2>4. /\ resp' \in [Peers -> Seq([id : Nat, ok : BOOLEAN])]
          /\ running' \in [Peers -> SUBSET [task : Requests, until : Nat, ok : BOOLEAN]]
          /\ fut' \in [Peers -> BOOLEAN] /\ shutdown_evt' \in BOOLEAN
      BY <2>1, <2>3, RunTaskType
    <2>5. UNCHANGED <<kernel, req, io, msg, taskq, stamps, con_est, tgt, syncDue>>
      BY <1>15 DEF ProcessTimedTask
    <2> QED
      BY <2>2, <2>4, <2>5 DEF TypeOK, kernel
  <1>16. ASSUME NEW s \in Peers, EndWait(s)  PROVE TypeOK'
    <2>1. PICK r \in running[s] : /\ Finish(s, r.task, r.ok)
                                  /\ running' = [running EXCEPT ![s] = @ \ {r}]
      BY <1>16 DEF EndWait
    <2>2. r.task \in Requests /\ r.ok \in BOOLEAN
      <3>1. r \in [task : Requests, until : Nat, ok : BOOLEAN]
        BY DEF TypeOK
      <3> QED
        BY <3>1
    <2>3. resp' \in [Peers -> Seq([id : Nat, ok : BOOLEAN])]
      BY <2>1, <2>2, FinishType
    <2>4. running' \in [Peers -> SUBSET [task : Requests, until : Nat, ok : BOOLEAN]]
      BY <2>1 DEF TypeOK
    <2> QED
      BY <1>16, <2>3, <2>4 DEF EndWait, TypeOK, kernel, timing
  <1>17. ASSUME NEW s \in Peers, Advance(s)  PROVE TypeOK'
    <2>1. now' \in [Peers -> 0 .. MaxTime]
      <3>1. now[s] + 1 \in 0 .. MaxTime
        <4>1. now[s] \in 0 .. MaxTime
          BY DEF TypeOK
        <4>2. now[s] < MaxTime
          BY <1>17 DEF Advance
        <4> QED
          BY <4>1, <4>2, BoundAssumption
      <3> QED
        BY <1>17, <3>1 DEF Advance, TypeOK
    <2>2. syncDue' \in BOOLEAN
      BY <1>17 DEF Advance, TypeOK
    <2> QED
      BY <1>17, <2>1, <2>2 DEF Advance, TypeOK, wire, tasks
  <1>18. ASSUME NEW s \in Peers, EndOfSimulation(s)  PROVE TypeOK'
    <2>1. req' \in [Peers -> Seq(Requests)] /\ nextId' \in [Peers -> Nat]
      <3>1. CASE s = "cli" /\ connected[s]
        BY <1>18, <3>1, SendType, GoodbyeType DEF EndOfSimulation
      <3>2. CASE ~(s = "cli" /\ connected[s])
        BY <1>18, <3>2 DEF EndOfSimulation, TypeOK
      <3> QED
        BY <3>1, <3>2
    <2> QED
      BY <1>18, <2>1 DEF EndOfSimulation, TypeOK, tasks, timing
  <1>19. CASE UNCHANGED vars
    BY <1>19 DEF vars, TypeOK, kernel, wire, tasks, timing
  <1> QED
    BY <1>1, <1>2, <1>3, <1>4, <1>5, <1>6, <1>7, <1>8, <1>9, <1>10, <1>11, <1>12, <1>13,
       <1>14, <1>15, <1>16, <1>17, <1>18, <1>19 DEF Next, KernelNext, IoNext

-----------------------------------------------------------------------------
(* What becomes of a task *)

Has(s, t) ==
    \/ Queued(s, t) \/ Delayed(s, t)
    \/ \E r \in [task : Requests, until : Nat, ok : BOOLEAN] : Waits(s, r) /\ r.task = t

\* A response with this id goes to peer u.
Answer(u, id) ==
    \E ok \in BOOLEAN : resp' = [resp EXCEPT ![u] = Append(@, [id |-> id, ok |-> ok])]

\* Task t of s is put off, begins to wait, answers the announcement of the endpoint, or
\* is done: a response is due unless the access was posted and went well.
PutOff(s, t) ==
    Queued(s, t) /\ Delayed(s, t)' /\ now[s] < t.ts /\ t.type = "bus" /\ UNCHANGED <<resp, fut>>

BeginsWait(s, t) ==
    /\ t.type = "bus" /\ t.ts <= now[s] /\ UNCHANGED <<resp, fut>>
    /\ \E r \in [task : Requests, until : Nat, ok : BOOLEAN] :
        Waits(s, r)' /\ r.task = t /\ (r.ok \/ t.op \in Failing)

Greets(s, t) == t.type = "endpoint" /\ Nothing(s)' /\ fut' = fut /\ Answer(Other(s), t.id)

Completes(s, t) ==
    /\ t.type \in {"bus", "shutdown"} /\ Nothing(s)' /\ fut' = [fut EXCEPT ![s] = TRUE]
    /\ t.ts <= now[s] \/ running[s] # {}
    /\ \/ resp' = resp /\ ~Asks(t)
       \/ t.type = "bus" /\ Answer(Other(s), t.id) /\ (Asks(t) \/ t.op \in Failing)

TaskMoves(s, t) ==
    /\ Has(s, t) /\ (PutOff(s, t) \/ BeginsWait(s, t) \/ Greets(s, t) \/ Completes(s, t))
    /\ taskq'[Other(s)] = taskq[Other(s)] /\ timed'[Other(s)] = timed[Other(s)]
    /\ running'[Other(s)] = running[Other(s)]
    /\ UNCHANGED <<kernel, req, io, msg, stamps, con_est, tgt, syncDue>>

\* The run of a task, while s has nothing else in its hands.
LEMMA RunMoves ==
    ASSUME TypeOK, NEW s \in Peers, NEW t \in Requests, t.type # "sync",
           NEW latency \in Latencies(s), NEW ok \in Outcomes(t), RunTask(s, t, latency, ok),
           running[s] = {}, taskq'[s] = <<>>, timed'[s] = <<>>, t.ts <= now[s]
    PROVE  /\ BeginsWait(s, t) \/ Greets(s, t) \/ Completes(s, t)
           /\ running'[Other(s)] = running[Other(s)]
  <1>1. ok \in BOOLEAN /\ (ok \/ t.op \in Failing)
    BY DEF Outcomes
  <1>2. t.type \in {"endpoint", "shutdown", "bus"} /\ latency \in Nat /\ now[s] + latency \in Nat
    BY LatencyType DEF Requests
  <1>3. CASE t.type = "endpoint"
    <2>1. Respond(Other(s), t.id, TRUE) /\ running' = running /\ fut' = fut
      BY <1>3 DEF RunTask
    <2> QED
      BY <1>3, <2>1 DEF Greets, Answer, Respond, Nothing
  <1>4. CASE t.type = "shutdown"
    <2>1. resp' = resp /\ running' = running /\ fut' = [fut EXCEPT ![s] = TRUE]
      BY <1>4 DEF RunTask
    <2> QED
      BY <1>4, <2>1 DEF Completes, Nothing, Asks
  <1>5. CASE t.type = "bus" /\ latency = 0
    <2>1. Finish(s, t, ok) /\ running' = running /\ fut' = [fut EXCEPT ![s] = TRUE]
      BY <1>5 DEF RunTask
    <2>2. \/ resp' = resp /\ ~Asks(t)
          \/ Answer(Other(s), t.id) /\ (Asks(t) \/ t.op \in Failing)
      BY <1>1, <1>5, <2>1 DEF Finish, Respond, Answer, Asks
    <2> QED
      BY <1>5, <2>1, <2>2 DEF Completes, Nothing
  <1>6. CASE t.type = "bus" /\ latency # 0
    <2>1. /\ resp' = resp /\ fut' = fut
          /\ running' = [running EXCEPT ![s] =
                             @ \cup {[task |-> t, until |-> now[s] + latency, ok |-> ok]}]
      BY <1>6 DEF RunTask
    <2>2. PICK r \in [task : Requests, until : Nat, ok : BOOLEAN] :
              /\ r.task = t /\ r.ok = ok
              /\ r = [task |-> t, until |-> now[s] + latency, ok |-> ok]
      BY <1>1, <1>2
    <2>3. running'[s] = {r} /\ running'[Other(s)] = running[Other(s)]
      BY <2>1, <2>2, OtherPeer DEF TypeOK
    <2>4. Waits(s, r)' /\ (r.ok \/ t.op \in Failing)
      BY <1>1, <2>2, <2>3 DEF Waits
    <2> QED
      BY <1>6, <2>1, <2>2, <2>3, <2>4 DEF BeginsWait
  <1> QED
    BY <1>2, <1>3, <1>4, <1>5, <1>6

\* Each step of the task processes moves one task on, as TaskMoves says.
LEMMA TaskStep ==
    ASSUME Inv, NEW s \in Peers, ProcessTask(s) \/ ProcessTimedTask(s) \/ EndWait(s)
    PROVE  \E t \in Requests : TaskMoves(s, t)
  <1> USE DEF Inv
  <1>1. Other(s) \in Peers /\ Other(s) # s
    BY OtherPeer
  <1>2. CASE ProcessTask(s)
    <2>1. PICK t \in Requests : Queued(s, t) /\ (Handled(s, t) \/ Announced(s, t))
      BY <1>2 DEF ProcessTask, Held, Nothing, Delayed, Waits
    <2>2. Head(taskq[s]) = t /\ Tail(taskq[s]) = <<>>
      BY <2>1, One DEF Queued
    <2>3. taskq'[s] = <<>> /\ taskq'[Other(s)] = taskq[Other(s)]
      BY <1>1, <1>2, <2>2 DEF ProcessTask, TypeOK
    <2>4. UNCHANGED <<kernel, req, io, msg, stamps, con_est, tgt, syncDue>>
      BY <1>2 DEF ProcessTask
    <2>5. t.type \in {"bus", "endpoint", "shutdown"} /\ (t.type # "bus" => t.ts = 0)
      BY <2>1 DEF Handled, Announced
    <2>6. CASE RunsAtOnce(s, t)
      <3>1. timed' = timed /\ \E latency \in Latencies(s), ok \in Outcomes(t) : RunTask(s, t, latency, ok)
        BY <1>2, <2>2, <2>6 DEF ProcessTask
      <3>2. t.ts <= now[s]
        BY <2>6 DEF RunsAtOnce, TypeOK, Requests
      <3>3. PICK latency \in Latencies(s), ok \in Outcomes(t) : RunTask(s, t, latency, ok)
        BY <3>1
      <3>4. BeginsWait(s, t) \/ Greets(s, t) \/ Completes(s, t)
        BY <2>1, <2>3, <2>5, <3>1, <3>2, <3>3, RunMoves DEF Queued
      <3>5. running'[Other(s)] = running[Other(s)]
        BY <2>1, <2>3, <2>5, <3>1, <3>2, <3>3, RunMoves DEF Queued
      <3> QED
        BY <2>1, <2>3, <2>4, <3>1, <3>4, <3>5 DEF TaskMoves, Has
    <2>7. CASE ~RunsAtOnce(s, t)
      <3>1. timed' = [timed EXCEPT ![s] = Append(@, t)] /\ UNCHANGED <<resp, running, fut>>
        BY <1>2, <2>2, <2>7 DEF ProcessTask
      <3>2. timed'[s] = <<t>> /\ timed'[Other(s)] = timed[Other(s)]
        BY <1>1, <2>1, <3>1, One DEF Queued, TypeOK
      <3>3. now[s] < t.ts /\ t.type = "bus"
        BY <2>5, <2>7 DEF RunsAtOnce, TypeOK, Requests
      <3>4. PutOff(s, t)
        BY <2>1, <2>3, <3>1, <3>2, <3>3 DEF PutOff, Queued, Delayed
      <3> QED
        BY <2>1, <2>3, <2>4, <3>1, <3>2, <3>4 DEF TaskMoves, Has
    <2> QED
      BY <2>6, <2>7
  <1>3. CASE ProcessTimedTask(s)
    <2>1. PICK t \in Requests : Delayed(s, t) /\ t.type = "bus" /\ Handled(s, t)
      BY <1>3 DEF ProcessTimedTask, Held, Nothing, Queued, Waits
    <2>2. Head(timed[s]) = t /\ Tail(timed[s]) = <<>>
      BY <2>1, One DEF Delayed
    <2>3. timed'[s] = <<>> /\ timed'[Other(s)] = timed[Other(s)]
      BY <1>1, <1>3, <2>2 DEF ProcessTimedTask, TypeOK
    <2>4. UNCHANGED <<kernel, req, io, msg, taskq, stamps, con_est, tgt, syncDue>>
      BY <1>3 DEF ProcessTimedTask
    <2>5. t.ts <= now[s] /\ \E latency \in Latencies(s), ok \in Outcomes(t) : RunTask(s, t, latency, ok)
      BY <1>3, <2>2 DEF ProcessTimedTask
    <2>6. PICK latency \in Latencies(s), ok \in Outcomes(t) : RunTask(s, t, latency, ok)
      BY <2>5
    <2>7. BeginsWait(s, t) \/ Greets(s, t) \/ Completes(s, t)
      BY <2>1, <2>3, <2>4, <2>5, <2>6, RunMoves DEF Delayed
    <2>8. running'[Other(s)] = running[Other(s)]
      BY <2>1, <2>3, <2>4, <2>5, <2>6, RunMoves DEF Delayed
    <2> QED
      BY <2>1, <2>3, <2>4, <2>7, <2>8 DEF TaskMoves, Has
  <1>4. CASE EndWait(s)
    <2>1. PICK r \in running[s] : /\ Finish(s, r.task, r.ok)
                                  /\ running' = [running EXCEPT ![s] = @ \ {r}]
      BY <1>4 DEF EndWait
    <2>2. running[s] # {}
      BY <2>1
    <2>3. PICK q \in [task : Requests, until : Nat, ok : BOOLEAN] :
              /\ Waits(s, q) /\ q.task.type = "bus" /\ Handled(s, q.task)
              /\ q.ok \/ q.task.op \in Failing
      BY <2>2 DEF Held, Nothing, Queued, Delayed
    <2>4. q = r
      BY <2>1, <2>3 DEF Waits
    <2>5. q.task \in Requests /\ q.ok \in BOOLEAN
      OBVIOUS
    <2>6. \/ resp' = resp /\ ~Asks(q.task)
          \/ Answer(Other(s), q.task.id) /\ (Asks(q.task) \/ q.task.op \in Failing)
      BY <2>1, <2>3, <2>4, <2>5 DEF Finish, Respond, Answer, Asks
    <2>7. running'[s] = {} /\ running'[Other(s)] = running[Other(s)]
      BY <1>1, <2>1, <2>3, <2>4 DEF Waits, TypeOK
    <2>8. UNCHANGED <<kernel, req, io, msg, taskq, timed, timing>> /\ fut' = [fut EXCEPT ![s] = TRUE]
      BY <1>4 DEF EndWait
    <2>9. Nothing(s)'
      BY <2>3, <2>7, <2>8 DEF Nothing, Waits
    <2>10. Completes(s, q.task)
      BY <2>2, <2>3, <2>6, <2>8, <2>9 DEF Completes
    <2>11. Has(s, q.task)
      BY <2>3 DEF Has
    <2> QED
      BY <2>5, <2>7, <2>8, <2>10, <2>11 DEF TaskMoves, timing
  <1> QED
    BY <1>2, <1>3, <1>4

-----------------------------------------------------------------------------
(* One task, and the handshake *)

\* Inv holds before the peers start.
LEMMA InitInv == Init => Inv
  <1> SUFFICES ASSUME Init PROVE Inv
    OBVIOUS
  <1> USE OtherPeer, BoundAssumption
  <1>1. left \in [Peers -> 0 .. MaxAccesses]
    BY DEF Init
  <1>2. 0 \in 0 .. MaxTime /\ msg \in [Peers -> Requests]
    BY DEF Init, Requests
  <1>3. TypeOK
    <2>1. /\ kpc \in [Peers -> {"boot", "wait4", "notify", "run", "access", "ended", "failed"}]
          /\ io \in [Peers -> {"off", "read", "stamp", "fut", "stopped"}]
          /\ now \in [Peers -> 0 .. MaxTime] /\ tgt \in 0 .. MaxTime
          /\ want \in [Peers -> Nat] /\ nextId \in [Peers -> Nat]
      BY <1>2 DEF Init
    <2>2. /\ connected \in [Peers -> BOOLEAN] /\ fut \in [Peers -> BOOLEAN]
          /\ con_est \in BOOLEAN /\ shutdown_evt \in BOOLEAN /\ syncDue \in BOOLEAN
      BY DEF Init
    <2>3. /\ req \in [Peers -> Seq(Requests)] /\ resp \in [Peers -> Seq([id : Nat, ok : BOOLEAN])]
          /\ stamps \in [Peers -> Seq(0 .. MaxTime)]
          /\ taskq \in [Peers -> Seq(Requests)] /\ timed \in [Peers -> Seq(Requests)]
          /\ running \in [Peers -> SUBSET [task : Requests, until : Nat, ok : BOOLEAN]]
      BY DEF Init
    <2> QED
      BY <1>1, <1>2, <2>1, <2>2, <2>3 DEF TypeOK
  <1>4. \A s \in Peers : Nothing(s)
    BY DEF Init, Nothing
  <1>5. Handshake
    BY <1>4 DEF Init, Handshake
  <1> QED
    BY <1>3, <1>4, <1>5 DEF Inv, Held

\* A step that leaves the task of u and its handler alone.
LEMMA HeldKeeps ==
    ASSUME NEW u \in Peers, Held(u),
           taskq'[u] = taskq[u], timed'[u] = timed[u], running'[u] = running[u],
           io'[u] = io[u], fut'[u] = fut[u], msg'[u] = msg[u],
           u = "srv" /\ kpc["cli"] = "notify" /\ req["cli"] = <<>> /\ resp["cli"] = <<>> =>
               kpc'["cli"] = "notify" /\ req'["cli"] = req["cli"] /\ resp'["cli"] = resp["cli"]
    PROVE  Held(u)'
  <1>1. CASE Nothing(u)
    BY <1>1 DEF Held, Nothing
  <1>2. CASE \E t \in Requests : Queued(u, t) /\ (Handled(u, t) \/ Announced(u, t))
    <2>1. PICK t \in Requests : Queued(u, t) /\ (Handled(u, t) \/ Announced(u, t))
      BY <1>2
    <2>2. Queued(u, t)' /\ (Handled(u, t)' \/ Announced(u, t)')
      BY <2>1 DEF Queued, Handled, Announced
    <2> QED
      BY <2>2 DEF Held
  <1>3. CASE \E t \in Requests : Delayed(u, t) /\ t.type = "bus" /\ Handled(u, t)
    <2>1. PICK t \in Requests : Delayed(u, t) /\ t.type = "bus" /\ Handled(u, t)
      BY <1>3
    <2>2. Delayed(u, t)' /\ Handled(u, t)'
      BY <2>1 DEF Delayed, Handled
    <2> QED
      BY <2>1, <2>2 DEF Held
  <1>4. CASE \E r \in [task : Requests, until : Nat, ok : BOOLEAN] :
                 /\ Waits(u, r) /\ r.task.type = "bus" /\ Handled(u, r.task)
                 /\ r.ok \/ r.task.op \in Failing
    <2>1. PICK r \in [task : Requests, until : Nat, ok : BOOLEAN] :
                 /\ Waits(u, r) /\ r.task.type = "bus" /\ Handled(u, r.task)
                 /\ r.ok \/ r.task.op \in Failing
      BY <1>4
    <2>2. Waits(u, r)' /\ Handled(u, r.task)'
      BY <2>1 DEF Waits, Handled
    <2> QED
      BY <2>1, <2>2 DEF Held
  <1> QED
    BY <1>1, <1>2, <1>3, <1>4 DEF Held

\* A step of the handler that goes on waiting for the task it waits for.
LEMMA HeldMoves ==
    ASSUME NEW u \in Peers, Held(u), taskq' = taskq, timed' = timed, running' = running,
           \A t \in Requests : Handled(u, t) => Handled(u, t)',
           \A t \in Requests : Announced(u, t) => Announced(u, t)'
    PROVE  Held(u)'
  <1>1. CASE Nothing(u)
    BY <1>1 DEF Held, Nothing
  <1>2. CASE \E t \in Requests : Queued(u, t) /\ (Handled(u, t) \/ Announced(u, t))
    BY <1>2 DEF Held, Queued
  <1>3. CASE \E t \in Requests : Delayed(u, t) /\ t.type = "bus" /\ Handled(u, t)
    BY <1>3 DEF Held, Delayed
  <1>4. CASE \E r \in [task : Requests, until : Nat, ok : BOOLEAN] :
                 /\ Waits(u, r) /\ r.task.type = "bus" /\ Handled(u, r.task)
                 /\ r.ok \/ r.task.op \in Failing
    <2>1. PICK r \in [task : Requests, until : Nat, ok : BOOLEAN] :
                 /\ Waits(u, r) /\ r.task.type = "bus" /\ Handled(u, r.task)
                 /\ r.ok \/ r.task.op \in Failing
      BY <1>4
    <2>2. r.task \in Requests
      OBVIOUS
    <2>3. Waits(u, r)' /\ Handled(u, r.task)'
      BY <2>1, <2>2 DEF Waits
    <2> QED
      BY <2>1, <2>3 DEF Held
  <1> QED
    BY <1>1, <1>2, <1>3, <1>4 DEF Held

\* A task is one the handler waits for, or the announcement of the endpoint.
LEMMA HasHandled ==
    ASSUME NEW s \in Peers, Held(s), NEW t \in Requests, Has(s, t)
    PROVE  /\ Handled(s, t) \/ (Announced(s, t) /\ Queued(s, t))
           /\ ~Nothing(s)
  <1>1. CASE Queued(s, t)
    BY <1>1, One DEF Held, Queued, Delayed, Waits, Nothing
  <1>2. CASE Delayed(s, t)
    BY <1>2, One DEF Held, Queued, Delayed, Waits, Nothing
  <1>3. CASE \E r \in [task : Requests, until : Nat, ok : BOOLEAN] : Waits(s, r) /\ r.task = t
    <2>1. PICK r \in [task : Requests, until : Nat, ok : BOOLEAN] : Waits(s, r) /\ r.task = t
      BY <1>3
    <2> QED
      BY <2>1, One DEF Held, Queued, Delayed, Waits, Nothing
  <1> QED
    BY <1>1, <1>2, <1>3 DEF Has

\* Steps that do not concern the handshake keep Handshake.
LEMMA HandshakeKeeps ==
    ASSUME Handshake, kpc'["cli"] = kpc["cli"], req'["cli"] = req["cli"],
           resp'["cli"] = resp["cli"],
           kpc["cli"] \in {"boot", "notify"} =>
               /\ taskq'["srv"] = taskq["srv"] /\ timed'["srv"] = timed["srv"]
               /\ running'["srv"] = running["srv"],
           io["cli"] = "off" => io'["cli"] = "off",
           kpc["cli"] = "boot" => /\ io'["srv"] = io["srv"] /\ con_est' = con_est
                                  /\ kpc'["srv"] \in {"boot", "wait4"}
    PROVE  Handshake'
  <1>1. CASE kpc["cli"] = "boot"
    BY <1>1 DEF Handshake, Nothing
  <1>2. CASE kpc["cli"] = "notify"
    <2>1. Nothing("srv") => Nothing("srv")'
      BY <1>2 DEF Nothing
    <2>2. \A t \in Requests : Queued("srv", t) => Queued("srv", t)'
      BY <1>2 DEF Queued
    <2>3. CASE /\ \E t \in Requests : Queued("srv", t) /\ t.type = "endpoint"
               /\ req["cli"] = <<>> /\ resp["cli"] = <<>>
      <3>1. PICK t \in Requests : Queued("srv", t) /\ t.type = "endpoint"
        BY <2>3
      <3>2. Queued("srv", t)' /\ t.type = "endpoint"
        BY <2>2, <3>1
      <3>3. \E x \in Requests : Queued("srv", x)' /\ x.type = "endpoint"
        BY <3>2
      <3> QED
        BY <1>2, <2>3, <3>3 DEF Handshake
    <2> QED
      BY <1>2, <2>1, <2>3 DEF Handshake
  <1>3. CASE kpc["cli"] \notin {"boot", "notify"}
    BY <1>3 DEF Handshake
  <1> QED
    BY <1>1, <1>2, <1>3

\* Once the client is past the handshake, Handshake asks nothing more.
LEMMA HandshakeOver ==
    ASSUME kpc'["cli"] \notin {"boot", "notify"},
           \A i \in DOMAIN req'["cli"] : req'["cli"][i].type # "endpoint"
    PROVE  Handshake'
  BY DEF Handshake

\* cli adds no announcement to what it has sent.
LEMMA HandshakeSends ==
    ASSUME Inv, kpc["cli"] \notin {"boot", "notify"}, kpc'["cli"] \notin {"boot", "notify"},
           NEW m \in Seq(Requests), \A i \in 1 .. Len(m) : m[i].type # "endpoint",
           Send("cli", m)
    PROVE  Handshake'
  <1>1. req["cli"] \in Seq(Requests) /\ req'["cli"] = req["cli"] \o m
    BY OtherPeer DEF Inv, TypeOK, Send
  <1>2. ASSUME NEW i \in DOMAIN req'["cli"]  PROVE req'["cli"][i].type # "endpoint"
    <2>1. Len(req["cli"]) \in Nat /\ Len(m) \in Nat /\ i \in 1 .. Len(req["cli"]) + Len(m)
      BY <1>1, <1>2, Sent
    <2>2. CASE i <= Len(req["cli"])
      BY <1>1, <2>1, <2>2, Sent DEF Inv, Handshake
    <2>3. CASE i > Len(req["cli"])
      BY <1>1, <2>1, <2>3, Sent
    <2> QED
      BY <2>1, <2>2, <2>3
  <1> QED
    BY <1>2, HandshakeOver

\* A request other than the announcement is read: there is no task, and the handshake
\* is over.
LEMMA HandlerFree ==
    ASSUME Inv, NEW s \in Peers, NEW type \in {"bus", "sync", "shutdown"}, Handles(s, type)
    PROVE  /\ Nothing(s) /\ req[Other(s)] # <<>> /\ io[s] = "read"
           /\ s = "srv" => kpc["cli"] \notin {"boot", "notify"}
  <1>1. io[s] = "read" /\ req[Other(s)] # <<>> /\ Request(s).type = type
    BY DEF Handles
  <1>2. Request(s) = req[Other(s)][1]
    BY <1>1, ReadType DEF Inv
  <1>3. \A t \in Requests : ~Handled(s, t) /\ ~Announced(s, t)
    BY <1>1, OtherPeer DEF Handled, Announced
  <1>4. Nothing(s)
    BY <1>3 DEF Inv, Held
  <1>5. s = "srv" => kpc["cli"] \notin {"boot", "notify"}
    BY <1>1, <1>2, OtherPeer DEF Inv, Handshake
  <1> QED
    BY <1>1, <1>4, <1>5

\* It leaves no announcement behind.
LEMMA HandshakeReads ==
    ASSUME Inv, NEW s \in Peers, NEW type \in {"bus", "sync", "shutdown"}, Handles(s, type),
           Consume(s), UNCHANGED <<kpc, resp>>, con_est' = con_est,
           taskq'[Other(s)] = taskq[Other(s)], timed'[Other(s)] = timed[Other(s)],
           running'[Other(s)] = running[Other(s)], io'[Other(s)] = io[Other(s)]
    PROVE  Handshake'
  <1>1. /\ req[Other(s)] # <<>> /\ io[s] = "read"
        /\ s = "srv" => kpc["cli"] \notin {"boot", "notify"}
    BY HandlerFree
  <1>2. CASE s = "srv"
    <2>1. req["cli"] \in Seq(Requests) /\ req["cli"] # <<>> /\ req'["cli"] = Tail(req["cli"])
      BY <1>1, <1>2, OtherPeer DEF Inv, TypeOK, Consume
    <2>2. ASSUME NEW i \in DOMAIN req'["cli"]  PROVE req'["cli"][i].type # "endpoint"
      <3>1. i \in 1 .. Len(req["cli"]) - 1 /\ req'["cli"][i] = req["cli"][i + 1]
            /\ i + 1 \in DOMAIN req["cli"]
        BY <2>1, <2>2, Popped
      <3> QED
        BY <1>1, <1>2, <3>1 DEF Inv, Handshake
    <2> QED
      BY <1>1, <1>2, <2>2, HandshakeOver
  <1>3. CASE s = "cli"
    <2>1. req'["cli"] = req["cli"]
      BY <1>3, OtherPeer DEF Inv, TypeOK, Consume
    <2> QED
      BY <1>1, <1>3, <2>1, HandshakeKeeps, OtherPeer DEF Inv, Handshake
  <1> QED
    BY <1>2, <1>3, OtherPeer

\* A new task, with its handler waiting for it.
LEMMA HeldTask ==
    ASSUME NEW s \in Peers, NEW t \in Requests, Nothing(s),
           taskq'[s] = Append(taskq[s], t), timed'[s] = timed[s], running'[s] = running[s],
           (Handled(s, t) \/ Announced(s, t))'
    PROVE  Held(s)'
  <1>1. Queued(s, t)'
    BY One DEF Queued, Nothing
  <1> QED
    BY <1>1 DEF Held

\* Steps that leave the tasks of a peer and its handler alone keep Held.
LEMMA HeldSame ==
    ASSUME Inv, NEW u \in Peers, UNCHANGED tasks, io'[u] = io[u], msg'[u] = msg[u],
           u = "srv" => \/ kpc["cli"] # "notify"
                        \/ UNCHANGED <<kpc["cli"], req["cli"], resp["cli"]>>
    PROVE  Held(u)'
  BY HeldKeeps DEF Inv, tasks

\* The I/O thread queues a task only when its last one is done.
LEMMA HandlerInv ==
    ASSUME Inv, NEW s \in Peers, IoNext(s)
    PROVE  Handshake' /\ \A u \in Peers : Held(u)'
  <1> DEFINE o == Other(s)
  <1>1. o \in Peers /\ o # s /\ \A u \in Peers : u = s \/ u = o
    BY OtherPeer
  <1> HIDE DEF o
  \* The other peer is not concerned.
  <1>2. ASSUME UNCHANGED <<kpc, resp>>, req'[s] = req[s], taskq'[o] = taskq[o],
               timed'[o] = timed[o], running'[o] = running[o], io'[o] = io[o],
               fut'[o] = fut[o], msg'[o] = msg[o]
        PROVE  Held(o)'
    <2>1. o = "srv" => s = "cli"
      BY <1>1, OtherPeer DEF o
    <2> QED
      BY <1>1, <1>2, <2>1, HeldKeeps DEF Inv
  <1>3. CASE HandleBusOp(s)
    <2>1. Nothing(s) /\ req[o] # <<>> /\ io[s] = "read"
      BY <1>3, HandlerFree DEF HandleBusOp, o
    <2>2. PICK t \in Requests : t = Request(s) /\ t.type = "bus"
      BY <1>3, <2>1, ReadType DEF HandleBusOp, Handles, Inv, o
    <2>3. /\ UNCHANGED <<kpc, resp, con_est, timed, running>> /\ Consume(s)
          /\ taskq'[s] = Append(taskq[s], t) /\ taskq'[o] = taskq[o]
          /\ fut'[s] = FALSE /\ fut'[o] = fut[o] /\ msg'[s] = t /\ msg'[o] = msg[o]
          /\ io'[s] = "stamp" /\ io'[o] = io[o]
      BY <1>1, <1>3, <2>2 DEF HandleBusOp, Inv, TypeOK, kernel, timing
    <2>4. req'[s] = req[s]
      BY <1>1, <2>3 DEF Consume, Inv, TypeOK, o
    <2>5. Handled(s, t)'
      BY <2>2, <2>3 DEF Handled
    <2>6. Held(s)'
      BY <2>1, <2>3, <2>5, HeldTask
    <2>7. Handshake'
      BY <1>3, <2>3, HandshakeReads DEF HandleBusOp, o
    <2> QED
      BY <1>1, <1>2, <2>3, <2>4, <2>6, <2>7
  <1>4. CASE PushStamp(s)
    <2>1. /\ UNCHANGED <<kernel, wire, tasks, msg, con_est>> /\ io[s] = "stamp"
          /\ io'[s] = (IF msg[s].type = "bus" THEN "fut" ELSE "read") /\ io'[o] = io[o]
      BY <1>1, <1>4 DEF PushStamp, Inv, TypeOK
    <2>2. \A t \in Requests : Handled(s, t) => Handled(s, t)'
      BY <2>1 DEF Handled, tasks
    <2>3. \A t \in Requests : Announced(s, t) => Announced(s, t)'
      BY <2>1 DEF Announced, kernel, wire
    <2>4. Held(s)' /\ Held(o)'
      BY <1>1, <1>2, <2>1, <2>2, <2>3, HeldMoves DEF Inv, tasks, kernel, wire
    <2>5. Handshake'
      BY <1>1, <2>1, HandshakeKeeps, OtherPeer DEF Inv, Handshake, kernel, wire, tasks
    <2> QED
      BY <1>1, <2>4, <2>5
  <1>5. CASE HandlerDone(s)
    <2>1. /\ UNCHANGED <<kernel, wire, tasks, msg, timing>> /\ io[s] = "fut" /\ fut[s]
          /\ io'[o] = io[o] /\ io'[s] \in {"stopped", "read"}
      BY <1>1, <1>5 DEF HandlerDone, Inv, TypeOK
    <2>2. \A t \in Requests : Handled(s, t) => Handled(s, t)'
      BY <2>1 DEF Handled
    <2>3. \A t \in Requests : Announced(s, t) => Announced(s, t)'
      BY <2>1 DEF Announced, kernel, wire
    <2>4. Held(s)' /\ Held(o)'
      BY <1>1, <1>2, <2>1, <2>2, <2>3, HeldMoves DEF Inv, tasks, kernel, wire
    <2>5. Handshake'
      BY <1>1, <2>1, HandshakeKeeps, OtherPeer DEF Inv, Handshake, kernel, wire, tasks, timing
    <2> QED
      BY <1>1, <2>4, <2>5
  <1>6. CASE HandleSync(s)
    <2>1. Nothing(s)
      BY <1>6, HandlerFree DEF HandleSync
    <2>2. UNCHANGED <<kpc, resp, con_est, taskq, timed, running, fut>> /\ Consume(s)
          /\ msg'[o] = msg[o] /\ io'[o] = io[o]
      BY <1>1, <1>6 DEF HandleSync, Inv, TypeOK, kernel, timing, tasks
    <2>3. req'[s] = req[s]
      BY <1>1, <2>2 DEF Consume, Inv, TypeOK, o
    <2>4. Held(s)' /\ Held(o)'
      BY <1>2, <2>1, <2>2, <2>3 DEF Held, Nothing
    <2>5. Handshake'
      BY <1>6, <2>2, HandshakeReads DEF HandleSync, o
    <2> QED
      BY <1>1, <2>4, <2>5
  <1>7. CASE HandleShutdown(s)
    <2>1. Nothing(s) /\ req[o] # <<>> /\ io[s] = "read"
      BY <1>7, HandlerFree DEF HandleShutdown, o
    <2>2. PICK t \in Requests : t = [Request(s) EXCEPT !.ts = 0] /\ t.type = "shutdown" /\ t.ts = 0
      BY <1>7, <2>1, ReadType DEF HandleShutdown, Handles, Inv, o
    <2>3. /\ UNCHANGED <<kpc, resp, con_est, timed, running>> /\ Consume(s)
          /\ taskq'[s] = Append(taskq[s], t) /\ taskq'[o] = taskq[o]
          /\ fut'[s] = FALSE /\ fut'[o] = fut[o] /\ msg'[s].type = "shutdown" /\ msg'[o] = msg[o]
          /\ io'[s] = "fut" /\ io'[o] = io[o]
      BY <1>1, <1>7, <2>2 DEF HandleShutdown, Handles, Inv, TypeOK, timing
    <2>4. req'[s] = req[s]
      BY <1>1, <2>3 DEF Consume, Inv, TypeOK, o
    <2>5. Handled(s, t)'
      BY <2>2, <2>3 DEF Handled
    <2>6. Held(s)'
      BY <2>1, <2>3, <2>5, HeldTask
    <2>7. Handshake'
      BY <1>7, <2>3, HandshakeReads DEF HandleShutdown, o
    <2> QED
      BY <1>1, <1>2, <2>3, <2>4, <2>6, <2>7
  <1> QED
    BY <1>3, <1>4, <1>5, <1>6, <1>7 DEF IoNext

\* A task that moves on is still the only one.
LEMMA TaskInv ==
    ASSUME Inv, NEW s \in Peers, NEW t \in Requests, TaskMoves(s, t)
    PROVE  Handshake' /\ \A u \in Peers : Held(u)'
  <1> DEFINE o == Other(s)
  <1>1. o \in Peers /\ o # s /\ \A u \in Peers : u = s \/ u = o
    BY OtherPeer
  <1>2. /\ Has(s, t) /\ (PutOff(s, t) \/ BeginsWait(s, t) \/ Greets(s, t) \/ Completes(s, t))
        /\ taskq'[o] = taskq[o] /\ timed'[o] = timed[o] /\ running'[o] = running[o]
        /\ UNCHANGED <<kernel, req, io, msg, con_est>>
    BY DEF TaskMoves
  <1> HIDE DEF o
  <1>3. (Handled(s, t) \/ (Announced(s, t) /\ Queued(s, t))) /\ ~Nothing(s)
    BY <1>2, HasHandled DEF Inv
  <1>4. fut'[o] = fut[o]
    BY <1>1, <1>2 DEF PutOff, BeginsWait, Greets, Completes, Inv, TypeOK
  <1>5. resp'[s] = resp[s]
    BY <1>1, <1>2 DEF PutOff, BeginsWait, Greets, Completes, Answer, Inv, TypeOK, o
  \* Only the announcement can be in the hands of srv during the handshake.
  <1>6. s = "srv" /\ kpc["cli"] \in {"boot", "notify"} =>
            /\ t.type = "endpoint" /\ kpc["cli"] = "notify"
            /\ req["cli"] = <<>> /\ resp["cli"] = <<>>
    <2>1. SUFFICES ASSUME s = "srv", kpc["cli"] \in {"boot", "notify"}
                   PROVE  /\ t.type = "endpoint" /\ kpc["cli"] = "notify"
                          /\ req["cli"] = <<>> /\ resp["cli"] = <<>>
      OBVIOUS
    <2>2. kpc["cli"] = "notify" /\ req["cli"] = <<>> /\ resp["cli"] = <<>>
          /\ \E x \in Requests : Queued("srv", x) /\ x.type = "endpoint"
      BY <1>3, <2>1 DEF Inv, Handshake
    <2>3. PICK x \in Requests : Queued("srv", x) /\ x.type = "endpoint"
      BY <2>2
    <2>4. x = t
      BY <1>2, <2>1, <2>3, One DEF Has, Queued, Delayed, Waits
    <2> QED
      BY <2>2, <2>3, <2>4
  <1>7. Held(o)'
    <2>1. o = "srv" => s = "cli"
      BY <1>1, OtherPeer DEF o
    <2> QED
      BY <1>1, <1>2, <1>4, <1>5, <2>1, HeldKeeps DEF Inv, kernel
  <1>8. CASE Greets(s, t)
    <2>1. Announced(s, t) /\ Nothing(s)'
      BY <1>3, <1>8 DEF Greets, Handled
    <2>2. s = "srv" /\ o = "cli" /\ kpc["cli"] = "notify" /\ req["cli"] = <<>> /\ resp["cli"] = <<>>
      BY <2>1, OtherPeer DEF Announced, o
    <2>3. PICK ok \in BOOLEAN : resp' = [resp EXCEPT !["cli"] = Append(@, [id |-> t.id, ok |-> ok])]
      BY <1>8, <2>2 DEF Greets, Answer, o
    <2>4. resp'["cli"] = <<[id |-> t.id, ok |-> ok]>>
      BY <2>2, <2>3, One, OtherPeer DEF Inv, TypeOK
    <2>5. Len(resp'["cli"]) = 1
      BY <2>4, One
    <2>6. Handshake'
      BY <1>2, <2>1, <2>2, <2>5 DEF Handshake, kernel
    <2> QED
      BY <1>1, <1>7, <2>1, <2>6 DEF Held
  <1>9. CASE t.type # "endpoint"
    <2>1. Handled(s, t)
      BY <1>3, <1>9 DEF Announced
    <2>2. Handshake'
      <3>1. CASE s = "srv"
        <4>1. kpc["cli"] \notin {"boot", "notify"}
          BY <1>6, <1>9, <3>1
        <4> QED
          BY <1>2, <4>1, HandshakeOver DEF Inv, Handshake, kernel
      <3>2. CASE s = "cli"
        <4>1. o = "srv"
          BY <3>2, OtherPeer DEF o
        <4> QED
          BY <1>2, <1>5, <3>2, <4>1, HandshakeKeeps DEF Inv, Handshake, kernel
      <3> QED
        BY <3>1, <3>2, OtherPeer
    <2>3. Held(s)'
      <3>1. CASE PutOff(s, t)
        <4>1. Handled(s, t)'
          BY <1>2, <2>1, <3>1 DEF Handled, PutOff
        <4> QED
          BY <3>1, <4>1 DEF PutOff, Held
      <3>2. CASE BeginsWait(s, t)
        <4>1. Handled(s, t)'
          BY <1>2, <2>1, <3>2 DEF Handled, BeginsWait
        <4>2. PICK r \in [task : Requests, until : Nat, ok : BOOLEAN] :
                  Waits(s, r)' /\ r.task = t /\ (r.ok \/ t.op \in Failing)
          BY <3>2 DEF BeginsWait
        <4>3. t.type = "bus"
          BY <3>2 DEF BeginsWait
        <4> QED
          BY <4>1, <4>2, <4>3 DEF Held
      <3>3. CASE Completes(s, t)
        BY <3>3 DEF Completes, Held
      <3> QED
        BY <1>2, <1>9, <3>1, <3>2, <3>3 DEF Greets
    <2> QED
      BY <1>1, <1>7, <2>2, <2>3
  <1> QED
    BY <1>2, <1>8, <1>9 DEF PutOff, BeginsWait, Completes

\* The steps of the connection keep Handshake and Held.
LEMMA SetupInv ==
    ASSUME Inv, StartServer \/ GiveUp \/ Connected \/ Connect \/ HandleEndpoint \/ Notified
    PROVE  Handshake' /\ \A u \in Peers : Held(u)'
  <1> USE OtherPeer
  <1>1. CASE StartServer \/ Connected
    <2>1. /\ UNCHANGED <<wire, io, msg, tasks, timing>> /\ kpc'["cli"] = kpc["cli"]
          /\ kpc["cli"] = "boot" => kpc'["srv"] \in {"boot", "wait4"}
      BY <1>1 DEF StartServer, Connected, Inv, TypeOK, Handshake
    <2>2. Handshake'
      BY <2>1, HandshakeKeeps DEF Inv, wire, tasks, timing
    <2> QED
      BY <2>1, <2>2, HeldSame DEF wire
  <1>2. CASE GiveUp
    <2>1. UNCHANGED <<wire, io, msg, tasks, timing>> /\ kpc["cli"] = "boot" /\ kpc'["cli"] = "failed"
      BY <1>2 DEF GiveUp, Inv, TypeOK
    <2>2. \A i \in DOMAIN req'["cli"] : req'["cli"][i].type # "endpoint"
      BY <2>1 DEF Inv, Handshake, wire
    <2>3. Handshake'
      BY <2>1, <2>2, HandshakeOver
    <2> QED
      BY <2>1, <2>3, HeldSame DEF wire
  <1>3. CASE Connect
    <2>1. /\ UNCHANGED <<resp, msg, tasks, timing>> /\ kpc["cli"] = "boot" /\ kpc'["cli"] = "notify"
          /\ io'["cli"] = io["cli"] /\ io'["srv"] = "read"
          /\ Send("cli", <<Message("cli", "endpoint", "none")>>)
      BY <1>3 DEF Connect, Inv, TypeOK
    <2>2. Nothing("srv") /\ req["cli"] = <<>> /\ resp["cli"] = <<>> /\ io["cli"] = "off"
      BY <2>1 DEF Inv, Handshake
    <2>3. PICK m \in Requests : m = Message("cli", "endpoint", "none") /\ m.type = "endpoint"
      BY MessageType DEF Inv
    <2>4. <<>> \o <<m>> = <<m>>
      OBVIOUS
    <2>5. req'["cli"] = <<m>>
      BY <2>1, <2>2, <2>3, <2>4 DEF Send, Inv, TypeOK
    <2>6. Nothing("srv")' /\ Len(req'["cli"]) = 1 /\ req'["cli"][1].type = "endpoint"
      BY <2>1, <2>2, <2>3, <2>5, One DEF Nothing, tasks
    <2>7. Handshake'
      BY <2>1, <2>2, <2>6 DEF Handshake
    <2>8. Held("cli")'
      BY <2>1, HeldSame
    <2>9. Held("srv")'
      BY <2>6 DEF Held
    <2> QED
      BY <2>7, <2>8, <2>9
  <1>4. CASE HandleEndpoint
    <2>1. req["cli"] # <<>> /\ Request("srv").type = "endpoint" /\ Consume("srv")
      BY <1>4 DEF HandleEndpoint, Handles
    <2>2. req["cli"] \in Seq(Requests) /\ 1 \in DOMAIN req["cli"] /\ Request("srv") = req["cli"][1]
      <3>1. req["cli"] \in Seq(Requests)
        BY DEF Inv, TypeOK
      <3>2. 1 \in DOMAIN req["cli"]
        BY <2>1, <3>1, Popped
      <3> QED
        BY <2>1, <3>1, <3>2, ReadType DEF Inv
    <2>3. kpc["cli"] = "notify"
      BY <2>1, <2>2 DEF Inv, Handshake
    <2>4. Len(req["cli"]) = 1 /\ resp["cli"] = <<>> /\ Nothing("srv") /\ io["cli"] = "off"
      BY <2>1, <2>3 DEF Inv, Handshake
    <2>5. req'["cli"] = <<>>
      <3>1. Tail(req["cli"]) \in Seq(Requests) /\ Len(Tail(req["cli"])) = 0
        BY <2>1, <2>2, <2>4, Popped
      <3>2. Tail(req["cli"]) = <<>>
        BY <3>1, EmptySeq
      <3> QED
        BY <2>1, <3>2 DEF Consume, Inv, TypeOK
    <2>6. PICK t \in Requests : t = [Request("srv") EXCEPT !.ts = 0] /\ t.type = "endpoint" /\ t.ts = 0
      BY <2>1, ReadType DEF Inv
    <2>7. /\ UNCHANGED <<kpc, resp, msg, timed, running, fut>>
          /\ taskq'["srv"] = Append(taskq["srv"], t) /\ taskq'["cli"] = taskq["cli"]
          /\ io'["srv"] = io["srv"]
      BY <1>4, <2>6 DEF HandleEndpoint, Inv, TypeOK
    <2>8. Announced("srv", t)'
      BY <2>3, <2>4, <2>5, <2>6, <2>7 DEF Announced
    <2>9. Held("srv")'
      BY <2>4, <2>7, <2>8, HeldTask
    <2>10. Nothing("cli")
      <3>1. \A x \in Requests : ~Handled("cli", x) /\ ~Announced("cli", x)
        BY <2>4 DEF Handled, Announced
      <3> QED
        BY <3>1 DEF Inv, Held
    <2>11. Held("cli")'
      BY <2>7, <2>10 DEF Held, Nothing
    <2>12. Queued("srv", t)'
      BY <2>4, <2>7, One DEF Queued, Nothing
    <2>13. Handshake'
      BY <2>3, <2>4, <2>5, <2>6, <2>7, <2>12 DEF Handshake
    <2> QED
      BY <2>9, <2>11, <2>13
  <1>5. CASE Notified
    <2>1. /\ UNCHANGED <<req, io, msg, tasks>> /\ kpc["cli"] = "notify" /\ resp["cli"] # <<>>
          /\ kpc'["cli"] \in {"run", "failed"}
      BY <1>5 DEF Notified, Inv, TypeOK
    <2>2. req["cli"] = <<>> /\ Nothing("srv")
      BY <2>1 DEF Inv, Handshake
    <2>3. Handshake'
      BY <2>1, <2>2, HandshakeOver
    <2>4. Held("srv")'
      BY <2>1, <2>2 DEF Held, Nothing, tasks
    <2>5. Held("cli")'
      BY <2>1, HeldSame
    <2> QED
      BY <2>3, <2>4, <2>5
  <1> QED
    BY <1>1, <1>2, <1>3, <1>4, <1>5

\* Every step keeps Inv.
LEMMA NextInv ==
    ASSUME Inv, [Next]_vars
    PROVE  Inv'
  <1> USE OtherPeer
  <1>1. TypeOK'
    BY TypeNext DEF Inv
  <1> SUFFICES Handshake' /\ \A u \in Peers : Held(u)'
    BY <1>1 DEF Inv
  <1>2. CASE StartServer \/ GiveUp \/ Connected \/ Connect \/ HandleEndpoint \/ Notified
    BY <1>2, SetupInv
  <1>3. CASE \E s \in Peers : IoNext(s)
    BY <1>3, HandlerInv
  <1>4. CASE \E s \in Peers : ProcessTask(s) \/ ProcessTimedTask(s) \/ EndWait(s)
    BY <1>4, TaskStep, TaskInv
  \* A step of the kernel of s that leaves the tasks, the I/O thread and the other alone.
  <1>5. ASSUME UNCHANGED <<io, msg, tasks, con_est>>,
               UNCHANGED <<kpc["cli"], req["cli"], resp["cli"]>>,
               kpc["cli"] = "boot" => kpc'["srv"] \in {"boot", "wait4"}
        PROVE  Handshake' /\ \A u \in Peers : Held(u)'
    <2>1. Handshake'
      BY <1>5, HandshakeKeeps DEF Inv, tasks
    <2> QED
      BY <1>5, <2>1, HeldSame
  <1>6. CASE TakeStamp \/ (\E s \in Peers : Advance(s)) \/ UNCHANGED vars
    <2>1. UNCHANGED <<kpc, req, resp, io, msg, tasks, con_est>>
      BY <1>6 DEF TakeStamp, Advance, vars, kernel, wire, timing
    <2> QED
      BY <1>5, <2>1 DEF Inv, Handshake
  <1>7. CASE SendSync
    <2>1. /\ UNCHANGED <<kpc, resp, io, msg, tasks>> /\ kpc["cli"] = "run"
          /\ Send("cli", <<Message("cli", "sync", "none")>>)
      BY <1>7 DEF SendSync
    <2>2. PICK m \in Requests : m = Message("cli", "sync", "none") /\ m.type = "sync"
      BY MessageType DEF Inv
    <2>3. <<m>> \in Seq(Requests) /\ \A i \in 1 .. Len(<<m>>) : <<m>>[i].type # "endpoint"
      BY <2>2, One
    <2>4. Handshake'
      BY <2>1, <2>2, <2>3, HandshakeSends
    <2> QED
      BY <2>1, <2>4, HeldSame
  <1>8. ASSUME NEW s \in Peers, NEW op \in Ops, Access(s, op)
        PROVE  Handshake' /\ \A u \in Peers : Held(u)'
    <2>1. /\ UNCHANGED <<resp, io, msg, tasks, timing>> /\ kpc[s] = "run"
          /\ kpc'[s] \in {"run", "access"} /\ kpc'[Other(s)] = kpc[Other(s)]
          /\ Send(s, <<Message(s, "bus", op)>>)
      BY <1>8 DEF Access, Inv, TypeOK
    <2>2. CASE s = "cli"
      <3>1. PICK m \in Requests : m = Message("cli", "bus", op) /\ m.type = "bus"
        BY MessageType, WorkloadAssumption DEF Inv
      <3>2. <<m>> \in Seq(Requests) /\ \A i \in 1 .. Len(<<m>>) : <<m>>[i].type # "endpoint"
        BY <3>1, One
      <3>3. Handshake'
        BY <2>1, <2>2, <3>1, <3>2, HandshakeSends
      <3> QED
        BY <2>1, <2>2, <3>3, HeldSame
    <2>3. CASE s = "srv"
      <3>1. req'["cli"] = req["cli"]
        BY <2>1, <2>3 DEF Send, Inv, TypeOK
      <3>2. kpc["cli"] # "boot"
        BY <2>1, <2>3 DEF Inv, Handshake
      <3> QED
        BY <1>5, <2>1, <2>3, <3>1, <3>2 DEF timing
    <2> QED
      BY <2>2, <2>3
  <1>9. ASSUME NEW s \in Peers, ReadResponse(s)
        PROVE  Handshake' /\ \A u \in Peers : Held(u)'
    <2>1. /\ UNCHANGED <<req, io, msg, tasks, timing>> /\ kpc[s] = "access" /\ kpc'[s] = "run"
          /\ kpc'[Other(s)] = kpc[Other(s)] /\ resp'[Other(s)] = resp[Other(s)]
      BY <1>9 DEF ReadResponse, Inv, TypeOK
    <2>2. CASE s = "cli"
      <3>1. Handshake'
        BY <2>1, <2>2, HandshakeOver DEF Inv, Handshake
      <3> QED
        BY <2>1, <2>2, <3>1, HeldSame
    <2>3. CASE s = "srv"
      <3>1. kpc["cli"] # "boot"
        BY <2>1, <2>3 DEF Inv, Handshake
      <3> QED
        BY <1>5, <2>1, <2>3, <3>1 DEF timing
    <2> QED
      BY <2>2, <2>3
  <1>10. ASSUME NEW s \in Peers, EndOfSimulation(s)
         PROVE  Handshake' /\ \A u \in Peers : Held(u)'
    <2>1. /\ UNCHANGED <<resp, msg, tasks, timing>> /\ kpc[s] = "run" /\ kpc'[s] = "ended"
          /\ kpc'[Other(s)] = kpc[Other(s)] /\ io'[s] = "stopped" /\ io'[Other(s)] = io[Other(s)]
      BY <1>10 DEF EndOfSimulation, Inv, TypeOK
    <2>2. s = "srv" => req' = req /\ kpc["cli"] # "boot"
      BY <1>10, <2>1 DEF EndOfSimulation, Inv, Handshake
    <2>3. Held(Other(s))'
      BY <2>1, <2>2, HeldSame
    <2>4. \A t \in Requests : Handled(s, t) => Handled(s, t)'
      BY <2>1 DEF Handled, tasks
    <2>5. \A t \in Requests : Announced(s, t) => Announced(s, t)'
      BY <2>1, <2>2 DEF Announced
    <2>6. Held(s)'
      BY <2>1, <2>4, <2>5, HeldMoves DEF Inv, tasks
    <2>7. Handshake'
      <3>1. CASE s = "cli" /\ connected[s]
        <4>1. Send("cli", Goodbye("cli"))
          BY <1>10, <3>1 DEF EndOfSimulation
        <4>2. Goodbye("cli") \in Seq(Requests)
              /\ \A i \in 1 .. Len(Goodbye("cli")) : Goodbye("cli")[i].type # "endpoint"
          BY GoodbyeType DEF Inv
        <4> QED
          BY <2>1, <3>1, <4>1, <4>2, HandshakeSends
      <3>2. CASE s = "cli" /\ ~connected[s]
        <4>1. req' = req
          BY <1>10, <3>2 DEF EndOfSimulation
        <4> QED
          BY <2>1, <3>2, <4>1, HandshakeOver DEF Inv, Handshake
      <3>3. CASE s = "srv"
        BY <2>1, <2>2, <3>3, HandshakeKeeps DEF Inv, tasks, timing
      <3> QED
        BY <3>1, <3>2, <3>3
    <2> QED
      BY <2>3, <2>6, <2>7
  <1> QED
    BY <1>2, <1>3, <1>4, <1>6, <1>7, <1>8, <1>9, <1>10 DEF Next, KernelNext

\* Inv holds in every reachable state.
LEMMA Invariance == Spec => []Inv
  BY InitInv, NextInv, PTL DEF Spec

\* The variables of both peers and of the wire keep their types.
THEOREM TypeCorrect == Spec => []TypeOK
  <1>1. Inv => TypeOK
    BY DEF Inv
  <1> QED
    BY <1>1, Invariance, PTL

\* Whatever the peers ask of each other, a peer has one request in its hands at a time.
THEOREM OneTask == Spec => []OneTaskAtATime
  <1>1. Inv => OneTaskAtATime
    <2> SUFFICES ASSUME Inv, NEW s \in Peers
                 PROVE  Len(taskq[s]) + Len(timed[s]) + Cardinality(running[s]) <= 1
      BY DEF OneTaskAtATime
    <2>1. Len(<<>>) = 0 /\ Cardinality({}) = 0
      BY FS_EmptySet
    <2>2. Held(s)
      BY DEF Inv
    <2>3. CASE Nothing(s)
      BY <2>1, <2>3 DEF Nothing
    <2>4. ASSUME NEW t, Queued(s, t) \/ Delayed(s, t)
          PROVE  Len(taskq[s]) + Len(timed[s]) + Cardinality(running[s]) <= 1
      <3>1. Len(<<t>>) = 1
        BY One
      <3>2. CASE Queued(s, t)
        BY <2>1, <3>1, <3>2 DEF Queued
      <3>3. CASE Delayed(s, t)
        BY <2>1, <3>1, <3>3 DEF Delayed
      <3> QED
        BY <2>4, <3>2, <3>3
    <2>5. ASSUME NEW r, Waits(s, r)
          PROVE  Len(taskq[s]) + Len(timed[s]) + Cardinality(running[s]) <= 1
      <3>1. Cardinality({r}) = 1
        BY FS_Singleton
      <3> QED
        BY <2>1, <2>5, <3>1 DEF Waits
    <2> QED
      BY <2>2, <2>3, <2>4, <2>5 DEF Held
  <1> QED
    BY <1>1, Invariance, PTL

-----------------------------------------------------------------------------
(* Time *)

\* A queue of time stamps rises if the new one is not below the last.
LEMMA RisingPush ==
    ASSUME NEW q \in Seq(0 .. MaxTime), NEW low \in Nat, NEW e \in 0 .. MaxTime,
           Rising(q, low, e), low <= e
    PROVE  Rising(Append(q, e), low, e)
  <1>1. e \in Nat
    OBVIOUS
  <1>2. /\ Len(q) \in Nat /\ DOMAIN q = 1 .. Len(q) /\ DOMAIN Append(q, e) = 1 .. Len(q) + 1
        /\ \A i \in 1 .. Len(q) : Append(q, e)[i] = q[i]
        /\ Append(q, e)[Len(q) + 1] = e
    BY Pushed
  <1> QED
    BY <1>1, <1>2 DEF Rising

\* The head of a rising queue of time stamps bounds the rest from below.
LEMMA RisingPop ==
    ASSUME NEW q \in Seq(0 .. MaxTime), q # <<>>, NEW low \in Nat, NEW high \in Nat,
           Rising(q, low, high)
    PROVE  low <= Head(q) /\ Head(q) <= high /\ Rising(Tail(q), Head(q), high)
  <1>1. /\ Len(q) \in Nat \ {0} /\ DOMAIN q = 1 .. Len(q) /\ DOMAIN Tail(q) = 1 .. Len(q) - 1
        /\ Head(q) = q[1] /\ \A i \in 1 .. Len(q) - 1 : Tail(q)[i] = q[i + 1]
    BY Popped
  <1>2. 1 \in DOMAIN q /\ \A i \in 1 .. Len(q) - 1 : i + 1 \in DOMAIN q /\ 1 <= i + 1
    BY <1>1
  <1>3. \A i, j \in 1 .. Len(q) - 1 : i <= j => i + 1 <= j + 1
    BY <1>1
  <1> QED
    BY <1>1, <1>2, <1>3 DEF Rising

\* The head of a rising queue of requests bounds the rest from below.
LEMMA RisingTsPop ==
    ASSUME NEW q \in Seq(Requests), q # <<>>, NEW low \in Nat, NEW high \in Nat,
           RisingTs(q, low, high)
    PROVE  /\ low <= Head(q).ts /\ Head(q).ts <= high
           /\ RisingTs(Tail(q), Head(q).ts, high) /\ RisingTs(Tail(q), low, high)
  <1>1. /\ Len(q) \in Nat \ {0} /\ DOMAIN q = 1 .. Len(q) /\ DOMAIN Tail(q) = 1 .. Len(q) - 1
        /\ Head(q) = q[1] /\ \A i \in 1 .. Len(q) - 1 : Tail(q)[i] = q[i + 1]
    BY Popped
  <1>2. 1 \in DOMAIN q /\ \A i \in 1 .. Len(q) - 1 : i + 1 \in DOMAIN q /\ 1 <= i + 1
    BY <1>1
  <1>3. \A i, j \in 1 .. Len(q) - 1 : i <= j => i + 1 <= j + 1
    BY <1>1
  <1> QED
    BY <1>1, <1>2, <1>3 DEF RisingTs

\* Requests sent now keep the queue rising.
LEMMA RisingTsSend ==
    ASSUME NEW q \in Seq(Requests), NEW m \in Seq(Requests), NEW low \in Nat, NEW high \in Nat,
           RisingTs(q, low, high), low <= high, \A i \in 1 .. Len(m) : m[i].ts = high
    PROVE  RisingTs(q \o m, low, high)
  <1>1. /\ Len(q) \in Nat /\ Len(m) \in Nat /\ DOMAIN q = 1 .. Len(q)
        /\ DOMAIN (q \o m) = 1 .. Len(q) + Len(m)
        /\ \A i \in 1 .. Len(q) : (q \o m)[i] = q[i]
        /\ \A i \in 1 .. Len(q) + Len(m) : i > Len(q) => (q \o m)[i].ts = high
    BY Sent
  <1>2. ASSUME NEW i \in DOMAIN (q \o m)
        PROVE  low <= (q \o m)[i].ts /\ (q \o m)[i].ts <= high
    <2>1. CASE i <= Len(q)
      BY <1>1, <2>1 DEF RisingTs
    <2>2. CASE i > Len(q)
      BY <1>1, <2>2
    <2> QED
      BY <1>1, <2>1, <2>2
  <1>3. ASSUME NEW i \in DOMAIN (q \o m), NEW j \in DOMAIN (q \o m), i <= j
        PROVE  (q \o m)[i].ts <= (q \o m)[j].ts
    <2>1. CASE j <= Len(q)
      BY <1>1, <1>3, <2>1 DEF RisingTs
    <2>2. CASE j > Len(q)
      BY <1>1, <1>2, <2>2
    <2> QED
      BY <1>1, <2>1, <2>2
  <1> QED
    BY <1>2, <1>3 DEF RisingTs

\* The times that Ordered relates are numbers.
LEMMA TimeTypes ==
    ASSUME TypeOK
    PROVE  /\ now["srv"] \in Nat /\ now["cli"] \in Nat /\ tgt \in Nat
           /\ msg["srv"] \in Requests /\ msg["srv"].ts \in 0 .. MaxTime /\ msg["srv"].ts \in Nat
           /\ stamps["srv"] \in Seq(0 .. MaxTime) /\ req["cli"] \in Seq(Requests)
  <1>1. /\ now["srv"] \in 0 .. MaxTime /\ now["cli"] \in 0 .. MaxTime /\ tgt \in 0 .. MaxTime
        /\ msg["srv"] \in Requests /\ stamps["srv"] \in Seq(0 .. MaxTime)
        /\ req["cli"] \in Seq(Requests)
    BY OtherPeer DEF TypeOK
  <1>2. msg["srv"].ts \in 0 .. MaxTime
    BY <1>1 DEF Requests
  <1> QED
    BY <1>1, <1>2, BoundAssumption

\* cli sends messages with its time.
LEMMA OrderedSends ==
    ASSUME Inv, Ordered, NEW m \in Seq(Requests), \A i \in 1 .. Len(m) : m[i].ts = now["cli"],
           Send("cli", m), UNCHANGED <<now, tgt, stamps, msg>>
    PROVE  Ordered'
  <1>1. req'["cli"] = req["cli"] \o m
    BY OtherPeer DEF Inv, TypeOK, Send
  <1>2. RisingTs(req["cli"] \o m, msg["srv"].ts, now["cli"])
    BY TimeTypes, RisingTsSend DEF Inv, Ordered
  <1> QED
    BY <1>1, <1>2 DEF Ordered

\* srv takes a request into msg.
LEMMA OrderedReads ==
    ASSUME Inv, Ordered, req["cli"] # <<>>, Consume("srv"), msg' = [msg EXCEPT !["srv"] = Request("srv")],
           UNCHANGED <<now, tgt, stamps>>
    PROVE  Ordered'
  <1>1. req'["cli"] = Tail(req["cli"]) /\ msg'["srv"] = Head(req["cli"])
    BY OtherPeer DEF Inv, TypeOK, Consume, Request
  <1>2. Head(req["cli"]) \in Requests /\ Head(req["cli"]).ts \in Nat
    <2>1. Head(req["cli"]) \in Requests
      BY TimeTypes, Popped DEF Inv
    <2>2. Head(req["cli"]).ts \in 0 .. MaxTime
      BY <2>1 DEF Requests
    <2> QED
      BY <2>1, <2>2, BoundAssumption
  <1>3. /\ msg["srv"].ts <= Head(req["cli"]).ts /\ Head(req["cli"]).ts <= now["cli"]
        /\ RisingTs(Tail(req["cli"]), Head(req["cli"]).ts, now["cli"])
    BY TimeTypes, RisingTsPop DEF Inv, Ordered
  <1>4. DOMAIN stamps["srv"] = 1 .. Len(stamps["srv"])
        /\ \A i \in DOMAIN stamps["srv"] : stamps["srv"][i] \in Nat
    BY TimeTypes, LenProperties, ElementOfSeq, BoundAssumption DEF Inv
  <1>5. Rising(stamps["srv"], tgt, Head(req["cli"]).ts)
    BY TimeTypes, <1>2, <1>3, <1>4 DEF Inv, Ordered, Rising
  <1>6. tgt <= Head(req["cli"]).ts
    BY TimeTypes, <1>2, <1>3 DEF Inv, Ordered
  <1> QED
    BY <1>1, <1>3, <1>5, <1>6 DEF Ordered

\* Every step keeps Ordered.
LEMMA OrderedNext ==
    ASSUME Inv, Ordered, [Next]_vars
    PROVE  Ordered'
  <1> USE OtherPeer
  <1>1. ASSUME UNCHANGED <<now, tgt>>, stamps'["srv"] = stamps["srv"], msg'["srv"] = msg["srv"],
               req'["cli"] = req["cli"]
        PROVE  Ordered'
    BY <1>1 DEF Ordered
  <1>2. CASE StartServer \/ GiveUp \/ Connected \/ Notified \/ UNCHANGED vars
             \/ \E s \in Peers : ReadResponse(s) \/ ProcessTask(s) \/ ProcessTimedTask(s)
                                 \/ EndWait(s) \/ HandlerDone(s)
    <2>1. UNCHANGED <<now, tgt, stamps, msg, req>>
      BY <1>2 DEF StartServer, GiveUp, Connected, Notified, vars, ReadResponse, ProcessTask,
         ProcessTimedTask, EndWait, HandlerDone, kernel, wire, timing
    <2> QED
      BY <1>1, <2>1
  <1>3. CASE Connect
    <2>1. Send("cli", <<Message("cli", "endpoint", "none")>>) /\ UNCHANGED <<now, tgt, stamps, msg>>
      BY <1>3 DEF Connect, timing
    <2>2. PICK m \in Requests : m = Message("cli", "endpoint", "none") /\ m.ts = now["cli"]
      BY MessageType DEF Inv
    <2>3. <<m>> \in Seq(Requests) /\ \A i \in 1 .. Len(<<m>>) : <<m>>[i].ts = now["cli"]
      BY <2>2, One
    <2> QED
      BY <2>1, <2>2, <2>3, OrderedSends
  <1>4. CASE SendSync
    <2>1. Send("cli", <<Message("cli", "sync", "none")>>) /\ UNCHANGED <<now, tgt, stamps, msg>>
      BY <1>4 DEF SendSync
    <2>2. PICK m \in Requests : m = Message("cli", "sync", "none") /\ m.ts = now["cli"]
      BY MessageType DEF Inv
    <2>3. <<m>> \in Seq(Requests) /\ \A i \in 1 .. Len(<<m>>) : <<m>>[i].ts = now["cli"]
      BY <2>2, One
    <2> QED
      BY <2>1, <2>2, <2>3, OrderedSends
  <1>5. ASSUME NEW s \in Peers, NEW op \in Ops, Access(s, op)  PROVE Ordered'
    <2>1. Send(s, <<Message(s, "bus", op)>>) /\ UNCHANGED <<now, tgt, stamps, msg>>
      BY <1>5 DEF Access, timing
    <2>2. CASE s = "cli"
      <3>1. PICK m \in Requests : m = Message("cli", "bus", op) /\ m.ts = now["cli"]
        BY MessageType, WorkloadAssumption DEF Inv
      <3>2. <<m>> \in Seq(Requests) /\ \A i \in 1 .. Len(<<m>>) : <<m>>[i].ts = now["cli"]
        BY <3>1, One
      <3> QED
        BY <2>1, <2>2, <3>1, <3>2, OrderedSends
    <2>3. CASE s = "srv"
      <3>1. req'["cli"] = req["cli"]
        BY <2>1, <2>3 DEF Send, Inv, TypeOK
      <3> QED
        BY <1>1, <2>1, <3>1
    <2> QED
      BY <2>2, <2>3
  <1>6. ASSUME NEW s \in Peers, EndOfSimulation(s)  PROVE Ordered'
    <2>1. UNCHANGED <<now, tgt, stamps, msg>>
      BY <1>6 DEF EndOfSimulation, timing
    <2>2. CASE s = "cli" /\ connected[s]
      <3>1. Send("cli", Goodbye("cli"))
        BY <1>6, <2>2 DEF EndOfSimulation
      <3>2. Goodbye("cli") \in Seq(Requests)
            /\ \A i \in 1 .. Len(Goodbye("cli")) : Goodbye("cli")[i].ts = now["cli"]
        BY GoodbyeType DEF Inv
      <3> QED
        BY <2>1, <3>1, <3>2, OrderedSends
    <2>3. CASE ~(s = "cli" /\ connected[s])
      BY <1>1, <1>6, <2>1, <2>3 DEF EndOfSimulation
    <2> QED
      BY <2>2, <2>3
  <1>7. CASE HandleEndpoint
    <2>1. req["cli"] # <<>> /\ UNCHANGED <<now, tgt, stamps, msg>>
      BY <1>7 DEF HandleEndpoint, Handles
    <2>2. req'["cli"] = Tail(req["cli"])
      BY <1>7 DEF HandleEndpoint, Consume, Inv, TypeOK
    <2>3. RisingTs(Tail(req["cli"]), msg["srv"].ts, now["cli"])
      BY <2>1, TimeTypes, RisingTsPop DEF Inv, Ordered
    <2> QED
      BY <2>1, <2>2, <2>3 DEF Ordered
  <1>8. ASSUME NEW s \in Peers, HandleBusOp(s) \/ HandleSync(s) \/ HandleShutdown(s)
        PROVE  Ordered'
    <2>1. /\ req[Other(s)] # <<>> /\ Consume(s) /\ msg' = [msg EXCEPT ![s] = Request(s)]
          /\ UNCHANGED <<now, tgt, stamps>>
      BY <1>8 DEF HandleBusOp, HandleSync, HandleShutdown, Handles, kernel, timing
    <2>2. CASE s = "srv"
      BY <2>1, <2>2, OrderedReads
    <2>3. CASE s = "cli"
      <3>1. req'["cli"] = req["cli"] /\ msg'["srv"] = msg["srv"]
        BY <2>1, <2>3 DEF Consume, Inv, TypeOK
      <3> QED
        BY <1>1, <2>1, <3>1
    <2> QED
      BY <2>2, <2>3
  <1>9. ASSUME NEW s \in Peers, PushStamp(s)  PROVE Ordered'
    <2>1. UNCHANGED <<now, tgt, msg, req>> /\ stamps' = [stamps EXCEPT ![s] = Append(@, msg[s].ts)]
      BY <1>9 DEF PushStamp, kernel, wire
    <2>2. CASE s = "srv"
      <3>1. stamps'["srv"] = Append(stamps["srv"], msg["srv"].ts)
        BY <2>1, <2>2 DEF Inv, TypeOK
      <3>2. Rising(Append(stamps["srv"], msg["srv"].ts), tgt, msg["srv"].ts)
        BY TimeTypes, RisingPush DEF Inv, Ordered
      <3> QED
        BY <2>1, <3>1, <3>2 DEF Ordered
    <2>3. CASE s = "cli"
      <3>1. stamps'["srv"] = stamps["srv"]
        BY <2>1, <2>3 DEF Inv, TypeOK
      <3> QED
        BY <1>1, <2>1, <3>1
    <2> QED
      BY <2>2, <2>3
  <1>10. CASE TakeStamp
    <2>1. /\ UNCHANGED <<now, msg, req>> /\ tgt' = Head(stamps["srv"]) /\ stamps["srv"] # <<>>
          /\ stamps'["srv"] = Tail(stamps["srv"])
      BY <1>10 DEF TakeStamp, kernel, wire, Inv, TypeOK
    <2>2. /\ tgt <= Head(stamps["srv"]) /\ Head(stamps["srv"]) <= msg["srv"].ts
          /\ Rising(Tail(stamps["srv"]), Head(stamps["srv"]), msg["srv"].ts)
      BY <2>1, TimeTypes, RisingPop DEF Inv, Ordered
    <2>3. Head(stamps["srv"]) \in Nat
      BY <2>1, TimeTypes, Popped, BoundAssumption DEF Inv
    <2>4. now["srv"] <= Head(stamps["srv"])
      BY <2>2, <2>3, TimeTypes DEF Inv, Ordered
    <2> QED
      BY <2>1, <2>2, <2>4 DEF Ordered
  <1>11. ASSUME NEW s \in Peers, Advance(s)  PROVE Ordered'
    <2>1. UNCHANGED <<tgt, stamps, msg, req>> /\ now' = [now EXCEPT ![s] = @ + 1]
      BY <1>11 DEF Advance, wire
    <2>2. CASE s = "srv"
      <3>1. now'["srv"] = now["srv"] + 1 /\ now'["cli"] = now["cli"]
        BY <2>1, <2>2 DEF Inv, TypeOK
      <3>2. now["srv"] + 1 <= tgt
        BY <1>11, <2>2, TimeTypes DEF Advance, Inv
      <3> QED
        BY <2>1, <3>1, <3>2 DEF Ordered
    <2>3. CASE s = "cli"
      <3>1. now'["cli"] = now["cli"] + 1 /\ now'["srv"] = now["srv"]
        BY <2>1, <2>3 DEF Inv, TypeOK
      <3>2. \A i \in DOMAIN req["cli"] : req["cli"][i].ts \in Nat
        <4>1. \A i \in DOMAIN req["cli"] : req["cli"][i] \in Requests
          BY TimeTypes, LenProperties, ElementOfSeq DEF Inv
        <4> QED
          BY <4>1, BoundAssumption DEF Requests
      <3>3. RisingTs(req["cli"], msg["srv"].ts, now["cli"] + 1)
        BY <3>2, TimeTypes DEF Ordered, RisingTs, Inv
      <3>4. msg["srv"].ts <= now["cli"] + 1
        BY TimeTypes DEF Ordered, Inv
      <3> QED
        BY <2>1, <3>1, <3>3, <3>4 DEF Ordered
    <2> QED
      BY <2>2, <2>3
  <1> QED
    BY <1>2, <1>3, <1>4, <1>5, <1>6, <1>7, <1>8, <1>9, <1>10, <1>11 DEF Next, KernelNext, IoNext

\* Ordered holds in every reachable state.
LEMMA OrderedInvariance == Spec => []Ordered
  <1>1. Init => Ordered
    BY OtherPeer DEF Init, Ordered, Rising, RisingTs
  <1> QED
    BY <1>1, OrderedNext, Invariance, PTL DEF Spec

\* The time of the connection server does not run ahead of that of the other peer.
THEOREM ServerBehind == Spec => []ServerNotAhead
  <1>1. Inv /\ Ordered => ServerNotAhead
    BY TimeTypes DEF Inv, Ordered, ServerNotAhead
  <1> QED
    BY <1>1, Invariance, OrderedInvariance, PTL

\* The step in which the target of the server begins an access happens at its time.
LEMMA ExecutedStep ==
    ASSUME Inv, Ordered, [Next]_vars, TaskBegins, msg["srv"].type = "bus"
    PROVE  now["srv"] = msg["srv"].ts
  <1> USE OtherPeer DEF TaskBegins
  <1>1. PICK s \in Peers : ProcessTask(s) \/ ProcessTimedTask(s) \/ EndWait(s)
    <2>1. ASSUME NEW s \in Peers, HandleBusOp(s) \/ HandleShutdown(s)  PROVE FALSE
      <3>1. fut' = [fut EXCEPT ![s] = FALSE] /\ running' = running
        BY <2>1 DEF HandleBusOp, HandleShutdown
      <3>2. fut'["srv"] = FALSE \/ fut'["srv"] = fut["srv"]
        BY <3>1 DEF Inv, TypeOK
      <3> QED
        BY <3>1, <3>2
    <2>2. ASSUME fut' = fut, running' = running  PROVE FALSE
      BY <2>2
    <2> QED
      BY <2>1, <2>2 DEF Next, KernelNext, IoNext, StartServer, Connect, GiveUp, HandleEndpoint,
         Connected, Notified, TakeStamp, SendSync, ReadResponse, Advance, PushStamp, HandlerDone,
         HandleSync, EndOfSimulation, Access, vars, tasks
  <1>2. PICK t \in Requests : TaskMoves(s, t)
    BY <1>1, TaskStep
  <1>3. s = "srv"
    <2> SUFFICES ASSUME s # "srv"  PROVE FALSE
      OBVIOUS
    <2>1. running'["srv"] = running["srv"]
      BY <1>2 DEF TaskMoves
    <2>2. fut' = fut \/ fut' = [fut EXCEPT ![s] = TRUE]
      BY <1>2 DEF TaskMoves, PutOff, BeginsWait, Greets, Completes
    <2>3. fut'["srv"] = fut["srv"]
      BY <2>2 DEF Inv, TypeOK
    <2> QED
      BY <2>1, <2>3
  <1>4. BeginsWait(s, t) \/ Completes(s, t)
    <2>1. CASE PutOff(s, t) \/ Greets(s, t)
      <3>1. running'[s] = {} /\ fut' = fut
        BY <2>1 DEF PutOff, Greets, Delayed, Nothing
      <3> QED
        BY <1>3, <3>1
    <2> QED
      BY <1>2, <2>1 DEF TaskMoves
  <1>5. Handled("srv", t)
    BY <1>2, <1>3, <1>4, HasHandled DEF TaskMoves, BeginsWait, Completes, Announced, Inv
  <1>6. t = msg["srv"] /\ t.ts <= now["srv"]
    BY <1>3, <1>4, <1>5 DEF Handled, BeginsWait, Completes
  <1> QED
    BY <1>6, TimeTypes DEF Inv, Ordered

\* The target of the connection server begins an access at the very time at which the other
\* peer made it, whatever the latencies of the targets and the order of the messages.
THEOREM ExecutesOnTime == Spec => ExecutedOnTime
  <1> DEFINE Step == TaskBegins /\ msg["srv"].type = "bus" => now["srv"] = msg["srv"].ts
  <1>1. Inv /\ Ordered /\ [Next]_vars => [Step]_vars
    BY ExecutedStep DEF TaskBegins
  <1> QED
    BY <1>1, Invariance, OrderedInvariance, PTL DEF Spec, ExecutedOnTime

-----------------------------------------------------------------------------
(* Answers *)

\* s waits for no answer, and none is to come.
Quiet(s) ==
    /\ \A i \in DOMAIN req[s] : ~Asks(req[s][i])
    /\ \A t \in Requests : InHand(Other(s), t) => ~Asks(t)
    /\ resp[s] = <<>>

\* A peer that waits for no answer has none to come.
LEMMA QuietAsked ==
    ASSUME NEW s \in Peers
    PROVE  /\ Quiet(s)' => Asked(s)'
           /\ Asked(s) /\ kpc[s] \notin {"access", "notify"} => Quiet(s)
  BY DEF Quiet, Asked, Expects

\* The task in hand of a peer is the one it holds.
LEMMA NothingInHand ==
    ASSUME NEW s \in Peers
    PROVE  /\ Nothing(s) => \A t : ~InHand(s, t)
           /\ Nothing(s)' => \A t : ~InHand(s, t)'
           /\ \A t, x : (Queued(s, t) \/ Delayed(s, t)) /\ InHand(s, x) => x = t
           /\ \A t, x : (Queued(s, t) \/ Delayed(s, t))' /\ InHand(s, x)' => x = t
           /\ \A r, x : Waits(s, r)' /\ InHand(s, x)' => x = r.task
  <1>1. \A t : <<t>> # <<>> /\ \A u : <<t>> = <<u>> => t = u
    BY One
  <1> QED
    BY <1>1 DEF Nothing, InHand, Queued, Delayed, Waits

\* The other peer has the same task.
LEMMA SameInHand ==
    ASSUME NEW o \in Peers, taskq'[o] = taskq[o], timed'[o] = timed[o], running'[o] = running[o]
    PROVE  \A t : InHand(o, t)' = InHand(o, t)
  BY DEF InHand

\* Steps that leave the conversation of a peer alone keep Asked.
LEMMA AskedKeeps ==
    ASSUME NEW s \in Peers, Asked(s), req'[s] = req[s], resp'[s] = resp[s], kpc'[s] = kpc[s],
           want'[s] = want[s], taskq'[Other(s)] = taskq[Other(s)],
           timed'[Other(s)] = timed[Other(s)], running'[Other(s)] = running[Other(s)]
    PROVE  Asked(s)'
  <1>1. \A t : InHand(Other(s), t)' = InHand(Other(s), t)
    BY SameInHand, OtherPeer
  <1>2. \A id : Expects(s, id)' = Expects(s, id)
    BY DEF Expects
  <1> QED
    BY <1>1, <1>2 DEF Asked

\* s is not waiting and sends nothing that is answered.
LEMMA QuietSends ==
    ASSUME TypeOK, NEW s \in Peers, Quiet(s), NEW m \in Seq(Requests), Send(s, m),
           \A i \in 1 .. Len(m) : ~Asks(m[i]), UNCHANGED <<taskq, timed, running, resp>>
    PROVE  Asked(s)'
  <1>1. req[s] \in Seq(Requests) /\ req'[s] = req[s] \o m
    BY DEF TypeOK, Send
  <1>2. /\ Len(req[s]) \in Nat /\ Len(m) \in Nat /\ DOMAIN req[s] = 1 .. Len(req[s])
        /\ DOMAIN (req[s] \o m) = 1 .. Len(req[s]) + Len(m)
        /\ \A i \in 1 .. Len(req[s]) : (req[s] \o m)[i] = req[s][i]
        /\ \A i \in 1 .. Len(req[s]) + Len(m) : i > Len(req[s]) =>
               i - Len(req[s]) \in 1 .. Len(m) /\ (req[s] \o m)[i] = m[i - Len(req[s])]
    BY <1>1, Sent
  <1>3. ASSUME NEW i \in DOMAIN req'[s]  PROVE ~Asks(req'[s][i])
    <2>1. CASE i <= Len(req[s])
      <3>1. i \in DOMAIN req[s] /\ req'[s][i] = req[s][i]
        BY <1>1, <1>2, <1>3, <2>1
      <3> QED
        BY <3>1 DEF Quiet
    <2>2. CASE i > Len(req[s])
      <3>1. i - Len(req[s]) \in 1 .. Len(m) /\ req'[s][i] = m[i - Len(req[s])]
        BY <1>1, <1>2, <1>3, <2>2
      <3> QED
        BY <3>1
    <2> QED
      BY <1>1, <1>2, <1>3, <2>1, <2>2
  <1>4. \A t : InHand(Other(s), t)' = InHand(Other(s), t)
    BY SameInHand, OtherPeer
  <1>5. Quiet(s)'
    BY <1>3, <1>4 DEF Quiet
  <1> QED
    BY <1>5, QuietAsked

\* The peer of s reads a request of s; x is the task it makes of it.
LEMMA AskedRead ==
    ASSUME TypeOK, NEW s \in Peers, Asked(s), req[s] # <<>>, req'[s] = Tail(req[s]),
           UNCHANGED <<resp, kpc, want>>, NEW x \in Requests,
           Asks(x) <=> Asks(req[s][1]), x.id = req[s][1].id,
           Nothing(Other(s)),
           \/ Nothing(Other(s))' /\ ~Asks(x)
           \/ Queued(Other(s), x)'
    PROVE  Asked(s)'
  <1>1. req[s] \in Seq(Requests) /\ Other(s) \in Peers
    BY OtherPeer DEF TypeOK
  <1>2. /\ Len(req[s]) \in Nat \ {0} /\ DOMAIN req[s] = 1 .. Len(req[s])
        /\ DOMAIN Tail(req[s]) = 1 .. Len(req[s]) - 1 /\ Len(Tail(req[s])) = Len(req[s]) - 1
        /\ \A i \in 1 .. Len(req[s]) - 1 : Tail(req[s])[i] = req[s][i + 1]
    BY <1>1, Popped
  <1>3. 1 \in DOMAIN req[s] /\ \A i \in 1 .. Len(req[s]) - 1 : i + 1 \in DOMAIN req[s]
    BY <1>2
  <1>4. \A id : Expects(s, id)' = Expects(s, id)
    BY DEF Expects
  <1>5. \A t \in Requests : InHand(Other(s), t)' => t = x
    BY <1>1, NothingInHand
  \* An asking request is the last one, so that no other is left when it is taken.
  <1>6. ASSUME NEW i \in DOMAIN req'[s], Asks(req'[s][i])
        PROVE  /\ i = Len(req'[s]) /\ resp[s] = <<>> /\ Expects(s, req'[s][i].id) /\ ~Asks(x)
    <2>1. i \in 1 .. Len(req[s]) - 1 /\ i + 1 \in DOMAIN req[s] /\ req'[s][i] = req[s][i + 1]
      BY <1>2, <1>3, <1>6
    <2>2. i + 1 = Len(req[s]) /\ resp[s] = <<>> /\ Expects(s, req[s][i + 1].id)
      BY <1>6, <2>1 DEF Asked
    <2>3. ~Asks(req[s][1])
      <3>1. 1 # Len(req[s])
        BY <1>2, <2>1, <2>2
      <3> QED
        BY <1>3, <3>1 DEF Asked
    <2> QED
      BY <1>2, <2>1, <2>2, <2>3
  <1>7. Asks(x) => resp[s] = <<>> /\ Expects(s, x.id)
    BY <1>3 DEF Asked
  <1>8. \A t \in Requests : InHand(Other(s), t)' /\ Asks(t) => resp'[s] = <<>> /\ Expects(s, t.id)'
    BY <1>4, <1>5, <1>7
  <1>9. resp'[s] # <<>> => Len(resp'[s]) = 1 /\ Expects(s, resp[s][1].id)'
    BY DEF Asked, Expects
  <1>10. ASSUME NEW i \in DOMAIN req'[s], Asks(req'[s][i])
         PROVE  /\ i = Len(req'[s]) /\ resp'[s] = <<>> /\ Expects(s, req[s][i].id)'
                /\ \A t \in Requests : InHand(Other(s), t)' => ~Asks(t)
    <2>1. Expects(s, req[s][i].id)'
      BY <1>6, <1>10 DEF Expects
    <2> QED
      BY <1>5, <1>6, <1>10, <2>1
  <1> QED
    BY <1>8, <1>9, <1>10 DEF Asked

\* The task of s, a request of o, moves.
LEMMA AskedMoves ==
    ASSUME "posted" \notin Failing, Inv, Answers, NEW s \in Peers, NEW t \in Requests,
           TaskMoves(s, t)
    PROVE  Answers'
  <1> DEFINE o == Other(s)
  <1>1. o \in Peers /\ o # s /\ Other(o) = s /\ \A u \in Peers : u = s \/ u = o
    BY OtherPeer
  <1>2. /\ Has(s, t) /\ (PutOff(s, t) \/ BeginsWait(s, t) \/ Greets(s, t) \/ Completes(s, t))
        /\ taskq'[o] = taskq[o] /\ timed'[o] = timed[o] /\ running'[o] = running[o]
        /\ UNCHANGED <<kpc, want, req>>
    BY DEF TaskMoves, kernel
  <1> HIDE DEF o
  <1>3. resp'[s] = resp[s]
    BY <1>1, <1>2 DEF PutOff, BeginsWait, Greets, Completes, Answer, Inv, TypeOK, o
  <1>4. Asked(s)'
    BY <1>1, <1>2, <1>3, AskedKeeps DEF Answers, o
  <1>5. Asked(o) /\ InHand(s, t)
    BY <1>1, <1>2 DEF Answers, Has, InHand, Queued, Delayed, Waits
  <1>6. \A id : Expects(o, id)' = Expects(o, id)
    BY <1>2 DEF Expects
  <1>7. CASE PutOff(s, t) \/ BeginsWait(s, t)
    <2>1. resp' = resp
      BY <1>7 DEF PutOff, BeginsWait
    <2>2. \A x \in Requests : InHand(s, x)' => x = t
      BY <1>7, NothingInHand DEF PutOff, BeginsWait
    <2>3. Asked(o)'
      BY <1>1, <1>2, <1>5, <1>6, <2>1, <2>2 DEF Asked
    <2> QED
      BY <1>1, <1>4, <2>3 DEF Answers
  <1>8. CASE Nothing(s)' /\ resp' = resp
    <2>1. \A x \in Requests : ~InHand(s, x)'
      BY <1>8, NothingInHand
    <2>2. Asked(o)'
      BY <1>1, <1>2, <1>5, <1>6, <1>8, <2>1 DEF Asked
    <2> QED
      BY <1>1, <1>4, <2>2 DEF Answers
  <1>9. CASE Nothing(s)' /\ Asks(t) /\ Answer(o, t.id)
    <2>1. \A x \in Requests : ~InHand(s, x)'
      BY <1>9, NothingInHand
    <2>2. resp[o] = <<>> /\ Expects(o, t.id) /\ \A i \in DOMAIN req[o] : ~Asks(req[o][i])
      BY <1>1, <1>5, <1>9 DEF Asked
    <2>3. PICK ok \in BOOLEAN : resp' = [resp EXCEPT ![o] = Append(@, [id |-> t.id, ok |-> ok])]
      BY <1>9 DEF Answer
    <2>4. PICK a \in [id : Nat, ok : BOOLEAN] : a = [id |-> t.id, ok |-> ok] /\ a.id = t.id
      <3>1. t.id \in Nat
        BY DEF Requests
      <3>2. [id |-> t.id, ok |-> ok] \in [id : Nat, ok : BOOLEAN] /\ [id |-> t.id, ok |-> ok].id = t.id
        BY <3>1
      <3> QED
        BY <3>2
    <2>5. resp'[o] = <<a>>
      BY <1>1, <2>2, <2>3, <2>4, One DEF Inv, TypeOK
    <2>6. Len(resp'[o]) = 1 /\ resp'[o][1].id = t.id
      BY <2>4, <2>5, One
    <2>7. Asked(o)'
      BY <1>1, <1>2, <1>6, <2>1, <2>2, <2>6 DEF Asked
    <2> QED
      BY <1>1, <1>4, <2>7 DEF Answers
  <1>10. CASE Greets(s, t)
    BY <1>9, <1>10 DEF Greets, Asks, o
  <1>11. CASE Completes(s, t)
    <2>1. t.type = "bus" /\ t.op \in Failing => Asks(t)
      BY DEF Asks
    <2> QED
      BY <1>8, <1>9, <1>11, <2>1 DEF Completes, o
  <1> QED
    BY <1>2, <1>7, <1>10, <1>11

\* If no posted write fails, every step keeps Answers.
LEMMA AnswersNext ==
    ASSUME "posted" \notin Failing, Inv, Answers, [Next]_vars
    PROVE  Answers'
  <1> USE OtherPeer
  <1>1. ASSUME NEW s \in Peers, ProcessTask(s) \/ ProcessTimedTask(s) \/ EndWait(s)
        PROVE  Answers'
    BY <1>1, TaskStep, AskedMoves
  <1>2. ASSUME UNCHANGED <<kpc, want, req, resp, tasks>>  PROVE Answers'
    BY <1>2, AskedKeeps DEF Answers, tasks
  <1>3. CASE TakeStamp \/ UNCHANGED vars \/ \E s \in Peers : PushStamp(s) \/ HandlerDone(s) \/ Advance(s)
    BY <1>2, <1>3 DEF TakeStamp, vars, PushStamp, HandlerDone, Advance, kernel, wire
  \* A step of s that changes nothing the other peer waits for.
  <1>4. ASSUME NEW s \in Peers, kpc'[Other(s)] = kpc[Other(s)], want'[Other(s)] = want[Other(s)],
               req'[Other(s)] = req[Other(s)], resp'[Other(s)] = resp[Other(s)],
               taskq'[s] = taskq[s], timed'[s] = timed[s], running'[s] = running[s], Asked(s)'
        PROVE  Answers'
    <2>1. Asked(Other(s))'
      BY <1>4, AskedKeeps DEF Answers
    <2> QED
      BY <1>4, <2>1 DEF Answers
  <1>5. CASE StartServer \/ Connected
    <2>1. /\ UNCHANGED <<want, req, resp, tasks>> /\ kpc["srv"] \in {"boot", "wait4"}
          /\ kpc'["cli"] = kpc["cli"]
      BY <1>5 DEF StartServer, Connected, wire, Inv, TypeOK
    <2>2. Quiet("srv")
      BY <2>1, QuietAsked DEF Answers
    <2>3. Quiet("srv")'
      BY <2>1, <2>2, SameInHand DEF Quiet, tasks
    <2> QED
      BY <1>4, <2>1, <2>3, QuietAsked DEF tasks
  <1>6. CASE GiveUp
    <2>1. /\ UNCHANGED <<want, req, resp, tasks>> /\ kpc["cli"] = "boot" /\ kpc'["srv"] = kpc["srv"]
      BY <1>6 DEF GiveUp, wire, Inv, TypeOK
    <2>2. Quiet("cli")
      BY <2>1, QuietAsked DEF Answers
    <2>3. Quiet("cli")'
      BY <2>1, <2>2, SameInHand DEF Quiet, tasks
    <2> QED
      BY <1>4, <2>1, <2>3, QuietAsked DEF tasks
  <1>7. CASE Connect
    <2>1. /\ UNCHANGED <<want, resp, tasks>> /\ kpc["cli"] = "boot" /\ kpc'["cli"] = "notify"
          /\ kpc'["srv"] = kpc["srv"] /\ Send("cli", <<Message("cli", "endpoint", "none")>>)
      BY <1>7 DEF Connect, Inv, TypeOK
    <2>2. Nothing("srv") /\ req["cli"] = <<>> /\ resp["cli"] = <<>>
      BY <2>1 DEF Inv, Handshake
    <2>3. PICK m \in Requests : m = Message("cli", "endpoint", "none")
      BY MessageType DEF Inv
    <2>4. <<>> \o <<m>> = <<m>>
      OBVIOUS
    <2>5. req'["cli"] = <<m>> /\ req'["srv"] = req["srv"]
      BY <2>1, <2>2, <2>3, <2>4 DEF Send, Inv, TypeOK
    <2>6. DOMAIN req'["cli"] = {1} /\ Len(req'["cli"]) = 1
      BY <2>5, One
    <2>7. \A t \in Requests : ~InHand("srv", t)'
      BY <2>1, <2>2, NothingInHand, SameInHand DEF tasks
    <2>8. \A id : Expects("cli", id)'
      BY <2>1 DEF Expects
    <2>9. Asked("cli")'
      BY <2>1, <2>2, <2>6, <2>7, <2>8 DEF Asked
    <2> QED
      BY <1>4, <2>1, <2>5, <2>9 DEF tasks
  <1>8. CASE HandleEndpoint
    <2>2. UNCHANGED <<kpc, want, resp, timed, running>> /\ Request("srv").type = "endpoint"
          /\ req["cli"] # <<>> /\ taskq'["cli"] = taskq["cli"] /\ Consume("srv")
      BY <1>8 DEF HandleEndpoint, Handles, Inv, TypeOK
    <2>3. req["cli"] \in Seq(Requests) /\ 1 \in DOMAIN req["cli"] /\ Request("srv") = req["cli"][1]
      <3>1. req["cli"] \in Seq(Requests)
        BY DEF Inv, TypeOK
      <3>2. 1 \in DOMAIN req["cli"]
        BY <2>2, <3>1, Popped
      <3> QED
        BY <2>2, <3>1, <3>2, ReadType DEF Inv
    <2>4. kpc["cli"] = "notify"
      BY <2>2, <2>3 DEF Inv, Handshake
    <2>5. resp["cli"] = <<>>
      BY <2>2, <2>4 DEF Inv, Handshake
    <2>6. req'["cli"] = <<>> /\ req'["srv"] = req["srv"]
      <3>1. req'["cli"] = Tail(req["cli"]) /\ req'["srv"] = req["srv"]
        BY <2>2 DEF Consume, Inv, TypeOK
      <3>2. Len(req["cli"]) = 1
        BY <2>2, <2>4 DEF Inv, Handshake
      <3>3. Tail(req["cli"]) \in Seq(Requests) /\ Len(Tail(req["cli"])) = 0
        BY <2>2, <2>3, <3>2, Popped
      <3> QED
        BY <3>1, <3>3, EmptySeq
    <2>7. \A id : Expects("cli", id)'
      BY <2>2, <2>4 DEF Expects
    <2>8. Asked("cli")'
      BY <2>2, <2>5, <2>6, <2>7 DEF Asked
    <2>9. Asked("srv")'
      BY <2>2, <2>6, AskedKeeps DEF Answers
    <2> QED
      BY <2>8, <2>9 DEF Answers
  <1>9. CASE Notified
    <2>1. /\ UNCHANGED <<want, req, tasks>> /\ kpc["cli"] = "notify" /\ resp["cli"] # <<>>
          /\ kpc'["srv"] = kpc["srv"]
          /\ resp'["cli"] = Tail(resp["cli"]) /\ resp'["srv"] = resp["srv"]
      BY <1>9 DEF Notified, Inv, TypeOK
    <2>2. req["cli"] = <<>> /\ Nothing("srv") /\ Len(resp["cli"]) = 1
      BY <2>1 DEF Inv, Handshake
    <2>3. resp'["cli"] = <<>>
      BY <2>1, <2>2, LastPopped DEF Inv, TypeOK
    <2>4. \A t \in Requests : ~InHand("srv", t)'
      BY <2>1, <2>2, NothingInHand, SameInHand DEF tasks
    <2>5. Asked("cli")'
      BY <2>1, <2>2, <2>3, <2>4 DEF Asked
    <2> QED
      BY <1>4, <2>1, <2>5 DEF tasks
  <1>10. CASE SendSync
    <2>1. /\ UNCHANGED <<kpc, want, resp, tasks>> /\ kpc["cli"] = "run"
          /\ Send("cli", <<Message("cli", "sync", "none")>>)
      BY <1>10 DEF SendSync
    <2>2. PICK m \in Requests : m = Message("cli", "sync", "none") /\ m.type = "sync"
      BY MessageType DEF Inv
    <2>3. <<m>> \in Seq(Requests) /\ \A i \in 1 .. Len(<<m>>) : ~Asks(<<m>>[i])
      BY <2>2, One DEF Asks
    <2>4. Quiet("cli")
      BY <2>1, QuietAsked DEF Answers
    <2>5. Asked("cli")'
      BY <2>1, <2>2, <2>3, <2>4, QuietSends DEF Inv, tasks
    <2>6. req'["srv"] = req["srv"]
      BY <2>1 DEF Send, Inv, TypeOK
    <2> QED
      BY <1>4, <2>1, <2>5, <2>6 DEF tasks
  <1>11. ASSUME NEW s \in Peers, EndOfSimulation(s)  PROVE Answers'
    <2>1. /\ UNCHANGED <<want, resp, tasks>> /\ kpc[s] = "run" /\ kpc'[Other(s)] = kpc[Other(s)]
      BY <1>11 DEF EndOfSimulation, Inv, TypeOK
    <2>2. Quiet(s)
      BY <2>1, QuietAsked DEF Answers
    <2>3. CASE s = "cli" /\ connected[s]
      <3>1. Send(s, Goodbye(s))
        BY <1>11, <2>3 DEF EndOfSimulation
      <3>2. Goodbye(s) \in Seq(Requests) /\ \A i \in 1 .. Len(Goodbye(s)) : ~Asks(Goodbye(s)[i])
        BY GoodbyeType DEF Inv, Asks
      <3>3. Asked(s)'
        BY <2>1, <2>2, <3>1, <3>2, QuietSends DEF Inv, tasks
      <3>4. req'[Other(s)] = req[Other(s)]
        BY <3>1 DEF Send, Inv, TypeOK
      <3> QED
        BY <1>4, <2>1, <3>3, <3>4 DEF tasks
    <2>4. CASE ~(s = "cli" /\ connected[s])
      <3>1. req' = req
        BY <1>11, <2>4 DEF EndOfSimulation
      <3>2. Quiet(s)'
        BY <2>1, <2>2, <3>1, SameInHand DEF Quiet, tasks
      <3> QED
        BY <1>4, <2>1, <3>1, <3>2, QuietAsked DEF tasks
    <2> QED
      BY <2>3, <2>4
  <1>12. ASSUME NEW s \in Peers, ReadResponse(s)  PROVE Answers'
    <2>1. /\ UNCHANGED <<want, req, tasks>> /\ kpc[s] = "access" /\ resp[s] # <<>>
          /\ kpc'[Other(s)] = kpc[Other(s)]
          /\ resp'[s] = Tail(resp[s]) /\ resp'[Other(s)] = resp[Other(s)]
      BY <1>12 DEF ReadResponse, Inv, TypeOK
    <2>2. Asked(s) /\ Len(resp[s]) = 1
      BY <2>1 DEF Answers, Asked
    <2>3. resp'[s] = <<>>
      <3>1. resp[s] \in Seq([id : Nat, ok : BOOLEAN])
        BY DEF Inv, TypeOK
      <3> QED
        BY <2>1, <2>2, <3>1, LastPopped
    <2>4. /\ \A i \in DOMAIN req[s] : ~Asks(req[s][i])
          /\ \A t \in Requests : InHand(Other(s), t) => ~Asks(t)
      BY <2>1, <2>2 DEF Asked
    <2>5. Quiet(s)'
      BY <2>1, <2>3, <2>4, SameInHand DEF Quiet, tasks
    <2> QED
      BY <1>4, <2>1, <2>5, QuietAsked DEF tasks
  <1>13. ASSUME NEW s \in Peers, NEW op \in Ops, Access(s, op)  PROVE Answers'
    <2>1. /\ UNCHANGED <<resp, tasks>> /\ kpc[s] = "run" /\ kpc'[Other(s)] = kpc[Other(s)]
          /\ kpc'[s] = (IF op = "posted" THEN "run" ELSE "access")
          /\ want'[Other(s)] = want[Other(s)] /\ want'[s] = nextId[s]
          /\ Send(s, <<Message(s, "bus", op)>>)
      BY <1>13 DEF Access, Inv, TypeOK
    <2>2. Quiet(s)
      BY <2>1, QuietAsked DEF Answers
    <2>3. PICK m \in Requests : /\ m = Message(s, "bus", op) /\ m.type = "bus" /\ m.op = op
                                /\ m.id = nextId[s]
      BY MessageType, WorkloadAssumption DEF Inv
    <2>4. <<m>> \in Seq(Requests) /\ Len(<<m>>) = 1 /\ <<m>>[1] = m
      BY <2>3, One
    <2>5. req'[Other(s)] = req[Other(s)]
      BY <2>1 DEF Send, Inv, TypeOK
    <2>6. CASE op = "posted"
      <3>1. \A i \in 1 .. Len(<<m>>) : ~Asks(<<m>>[i])
        BY <2>3, <2>4, <2>6 DEF Asks
      <3>2. Asked(s)'
        BY <2>1, <2>2, <2>3, <2>4, <3>1, QuietSends DEF Inv, tasks
      <3> QED
        BY <1>4, <2>1, <2>5, <3>2 DEF tasks
    <2>7. CASE op # "posted"
      <3>1. req[s] \in Seq(Requests) /\ req'[s] = req[s] \o <<m>>
        BY <2>1, <2>3 DEF Send, Inv, TypeOK
      <3>2. /\ Len(req[s]) \in Nat /\ DOMAIN req[s] = 1 .. Len(req[s])
            /\ DOMAIN req'[s] = 1 .. Len(req[s]) + 1 /\ Len(req'[s]) = Len(req[s]) + 1
            /\ \A i \in 1 .. Len(req[s]) : req'[s][i] = req[s][i]
            /\ req'[s][Len(req[s]) + 1] = m
        BY <2>4, <3>1, Sent
      <3>3. ASSUME NEW i \in DOMAIN req'[s], Asks(req'[s][i])
            PROVE  i = Len(req'[s]) /\ req'[s][i] = m
        BY <2>2, <3>2, <3>3 DEF Quiet
      <3>4. kpc'[s] = "access" /\ want'[s] = m.id
        BY <2>1, <2>3, <2>7
      <3>5. \A t \in Requests : InHand(Other(s), t)' => ~Asks(t)
        BY <2>1, <2>2, SameInHand DEF Quiet, tasks
      <3>6. resp'[s] = <<>>
        BY <2>1, <2>2 DEF Quiet
      <3>7. \A i \in DOMAIN req'[s] : Asks(req'[s][i]) => Expects(s, req[s][i].id)'
        BY <3>3, <3>4 DEF Expects
      <3>8. Asked(s)'
        BY <3>3, <3>5, <3>6, <3>7 DEF Asked
      <3> QED
        BY <1>4, <2>1, <2>5, <3>8 DEF tasks
    <2> QED
      BY <2>6, <2>7
  <1>14. ASSUME NEW s \in Peers, HandleBusOp(s) \/ HandleSync(s) \/ HandleShutdown(s)  PROVE Answers'
    <2> DEFINE o == Other(s)
    <2>1. o \in Peers /\ Other(o) = s /\ o # s
      OBVIOUS
    <2>2. Nothing(s) /\ req[o] # <<>>
      BY <1>14, HandlerFree DEF HandleBusOp, HandleSync, HandleShutdown
    <2>3. req[o][1] \in Requests /\ req[o][1] = Request(s)
          /\ [Request(s) EXCEPT !.ts = 0] \in Requests
      BY <2>2, ReadType DEF Inv
    <2>4. UNCHANGED <<kpc, want, resp, timed, running>> /\ taskq'[o] = taskq[o]
          /\ req' = [req EXCEPT ![o] = Tail(@)]
      <3>1. CASE HandleBusOp(s)
        BY <2>1, <3>1 DEF HandleBusOp, Consume, kernel, Inv, TypeOK
      <3>2. CASE HandleSync(s)
        BY <3>2 DEF HandleSync, Consume, kernel, tasks
      <3>3. CASE HandleShutdown(s)
        BY <2>1, <3>3 DEF HandleShutdown, Consume, Inv, TypeOK
      <3> QED
        BY <1>14, <3>1, <3>2, <3>3
    <2>5. req'[o] = Tail(req[o]) /\ req'[s] = req[s]
      BY <2>1, <2>4 DEF Inv, TypeOK
    <2>6. \E x \in Requests :
              /\ (Asks(x) <=> Asks(req[o][1])) /\ x.id = req[o][1].id
              /\ \/ Nothing(s)' /\ ~Asks(x)
                 \/ Queued(s, x)'
      <3>1. CASE HandleBusOp(s)
        <4>1. taskq'[s] = Append(taskq[s], req[o][1])
          BY <2>3, <3>1 DEF HandleBusOp, Inv, TypeOK
        <4>2. PICK x \in Requests : x = req[o][1]
          BY <2>3
        <4>3. Queued(s, x)'
          BY <2>2, <2>4, <4>1, <4>2, One DEF Queued, Nothing
        <4> QED
          BY <4>2, <4>3
      <3>2. CASE HandleSync(s)
        <4>1. Nothing(s)' /\ req[o][1].type = "sync"
          BY <2>2, <2>3, <3>2 DEF HandleSync, Handles, Nothing, tasks
        <4> QED
          BY <2>3, <4>1 DEF Asks
      <3>3. CASE HandleShutdown(s)
        <4>1. PICK x \in Requests : x = [Request(s) EXCEPT !.ts = 0]
          BY <2>3
        <4>2. x.type = "shutdown" /\ req[o][1].type = "shutdown" /\ x.id = req[o][1].id
          BY <2>3, <3>3, <4>1 DEF HandleShutdown, Handles, Requests
        <4>3. taskq'[s] = Append(taskq[s], x)
          BY <3>3, <4>1 DEF HandleShutdown, Inv, TypeOK
        <4>4. Queued(s, x)'
          BY <2>2, <2>4, <4>3, One DEF Queued, Nothing
        <4> QED
          BY <4>2, <4>4 DEF Asks
      <3> QED
        BY <1>14, <3>1, <3>2, <3>3
    <2>7. Asked(o)'
      <3>1. PICK x \in Requests :
                /\ (Asks(x) <=> Asks(req[o][1])) /\ x.id = req[o][1].id
                /\ \/ Nothing(s)' /\ ~Asks(x)
                   \/ Queued(s, x)'
        BY <2>6
      <3>2. Nothing(Other(o)) /\ ((Nothing(Other(o))' /\ ~Asks(x)) \/ Queued(Other(o), x)')
        BY <2>1, <2>2, <3>1
      <3>3. TypeOK /\ Asked(o)
        BY <2>1 DEF Inv, Answers
      <3> HIDE DEF o
      <3> QED
        BY <2>1, <2>2, <2>4, <2>5, <3>1, <3>2, <3>3, AskedRead
    <2>8. Asked(s)'
      BY <2>4, <2>5, AskedKeeps DEF Answers
    <2> QED
      BY <2>7, <2>8 DEF Answers
  <1> QED
    BY <1>1, <1>3, <1>5, <1>6, <1>7, <1>8, <1>9, <1>10, <1>11, <1>12, <1>13, <1>14
       DEF Next, KernelNext, IoNext

\* If no posted write fails in the remote target, do_access gets the response of its own
\* request, although read_data takes the next response that comes.
THEOREM ResponsesBelong == ASSUME "posted" \notin Failing PROVE Spec => []ResponseBelongs
  <1>1. Init => Answers
    <2> SUFFICES ASSUME Init, NEW s \in Peers PROVE Asked(s)
      BY DEF Answers
    <2>1. Nothing(Other(s)) /\ req[s] = <<>> /\ resp[s] = <<>>
      BY OtherPeer DEF Init, Nothing
    <2>2. \A t : ~InHand(Other(s), t)
      BY <2>1, NothingInHand, OtherPeer
    <2> QED
      BY <2>1, <2>2 DEF Asked
  <1>2. Inv /\ Answers => ResponseBelongs
    <2> SUFFICES ASSUME Inv, Answers, NEW s \in Peers, kpc[s] = "access", resp[s] # <<>>
                 PROVE  Head(resp[s]).id = want[s]
      BY DEF ResponseBelongs
    <2>1. resp[s] \in Seq([id : Nat, ok : BOOLEAN])
      BY DEF Inv, TypeOK
    <2>2. Head(resp[s]) = resp[s][1]
      BY <2>1, Popped
    <2> QED
      BY <2>2 DEF Answers, Asked, Expects
  <1> QED
    BY <1>1, <1>2, AnswersNext, Invariance, PTL DEF Spec

=============================================================================
