------------------------------ MODULE AtRouter ------------------------------
(***************************************************************************)
(* The approximately-timed router of components/scc/at_router between       *)
(* initiators and targets of this library: nb_arbiter and nb_decoder as     *)
(* nb_router.cpp connects them, the b2nb side of target_mixin in front of   *)
(* it (as in b2nb_adapter) and its nb2b side behind it (as in the           *)
(* memories).                                                               *)
(*                                                                          *)
(* A hub is one arbiter before one decoder.  A crossbar has a decoder per   *)
(* initiator before an arbiter per target.                                  *)
(*                                                                          *)
(* Time is abstracted: a wait for a time ends at some later step, a peq     *)
(* entry is due when it is inserted, and a request that is annotated with a *)
(* delay is one that is made later.  Events keep their meaning: one that    *)
(* fires while its process waits for something else is lost.                *)
(***************************************************************************)
EXTENDS Integers, Sequences, FiniteSets

CONSTANTS
    N,              \* number of initiators
    Blocking,       \* the initiators that call b_transport of a b2nb_adapter
    Targets,
    Payloads,
    Accesses,       \* the accesses made: initiator, payload, address
    Hub,            \* the arbiter and the decoder of the hub
    Hole,           \* an address no target is mapped to
    None

Initiators == 0 .. N - 1

ASSUME RouterAssumption ==
    /\ N \in Nat \ {0} /\ Blocking \subseteq Initiators
    /\ Accesses \subseteq Initiators \X Payloads \X (Targets \cup {Hole})
    /\ Hole \notin Targets
    /\ Hub \notin Targets /\ Hub \notin Initiators
    /\ None \notin Targets /\ None \notin Initiators /\ None \notin Payloads

VARIABLES
    arch,           \* "hub" or "crossbar"
    st,             \* of a payload: free, open, resp (END_RESP is due), done
    own,            \* the initiator that uses a payload
    addr,           \* the target it addresses, or Hole
    answers,        \* history: who received BEGIN_RESP or completion of it
    started,        \* nb_arbiter: arbitrate() is in its loop, with a clock period
    missed,         \* history: its event fired before that and it woke up for none since
    que,            \* nb_arbiter: requests of every initiator
    note,           \* nb_arbiter: one of the events it waits for is notified
    serving,        \* nb_arbiter: the request it forwarded and waits for
    last_selected,
    source_by_tx,
    bypassed,       \* history: grants of others while a queue is not empty
    bw_que,         \* nb_decoder: responses
    bw_note,        \* nb_decoder: the event of bw_que is notified
    bw_waits,       \* nb_decoder: what next_trigger waits for
    retrigger,      \* nb_decoder: the event is notified
    thread,         \* target_mixin: payloads a nb2b_thread works on
    m_response_in_progress

payload == <<st, own, addr, answers>>
start == <<started, missed>>
arbiter == <<start, que, note, serving, last_selected, source_by_tx, bypassed>>
decoder == <<bw_que, bw_note, bw_waits, retrigger>>
target == <<thread, m_response_in_progress>>
vars == <<arch, payload, arbiter, decoder, target>>

Arbiters == Targets \cup {Hub}
Decoders == Initiators \cup {Hub}

Init ==
    /\ arch \in {"hub", "crossbar"}
    /\ st = [p \in Payloads |-> "free"]
    /\ own = [p \in Payloads |-> None]
    /\ addr = [p \in Payloads |-> None]
    /\ answers = [p \in Payloads |-> <<>>]
    /\ started = [a \in Arbiters |-> FALSE]
    /\ missed = [a \in Arbiters |-> FALSE]
    /\ que = [a \in Arbiters |-> [i \in Initiators |-> <<>>]]
    /\ note = [a \in Arbiters |-> FALSE]
    /\ serving = [a \in Arbiters |-> None]
    /\ last_selected = [a \in Arbiters |-> N - 1]
    /\ source_by_tx = [a \in Arbiters |-> [p \in Payloads |-> None]]
    /\ bypassed = [a \in Arbiters |-> [i \in Initiators |-> 0]]
    /\ bw_que = [d \in Decoders |-> <<>>]
    /\ bw_note = [d \in Decoders |-> FALSE]
    /\ bw_waits = [d \in Decoders |-> "que"]
    /\ retrigger = [d \in Decoders |-> FALSE]
    /\ thread = [p \in Payloads |-> FALSE]
    /\ m_response_in_progress = [t \in Targets |-> FALSE]

-----------------------------------------------------------------------------
(* Initiators *)

ArbiterOf(a) == IF arch = "hub" THEN Hub ELSE a
DecoderOf(i) == IF arch = "hub" THEN Hub ELSE i

\* nb_transport_fw(BEGIN_REQ) of the router: the hub queues every request, the
\* crossbar decodes it first and completes it at once if the address is unmapped.
BeginReq(i, p, a) ==
    IF arch = "hub" \/ a # Hole
    THEN /\ que' = [que EXCEPT ![ArbiterOf(a)][i] = Append(@, p)]
         /\ note' = [note EXCEPT ![ArbiterOf(a)] = TRUE]
         /\ st' = [st EXCEPT ![p] = "open"]
         /\ UNCHANGED answers
    ELSE /\ st' = [st EXCEPT ![p] = "done"]
         /\ answers' = [answers EXCEPT ![p] = <<i>>]
         /\ UNCHANGED <<que, note>>

\* An access begins.  A blocking initiator calls b_transport of a b2nb_adapter,
\* which hands the payload to the b2nb_thread; all this thread does before its
\* nb_transport_fw is to wait, so that the request is one step here.  The others
\* call nb_transport_fw themselves.
Request(i, p, a) ==
    /\ st[p] = "free"
    /\ own' = [own EXCEPT ![p] = i]
    /\ addr' = [addr EXCEPT ![p] = a]
    /\ BeginReq(i, p, a)
    /\ UNCHANGED <<arch, start, serving, last_selected, source_by_tx, bypassed,
                   decoder, target>>

\* nb_transport_bw(BEGIN_RESP) of an initiator.  The b2nb side finds the payload
\* in m_pending_trans, notifies end_event and returns COMPLETED; the others
\* accept and send END_RESP later.
BeginResp(i, p) ==
    /\ answers' = [answers EXCEPT ![p] = Append(@, i)]
    /\ st' = [st EXCEPT ![p] = IF i \in Blocking THEN "done" ELSE "resp"]

Accepts(i) == i \notin Blocking

\* END_RESP: the arbiter of the hub forgets the source, the decoder of the
\* crossbar goes on with the next response.
EndResp(p) ==
    /\ st[p] = "resp"
    /\ st' = [st EXCEPT ![p] = "done"]
    /\ IF arch = "hub"
       THEN /\ source_by_tx' = [source_by_tx EXCEPT ![Hub][p] = None]
            /\ UNCHANGED retrigger
       ELSE /\ retrigger' = [retrigger EXCEPT ![own[p]] = TRUE]
            /\ UNCHANGED source_by_tx
    /\ UNCHANGED <<arch, own, addr, answers, start, que, note, serving,
                   last_selected, bypassed, bw_que, bw_note, bw_waits, target>>

Elements(q) == {q[n] : n \in DOMAIN q}

\* The payload is held by a tlm_gp_shared_ptr of the router.
Referenced(p) ==
    \/ \E a \in Arbiters : serving[a] = p \/ \E i \in Initiators : p \in Elements(que[a][i])
    \/ \E d \in Decoders : p \in Elements(bw_que[d])

ReturnAtEndEvent(p) ==
    /\ st[p] = "done"
    /\ st' = [st EXCEPT ![p] = "free"]
    /\ own' = [own EXCEPT ![p] = None]
    /\ addr' = [addr EXCEPT ![p] = None]
    /\ answers' = [answers EXCEPT ![p] = <<>>]
    /\ UNCHANGED <<arch, arbiter, decoder, target>>

\* b_transport after end_event: it returns when the last reference is released
\* (mm_ext.done).  A payload with a memory manager is reused no earlier either.
Return(p) ==
    /\ st[p] = "done" /\ ~Referenced(p)
    /\ st' = [st EXCEPT ![p] = "free"]
    /\ own' = [own EXCEPT ![p] = None]
    /\ addr' = [addr EXCEPT ![p] = None]
    /\ answers' = [answers EXCEPT ![p] = <<>>]
    /\ UNCHANGED <<arch, arbiter, decoder, target>>

-----------------------------------------------------------------------------
(* nb_arbiter *)

\* arbitrate() up to its first wait(evt): it waits SC_ZERO_TIME, and for a clock
\* period if it has none yet.  It does not look at the queues before wait(evt).
ArbiterStarts(a) ==
    /\ ~started[a] /\ (a = Hub <=> arch = "hub")
    /\ started' = [started EXCEPT ![a] = TRUE]
    /\ UNCHANGED <<arch, payload, missed, que, note, serving, last_selected,
                   source_by_tx, bypassed, decoder, target>>

Pending(a) == {i \in Initiators : que[a][i] # <<>>}

SelectedFixed(a) == CHOOSE i \in Pending(a) : \A j \in Pending(a) : i <= j

\* Round robin: the first initiator behind last_selected that has a request.
Selected(a) ==
    CHOOSE i \in Pending(a) :
        \A j \in Pending(a) :
            (i - last_selected[a] - 1) % N <= (j - last_selected[a] - 1) % N

NoteSourceMissing(a, p, i) == UNCHANGED source_by_tx

NoteSourceOnce(a, p, i) ==
    source_by_tx' = [source_by_tx EXCEPT ![a][p] = IF @ = None THEN i ELSE @]

\* source_by_tx[trans.get()] = last_selected, over an entry of an earlier access
NoteSource(a, p, i) == source_by_tx' = [source_by_tx EXCEPT ![a][p] = i]

\* arbitrate() from wait(evt) to the wait for the time of the request.  Taking
\* an entry out of a peq notifies its event again if there are more.
Arbitrate(a) ==
    /\ started[a] /\ note[a] /\ serving[a] = None /\ Pending(a) # {}
    /\ LET i == Selected(a)
           p == Head(que[a][i])
       IN  /\ que' = [que EXCEPT ![a][i] = Tail(@)]
           /\ note' = [note EXCEPT ![a] = Len(que[a][i]) > 1]
           /\ serving' = [serving EXCEPT ![a] = p]
           /\ last_selected' = [last_selected EXCEPT ![a] = i]
           /\ NoteSource(a, p, i)
           /\ bypassed' = [bypassed EXCEPT ![a] =
                  [j \in Initiators |-> IF j \in Pending(a) \ {i} THEN @[j] + 1 ELSE 0]]
           /\ thread' = [thread EXCEPT ![p] = addr[p] # Hole]
    /\ missed' = [missed EXCEPT ![a] = FALSE]
    /\ UNCHANGED <<arch, payload, started, decoder, m_response_in_progress>>

ArbiterResumesSilently(a) ==
    /\ serving[a] # None
    /\ serving' = [serving EXCEPT ![a] = None]
    /\ IF addr[serving[a]] = Hole
       THEN BeginResp(last_selected[a], serving[a])
       ELSE UNCHANGED <<st, answers>>
    /\ UNCHANGED <<arch, own, addr, start, que, note, last_selected, source_by_tx,
                   bypassed, decoder, target>>

\* arbitrate() behind that wait: a request the decoder of the hub completed is
\* answered; retrigger is notified if there are more requests.
ArbiterResumes(a) ==
    /\ serving[a] # None
    /\ serving' = [serving EXCEPT ![a] = None]
    /\ IF addr[serving[a]] = Hole
       THEN BeginResp(last_selected[a], serving[a])
       ELSE UNCHANGED <<st, answers>>
    /\ note' = [note EXCEPT ![a] = @ \/ Pending(a) # {}]
    /\ UNCHANGED <<arch, own, addr, start, que, last_selected, source_by_tx,
                   bypassed, decoder, target>>

\* An event of the arbiter fires while it waits for a time or for its clock.
ArbiterMissesEvent(a) ==
    /\ note[a] /\ (serving[a] # None \/ ~started[a])
    /\ note' = [note EXCEPT ![a] = FALSE]
    /\ missed' = [missed EXCEPT ![a] = @ \/ ~started[a]]
    /\ UNCHANGED <<arch, payload, started, que, serving, last_selected,
                   source_by_tx, bypassed, decoder, target>>

-----------------------------------------------------------------------------
(* nb2b_thread of a target *)

\* b_transport of the target has returned: BEGIN_RESP to the decoder of the hub,
\* or through the arbiter to the decoder the request came from.  Both return
\* END_RESP with the time the response takes.
TargetResponds(p) ==
    /\ thread[p] /\ ~m_response_in_progress[addr[p]]
    /\ thread' = [thread EXCEPT ![p] = FALSE]
    /\ m_response_in_progress' = [m_response_in_progress EXCEPT ![addr[p]] = TRUE]
    /\ LET d == IF arch = "hub" THEN Hub ELSE source_by_tx[addr[p]][p]
       IN  /\ bw_que' = [bw_que EXCEPT ![d] = Append(@, p)]
           /\ bw_note' = [bw_note EXCEPT ![d] = TRUE]
    /\ UNCHANGED <<arch, payload, arbiter, bw_waits, retrigger>>

\* nb2b_thread behind wait(t)
ResponseEnds(t) ==
    /\ m_response_in_progress[t]
    /\ m_response_in_progress' = [m_response_in_progress EXCEPT ![t] = FALSE]
    /\ UNCHANGED <<arch, payload, arbiter, decoder, thread>>

-----------------------------------------------------------------------------
(* nb_decoder *)

NextTriggerTime(i) == "time"

\* next_trigger behind a response: END_RESP was returned, or it is awaited.  The
\* arbiter of the hub turns ACCEPTED into COMPLETED.
NextTrigger(i) ==
    IF arch = "crossbar" /\ Accepts(i) THEN "retrigger" ELSE "time"

\* bw()
DecoderBw(d) ==
    /\ \/ bw_waits[d] = "que" /\ bw_note[d]
       \/ bw_waits[d] = "retrigger" /\ retrigger[d]
       \/ bw_waits[d] = "time"
    /\ bw_note' = [bw_note EXCEPT ![d] =
                       Len(bw_que[d]) > 1 \/ (@ /\ bw_waits[d] # "que")]
    /\ retrigger' = [retrigger EXCEPT ![d] = FALSE]
    /\ IF bw_que[d] = <<>>
       THEN /\ bw_waits' = [bw_waits EXCEPT ![d] = "que"]
            /\ UNCHANGED <<bw_que, source_by_tx, st, answers>>
       ELSE LET p == Head(bw_que[d])
                i == IF arch = "hub" THEN source_by_tx[Hub][p] ELSE d
            IN  /\ bw_que' = [bw_que EXCEPT ![d] = Tail(@)]
                /\ BeginResp(i, p)
                /\ bw_waits' = [bw_waits EXCEPT ![d] = NextTrigger(i)]
                /\ source_by_tx' =
                       IF arch = "hub" /\ Accepts(i)
                       THEN [source_by_tx EXCEPT ![Hub][p] = None]
                       ELSE source_by_tx
    /\ UNCHANGED <<arch, own, addr, start, que, note, serving, last_selected,
                   bypassed, target>>

\* The event of bw_que fires while bw() waits for something else.
DecoderMissesEvent(d) ==
    /\ bw_note[d] /\ bw_waits[d] # "que"
    /\ bw_note' = [bw_note EXCEPT ![d] = FALSE]
    /\ UNCHANGED <<arch, payload, arbiter, bw_que, bw_waits, retrigger,
                   target>>

Next ==
    \/ \E access \in Accesses : Request(access[1], access[2], access[3])
    \/ \E p \in Payloads : EndResp(p) \/ Return(p) \/ TargetResponds(p)
    \/ \E a \in Arbiters :
           ArbiterStarts(a) \/ Arbitrate(a) \/ ArbiterResumes(a) \/ ArbiterMissesEvent(a)
    \/ \E t \in Targets : ResponseEnds(t)
    \/ \E d \in Decoders : DecoderBw(d) \/ DecoderMissesEvent(d)

Spec == Init /\ [][Next]_vars

\* The kernel runs every process that can run and time advances; initiators
\* answer a response.  No initiator has to start an access.
Fairness ==
    /\ \A p \in Payloads : WF_vars(EndResp(p)) /\ WF_vars(Return(p)) /\ WF_vars(TargetResponds(p))
    /\ \A a \in Arbiters :
           WF_vars(ArbiterStarts(a)) /\ WF_vars(Arbitrate(a)) /\ WF_vars(ArbiterResumes(a))
    /\ \A t \in Targets : WF_vars(ResponseEnds(t))
    /\ \A d \in Decoders : WF_vars(DecoderBw(d))

FairSpec == Spec /\ Fairness

-----------------------------------------------------------------------------
TypeOK ==
    /\ arch \in {"hub", "crossbar"}
    /\ st \in [Payloads -> {"free", "open", "resp", "done"}]
    /\ own \in [Payloads -> Initiators \cup {None}]
    /\ addr \in [Payloads -> Targets \cup {Hole, None}]
    /\ answers \in [Payloads -> Seq(Initiators)]
    /\ started \in [Arbiters -> BOOLEAN]
    /\ missed \in [Arbiters -> BOOLEAN]
    /\ que \in [Arbiters -> [Initiators -> Seq(Payloads)]]
    /\ note \in [Arbiters -> BOOLEAN]
    /\ serving \in [Arbiters -> Payloads \cup {None}]
    /\ last_selected \in [Arbiters -> Initiators]
    /\ source_by_tx \in [Arbiters -> [Payloads -> Initiators \cup {None}]]
    /\ bypassed \in [Arbiters -> [Initiators -> Nat]]
    /\ bw_que \in [Decoders -> Seq(Payloads)]
    /\ bw_note \in [Decoders -> BOOLEAN]
    /\ bw_waits \in [Decoders -> {"que", "time", "retrigger"}]
    /\ retrigger \in [Decoders -> BOOLEAN]
    /\ thread \in [Payloads -> BOOLEAN]
    /\ m_response_in_progress \in [Targets -> BOOLEAN]

\* An access is answered at most once and to the initiator that made it, although
\* source_by_tx is keyed by the address of the payload, keeps the entries of most
\* completed accesses and payloads are used again by other initiators.
AnsweredOnceToOwner ==
    \A p \in Payloads :
        /\ answers[p] \in {<<>>, <<own[p]>>}
        /\ st[p] \in {"resp", "done"} => answers[p] # <<>>

\* While a payload belongs to nobody, or its access is over, no part of the router
\* or of a target will touch it any more: threads and maps hold plain pointers.
\* (The arbiter still has its reference until its own wait is over.)
UnusedAfterReturn ==
    \A p \in Payloads :
        /\ st[p] = "free" => ~Referenced(p)
        /\ st[p] \in {"free", "done"} =>
               /\ ~thread[p]
               /\ \A d \in Decoders : p \notin Elements(bw_que[d])
               /\ \A a \in Arbiters, i \in Initiators : p \notin Elements(que[a][i])

\* Arbitration is fair: while an initiator has a request in the queue of an
\* arbiter every other initiator is served at most once.
BoundedBypass ==
    \A a \in Arbiters, i \in Initiators : bypassed[a][i] < N

\* The exclusion rule of the base protocol, in the crossbar: an initiator sees no
\* second BEGIN_RESP before it has sent END_RESP for the first.
ResponseExclusion ==
    arch = "crossbar" =>
        \A p, q \in Payloads : st[p] = "resp" /\ st[q] = "resp" /\ own[p] = own[q] => p = q

\* The request is in a queue whose event fired before the arbiter waited for it,
\* and no other request has come to that arbiter since.
LeftAtStart(p) ==
    \E a \in Arbiters, i \in Initiators : missed[a] /\ p \in Elements(que[a][i])

\* No access is left behind, although the events of busy processes are lost:
\* when the initiators start no more, all of them come back, but for the requests
\* of the first delta cycle (or before there is a clock), whose event arbitrate()
\* misses: it waits for the next event without a look at the queues.  (While
\* others go on, a thread that waits for m_end_response may lose every race for it.)
Drains ==
    <>[][\A access \in Accesses : ~Request(access[1], access[2], access[3])]_vars
        => []<>(\A p \in Payloads : st[p] = "free" \/ LeftAtStart(p))
=============================================================================
