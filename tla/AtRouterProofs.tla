--------------------------- MODULE AtRouterProofs ---------------------------
(***************************************************************************)
(* Theorems about the approximately-timed router, for any number of          *)
(* initiators, targets and payloads, any set of accesses and both            *)
(* architectures.                                                            *)
(***************************************************************************)
EXTENDS AtRouter, NaturalSets, SequenceTheorems, TLAPS

-----------------------------------------------------------------------------
(* The invariants *)

\* No element occurs twice.
Once(s) == \A m, n \in DOMAIN s : s[m] = s[n] => m = n

\* The arbiter and the decoder on the way of a payload.
Home(p) == ArbiterOf(addr[p])
Lane(p) == DecoderOf(own[p])

\* The answers that the access in progress has got.
Life(p) ==
    /\ st[p] \in {"free", "open"} => answers[p] = <<>>
    /\ st[p] \in {"resp", "done"} => answers[p] = <<own[p]>>
    /\ st[p] # "free" => own[p] \in Initiators /\ addr[p] \in Targets \cup {Hole}

\* A queued request is that of the initiator in whose queue it is.  What the arbiter
\* forwarded is still in use, and not answered yet if the arbiter is to answer it.
AtArbiter(p) ==
    /\ \A a \in Arbiters, i \in Initiators : p \in Elements(que[a][i]) =>
           /\ st[p] = "open" /\ own[p] = i /\ Home(p) = a /\ ~thread[p] /\ serving[a] # p
           /\ arch = "hub" \/ addr[p] # Hole
    /\ \A a \in Arbiters : serving[a] = p =>
           /\ st[p] # "free" /\ Home(p) = a
           /\ addr[p] = Hole => arch = "hub" /\ st[p] = "open" /\ last_selected[a] = own[p]

\* The thread of a target works on an open request, whose source is known.
AtTarget(p) ==
    thread[p] => st[p] = "open" /\ addr[p] \in Targets /\ source_by_tx[Home(p)][p] = own[p]

\* A queued response is that of an open request, in the decoder on its way.
AtDecoder(p) ==
    \A d \in Decoders : p \in Elements(bw_que[d]) =>
        /\ st[p] = "open" /\ Lane(p) = d /\ ~thread[p] /\ addr[p] \in Targets
        /\ arch = "hub" => source_by_tx[Hub][p] = own[p]
        /\ \A a \in Arbiters, i \in Initiators : p \notin Elements(que[a][i])

Tracked(p) == Life(p) /\ AtArbiter(p) /\ AtTarget(p) /\ AtDecoder(p)

QueuedOnce ==
    /\ \A a \in Arbiters, i \in Initiators : Once(que[a][i])
    /\ \A d \in Decoders : Once(bw_que[d])

Inv == TypeOK /\ QueuedOnce /\ \A p \in Payloads : Tracked(p)

\* A decoder whose initiator has not sent END_RESP yet waits for it.
Exclusive ==
    arch = "crossbar" => \A p \in Payloads : st[p] = "resp" =>
        /\ bw_waits[own[p]] = "retrigger" /\ ~retrigger[own[p]]
        /\ \A q \in Payloads : st[q] = "resp" /\ own[p] = own[q] => p = q

\* An initiator that is passed over comes nearer to its turn.
Distance(a, i) == (i - last_selected[a] - 1) % N

Rotates ==
    \A a \in Arbiters, i \in Initiators : bypassed[a][i] + Distance(a, i) < N

-----------------------------------------------------------------------------
(* Queues as sets *)

\* An empty queue holds nothing.
LEMMA EmptyElements == Elements(<<>>) = {} /\ Once(<<>>)
  BY DEF Elements, Once

\* What a queue holds after a push.
LEMMA AppendElements ==
    ASSUME NEW S, NEW s \in Seq(S), NEW e \in S
    PROVE  /\ Append(s, e) \in Seq(S)
           /\ Elements(Append(s, e)) = Elements(s) \cup {e}
           /\ Once(s) /\ e \notin Elements(s) => Once(Append(s, e))
  <1>1. /\ Append(s, e) \in Seq(S) /\ Len(s) \in Nat /\ Len(Append(s, e)) = Len(s) + 1
        /\ \A i \in 1 .. Len(s) : Append(s, e)[i] = s[i]
        /\ Append(s, e)[Len(s) + 1] = e
    BY AppendProperties, LenProperties
  <1>2. DOMAIN s = 1 .. Len(s) /\ DOMAIN Append(s, e) = 1 .. Len(s) + 1
    BY <1>1, LenProperties
  <1>3. Elements(Append(s, e)) = Elements(s) \cup {e}
    <2>1. ASSUME NEW x \in Elements(Append(s, e))  PROVE x \in Elements(s) \cup {e}
      BY <1>1, <1>2 DEF Elements
    <2>2. ASSUME NEW x \in Elements(s)  PROVE x \in Elements(Append(s, e))
      <3>1. PICK n \in 1 .. Len(s) : x = s[n]
        BY <1>2 DEF Elements
      <3>2. n \in 1 .. Len(s) + 1 /\ x = Append(s, e)[n]
        BY <1>1, <3>1
      <3> QED
        BY <1>2, <3>2 DEF Elements
    <2>3. e \in Elements(Append(s, e))
      <3>1. Len(s) + 1 \in 1 .. Len(s) + 1
        BY <1>1
      <3> QED
        BY <1>1, <1>2, <3>1 DEF Elements
    <2> QED
      BY <2>1, <2>2, <2>3
  <1>4. ASSUME Once(s), e \notin Elements(s)  PROVE Once(Append(s, e))
    BY <1>1, <1>2, <1>4 DEF Once, Elements
  <1> QED
    BY <1>1, <1>3, <1>4

\* What a queue without duplicates holds after a pop.
LEMMA TailElements ==
    ASSUME NEW S, NEW s \in Seq(S), s # <<>>, Once(s)
    PROVE  /\ Tail(s) \in Seq(S) /\ Head(s) \in S /\ Head(s) \in Elements(s)
           /\ Elements(Tail(s)) = Elements(s) \ {Head(s)}
           /\ Once(Tail(s))
  <1>1. /\ Tail(s) \in Seq(S) /\ Head(s) \in S /\ Head(s) = s[1]
        /\ Len(s) \in Nat /\ Len(s) >= 1 /\ Len(Tail(s)) = Len(s) - 1
        /\ \A i \in 1 .. Len(s) - 1 : Tail(s)[i] = s[i + 1]
    BY HeadTailProperties, LenProperties, EmptySeq
  <1>2. DOMAIN s = 1 .. Len(s) /\ DOMAIN Tail(s) = 1 .. Len(s) - 1
    BY <1>1, LenProperties
  <1>3. Elements(Tail(s)) = Elements(s) \ {Head(s)}
    <2>1. ASSUME NEW x \in Elements(Tail(s))  PROVE x \in Elements(s) \ {Head(s)}
      <3>1. PICK n \in 1 .. Len(s) - 1 : x = Tail(s)[n]
        BY <1>2 DEF Elements
      <3>2. x = s[n + 1] /\ n + 1 \in 1 .. Len(s) /\ n + 1 # 1 /\ 1 \in 1 .. Len(s)
        BY <1>1, <3>1
      <3> QED
        BY <1>1, <1>2, <3>2 DEF Elements, Once
    <2>2. ASSUME NEW x \in Elements(s), x # Head(s)  PROVE x \in Elements(Tail(s))
      <3>1. PICK n \in 1 .. Len(s) : x = s[n]
        BY <1>2 DEF Elements
      <3>2. n - 1 \in 1 .. Len(s) - 1 /\ x = Tail(s)[n - 1]
        BY <1>1, <2>2, <3>1
      <3> QED
        BY <1>2, <3>2 DEF Elements
    <2> QED
      BY <2>1, <2>2
  <1>4. Head(s) \in Elements(s)
    BY <1>1, <1>2 DEF Elements
  <1>5. Once(Tail(s))
    <2> SUFFICES ASSUME NEW m \in 1 .. Len(s) - 1, NEW n \in 1 .. Len(s) - 1, Tail(s)[m] = Tail(s)[n]
                 PROVE  m = n
      BY <1>2 DEF Once
    <2>1. s[m + 1] = s[n + 1] /\ m + 1 \in 1 .. Len(s) /\ n + 1 \in 1 .. Len(s)
      BY <1>1
    <2>2. m + 1 = n + 1
      BY <1>2, <2>1 DEF Once
    <2> QED
      BY <2>2
  <1> QED
    BY <1>1, <1>3, <1>4, <1>5

-----------------------------------------------------------------------------
\* Inv holds before the first access.
LEMMA InvInit == Init => Inv
  <1> SUFFICES ASSUME Init  PROVE Inv
    OBVIOUS
  <1>1. TypeOK
    <2>1. N - 1 \in Initiators
      BY RouterAssumption DEF Initiators
    <2>2. que \in [Arbiters -> [Initiators -> Seq(Payloads)]] /\ bw_que \in [Decoders -> Seq(Payloads)]
      BY DEF Init
    <2>3. answers \in [Payloads -> Seq(Initiators)]
      BY DEF Init
    <2>4. source_by_tx \in [Arbiters -> [Payloads -> Initiators \cup {None}]]
      BY DEF Init
    <2>5. bypassed \in [Arbiters -> [Initiators -> Nat]]
      BY DEF Init
    <2> QED
      BY <2>1, <2>2, <2>3, <2>4, <2>5 DEF Init, TypeOK
  <1>2. QueuedOnce
    BY EmptyElements DEF Init, QueuedOnce
  <1>3. ASSUME NEW p \in Payloads  PROVE Tracked(p)
    BY <1>3, EmptyElements, RouterAssumption
    DEF Init, Tracked, Life, AtArbiter, AtTarget, AtDecoder
  <1> QED
    BY <1>1, <1>2, <1>3 DEF Inv

\* A step that leaves a payload where it is.
LEMMA Untouched ==
    ASSUME NEW p \in Payloads, Tracked(p), arch' = arch,
           st'[p] = st[p], own'[p] = own[p], addr'[p] = addr[p], answers'[p] = answers[p],
           thread'[p] = thread[p],
           \A a \in Arbiters : source_by_tx'[a][p] = source_by_tx[a][p],
           \A a \in Arbiters, i \in Initiators :
               p \in Elements(que'[a][i]) <=> p \in Elements(que[a][i]),
           \A d \in Decoders : p \in Elements(bw_que'[d]) <=> p \in Elements(bw_que[d]),
           \A a \in Arbiters :
               serving'[a] = p => serving[a] = p /\ last_selected'[a] = last_selected[a]
    PROVE  Tracked(p)'
  <1>1. Home(p)' = Home(p) /\ Lane(p)' = Lane(p)
    BY DEF Home, Lane, ArbiterOf, DecoderOf
  <1>2. Life(p)'
    BY DEF Tracked, Life
  <1>3. AtArbiter(p)'
    BY <1>1 DEF Tracked, AtArbiter
  <1>4. AtTarget(p)'
    <2>1. thread[p] => Home(p) \in Arbiters
      BY DEF Tracked, AtTarget, Home, ArbiterOf, Arbiters
    <2> QED
      BY <1>1, <2>1 DEF Tracked, AtTarget
  <1>5. AtDecoder(p)'
    <2>1. Hub \in Arbiters
      BY DEF Arbiters
    <2> QED
      BY <1>1, <2>1 DEF Tracked, AtDecoder
  <1> QED
    BY <1>2, <1>3, <1>4, <1>5 DEF Tracked

\* A payload that is in use nowhere.
Unused(p) ==
    /\ ~thread[p]
    /\ \A a \in Arbiters, i \in Initiators : p \notin Elements(que[a][i])
    /\ \A d \in Decoders : p \notin Elements(bw_que[d])

\* A payload that is not on its way is in no queue and no thread.
LEMMA NotOpenUnused ==
    ASSUME NEW p \in Payloads, Tracked(p), st[p] # "open"
    PROVE  Unused(p)
  BY DEF Tracked, AtArbiter, AtTarget, AtDecoder, Unused

\* A new request, of an initiator or of b2nb_thread, keeps Inv.
LEMMA InvRequest ==
    ASSUME Inv, NEW access \in Accesses, Request(access[1], access[2], access[3])
    PROVE  Inv'
  <1> USE DEF Inv
  <1> DEFINE i == access[1]
             p == access[2]
             a == access[3]
  <1>1. /\ i \in Initiators /\ p \in Payloads /\ a \in Targets \cup {Hole} /\ i # None
        /\ Hole \notin Targets
    BY RouterAssumption
  <1>2. /\ st[p] = "free" /\ own' = [own EXCEPT ![p] = i] /\ addr' = [addr EXCEPT ![p] = a]
        /\ BeginReq(i, p, a)
        /\ UNCHANGED <<arch, started, missed, serving, last_selected, source_by_tx, bypassed>>
        /\ UNCHANGED <<decoder, target>>
    BY DEF Request, start
  <1> HIDE DEF i, p, a
  <1>3. own'[p] = i /\ addr'[p] = a /\ \A x \in Payloads \ {p} : own'[x] = own[x] /\ addr'[x] = addr[x]
    BY <1>1, <1>2 DEF TypeOK
  <1>4. Unused(p) /\ answers[p] = <<>> /\ \A b \in Arbiters : serving[b] # p
    BY <1>1, <1>2, NotOpenUnused DEF Tracked, Life, AtArbiter
  <1>5. own' \in [Payloads -> Initiators \cup {None}] /\ addr' \in [Payloads -> Targets \cup {Hole, None}]
    BY <1>1, <1>2 DEF TypeOK
  <1>6. UNCHANGED <<bw_que, thread, m_response_in_progress, bw_note, bw_waits, retrigger>>
    BY <1>2 DEF decoder, target
  <1>7. CASE arch = "hub" \/ a # Hole
    <2> DEFINE h == ArbiterOf(a)
    <2>1. /\ que' = [que EXCEPT ![h][i] = Append(que[h][i], p)]
          /\ note' = [note EXCEPT ![h] = TRUE]
          /\ st' = [st EXCEPT ![p] = "open"] /\ answers' = answers
      BY <1>2, <1>7 DEF BeginReq
    <2>2. h \in Arbiters
      BY <1>1, <1>7 DEF ArbiterOf, Arbiters
    <2> HIDE DEF h
    <2>3. que[h][i] \in Seq(Payloads) /\ Once(que[h][i])
      BY <1>1, <2>2 DEF TypeOK, QueuedOnce
    <2>4. /\ Append(que[h][i], p) \in Seq(Payloads)
          /\ Elements(Append(que[h][i], p)) = Elements(que[h][i]) \cup {p}
          /\ Once(Append(que[h][i], p))
      BY <1>1, <1>4, <2>2, <2>3, AppendElements DEF Unused
    <2>5. /\ que'[h][i] = Append(que[h][i], p)
          /\ \A b \in Arbiters, j \in Initiators : b # h \/ j # i => que'[b][j] = que[b][j]
          /\ que' \in [Arbiters -> [Initiators -> Seq(Payloads)]]
      BY <1>1, <2>1, <2>2, <2>4 DEF TypeOK
    <2>6. TypeOK'
      <3>1. st' \in [Payloads -> {"free", "open", "resp", "done"}]
        BY <2>1 DEF TypeOK
      <3>2. note' \in [Arbiters -> BOOLEAN]
        BY <2>1 DEF TypeOK
      <3> QED
        BY <1>2, <1>5, <1>6, <2>1, <2>5, <3>1, <3>2 DEF TypeOK
    <2>7. QueuedOnce'
      BY <1>6, <2>4, <2>5 DEF QueuedOnce
    <2>8. st'[p] = "open" /\ \A x \in Payloads \ {p} : st'[x] = st[x]
      BY <1>1, <2>1 DEF TypeOK
    <2>9. ASSUME NEW x \in Payloads, x # p  PROVE Tracked(x)'
      <3>1. ASSUME NEW b \in Arbiters, NEW j \in Initiators
            PROVE  x \in Elements(que'[b][j]) <=> x \in Elements(que[b][j])
        <4>1. CASE b = h /\ j = i
          BY <2>4, <2>5, <2>9, <4>1
        <4>2. CASE b # h \/ j # i
          BY <2>5, <4>2
        <4> QED
          BY <4>1, <4>2
      <3> QED
        BY <1>2, <1>3, <1>6, <2>1, <2>8, <2>9, <3>1, Untouched
    <2>10. Tracked(p)'
      <3>1. Life(p)'
        BY <1>1, <1>3, <1>4, <2>1, <2>8 DEF Life
      <3>2. Home(p)' = h
        BY <1>2, <1>3 DEF Home, ArbiterOf, h
      <3>3. ASSUME NEW b \in Arbiters, NEW j \in Initiators, p \in Elements(que'[b][j])
            PROVE  b = h /\ j = i
        BY <1>4, <2>5, <3>3 DEF Unused
      <3>4. AtArbiter(p)'
        <4>1. arch' = "hub" \/ addr'[p] # Hole
          BY <1>2, <1>3, <1>7
        <4>2. ~thread'[p] /\ \A b \in Arbiters : serving'[b] # p
          BY <1>2, <1>4, <1>6 DEF Unused
        <4> QED
          BY <1>3, <2>8, <3>2, <3>3, <4>1, <4>2 DEF AtArbiter
      <3>5. AtTarget(p)' /\ AtDecoder(p)'
        BY <1>4, <1>6 DEF AtTarget, AtDecoder, Unused
      <3> QED
        BY <3>1, <3>4, <3>5 DEF Tracked
    <2> QED
      BY <2>6, <2>7, <2>9, <2>10
  <1>8. CASE ~(arch = "hub" \/ a # Hole)
    <2>1. /\ que' = que /\ note' = note
          /\ st' = [st EXCEPT ![p] = "done"] /\ answers' = [answers EXCEPT ![p] = <<i>>]
      BY <1>2, <1>8 DEF BeginReq
    <2>2. <<i>> \in Seq(Initiators)
      BY <1>1
    <2>3. TypeOK'
      <3>1. st' \in [Payloads -> {"free", "open", "resp", "done"}]
        BY <2>1 DEF TypeOK
      <3>2. answers' \in [Payloads -> Seq(Initiators)]
        BY <2>1, <2>2 DEF TypeOK
      <3> QED
        BY <1>2, <1>5, <1>6, <2>1, <3>1, <3>2 DEF TypeOK
    <2>4. QueuedOnce'
      BY <1>6, <2>1 DEF QueuedOnce
    <2>5. /\ st'[p] = "done" /\ answers'[p] = <<i>>
          /\ \A x \in Payloads \ {p} : st'[x] = st[x] /\ answers'[x] = answers[x]
      BY <1>1, <2>1 DEF TypeOK
    <2>6. ASSUME NEW x \in Payloads, x # p  PROVE Tracked(x)'
      BY <1>2, <1>3, <1>6, <2>1, <2>5, <2>6, Untouched
    <2>7. Tracked(p)'
      <3>1. Life(p)'
        BY <1>1, <1>3, <2>5 DEF Life
      <3>2. AtArbiter(p)' /\ AtTarget(p)' /\ AtDecoder(p)'
        BY <1>2, <1>4, <1>6, <2>1 DEF AtArbiter, AtTarget, AtDecoder, Unused
      <3> QED
        BY <3>1, <3>2 DEF Tracked
    <2> QED
      BY <2>3, <2>4, <2>6, <2>7
  <1> QED
    BY <1>7, <1>8

\* The steps that move no payload.
LEMMA InvAlone ==
    ASSUME Inv, (\E a \in Arbiters : ArbiterStarts(a) \/ ArbiterMissesEvent(a))
                \/ (\E t \in Targets : ResponseEnds(t))
                \/ (\E d \in Decoders : DecoderMissesEvent(d))
    PROVE  Inv'
  <1> USE DEF Inv
  <1>1. /\ UNCHANGED <<arch, payload, que, serving, last_selected, source_by_tx, bypassed>>
        /\ UNCHANGED <<bw_que, bw_waits, retrigger, thread>>
    BY DEF ArbiterStarts, ArbiterMissesEvent, ResponseEnds, DecoderMissesEvent, arbiter, decoder,
       target
  <1>2. note' \in [Arbiters -> BOOLEAN] /\ bw_note' \in [Decoders -> BOOLEAN]
    BY DEF ArbiterStarts, ArbiterMissesEvent, ResponseEnds, DecoderMissesEvent, arbiter, decoder,
       TypeOK
  <1>3. m_response_in_progress' \in [Targets -> BOOLEAN]
    BY DEF ArbiterStarts, ArbiterMissesEvent, ResponseEnds, DecoderMissesEvent, target, TypeOK
  <1>4. TypeOK'
    <2>1. started' \in [Arbiters -> BOOLEAN] /\ missed' \in [Arbiters -> BOOLEAN]
      BY DEF ArbiterStarts, ArbiterMissesEvent, ResponseEnds, DecoderMissesEvent, arbiter, start,
         TypeOK
    <2> QED
      BY <1>1, <1>2, <1>3, <2>1 DEF TypeOK, payload
  <1>5. QueuedOnce'
    BY <1>1 DEF QueuedOnce
  <1>6. ASSUME NEW p \in Payloads  PROVE Tracked(p)'
    BY <1>1, <1>6, Untouched DEF payload
  <1> QED
    BY <1>4, <1>5, <1>6

\* The answer of an initiator to a response keeps Inv.
LEMMA InvEndResp ==
    ASSUME Inv, NEW p \in Payloads, EndResp(p)
    PROVE  Inv'
  <1> USE DEF Inv
  <1>1. /\ st[p] = "resp" /\ st' = [st EXCEPT ![p] = "done"]
        /\ UNCHANGED <<arch, own, addr, answers, que, note, serving, last_selected, bypassed>>
        /\ UNCHANGED <<started, missed, bw_que, bw_note, bw_waits, thread, m_response_in_progress>>
    BY DEF EndResp, target, start
  <1>2. /\ source_by_tx' \in [Arbiters -> [Payloads -> Initiators \cup {None}]]
        /\ \A a \in Arbiters, x \in Payloads \ {p} : source_by_tx'[a][x] = source_by_tx[a][x]
    <2>1. CASE arch = "hub"
      <3>1. source_by_tx' = [source_by_tx EXCEPT ![Hub][p] = None] /\ Hub \in Arbiters
        BY <2>1 DEF EndResp, Arbiters
      <3> QED
        BY <3>1 DEF TypeOK
    <2>2. CASE arch # "hub"
      BY <2>2 DEF EndResp, TypeOK
    <2> QED
      BY <2>1, <2>2
  <1>3. retrigger' \in [Decoders -> BOOLEAN]
    BY DEF EndResp, TypeOK
  <1>4. TypeOK'
    <2>1. st' \in [Payloads -> {"free", "open", "resp", "done"}]
      BY <1>1 DEF TypeOK
    <2> QED
      BY <1>1, <1>2, <1>3, <2>1 DEF TypeOK
  <1>5. QueuedOnce'
    BY <1>1 DEF QueuedOnce
  <1>6. st'[p] = "done" /\ \A x \in Payloads \ {p} : st'[x] = st[x]
    BY <1>1 DEF TypeOK
  <1>7. ASSUME NEW x \in Payloads, x # p  PROVE Tracked(x)'
    BY <1>1, <1>2, <1>6, <1>7, Untouched
  <1>8. Tracked(p)'
    <2>1. Unused(p)
      BY <1>1, NotOpenUnused
    <2>2. Life(p)'
      BY <1>1, <1>6 DEF Tracked, Life
    <2>3. Home(p)' = Home(p)
      BY <1>1 DEF Home, ArbiterOf
    <2>4. AtArbiter(p)'
      BY <1>1, <1>6, <2>1, <2>3 DEF Tracked, AtArbiter, Unused
    <2>5. AtTarget(p)' /\ AtDecoder(p)'
      BY <1>1, <2>1 DEF AtTarget, AtDecoder, Unused
    <2> QED
      BY <2>2, <2>4, <2>5 DEF Tracked
  <1> QED
    BY <1>4, <1>5, <1>7, <1>8

\* The end of b_transport keeps Inv.
LEMMA InvReturn ==
    ASSUME Inv, NEW p \in Payloads, Return(p)
    PROVE  Inv'
  <1> USE DEF Inv
  <1>1. /\ st[p] = "done" /\ ~Referenced(p) /\ st' = [st EXCEPT ![p] = "free"]
        /\ own' = [own EXCEPT ![p] = None] /\ addr' = [addr EXCEPT ![p] = None]
        /\ answers' = [answers EXCEPT ![p] = <<>>]
        /\ UNCHANGED <<arch, arbiter, decoder, target>>
    BY DEF Return
  <1>2. TypeOK'
    <2>1. st' \in [Payloads -> {"free", "open", "resp", "done"}]
      BY <1>1 DEF TypeOK
    <2>2. own' \in [Payloads -> Initiators \cup {None}]
      BY <1>1 DEF TypeOK
    <2>3. addr' \in [Payloads -> Targets \cup {Hole, None}]
      BY <1>1 DEF TypeOK
    <2>4. answers' \in [Payloads -> Seq(Initiators)]
      BY <1>1 DEF TypeOK
    <2> QED
      BY <1>1, <2>1, <2>2, <2>3, <2>4 DEF TypeOK, arbiter, start, decoder, target
  <1>3. QueuedOnce'
    BY <1>1 DEF QueuedOnce, arbiter, decoder
  <1>4. /\ st'[p] = "free" /\ answers'[p] = <<>>
        /\ \A x \in Payloads \ {p} : /\ st'[x] = st[x] /\ own'[x] = own[x] /\ addr'[x] = addr[x]
                                     /\ answers'[x] = answers[x]
    BY <1>1 DEF TypeOK
  <1>5. ASSUME NEW x \in Payloads, x # p  PROVE Tracked(x)'
    BY <1>1, <1>4, <1>5, Untouched DEF arbiter, decoder, target
  <1>6. Tracked(p)'
    <2>1. Unused(p) /\ \A a \in Arbiters : serving[a] # p
      BY <1>1, NotOpenUnused DEF Referenced
    <2>2. UNCHANGED <<que, bw_que, serving, thread>>
      BY <1>1 DEF arbiter, decoder, target
    <2>3. AtArbiter(p)' /\ AtTarget(p)' /\ AtDecoder(p)'
      BY <2>1, <2>2 DEF AtArbiter, AtTarget, AtDecoder, Unused
    <2> QED
      BY <1>4, <2>3 DEF Tracked, Life
  <1> QED
    BY <1>2, <1>3, <1>5, <1>6

-----------------------------------------------------------------------------
(* Arbitration *)

\* The initiator that is selected has a request and is the next in turn.
LEMMA SelectedFirst ==
    ASSUME TypeOK, NEW a \in Arbiters, Pending(a) # {}
    PROVE  /\ Selected(a) \in Pending(a) /\ Selected(a) \in Initiators
           /\ \A j \in Pending(a) : Distance(a, Selected(a)) <= Distance(a, j)
  <1> DEFINE D == {Distance(a, i) : i \in Pending(a)}
  <1>1. \A i \in Initiators : Distance(a, i) \in Nat
    <2> SUFFICES ASSUME NEW i \in Initiators  PROVE Distance(a, i) \in Nat
      OBVIOUS
    <2>1. i - last_selected[a] - 1 \in Int
      BY DEF TypeOK, Initiators
    <2> QED
      BY <2>1, Remainder, RouterAssumption DEF Distance
  <1>2. D \in SUBSET Nat /\ D # {}
    BY <1>1 DEF Pending
  <1>3. PICK x \in D : \A y \in D : x <= y
    <2> HIDE DEF D
    <2> QED
      BY <1>2, LeastElement
  <1>4. \E i \in Pending(a) : \A j \in Pending(a) : Distance(a, i) <= Distance(a, j)
    BY <1>3
  <1> QED
    BY <1>4 DEF Selected, Distance, Pending

\* The arbiter takes a request out of the queue of an initiator.
Grant(a, i, p) ==
    /\ i \in Initiators /\ p \in Elements(que[a][i])
    /\ serving[a] = None /\ serving' = [serving EXCEPT ![a] = p]
    /\ last_selected' = [last_selected EXCEPT ![a] = i]
    /\ source_by_tx' = [source_by_tx EXCEPT ![a][p] = i]
    /\ thread' = [thread EXCEPT ![p] = addr[p] # Hole]
    /\ que' \in [Arbiters -> [Initiators -> Seq(Payloads)]]
    /\ Elements(que'[a][i]) = Elements(que[a][i]) \ {p} /\ Once(que'[a][i])
    /\ \A b \in Arbiters, j \in Initiators : b # a \/ j # i => que'[b][j] = que[b][j]

\* arbitrate() takes the head of the queue that it selected.
LEMMA Granted ==
    ASSUME Inv, NEW a \in Arbiters, Arbitrate(a)
    PROVE  \E i \in Initiators, p \in Payloads : i = Selected(a) /\ Grant(a, i, p)
  <1> USE DEF Inv
  <1> DEFINE i == Selected(a)
             p == Head(que[a][i])
  <1>1. /\ serving[a] = None /\ Pending(a) # {}
        /\ que' = [que EXCEPT ![a][i] = Tail(que[a][i])]
        /\ serving' = [serving EXCEPT ![a] = p]
        /\ last_selected' = [last_selected EXCEPT ![a] = i]
        /\ source_by_tx' = [source_by_tx EXCEPT ![a][p] = i]
        /\ thread' = [thread EXCEPT ![p] = addr[p] # Hole]
    BY DEF Arbitrate, NoteSource
  <1>2. i \in Pending(a) /\ i \in Initiators
    BY <1>1, SelectedFirst
  <1> HIDE DEF i
  <1>3. que[a][i] \in Seq(Payloads) /\ que[a][i] # <<>> /\ Once(que[a][i])
    BY <1>2 DEF TypeOK, Pending, QueuedOnce
  <1>4. /\ Tail(que[a][i]) \in Seq(Payloads) /\ p \in Payloads /\ p \in Elements(que[a][i])
        /\ Elements(Tail(que[a][i])) = Elements(que[a][i]) \ {p} /\ Once(Tail(que[a][i]))
    BY <1>3, TailElements
  <1> HIDE DEF p
  <1>5. /\ que' \in [Arbiters -> [Initiators -> Seq(Payloads)]]
        /\ que'[a][i] = Tail(que[a][i])
        /\ \A b \in Arbiters, j \in Initiators : b # a \/ j # i => que'[b][j] = que[b][j]
    BY <1>1, <1>2, <1>4 DEF TypeOK
  <1> QED
    BY <1>1, <1>2, <1>4, <1>5 DEF i, Grant

\* The first half of arbitrate() keeps Inv.
LEMMA InvArbitrate ==
    ASSUME Inv, NEW a \in Arbiters, Arbitrate(a)
    PROVE  Inv'
  <1> USE DEF Inv
  <1>0. PICK i \in Initiators, p \in Payloads : Grant(a, i, p)
    BY Granted
  <1>1. /\ i \in Initiators /\ p \in Elements(que[a][i])
        /\ serving[a] = None /\ serving' = [serving EXCEPT ![a] = p]
        /\ last_selected' = [last_selected EXCEPT ![a] = i]
        /\ source_by_tx' = [source_by_tx EXCEPT ![a][p] = i]
        /\ thread' = [thread EXCEPT ![p] = addr[p] # Hole]
        /\ que' \in [Arbiters -> [Initiators -> Seq(Payloads)]]
        /\ Elements(que'[a][i]) = Elements(que[a][i]) \ {p} /\ Once(que'[a][i])
        /\ \A b \in Arbiters, j \in Initiators : b # a \/ j # i => que'[b][j] = que[b][j]
    BY <1>0 DEF Grant
  <1>2. UNCHANGED <<arch, payload, started, decoder, m_response_in_progress>>
    BY DEF Arbitrate
  <1>3. /\ st[p] = "open" /\ own[p] = i /\ Home(p) = a /\ ~thread[p]
        /\ \A d \in Decoders : p \notin Elements(bw_que[d])
        /\ \A b \in Arbiters, j \in Initiators : p \in Elements(que[b][j]) => b = a /\ j = i
        /\ addr[p] \in Targets \cup {Hole} /\ (arch = "hub" \/ addr[p] # Hole)
    BY <1>1 DEF Tracked, AtArbiter, AtDecoder, Life
  <1>4. TypeOK'
    <2>1. serving' \in [Arbiters -> Payloads \cup {None}]
      BY <1>1 DEF TypeOK
    <2>2. last_selected' \in [Arbiters -> Initiators]
      BY <1>1 DEF TypeOK
    <2>3. source_by_tx' \in [Arbiters -> [Payloads -> Initiators \cup {None}]]
      BY <1>1 DEF TypeOK
    <2>4. thread' \in [Payloads -> BOOLEAN]
      BY <1>1 DEF TypeOK
    <2>5. note' \in [Arbiters -> BOOLEAN] /\ missed' \in [Arbiters -> BOOLEAN]
      BY DEF Arbitrate, TypeOK
    <2>6. bypassed' \in [Arbiters -> [Initiators -> Nat]]
      <3>1. bypassed' = [bypassed EXCEPT ![a] =
                [j \in Initiators |-> IF j \in Pending(a) \ {Selected(a)} THEN bypassed[a][j] + 1 ELSE 0]]
        BY DEF Arbitrate
      <3>2. [j \in Initiators |-> IF j \in Pending(a) \ {Selected(a)} THEN bypassed[a][j] + 1 ELSE 0]
                \in [Initiators -> Nat]
        BY DEF TypeOK
      <3> QED
        BY <3>1, <3>2 DEF TypeOK
    <2> QED
      BY <1>1, <1>2, <2>1, <2>2, <2>3, <2>4, <2>5, <2>6 DEF TypeOK, payload, decoder
  <1>5. QueuedOnce'
    BY <1>1, <1>2 DEF QueuedOnce, decoder
  <1>6. ASSUME NEW x \in Payloads, x # p  PROVE Tracked(x)'
    <2>1. ASSUME NEW b \in Arbiters, NEW j \in Initiators
          PROVE  x \in Elements(que'[b][j]) <=> x \in Elements(que[b][j])
      <3>1. CASE b = a /\ j = i
        BY <1>1, <1>6, <3>1
      <3>2. CASE b # a \/ j # i
        BY <1>1, <3>2
      <3> QED
        BY <3>1, <3>2
    <2>2. thread'[x] = thread[x] /\ \A b \in Arbiters : source_by_tx'[b][x] = source_by_tx[b][x]
      BY <1>1, <1>6 DEF TypeOK
    <2>3. \A b \in Arbiters : serving'[b] = x => serving[b] = x /\ last_selected'[b] = last_selected[b]
      BY <1>1, <1>6 DEF TypeOK
    <2> QED
      BY <1>2, <1>6, <2>1, <2>2, <2>3, Untouched DEF payload, decoder
  <1>7. Tracked(p)'
    <2>1. Life(p)' /\ Home(p)' = a /\ own'[p] = i /\ st'[p] = "open" /\ addr'[p] = addr[p]
      BY <1>2, <1>3 DEF Tracked, Life, Home, ArbiterOf, payload
    <2>2. \A b \in Arbiters, j \in Initiators : p \notin Elements(que'[b][j])
      BY <1>1, <1>3
    <2>3. \A b \in Arbiters : serving'[b] = p => b = a
      <3>1. \A b \in Arbiters : serving[b] # p
        BY <1>1, <1>3 DEF Tracked, AtArbiter
      <3> QED
        BY <1>1, <3>1 DEF TypeOK
    <2>4. last_selected'[a] = i /\ source_by_tx'[a][p] = i /\ thread'[p] = (addr[p] # Hole)
      BY <1>1 DEF TypeOK
    <2>5. AtArbiter(p)'
      BY <1>2, <1>3, <2>1, <2>2, <2>3, <2>4 DEF AtArbiter
    <2>6. AtTarget(p)'
      BY <1>3, <2>1, <2>4 DEF AtTarget
    <2>7. AtDecoder(p)'
      BY <1>2, <1>3 DEF AtDecoder, decoder
    <2> QED
      BY <2>1, <2>5, <2>6, <2>7 DEF Tracked
  <1> QED
    BY <1>4, <1>5, <1>6, <1>7

\* The initiator gets the response to its open request.
LEMMA Answered ==
    ASSUME Inv, NEW p \in Payloads, st[p] = "open", BeginResp(own[p], p)
    PROVE  /\ st' \in [Payloads -> {"free", "open", "resp", "done"}]
           /\ answers' \in [Payloads -> Seq(Initiators)]
           /\ st'[p] = (IF own[p] \in Blocking THEN "done" ELSE "resp")
           /\ answers'[p] = <<own[p]>>
           /\ \A x \in Payloads \ {p} : st'[x] = st[x] /\ answers'[x] = answers[x]
  <1> USE DEF Inv
  <1>1. own[p] \in Initiators /\ answers[p] = <<>>
    BY DEF Tracked, Life
  <1>2. Append(answers[p], own[p]) = <<own[p]>> /\ <<own[p]>> \in Seq(Initiators)
    BY <1>1
  <1>3. /\ answers' = [answers EXCEPT ![p] = <<own[p]>>]
        /\ st' = [st EXCEPT ![p] = IF own[p] \in Blocking THEN "done" ELSE "resp"]
    BY <1>2 DEF BeginResp
  <1> QED
    BY <1>2, <1>3 DEF TypeOK

\* The second half of arbitrate() keeps Inv.
LEMMA InvArbiterResumes ==
    ASSUME Inv, NEW a \in Arbiters, ArbiterResumes(a)
    PROVE  Inv'
  <1> USE DEF Inv
  <1>1. PICK p \in Payloads : p = serving[a]
    BY DEF ArbiterResumes, TypeOK
  <1>2. /\ serving' = [serving EXCEPT ![a] = None]
        /\ IF addr[p] = Hole THEN BeginResp(last_selected[a], p) ELSE UNCHANGED <<st, answers>>
        /\ note' \in [Arbiters -> BOOLEAN]
        /\ UNCHANGED <<arch, own, addr, que, last_selected, source_by_tx, bypassed, decoder, target>>
        /\ UNCHANGED <<started, missed>>
    BY <1>1 DEF ArbiterResumes, start, TypeOK
  <1>3. st[p] # "free" /\ Home(p) = a /\ (addr[p] = Hole => st[p] = "open" /\ last_selected[a] = own[p])
    BY <1>1 DEF Tracked, AtArbiter
  <1>4. /\ st' \in [Payloads -> {"free", "open", "resp", "done"}]
        /\ answers' \in [Payloads -> Seq(Initiators)]
        /\ \A x \in Payloads \ {p} : st'[x] = st[x] /\ answers'[x] = answers[x]
    BY <1>2, <1>3, Answered DEF TypeOK
  <1>5. TypeOK'
    <2>1. serving' \in [Arbiters -> Payloads \cup {None}]
      BY <1>2 DEF TypeOK
    <2> QED
      BY <1>2, <1>4, <2>1 DEF TypeOK, decoder, target
  <1>6. QueuedOnce'
    BY <1>2 DEF QueuedOnce, decoder
  <1>7. \A b \in Arbiters : serving'[b] = IF b = a THEN None ELSE serving[b]
    BY <1>2 DEF TypeOK
  <1>8. None \notin Payloads
    BY RouterAssumption
  <1>9. ASSUME NEW x \in Payloads, x # p \/ addr[p] # Hole  PROVE Tracked(x)'
    <2>1. st'[x] = st[x] /\ answers'[x] = answers[x]
      BY <1>2, <1>4, <1>9
    <2> QED
      BY <1>2, <1>7, <1>8, <2>1, Untouched DEF decoder, target
  <1>10. ASSUME addr[p] = Hole  PROVE Tracked(p)'
    <2>1. /\ st'[p] \in {"resp", "done"} /\ answers'[p] = <<own[p]>>
      BY <1>2, <1>3, <1>10, Answered
    <2>2. Unused(p)
      <3>1. ~thread[p] /\ \A d \in Decoders : p \notin Elements(bw_que[d])
        BY <1>10, RouterAssumption DEF Tracked, AtTarget, AtDecoder
      <3>2. \A b \in Arbiters, i \in Initiators : p \notin Elements(que[b][i])
        BY <1>1, <1>3 DEF Tracked, AtArbiter
      <3> QED
        BY <3>1, <3>2 DEF Unused
    <2>3. \A b \in Arbiters : serving'[b] # p
      BY <1>3, <1>7, <1>8 DEF Tracked, AtArbiter
    <2>4. Life(p)'
      BY <1>2, <1>3, <2>1 DEF Tracked, Life
    <2>5. AtArbiter(p)' /\ AtTarget(p)' /\ AtDecoder(p)'
      BY <1>2, <2>2, <2>3 DEF AtArbiter, AtTarget, AtDecoder, Unused, decoder, target
    <2> QED
      BY <2>4, <2>5 DEF Tracked
  <1> QED
    BY <1>5, <1>6, <1>9, <1>10

-----------------------------------------------------------------------------
(* Responses *)

\* The response of a target keeps Inv.
LEMMA InvTargetResponds ==
    ASSUME Inv, NEW p \in Payloads, TargetResponds(p)
    PROVE  Inv'
  <1> USE DEF Inv
  <1>1. /\ thread[p] /\ thread' = [thread EXCEPT ![p] = FALSE]
        /\ m_response_in_progress' \in [Targets -> BOOLEAN]
        /\ UNCHANGED <<arch, payload, arbiter, bw_waits, retrigger>>
    BY DEF TargetResponds, TypeOK
  <1>2. /\ st[p] = "open" /\ addr[p] \in Targets /\ source_by_tx[Home(p)][p] = own[p]
        /\ own[p] \in Initiators
        /\ \A a \in Arbiters, i \in Initiators : p \notin Elements(que[a][i])
        /\ \A d \in Decoders : p \notin Elements(bw_que[d])
    BY <1>1 DEF Tracked, AtTarget, AtArbiter, AtDecoder, Life
  <1>3. PICK d \in Decoders : d = Lane(p)
    BY <1>2 DEF Lane, DecoderOf, Decoders
  <1>4. /\ bw_que' = [bw_que EXCEPT ![d] = Append(bw_que[d], p)]
        /\ bw_note' = [bw_note EXCEPT ![d] = TRUE]
    BY <1>1, <1>2, <1>3 DEF TargetResponds, Lane, DecoderOf, Home, ArbiterOf, TypeOK
  <1>5. bw_que[d] \in Seq(Payloads) /\ Once(bw_que[d])
    BY DEF TypeOK, QueuedOnce
  <1>6. /\ Append(bw_que[d], p) \in Seq(Payloads) /\ Once(Append(bw_que[d], p))
        /\ Elements(Append(bw_que[d], p)) = Elements(bw_que[d]) \cup {p}
    BY <1>2, <1>5, AppendElements
  <1>7. /\ bw_que' \in [Decoders -> Seq(Payloads)] /\ bw_que'[d] = Append(bw_que[d], p)
        /\ \A e \in Decoders \ {d} : bw_que'[e] = bw_que[e]
    BY <1>4, <1>6 DEF TypeOK
  <1>8. TypeOK'
    <2>1. thread' \in [Payloads -> BOOLEAN]
      BY <1>1 DEF TypeOK
    <2>2. bw_note' \in [Decoders -> BOOLEAN]
      BY <1>4 DEF TypeOK
    <2> QED
      BY <1>1, <1>7, <2>1, <2>2 DEF TypeOK, payload, arbiter, start
  <1>9. QueuedOnce'
    BY <1>1, <1>6, <1>7 DEF QueuedOnce, arbiter
  <1>10. ~thread'[p] /\ \A x \in Payloads \ {p} : thread'[x] = thread[x]
    BY <1>1 DEF TypeOK
  <1>11. ASSUME NEW x \in Payloads, x # p  PROVE Tracked(x)'
    <2>1. \A e \in Decoders : x \in Elements(bw_que'[e]) <=> x \in Elements(bw_que[e])
      BY <1>6, <1>7, <1>11
    <2> QED
      BY <1>1, <1>10, <1>11, <2>1, Untouched DEF payload, arbiter
  <1>12. Tracked(p)'
    <2>1. /\ Life(p)' /\ Home(p)' = Home(p) /\ Lane(p)' = d
          /\ st'[p] = "open" /\ addr'[p] \in Targets
          /\ UNCHANGED <<arch, own, que, serving, last_selected, source_by_tx, addr>>
      BY <1>1, <1>2, <1>3 DEF Tracked, Life, Home, Lane, ArbiterOf, DecoderOf, payload, arbiter
    <2>2. AtArbiter(p)'
      BY <1>1, <1>2, <2>1, RouterAssumption DEF Tracked, AtArbiter, payload
    <2>3. AtTarget(p)'
      BY <1>10 DEF AtTarget
    <2>4. \A e \in Decoders : p \in Elements(bw_que'[e]) => e = d
      BY <1>2, <1>7
    <2>5. arch = "hub" => source_by_tx[Hub][p] = own[p]
      BY <1>2 DEF Home, ArbiterOf
    <2>6. AtDecoder(p)'
      BY <1>2, <1>10, <2>1, <2>4, <2>5 DEF AtDecoder
    <2> QED
      BY <2>1, <2>2, <2>3, <2>6 DEF Tracked
  <1> QED
    BY <1>8, <1>9, <1>11, <1>12

\* The decoder hands a response on.
Hand(d, p) ==
    /\ p \in Elements(bw_que[d]) /\ own[p] \in Initiators
    /\ BeginResp(own[p], p)
    /\ bw_que' \in [Decoders -> Seq(Payloads)]
    /\ Elements(bw_que'[d]) = Elements(bw_que[d]) \ {p} /\ Once(bw_que'[d])
    /\ \A e \in Decoders \ {d} : bw_que'[e] = bw_que[e]
    /\ bw_waits' = [bw_waits EXCEPT ![d] = NextTrigger(own[p])]
    /\ \/ source_by_tx' = source_by_tx
       \/ source_by_tx' = [source_by_tx EXCEPT ![Hub][p] = None]

\* bw() hands the head of its queue to the initiator.
LEMMA Handed ==
    ASSUME Inv, NEW d \in Decoders, DecoderBw(d), bw_que[d] # <<>>
    PROVE  \E p \in Payloads : Hand(d, p)
  <1> USE DEF Inv
  <1>1. bw_que[d] \in Seq(Payloads) /\ Once(bw_que[d])
    BY DEF TypeOK, QueuedOnce
  <1>2. PICK p \in Payloads : p = Head(bw_que[d])
    BY <1>1, TailElements
  <1>3. /\ Tail(bw_que[d]) \in Seq(Payloads) /\ p \in Elements(bw_que[d])
        /\ Elements(Tail(bw_que[d])) = Elements(bw_que[d]) \ {p} /\ Once(Tail(bw_que[d]))
    BY <1>1, <1>2, TailElements
  <1>4. st[p] = "open" /\ Lane(p) = d /\ (arch = "hub" => source_by_tx[Hub][p] = own[p])
    BY <1>3 DEF Tracked, AtDecoder
  <1>5. own[p] \in Initiators
    BY <1>4 DEF Tracked, Life
  <1>6. own[p] = IF arch = "hub" THEN source_by_tx[Hub][p] ELSE d
    BY <1>4 DEF Lane, DecoderOf
  <1>7. /\ bw_que' = [bw_que EXCEPT ![d] = Tail(bw_que[d])]
        /\ BeginResp(own[p], p) /\ bw_waits' = [bw_waits EXCEPT ![d] = NextTrigger(own[p])]
        /\ source_by_tx' = IF arch = "hub" /\ Accepts(own[p])
                           THEN [source_by_tx EXCEPT ![Hub][p] = None] ELSE source_by_tx
    BY <1>2, <1>6 DEF DecoderBw
  <1>8. /\ bw_que' \in [Decoders -> Seq(Payloads)] /\ bw_que'[d] = Tail(bw_que[d])
        /\ \A e \in Decoders \ {d} : bw_que'[e] = bw_que[e]
    BY <1>3, <1>7 DEF TypeOK
  <1> QED
    BY <1>3, <1>5, <1>7, <1>8 DEF Hand

\* bw() of the decoder keeps Inv.
LEMMA InvDecoderBw ==
    ASSUME Inv, NEW d \in Decoders, DecoderBw(d)
    PROVE  Inv'
  <1> USE DEF Inv
  <1>1. /\ UNCHANGED <<arch, own, addr, que, note, serving, last_selected, bypassed, target>>
        /\ UNCHANGED <<started, missed>> /\ retrigger' \in [Decoders -> BOOLEAN]
    BY DEF DecoderBw, start, TypeOK
  <1>2. bw_note' \in [Decoders -> BOOLEAN]
    BY DEF DecoderBw, TypeOK
  <1>3. CASE bw_que[d] = <<>>
    <2>1. UNCHANGED <<bw_que, source_by_tx, st, answers>> /\ bw_waits' = [bw_waits EXCEPT ![d] = "que"]
      BY <1>3 DEF DecoderBw
    <2>2. bw_waits' \in [Decoders -> {"que", "time", "retrigger"}]
      BY <2>1 DEF TypeOK
    <2>3. TypeOK' /\ QueuedOnce'
      BY <1>1, <1>2, <2>1, <2>2 DEF TypeOK, QueuedOnce, target
    <2>4. ASSUME NEW x \in Payloads  PROVE Tracked(x)'
      BY <1>1, <2>1, <2>4, Untouched DEF target
    <2> QED
      BY <2>3, <2>4
  <1>4. CASE bw_que[d] # <<>>
    <2>1. PICK p \in Payloads : Hand(d, p)
      BY <1>4, Handed
    <2>2. st[p] = "open" /\ Lane(p) = d /\ Unused(p)' /\ addr[p] \in Targets
      <3>1. /\ st[p] = "open" /\ Lane(p) = d /\ ~thread[p] /\ addr[p] \in Targets
            /\ \A a \in Arbiters, i \in Initiators : p \notin Elements(que[a][i])
            /\ \A e \in Decoders : p \in Elements(bw_que[e]) => e = d
        BY <2>1 DEF Hand, Tracked, AtDecoder
      <3> QED
        BY <1>1, <2>1, <3>1 DEF Hand, Unused, target
    <2>3. /\ st' \in [Payloads -> {"free", "open", "resp", "done"}]
          /\ answers' \in [Payloads -> Seq(Initiators)]
          /\ st'[p] \in {"resp", "done"} /\ answers'[p] = <<own[p]>>
          /\ \A x \in Payloads \ {p} : st'[x] = st[x] /\ answers'[x] = answers[x]
      BY <2>1, <2>2, Answered DEF Hand
    <2>4. /\ source_by_tx' \in [Arbiters -> [Payloads -> Initiators \cup {None}]]
          /\ \A a \in Arbiters, x \in Payloads \ {p} : source_by_tx'[a][x] = source_by_tx[a][x]
      <3>1. Hub \in Arbiters
        BY DEF Arbiters
      <3>2. CASE source_by_tx' = source_by_tx
        BY <3>2 DEF TypeOK
      <3>3. CASE source_by_tx' = [source_by_tx EXCEPT ![Hub][p] = None]
        BY <3>1, <3>3 DEF TypeOK
      <3> QED
        BY <2>1, <3>2, <3>3 DEF Hand
    <2>5. bw_waits' \in [Decoders -> {"que", "time", "retrigger"}]
      BY <2>1 DEF Hand, NextTrigger, TypeOK
    <2>6. TypeOK'
      BY <1>1, <1>2, <2>1, <2>3, <2>4, <2>5 DEF Hand, TypeOK, target
    <2>7. QueuedOnce'
      BY <1>1, <2>1 DEF Hand, QueuedOnce
    <2>8. ASSUME NEW x \in Payloads, x # p  PROVE Tracked(x)'
      <3>1. \A e \in Decoders : x \in Elements(bw_que'[e]) <=> x \in Elements(bw_que[e])
        BY <2>1, <2>8 DEF Hand
      <3> QED
        BY <1>1, <2>3, <2>4, <2>8, <3>1, Untouched DEF target
    <2>9. Tracked(p)'
      <3>1. Life(p)'
        BY <1>1, <2>2, <2>3 DEF Tracked, Life
      <3>2. \A a \in Arbiters : serving'[a] = p => Home(p)' = a /\ addr'[p] # Hole
        BY <1>1, <2>2, RouterAssumption DEF Tracked, AtArbiter, Home, ArbiterOf
      <3>3. AtArbiter(p)'
        BY <2>2, <2>3, <3>2 DEF AtArbiter, Unused
      <3>4. AtTarget(p)' /\ AtDecoder(p)'
        BY <2>2 DEF AtTarget, AtDecoder, Unused
      <3> QED
        BY <3>1, <3>3, <3>4 DEF Tracked
    <2> QED
      BY <2>6, <2>7, <2>8, <2>9
  <1> QED
    BY <1>3, <1>4

-----------------------------------------------------------------------------
(* The theorems *)

\* Every step keeps Inv.
LEMMA InvNext == Inv /\ [Next]_vars => Inv'
  <1> SUFFICES ASSUME Inv, [Next]_vars  PROVE Inv'
    OBVIOUS
  <1>1. CASE Next
    BY <1>1, InvRequest, InvEndResp, InvReturn, InvTargetResponds, InvArbitrate, InvArbiterResumes,
       InvAlone, InvDecoderBw DEF Next
  <1>2. CASE UNCHANGED vars
    <2>1. /\ UNCHANGED <<arch, st, own, addr, answers, que, note, serving, last_selected>>
          /\ UNCHANGED <<source_by_tx, bypassed, bw_que, bw_note, bw_waits, retrigger, thread>>
          /\ UNCHANGED <<started, missed, m_response_in_progress>>
      BY <1>2 DEF vars, payload, arbiter, start, decoder, target
    <2>2. TypeOK' /\ QueuedOnce'
      BY <2>1 DEF Inv, TypeOK, QueuedOnce
    <2>3. ASSUME NEW p \in Payloads  PROVE Tracked(p)'
      BY <2>1, <2>3, Untouched DEF Inv
    <2> QED
      BY <2>2, <2>3 DEF Inv
  <1> QED
    BY <1>1, <1>2

\* Inv holds in every reachable state.
LEMMA InvInvariant == Spec => []Inv
  BY InvInit, InvNext, PTL DEF Spec

\* The variables of the router, of the initiators and of the targets keep their types.
THEOREM TypeCorrect == Spec => []TypeOK
  <1>1. Inv => TypeOK
    BY DEF Inv
  <1> QED
    BY <1>1, InvInvariant, PTL

\* An access is answered at most once, and to the initiator that made it, although the
\* arbiter's map of sources is keyed by payloads that are used again by others.
THEOREM AnsweredToOwner == Spec => []AnsweredOnceToOwner
  <1>1. Inv => AnsweredOnceToOwner
    <2> SUFFICES ASSUME Inv, NEW p \in Payloads
                 PROVE  /\ answers[p] \in {<<>>, <<own[p]>>}
                        /\ st[p] \in {"resp", "done"} => answers[p] # <<>>
      BY DEF AnsweredOnceToOwner
    <2>1. st[p] \in {"free", "open", "resp", "done"} /\ <<own[p]>> # <<>>
      BY DEF Inv, TypeOK
    <2>2. Life(p)
      BY DEF Inv, Tracked
    <2> QED
      BY <2>1, <2>2 DEF Life
  <1> QED
    BY <1>1, InvInvariant, PTL

\* No part of the router or of a target touches a payload whose access is over.
THEOREM NoUseAfterReturn == Spec => []UnusedAfterReturn
  <1>1. Inv => UnusedAfterReturn
    <2> SUFFICES ASSUME Inv, NEW p \in Payloads
                 PROVE  /\ st[p] = "free" => ~Referenced(p)
                        /\ st[p] \in {"free", "done"} =>
                               /\ ~thread[p]
                               /\ \A d \in Decoders : p \notin Elements(bw_que[d])
                               /\ \A a \in Arbiters, i \in Initiators : p \notin Elements(que[a][i])
      BY DEF UnusedAfterReturn
    <2>1. st[p] # "open" => Unused(p)
      BY NotOpenUnused DEF Inv
    <2>2. st[p] = "free" => \A a \in Arbiters : serving[a] # p
      BY DEF Inv, Tracked, AtArbiter
    <2> QED
      BY <2>1, <2>2 DEF Unused, Referenced
  <1> QED
    BY <1>1, InvInvariant, PTL

-----------------------------------------------------------------------------
(* The exclusion rule *)

\* Every step keeps Exclusive.
LEMMA ExclusiveNext ==
    ASSUME Inv, Exclusive, [Next]_vars
    PROVE  Exclusive'
  <1> USE DEF Inv
  <1>1. arch' = arch
    BY DEF Next, Request, EndResp, Return, TargetResponds, ArbiterStarts, Arbitrate, ArbiterResumes,
       ArbiterMissesEvent, ResponseEnds, DecoderBw, DecoderMissesEvent, vars
  <1> SUFFICES ASSUME arch = "crossbar"  PROVE Exclusive'
    BY <1>1 DEF Exclusive
  \* A step that brings no payload into the response phase and no decoder out of its wait.
  <1>2. ASSUME \A p \in Payloads : st'[p] = "resp" => st[p] = "resp" /\ own'[p] = own[p],
               bw_waits' = bw_waits, retrigger' = retrigger
        PROVE  Exclusive'
    BY <1>1, <1>2 DEF Exclusive
  <1>3. ASSUME NEW access \in Accesses, Request(access[1], access[2], access[3])
        PROVE  Exclusive'
    <2>1. access[2] \in Payloads /\ UNCHANGED <<bw_waits, retrigger>>
      BY <1>3, RouterAssumption DEF Request, decoder
    <2>2. \A p \in Payloads : st'[p] = "resp" => st[p] = "resp" /\ own'[p] = own[p]
      BY <1>3, <2>1 DEF Request, BeginReq, TypeOK
    <2> QED
      BY <1>2, <2>1, <2>2
  <1>4. ASSUME NEW p \in Payloads, EndResp(p)  PROVE Exclusive'
    <2>1. /\ st[p] = "resp" /\ st'[p] = "done" /\ \A x \in Payloads \ {p} : st'[x] = st[x]
          /\ retrigger' = [retrigger EXCEPT ![own[p]] = TRUE]
          /\ own' = own /\ bw_waits' = bw_waits
      BY <1>4 DEF EndResp, TypeOK
    <2>2. ASSUME NEW x \in Payloads, st'[x] = "resp"
          PROVE  st[x] = "resp" /\ own[x] # own[p] /\ retrigger'[own[x]] = retrigger[own[x]]
      <3>1. st[x] = "resp" /\ x # p
        BY <2>1, <2>2
      <3>2. own[x] # own[p]
        BY <2>1, <3>1 DEF Exclusive
      <3> QED
        BY <2>1, <3>1, <3>2 DEF TypeOK
    <2> QED
      BY <1>1, <2>1, <2>2 DEF Exclusive
  <1>5. ASSUME NEW p \in Payloads, Return(p)  PROVE Exclusive'
    <2>1. UNCHANGED <<bw_waits, retrigger>>
      BY <1>5 DEF Return, decoder
    <2>2. \A x \in Payloads : st'[x] = "resp" => st[x] = "resp" /\ own'[x] = own[x]
      BY <1>5 DEF Return, TypeOK
    <2> QED
      BY <1>2, <2>1, <2>2
  <1>6. ASSUME NEW a \in Arbiters, ArbiterResumes(a)  PROVE Exclusive'
    <2>1. addr[serving[a]] # Hole
      BY <1>6 DEF ArbiterResumes, TypeOK, Tracked, AtArbiter
    <2>2. UNCHANGED <<st, own, bw_waits, retrigger>>
      BY <1>6, <2>1 DEF ArbiterResumes, decoder
    <2> QED
      BY <1>2, <2>2
  <1>7. ASSUME NEW d \in Decoders, DecoderBw(d)  PROVE Exclusive'
    <2>1. own' = own /\ retrigger' = [retrigger EXCEPT ![d] = FALSE]
      BY <1>7 DEF DecoderBw
    \* the decoder does not wait for END_RESP
    <2>2. \A x \in Payloads : st[x] = "resp" => own[x] # d
      BY <1>7 DEF DecoderBw, Exclusive
    <2>3. CASE bw_que[d] = <<>>
      <3>1. st' = st /\ bw_waits' = [bw_waits EXCEPT ![d] = "que"]
        BY <1>7, <2>3 DEF DecoderBw
      <3> QED
        BY <1>1, <2>1, <2>2, <3>1 DEF Exclusive, TypeOK, Decoders, Tracked, Life
    <2>4. CASE bw_que[d] # <<>>
      <3>1. PICK p \in Payloads : Hand(d, p)
        BY <1>7, <2>4, Handed
      <3>2. st[p] = "open" /\ own[p] = d
        BY <3>1 DEF Hand, Tracked, AtDecoder, Lane, DecoderOf
      <3>3. /\ st'[p] = (IF own[p] \in Blocking THEN "done" ELSE "resp")
            /\ \A x \in Payloads \ {p} : st'[x] = st[x]
        BY <3>1, <3>2, Answered DEF Hand
      <3>4. bw_waits' = [bw_waits EXCEPT ![d] = IF d \notin Blocking THEN "retrigger" ELSE "time"]
        BY <3>1, <3>2 DEF Hand, NextTrigger, Accepts
      <3>5. bw_waits'[d] = (IF d \notin Blocking THEN "retrigger" ELSE "time") /\ retrigger'[d] = FALSE
        BY <2>1, <3>4 DEF TypeOK
      <3>6. \A x \in Payloads : st[x] = "resp" =>
                bw_waits'[own[x]] = bw_waits[own[x]] /\ retrigger'[own[x]] = retrigger[own[x]]
        BY <2>1, <2>2, <3>4 DEF TypeOK, Decoders, Tracked, Life
      <3>7. ASSUME NEW x \in Payloads, st'[x] = "resp"
            PROVE  \/ x = p /\ own[p] \notin Blocking
                   \/ st[x] = "resp" /\ own[x] # d
        BY <2>2, <3>3, <3>7
      <3>8. ASSUME NEW x \in Payloads, st'[x] = "resp"
            PROVE  bw_waits'[own[x]] = "retrigger" /\ ~retrigger'[own[x]]
        <4>1. CASE x = p /\ own[p] \notin Blocking
          BY <3>2, <3>5, <4>1
        <4>2. CASE st[x] = "resp" /\ own[x] # d
          BY <3>6, <4>2 DEF Exclusive
        <4> QED
          BY <3>7, <3>8, <4>1, <4>2
      <3>9. ASSUME NEW x \in Payloads, st'[x] = "resp", NEW y \in Payloads, st'[y] = "resp",
                   own[x] = own[y]
            PROVE  x = y
        <4>1. CASE x = p \/ y = p
          BY <3>2, <3>7, <3>9, <4>1
        <4>2. CASE x # p /\ y # p
          BY <3>3, <3>9, <4>2 DEF Exclusive
        <4> QED
          BY <4>1, <4>2
      <3> QED
        BY <2>1, <3>8, <3>9 DEF Exclusive
    <2> QED
      BY <2>3, <2>4
  <1>8. ASSUME UNCHANGED <<st, own, bw_waits, retrigger>>  PROVE Exclusive'
    BY <1>2, <1>8
  <1>9. ASSUME (\E p \in Payloads : TargetResponds(p))
               \/ (\E a \in Arbiters : ArbiterStarts(a) \/ Arbitrate(a) \/ ArbiterMissesEvent(a))
               \/ (\E t \in Targets : ResponseEnds(t))
               \/ (\E d \in Decoders : DecoderMissesEvent(d))
               \/ UNCHANGED vars
        PROVE  UNCHANGED <<st, own, bw_waits, retrigger>>
    BY <1>9 DEF TargetResponds, ArbiterStarts, Arbitrate, ArbiterMissesEvent, ResponseEnds,
       DecoderMissesEvent, payload, decoder, vars
  <1> QED
    BY <1>3, <1>4, <1>5, <1>6, <1>7, <1>8, <1>9 DEF Next

\* In the crossbar an initiator sees no second BEGIN_RESP before its END_RESP.
THEOREM ResponsesExclude == Spec => []ResponseExclusion
  <1>1. Init => Exclusive
    BY DEF Init, Exclusive
  <1>2. Exclusive => ResponseExclusion
    BY DEF Exclusive, ResponseExclusion
  <1> QED
    BY <1>1, <1>2, ExclusiveNext, InvInvariant, PTL DEF Spec

-----------------------------------------------------------------------------
(* Round robin *)

\* After a grant every initiator that was passed over is nearer to its turn by more than
\* the distance of the one that was served.
LEMMA Nearer ==
    ASSUME NEW last \in Initiators, NEW i \in Initiators, NEW j \in Initiators, i # j,
           (i - last - 1) % N <= (j - last - 1) % N
    PROVE  (j - i - 1) % N < (j - last - 1) % N
  <1>1. N \in Nat \ {0} /\ last \in 0 .. N - 1 /\ i \in 0 .. N - 1 /\ j \in 0 .. N - 1
    BY RouterAssumption DEF Initiators
  <1>2. ASSUME NEW x \in 0 .. N - 1, NEW y \in 0 .. N - 1
        PROVE  (y - x - 1) % N = IF y > x THEN y - x - 1 ELSE y - x - 1 + N
    <2>1. y - x - 1 \in Int
      BY <1>1
    <2>2. CASE y > x
      <3>1. y - x - 1 \in 0 .. N - 1
        BY <1>1, <2>2
      <3> QED
        BY <1>1, <2>1, <2>2, <3>1, Remainder
    <2>3. CASE ~(y > x)
      <3>1. y - x - 1 \in -N .. -1
        BY <1>1, <2>3
      <3> QED
        BY <1>1, <2>1, <2>3, <3>1, Remainder
    <2> QED
      BY <2>2, <2>3
  <1>3. (i - last - 1) % N = IF i > last THEN i - last - 1 ELSE i - last - 1 + N
    BY <1>1, <1>2
  <1>4. (j - last - 1) % N = IF j > last THEN j - last - 1 ELSE j - last - 1 + N
    BY <1>1, <1>2
  <1>5. (j - i - 1) % N = IF j > i THEN j - i - 1 ELSE j - i - 1 + N
    BY <1>1, <1>2
  <1> QED
    BY <1>1, <1>3, <1>4, <1>5

\* An initiator is fewer than N turns away from its next grant.
LEMMA DistanceRange ==
    ASSUME TypeOK, NEW a \in Arbiters, NEW i \in Initiators
    PROVE  Distance(a, i) \in 0 .. N - 1
  <1>1. i - last_selected[a] - 1 \in Int
    BY RouterAssumption DEF TypeOK, Initiators
  <1>2. N \in Nat \ {0}
    BY RouterAssumption
  <1> QED
    BY <1>1, <1>2, Remainder DEF Distance

\* Every step keeps Rotates: a grant to another initiator brings the waiting one nearer.
LEMMA RotatesNext ==
    ASSUME Inv, Rotates, [Next]_vars
    PROVE  Rotates'
  <1> USE DEF Inv
  <1>1. ASSUME UNCHANGED <<last_selected, bypassed>>  PROVE Rotates'
    BY <1>1 DEF Rotates, Distance
  <1>2. ASSUME NEW a \in Arbiters, Arbitrate(a)  PROVE Rotates'
    <2>1. PICK i \in Initiators : /\ i = Selected(a) /\ last_selected' = [last_selected EXCEPT ![a] = i]
                                  /\ \A j \in Pending(a) : Distance(a, i) <= Distance(a, j)
      BY <1>2, SelectedFirst DEF Arbitrate
    <2>2. bypassed' = [bypassed EXCEPT ![a] =
              [j \in Initiators |-> IF j \in Pending(a) \ {i} THEN bypassed[a][j] + 1 ELSE 0]]
      BY <1>2, <2>1 DEF Arbitrate
    <2>3. last_selected'[a] = i /\ \A b \in Arbiters \ {a} : last_selected'[b] = last_selected[b]
      BY <2>1 DEF TypeOK
    <2>4. /\ \A b \in Arbiters \ {a} : bypassed'[b] = bypassed[b]
          /\ \A j \in Initiators :
                 bypassed'[a][j] = IF j \in Pending(a) \ {i} THEN bypassed[a][j] + 1 ELSE 0
      BY <2>2 DEF TypeOK
    <2>5. ASSUME NEW b \in Arbiters, NEW j \in Initiators, b # a
          PROVE  bypassed'[b][j] + Distance(b, j)' < N
      BY <2>3, <2>4, <2>5 DEF Rotates, Distance
    <2>6. ASSUME NEW j \in Initiators  PROVE bypassed'[a][j] + Distance(a, j)' < N
      <3>1. Distance(a, j)' = (j - i - 1) % N
        BY <2>3 DEF Distance
      <3>2. N \in Nat \ {0} /\ (j - i - 1) % N \in 0 .. N - 1
        <4>1. j - i - 1 \in Int
          BY DEF Initiators
        <4> QED
          BY <4>1, Remainder, RouterAssumption
      <3>3. CASE j \in Pending(a) \ {i}
        <4>1. bypassed'[a][j] = bypassed[a][j] + 1 /\ bypassed[a][j] \in Nat
          BY <2>4, <3>3 DEF TypeOK
        <4>2. (j - i - 1) % N < Distance(a, j)
          BY <2>1, <3>3, Nearer DEF Distance, TypeOK
        <4>3. bypassed[a][j] + Distance(a, j) < N /\ Distance(a, j) \in 0 .. N - 1
          BY DistanceRange DEF Rotates
        <4> QED
          BY <3>1, <3>2, <4>1, <4>2, <4>3
      <3>4. CASE j \notin Pending(a) \ {i}
        BY <2>4, <3>1, <3>2, <3>4
      <3> QED
        BY <3>3, <3>4
    <2> QED
      BY <2>5, <2>6 DEF Rotates
  <1>3. Next => UNCHANGED <<last_selected, bypassed>> \/ \E a \in Arbiters : Arbitrate(a)
    BY DEF Next, Request, EndResp, Return, TargetResponds, ArbiterStarts, ArbiterResumes,
       ArbiterMissesEvent, ResponseEnds, DecoderBw, DecoderMissesEvent, arbiter
  <1>4. UNCHANGED vars => UNCHANGED <<last_selected, bypassed>>
    BY DEF vars, arbiter
  <1> QED
    BY <1>1, <1>2, <1>3, <1>4

\* While an initiator has a request in the queue of an arbiter, the others are served less
\* than N times.
THEOREM ArbitrationFair == Spec => []BoundedBypass
  <1>1. Inv /\ Init => Rotates
    <2> SUFFICES ASSUME Inv, Init, NEW a \in Arbiters, NEW i \in Initiators
                 PROVE  bypassed[a][i] + Distance(a, i) < N
      BY DEF Rotates
    <2>1. bypassed[a][i] = 0 /\ Distance(a, i) \in 0 .. N - 1
      BY DistanceRange DEF Init, Inv
    <2> QED
      BY <2>1, RouterAssumption
  <1>2. Inv /\ Rotates => BoundedBypass
    <2> SUFFICES ASSUME Inv, Rotates, NEW a \in Arbiters, NEW i \in Initiators
                 PROVE  bypassed[a][i] < N
      BY DEF BoundedBypass
    <2>1. bypassed[a][i] \in Nat /\ Distance(a, i) \in 0 .. N - 1
      BY DistanceRange DEF Inv, TypeOK
    <2>2. bypassed[a][i] + Distance(a, i) < N
      BY DEF Rotates
    <2> QED
      BY <2>1, <2>2, RouterAssumption
  <1> QED
    BY <1>1, <1>2, InvInit, RotatesNext, InvInvariant, PTL DEF Spec
=============================================================================
