---------------------------- MODULE CxsLinkProofs ---------------------------
(***************************************************************************)
(* Theorems about CxsLink for every flit format, every number of credits    *)
(* and every burst length: credits are conserved over bursts, deltas,       *)
(* clocks and resets, and packets stay in order.                            *)
(*                                                                          *)
(* How much of a flit a packet fills is a recursive function and stays      *)
(* opaque: the proofs use only that between none and all of the waiting     *)
(* packets end in the next flit.                                            *)
(***************************************************************************)
EXTENDS CxsLink, SequenceTheorems, FiniteSetTheorems, TLAPS

CreditInv == TypeOK /\ CreditsConserved

-----------------------------------------------------------------------------
\* A packet is never mistaken for the absent one.
LEMMA PacketIsSome == NoPacket \notin Packets
  BY DEF NoPacket, Packets

\* The backlog is a sequence of packets, empty if nothing is pending or queued.
LEMMA BacklogType ==
    ASSUME pkt_peq \in Seq(Packets), pending_pkt \in Packets \cup {NoPacket}
    PROVE  /\ Backlog \in Seq(Packets)
           /\ Len(Backlog) \in Nat
           /\ \A n \in 1 .. Len(Backlog) : Backlog[n] \in Packets
  <1>1. CASE pending_pkt = NoPacket
    BY <1>1, LenProperties, ElementOfSeq DEF Backlog
  <1>2. CASE pending_pkt # NoPacket
    <2>1. <<pending_pkt>> \in Seq(Packets)
      BY <1>2
    <2>2. Backlog \in Seq(Packets)
      BY <1>2, <2>1, ConcatProperties DEF Backlog
    <2> QED
      BY <2>2, LenProperties, ElementOfSeq
  <1> QED
    BY <1>1, <1>2

\* Between none and all of the waiting packets end in the next flit.
LEMMA FittingRange ==
    ASSUME Len(Backlog) \in Nat
    PROVE  Fitting \in 0 .. Len(Backlog)
  <1> DEFINE S == {n \in 1 .. Len(Backlog) : UsedBuckets[n] <= Buckets}
  <1> HIDE DEF S
  <1>1. IsFiniteSet(1 .. Len(Backlog)) /\ Cardinality(1 .. Len(Backlog)) = Len(Backlog)
    <2>1. /\ IsFiniteSet(1 .. Len(Backlog))
          /\ Cardinality(1 .. Len(Backlog)) =
                 IF 1 > Len(Backlog) THEN 0 ELSE Len(Backlog) - 1 + 1
      BY FS_Interval
    <2> QED
      BY <2>1
  <1>2. S \in SUBSET (1 .. Len(Backlog))
    BY DEF S
  <1>3. IsFiniteSet(S) /\ Cardinality(S) <= Len(Backlog)
    BY <1>1, <1>2, FS_Subset
  <1>4. Cardinality(S) \in Nat
    BY <1>3, FS_CardinalityType
  <1>5. Fitting = Cardinality(S)
    BY DEF Fitting, S
  <1> QED
    BY <1>3, <1>4, <1>5

\* The flit takes the first packets of the backlog, and the rest remains in it,
\* the packet that was cut first.
LEMMA CutFacts ==
    ASSUME TypeOK, Cut
    PROVE  /\ SubSeq(Backlog, 1, Fitting) \in Seq(Packets)
           /\ Len(SubSeq(Backlog, 1, Fitting)) = Fitting
           /\ \A n \in 1 .. Fitting : SubSeq(Backlog, 1, Fitting)[n] = Backlog[n]
           /\ pkt_peq' \in Seq(Packets)
           /\ pending_pkt' \in Packets \cup {NoPacket}
           /\ Len(Backlog') = Len(Backlog) - Fitting
           /\ \A n \in 1 .. Len(Backlog') : Backlog'[n] = Backlog[Fitting + n]
  <1>1. /\ Len(Backlog) \in Nat
        /\ \A n \in 1 .. Len(Backlog) : Backlog[n] \in Packets
    BY BacklogType DEF TypeOK
  <1>2. Fitting \in 0 .. Len(Backlog)
    BY <1>1, FittingRange
  <1> DEFINE B == Backlog  F == Fitting  L == Len(Backlog)
  <1>3. /\ SubSeq(B, 1, F) \in Seq(Packets)
        /\ Len(SubSeq(B, 1, F)) = F
        /\ \A n \in 1 .. F : SubSeq(B, 1, F)[n] = B[n]
    <2>1. \A i \in 1 .. F : B[i] \in Packets
      BY <1>1, <1>2
    <2> HIDE DEF B, F
    <2>2. F \in Nat
      BY <1>2 DEF F
    <2> QED
      BY <2>1, <2>2, SubSeqProperties
  <1>4. CASE Fitting = Len(Backlog)
    <2>1. pkt_peq' = <<>> /\ pending_pkt' = NoPacket
      BY <1>4 DEF Cut
    <2>2. Backlog' = <<>>
      BY <2>1 DEF Backlog
    <2> QED
      BY <1>1, <1>3, <1>4, <2>1, <2>2, EmptySeq
  <1>5. CASE Fitting # Len(Backlog)
    <2>1. pkt_peq' = SubSeq(Backlog, Fitting + 2, Len(Backlog))
          /\ pending_pkt' = Backlog[Fitting + 1]
      BY <1>5 DEF Cut
    <2>2. pending_pkt' \in Packets
      BY <1>1, <1>2, <1>5, <2>1
    <2>3. /\ pkt_peq' \in Seq(Packets)
          /\ Len(pkt_peq') = L - F - 1
          /\ \A n \in 1 .. L - F - 1 : pkt_peq'[n] = B[F + 1 + n]
      <3>1. \A i \in F + 2 .. L : B[i] \in Packets
        BY <1>1, <1>2
      <3>2. F \in Nat /\ L \in Nat /\ F < L
        BY <1>1, <1>2, <1>5
      <3>3. pkt_peq' = SubSeq(B, F + 2, L)
        BY <2>1
      <3> HIDE DEF B, F, L
      <3>4. /\ SubSeq(B, F + 2, L) \in Seq(Packets)
            /\ Len(SubSeq(B, F + 2, L)) = IF F + 2 <= L THEN L - (F + 2) + 1 ELSE 0
            /\ \A i \in 1 .. L - (F + 2) + 1 : SubSeq(B, F + 2, L)[i] = B[(F + 2) + i - 1]
        BY <3>1, <3>2, SubSeqProperties
      <3> QED
        BY <3>2, <3>3, <3>4
    <2>4. Backlog' = <<pending_pkt'>> \o pkt_peq'
      BY <2>2, PacketIsSome DEF Backlog
    <2>5. /\ <<pending_pkt'>> \in Seq(Packets) /\ Len(<<pending_pkt'>>) = 1
          /\ <<pending_pkt'>>[1] = pending_pkt'
      BY <2>2
    <2>6. /\ Len(Backlog') = 1 + Len(pkt_peq')
          /\ \A n \in 1 .. 1 + Len(pkt_peq') :
                 Backlog'[n] = IF n <= 1 THEN <<pending_pkt'>>[n] ELSE pkt_peq'[n - 1]
      BY <2>3, <2>4, <2>5, ConcatProperties
    <2>7. Len(Backlog') = L - F
      BY <1>1, <1>2, <2>3, <2>6
    <2>8. ASSUME NEW n \in 1 .. Len(Backlog') PROVE Backlog'[n] = B[F + n]
      <3>1. CASE n = 1
        <4>1. Backlog'[1] = <<pending_pkt'>>[1]
          BY <1>1, <1>2, <2>3, <2>6, <2>7
        <4> QED
          BY <2>1, <2>5, <3>1, <4>1
      <3>2. CASE n # 1
        <4>1. n - 1 \in 1 .. L - F - 1
          BY <1>1, <1>2, <2>7, <3>2
        <4>2. Backlog'[n] = pkt_peq'[n - 1]
          BY <1>1, <1>2, <2>3, <2>6, <2>7, <3>2
        <4>3. pkt_peq'[n - 1] = B[F + 1 + (n - 1)]
          BY <2>3, <4>1
        <4> QED
          BY <1>2, <4>2, <4>3
      <3> QED
        BY <3>1, <3>2
    <2> QED
      BY <1>3, <2>2, <2>3, <2>7, <2>8
  <1> QED
    BY <1>4, <1>5

-----------------------------------------------------------------------------
\* What every part of the proof needs to know of the constants.
LEMMA CreditFacts ==
    /\ BurstLen \in Nat \ {0} /\ MaxCredit \in Nat
    /\ MaxPackets \in Nat /\ MaxResets \in Nat
  BY CreditAssumption, BoundAssumption

\* The sides of the link hold a number of credits.
LEMMA CreditTypes ==
    TypeOK => /\ Len(fw_peq) \in Nat /\ surplus \in Nat
              /\ TransmitterCredits \in Nat /\ ChannelCredits \in Nat
              /\ ReceiverCredits \in Nat
  BY CreditFacts, LenProperties
  DEF TypeOK, TransmitterCredits, ChannelCredits, ReceiverCredits

\* Credits may move from one side to the next.
LEMMA CreditsMove ==
    ASSUME TypeOK, CreditsConserved, rst_i' = rst_i, surplus' = surplus,
           NEW i \in Int, NEW j \in Int, NEW k \in Int, i + j + k = 0,
           TransmitterCredits' = TransmitterCredits + i,
           ChannelCredits' = ChannelCredits + j,
           ReceiverCredits' = ReceiverCredits + k
    PROVE  CreditsConserved'
  <1>1. rst_i \in BOOLEAN
    BY DEF TypeOK
  <1>2. CASE rst_i
    BY <1>2 DEF CreditsConserved
  <1>3. CASE ~rst_i
    <2>1. TransmitterCredits + ChannelCredits + ReceiverCredits = MaxCredit + surplus
      BY <1>3 DEF CreditsConserved
    <2>2. TransmitterCredits' + ChannelCredits' + ReceiverCredits' = MaxCredit + surplus
      <3>1. TransmitterCredits \in Nat /\ ChannelCredits \in Nat /\ ReceiverCredits \in Nat
        BY CreditTypes
      <3>2. \A a, b, c \in Nat : (a + i) + (b + j) + (c + k) = a + b + c
        OBVIOUS
      <3>3. (TransmitterCredits + i) + (ChannelCredits + j) + (ReceiverCredits + k)
                = TransmitterCredits + ChannelCredits + ReceiverCredits
        BY ONLY <3>1, <3>2, Zenon
      <3> QED
        BY ONLY <2>1, <3>3, TransmitterCredits' = TransmitterCredits + i,
           ChannelCredits' = ChannelCredits + j, ReceiverCredits' = ReceiverCredits + k, Zenon
    <2> QED
      BY <2>2 DEF CreditsConserved
  <1> QED
    BY <1>1, <1>2, <1>3

\* The transmitter leaves reset with all credits on the receiver's side.
LEMMA CreditInit == Init => CreditInv
  BY CreditFacts, EmptySeq
  DEF Init, CreditInv, TypeOK, CreditsConserved, Packets, NoPacket

\* A flit moves its credit from the burst to the channel.
LEMMA CreditTransmit == CreditInv /\ Transmit => CreditInv'
  <1> SUFFICES ASSUME CreditInv, Transmit PROVE CreditInv'
    OBVIOUS
  <1> USE DEF CreditInv
  <1> DEFINE flit == SubSeq(Backlog, 1, Fitting)
  <1>1. /\ flit \in Seq(Packets)
        /\ pkt_peq' \in Seq(Packets)
        /\ pending_pkt' \in Packets \cup {NoPacket}
    BY CutFacts DEF Transmit
  <1>2. fw_peq' = Append(fw_peq, flit)
    BY DEF Transmit
  <1> HIDE DEF flit
  <1>3. fw_peq' \in Seq(Seq(Packets)) /\ Len(fw_peq') = Len(fw_peq) + 1
    BY <1>1, <1>2, AppendProperties DEF TypeOK
  <1>4. UNCHANGED <<rst_i, received_credits, bw_peq, rx_credits, returned_credits,
                    sent, delivered, dropped, surplus, resets>>
    BY DEF Transmit, rx, history
  <1>5. /\ available_credits' \in Nat /\ burst_credits' \in 0 .. BurstLen - 1
        /\ TransmitterCredits' = TransmitterCredits - 1
    <2>1. /\ available_credits \in Nat /\ received_credits \in Nat
          /\ burst_credits \in 0 .. BurstLen - 1
      BY DEF TypeOK
    <2>2. CASE burst_credits = 0
      <3>1. /\ available_credits >= BurstLen
            /\ available_credits' = available_credits - BurstLen
            /\ burst_credits' = BurstLen - 1
        BY <2>2 DEF Transmit, MayTransmit, Spend
      <3> QED
        BY <1>4, <2>1, <2>2, <3>1, CreditFacts DEF TransmitterCredits
    <2>3. CASE burst_credits # 0
      <3>1. available_credits' = available_credits /\ burst_credits' = burst_credits - 1
        BY <2>3 DEF Transmit, Spend
      <3> QED
        BY <1>4, <2>1, <2>3, <3>1, CreditFacts DEF TransmitterCredits
    <2> QED
      BY <2>2, <2>3
  <1>6. TypeOK'
    BY <1>1, <1>3, <1>4, <1>5 DEF TypeOK
  <1>7. CreditsConserved'
    <2>1. ChannelCredits' = ChannelCredits + 1 /\ ReceiverCredits' = ReceiverCredits + 0
      BY <1>3, <1>4, CreditTypes DEF ChannelCredits, ReceiverCredits, TypeOK
    <2>2. TransmitterCredits' = TransmitterCredits + (-1)
      BY <1>5, CreditTypes
    <2> QED
      BY <1>4, <2>1, <2>2, CreditsMove
  <1> QED
    BY <1>6, <1>7

\* The receiver takes a flit and owes a credit.
LEMMA CreditChannelFw == CreditInv /\ ChannelFw => CreditInv'
  <1> SUFFICES ASSUME CreditInv, ChannelFw PROVE CreditInv'
    OBVIOUS
  <1> USE DEF CreditInv
  <1> DEFINE flit == Head(fw_peq)
             ids == [n \in 1 .. Len(flit) |-> flit[n].id]
  <1>1. /\ flit \in Seq(Packets)
        /\ fw_peq' \in Seq(Seq(Packets)) /\ Len(fw_peq') = Len(fw_peq) - 1
    BY HeadTailProperties DEF ChannelFw, TypeOK
  <1>2. delivered' = delivered \o ids
    BY DEF ChannelFw
  <1>3. ids \in Seq(1 .. MaxPackets)
    <2> HIDE DEF flit
    <2>1. Len(flit) \in Nat /\ \A n \in 1 .. Len(flit) : flit[n] \in Packets
      BY <1>1, LenProperties, ElementOfSeq
    <2>2. \A n \in 1 .. Len(flit) : flit[n].id \in 1 .. MaxPackets
      BY <2>1 DEF Packets
    <2> QED
      BY <2>1, <2>2, IsASeq
  <1> HIDE DEF flit, ids
  <1>4. delivered' \in Seq(1 .. MaxPackets)
    BY <1>2, <1>3, ConcatProperties DEF TypeOK
  <1>5. /\ returned_credits' = returned_credits + 1
        /\ UNCHANGED <<rst_i, pkt_peq, pending_pkt, available_credits, received_credits,
                       burst_credits, bw_peq, rx_credits, sent, dropped, surplus, resets>>
    BY DEF ChannelFw, tx
  <1>6. TypeOK'
    BY <1>1, <1>4, <1>5 DEF TypeOK
  <1>7. CreditsConserved'
    <2>1. /\ TransmitterCredits' = TransmitterCredits + 0
          /\ ReceiverCredits' = ReceiverCredits + 1
      BY <1>5, CreditTypes DEF TransmitterCredits, ReceiverCredits, TypeOK
    <2>2. ChannelCredits' = ChannelCredits + (-1)
      BY <1>1, <1>5, CreditTypes DEF ChannelCredits, TypeOK
    <2> QED
      BY <1>5, <2>1, <2>2, CreditsMove
  <1> QED
    BY <1>6, <1>7

\* Every step keeps the credits.
LEMMA CreditStep == CreditInv /\ [Next]_vars => CreditInv'
  <1> SUFFICES ASSUME CreditInv, [Next]_vars PROVE CreditInv'
    OBVIOUS
  <1> USE CreditFacts DEF CreditInv
  <1>1. ASSUME NEW s \in Sizes, Send(s) PROVE CreditInv'
    <2>1. [id |-> sent + 1, size |-> s] \in Packets
      BY <1>1 DEF Send, TypeOK, Packets
    <2>2. pkt_peq' \in Seq(Packets)
      BY <1>1, <2>1, AppendProperties DEF Send, TypeOK
    <2>3. UNCHANGED <<rst_i, TransmitterCredits, ChannelCredits, ReceiverCredits, surplus>>
      BY <1>1 DEF Send, channel, rx, TransmitterCredits, ChannelCredits, ReceiverCredits
    <2>4. CreditsConserved'
      BY <2>3 DEF CreditsConserved
    <2> QED
      BY <1>1, <2>2, <2>4 DEF Send, TypeOK, channel, rx
  <1>2. CASE TransmitterReset
    <2>1. Ids(Backlog) \subseteq 1 .. MaxPackets
      BY BacklogType DEF TypeOK, Ids, Packets
    <2>2. pkt_peq' \in Seq(Packets)
      BY <1>2, EmptySeq DEF TransmitterReset
    <2>3. TypeOK'
      BY <1>2, <2>1, <2>2 DEF TransmitterReset, TypeOK, channel, rx
    <2> QED
      BY <1>2, <2>3 DEF TransmitterReset, CreditsConserved
  <1>3. CASE HandleReceivedCredits
    <2>1. TypeOK'
      BY <1>3 DEF HandleReceivedCredits, TypeOK, channel, rx, history
    <2>2. TransmitterCredits' = TransmitterCredits
      BY <1>3 DEF HandleReceivedCredits, TypeOK, TransmitterCredits
    <2>3. UNCHANGED <<rst_i, ChannelCredits, ReceiverCredits, surplus>>
      BY <1>3 DEF HandleReceivedCredits, ChannelCredits, ReceiverCredits, channel, rx, history
    <2> QED
      BY <2>1, <2>2, <2>3 DEF CreditsConserved
  <1>4. CASE ChannelBw
    <2>1. TypeOK'
      BY <1>4 DEF ChannelBw, TypeOK, rx, history
    <2>2. /\ TransmitterCredits' = TransmitterCredits + 1
          /\ ChannelCredits' = ChannelCredits + (-1)
      BY <1>4, CreditTypes DEF ChannelBw, TypeOK, TransmitterCredits, ChannelCredits
    <2>3. /\ ReceiverCredits' = ReceiverCredits + 0
          /\ UNCHANGED <<rst_i, surplus>>
      BY <1>4, CreditTypes DEF ChannelBw, ReceiverCredits, rx, history
    <2> QED
      BY <2>1, <2>2, <2>3, CreditsMove
  <1>5. CASE ReceiverClock
    <2>1. TypeOK'
      BY <1>5 DEF ReceiverClock, TypeOK, tx, history
    <2>2. /\ ChannelCredits' = ChannelCredits + 1
          /\ ReceiverCredits' = ReceiverCredits + (-1)
      BY <1>5, CreditTypes DEF ReceiverClock, TypeOK, ChannelCredits, ReceiverCredits
    <2>3. /\ TransmitterCredits' = TransmitterCredits + 0
          /\ UNCHANGED <<rst_i, surplus>>
      BY <1>5, CreditTypes DEF ReceiverClock, TransmitterCredits, tx, history
    <2> QED
      BY <2>1, <2>2, <2>3, CreditsMove
  <1>6. CASE ReceiverReset
    BY <1>6 DEF ReceiverReset, TypeOK, CreditsConserved, tx, channel, history
  <1>7. CASE HandleReturnedCredits
    <2>1. TypeOK'
      BY <1>7 DEF HandleReturnedCredits, TypeOK, tx, channel, history
    <2>2. ReceiverCredits' = ReceiverCredits
      BY <1>7 DEF HandleReturnedCredits, TypeOK, ReceiverCredits
    <2>3. UNCHANGED <<rst_i, TransmitterCredits, ChannelCredits, surplus>>
      BY <1>7 DEF HandleReturnedCredits, TransmitterCredits, ChannelCredits, tx, channel, history
    <2> QED
      BY <2>1, <2>2, <2>3 DEF CreditsConserved
  <1>8. CASE EnterReset
    BY <1>8 DEF EnterReset, TypeOK, CreditsConserved, tx, channel, rx
  <1>9. CASE LeaveReset
    <2>1. TypeOK'
      BY <1>9 DEF LeaveReset, TypeOK, tx, channel, rx
    <2>2. /\ TransmitterCredits' = burst_credits /\ burst_credits \in Nat
          /\ ChannelCredits' = 0 /\ ReceiverCredits' = MaxCredit
          /\ surplus' = burst_credits
      BY <1>9, EmptySeq DEF LeaveReset, TypeOK, TransmitterCredits, ChannelCredits,
             ReceiverCredits, tx, channel, rx
    <2>3. CreditsConserved'
      BY <2>2 DEF CreditsConserved
    <2> QED
      BY <2>1, <2>3
  <1>10. CASE UNCHANGED vars
    BY <1>10 DEF vars, TypeOK, CreditsConserved, TransmitterCredits, ChannelCredits,
           ReceiverCredits, tx, channel, rx, history
  <1> QED
    BY <1>1, <1>2, <1>3, <1>4, <1>5, <1>6, <1>7, <1>8, <1>9, <1>10,
       CreditTransmit, CreditChannelFw DEF Next

\* Hence the credits are conserved along every behaviour.
LEMMA CreditInvariant == Spec => []CreditInv
  BY CreditInit, CreditStep, PTL DEF Spec

\* The queues, counters and packets of the link keep their types; in particular
\* no credit counter, all of them unsigned, is ever decremented below zero.
THEOREM TypeCorrect == Spec => []TypeOK
  BY CreditInvariant, PTL DEF CreditInv

\* No credit is lost or made up outside a reset, whatever the clocks, the delays
\* of the channel and the moments of the resets are.
THEOREM Conservation == Spec => []CreditsConserved
  BY CreditInvariant, PTL DEF CreditInv

-----------------------------------------------------------------------------
(* The order of packets *)

Increasing(q) == \A m, n \in 1 .. Len(q) : m < n => q[m].id < q[n].id

Precede(q, r) == \A m \in 1 .. Len(q), n \in 1 .. Len(r) : q[m].id < r[n].id

\* Packets of a queue were sent and have not been thrown away.
Live(q) == \A n \in 1 .. Len(q) : q[n].id <= sent /\ q[n].id \notin dropped

DeliveredBefore(q) ==
    \A m \in 1 .. Len(delivered), n \in 1 .. Len(q) : delivered[m] < q[n].id

HistoryOrder ==
    /\ DeliveredInOrder
    /\ \A n \in 1 .. Len(delivered) : delivered[n] <= sent
    /\ \A k \in dropped : k <= sent

BacklogOrder == Increasing(Backlog) /\ Live(Backlog) /\ DeliveredBefore(Backlog)

FlitOrder ==
    \A f \in 1 .. Len(fw_peq) :
        /\ Increasing(fw_peq[f]) /\ Live(fw_peq[f]) /\ DeliveredBefore(fw_peq[f])
        /\ Precede(fw_peq[f], Backlog)

ChannelOrder ==
    \A f, g \in 1 .. Len(fw_peq) : f < g => Precede(fw_peq[f], fw_peq[g])

\* What is delivered, what travels and what waits is in the order of sending.
OrderInv == HistoryOrder /\ BacklogOrder /\ FlitOrder /\ ChannelOrder

orderVars == <<pkt_peq, pending_pkt, fw_peq, delivered, dropped, sent>>

\* Ids are numbers.
LEMMA IdTypes ==
    ASSUME TypeOK
    PROVE  /\ sent \in Nat
           /\ Len(delivered) \in Nat
           /\ \A n \in 1 .. Len(delivered) : delivered[n] \in Nat
           /\ Len(Backlog) \in Nat
           /\ \A n \in 1 .. Len(Backlog) : Backlog[n].id \in Nat
           /\ Len(fw_peq) \in Nat
           /\ \A f \in 1 .. Len(fw_peq) :
                  /\ Len(fw_peq[f]) \in Nat
                  /\ \A n \in 1 .. Len(fw_peq[f]) : fw_peq[f][n].id \in Nat
  <1>1. sent \in Nat
    BY CreditFacts DEF TypeOK
  <1>2. Len(delivered) \in Nat /\ \A n \in 1 .. Len(delivered) : delivered[n] \in Nat
    <2>1. delivered \in Seq(1 .. MaxPackets)
      BY DEF TypeOK
    <2>2. \A n \in 1 .. Len(delivered) : delivered[n] \in 1 .. MaxPackets
      BY <2>1, ElementOfSeq
    <2> QED
      BY <2>1, <2>2, LenProperties, CreditFacts
  <1>3. Len(Backlog) \in Nat /\ \A n \in 1 .. Len(Backlog) : Backlog[n].id \in Nat
    BY BacklogType, CreditFacts DEF TypeOK, Packets
  <1>4. Len(fw_peq) \in Nat /\ \A f \in 1 .. Len(fw_peq) : fw_peq[f] \in Seq(Packets)
    <2>1. fw_peq \in Seq(Seq(Packets))
      BY DEF TypeOK
    <2> QED
      BY <2>1, LenProperties, ElementOfSeq
  <1>5. ASSUME NEW f \in 1 .. Len(fw_peq)
        PROVE  /\ Len(fw_peq[f]) \in Nat
               /\ \A n \in 1 .. Len(fw_peq[f]) : fw_peq[f][n].id \in Nat
    <2>1. fw_peq[f] \in Seq(Packets)
      BY <1>4
    <2>2. Len(fw_peq[f]) \in Nat /\ \A n \in 1 .. Len(fw_peq[f]) : fw_peq[f][n] \in Packets
      BY <2>1, LenProperties, ElementOfSeq
    <2> QED
      BY <2>2, CreditFacts DEF Packets
  <1> QED
    BY <1>1, <1>2, <1>3, <1>4, <1>5

\* A packet that is sent goes to the end of the backlog.
LEMMA SendBacklog ==
    ASSUME TypeOK, NEW s \in Sizes, Send(s)
    PROVE  /\ Len(Backlog') = Len(Backlog) + 1
           /\ \A n \in 1 .. Len(Backlog) : Backlog'[n] = Backlog[n]
           /\ Backlog'[Len(Backlog) + 1] = [id |-> sent + 1, size |-> s]
  <1> DEFINE new == [id |-> sent + 1, size |-> s]
  <1>1. new \in Packets /\ pkt_peq \in Seq(Packets)
    BY CreditFacts DEF Send, TypeOK, Packets
  <1>2. pkt_peq' = Append(pkt_peq, new) /\ pending_pkt' = pending_pkt
    BY DEF Send
  <1> HIDE DEF new
  <1>3. /\ pkt_peq' \in Seq(Packets) /\ Len(pkt_peq) \in Nat
        /\ Len(pkt_peq') = Len(pkt_peq) + 1
        /\ \A n \in 1 .. Len(pkt_peq) : pkt_peq'[n] = pkt_peq[n]
        /\ pkt_peq'[Len(pkt_peq) + 1] = new
    BY <1>1, <1>2, AppendProperties, LenProperties
  <1>4. CASE pending_pkt = NoPacket
    <2>1. Backlog = pkt_peq /\ Backlog' = pkt_peq'
      BY <1>2, <1>4 DEF Backlog
    <2> QED
      BY <1>3, <2>1 DEF new
  <1>5. CASE pending_pkt # NoPacket
    <2>1. /\ Backlog = <<pending_pkt>> \o pkt_peq
          /\ Backlog' = <<pending_pkt>> \o pkt_peq'
      BY <1>2, <1>5 DEF Backlog
    <2>2. <<pending_pkt>> \in Seq(Packets) /\ Len(<<pending_pkt>>) = 1
      BY <1>5 DEF TypeOK
    <2>3. /\ Len(Backlog) = 1 + Len(pkt_peq)
          /\ \A n \in 1 .. 1 + Len(pkt_peq) :
                 Backlog[n] = IF n <= 1 THEN <<pending_pkt>>[n] ELSE pkt_peq[n - 1]
      BY <1>1, <2>1, <2>2, ConcatProperties
    <2>4. /\ Len(Backlog') = 1 + Len(pkt_peq')
          /\ \A n \in 1 .. 1 + Len(pkt_peq') :
                 Backlog'[n] = IF n <= 1 THEN <<pending_pkt>>[n] ELSE pkt_peq'[n - 1]
      BY <1>3, <2>1, <2>2, ConcatProperties
    <2>5. Len(Backlog') = Len(Backlog) + 1
      BY <1>3, <2>3, <2>4
    <2>6. ASSUME NEW n \in 1 .. Len(Backlog) PROVE Backlog'[n] = Backlog[n]
      <3>1. n = 1 \/ n - 1 \in 1 .. Len(pkt_peq)
        BY <1>3, <2>3
      <3>2. /\ Backlog[n] = IF n <= 1 THEN <<pending_pkt>>[n] ELSE pkt_peq[n - 1]
            /\ Backlog'[n] = IF n <= 1 THEN <<pending_pkt>>[n] ELSE pkt_peq'[n - 1]
        BY <1>3, <2>3, <2>4
      <3> QED
        BY <1>3, <3>1, <3>2
    <2>7. Backlog'[Len(Backlog) + 1] = new
      BY <1>3, <2>3, <2>4
    <2> QED
      BY <2>5, <2>6, <2>7 DEF new
  <1> QED
    BY <1>4, <1>5

\* A new packet has the highest id.
LEMMA OrderSend ==
    ASSUME TypeOK, OrderInv, NEW s \in Sizes, Send(s)
    PROVE  OrderInv'
  <1>1. /\ sent' = sent + 1
        /\ UNCHANGED <<fw_peq, delivered, dropped>>
    BY DEF Send, channel
  <1>2. \A n \in 1 .. Len(Backlog') :
            \/ n \in 1 .. Len(Backlog) /\ Backlog'[n].id = Backlog[n].id
            \/ n = Len(Backlog) + 1 /\ Backlog'[n].id = sent + 1
    <2>1. /\ Len(Backlog') = Len(Backlog) + 1
          /\ \A n \in 1 .. Len(Backlog) : Backlog'[n] = Backlog[n]
          /\ Backlog'[Len(Backlog) + 1] = [id |-> sent + 1, size |-> s]
      BY SendBacklog
    <2>2. \A n \in 1 .. Len(Backlog') : n \in 1 .. Len(Backlog) \/ n = Len(Backlog) + 1
      BY <2>1, IdTypes
    <2>3. [id |-> sent + 1, size |-> s].id = sent + 1
      OBVIOUS
    <2> QED
      BY <2>1, <2>2, <2>3
  <1>3. HistoryOrder'
    <2>1. \A k \in dropped : k \in Nat
      BY CreditFacts DEF TypeOK
    <2> QED
      BY <1>1, <2>1, IdTypes DEF OrderInv, HistoryOrder, DeliveredInOrder
  <1>4. BacklogOrder'
    <2>1. sent + 1 \notin dropped
      BY IdTypes DEF OrderInv, HistoryOrder
    <2>2. Increasing(Backlog')
      <3>1. ASSUME NEW m \in 1 .. Len(Backlog'), NEW n \in 1 .. Len(Backlog'), m < n
            PROVE  Backlog'[m].id < Backlog'[n].id
        <4>1. m \in 1 .. Len(Backlog) /\ Backlog'[m].id = Backlog[m].id
          BY <1>2, <3>1, IdTypes
        <4>2. Backlog[m].id \in Nat /\ sent \in Nat /\ Backlog[m].id <= sent
          BY <4>1, IdTypes DEF OrderInv, BacklogOrder, Live
        <4>3. CASE n \in 1 .. Len(Backlog) /\ Backlog'[n].id = Backlog[n].id
          BY <3>1, <4>1, <4>3 DEF OrderInv, BacklogOrder, Increasing
        <4>4. CASE n = Len(Backlog) + 1 /\ Backlog'[n].id = sent + 1
          BY <4>1, <4>2, <4>4
        <4> QED
          BY <1>2, <4>3, <4>4
      <3> QED
        BY <3>1 DEF Increasing
    <2>3. Live(Backlog)'
      <3>1. ASSUME NEW n \in 1 .. Len(Backlog')
            PROVE  Backlog'[n].id <= sent + 1 /\ Backlog'[n].id \notin dropped
        <4>1. CASE n \in 1 .. Len(Backlog) /\ Backlog'[n].id = Backlog[n].id
          <5>1. Backlog[n].id \in Nat /\ sent \in Nat
            BY <4>1, IdTypes
          <5>2. Backlog[n].id <= sent /\ Backlog[n].id \notin dropped
            BY <4>1 DEF OrderInv, BacklogOrder, Live
          <5> QED
            BY <4>1, <5>1, <5>2
        <4>2. CASE n = Len(Backlog) + 1 /\ Backlog'[n].id = sent + 1
          BY <2>1, <4>2, IdTypes
        <4> QED
          BY <1>2, <4>1, <4>2
      <3> QED
        BY <1>1, <3>1 DEF Live
    <2>4. DeliveredBefore(Backlog)'
      <3>1. ASSUME NEW m \in 1 .. Len(delivered), NEW n \in 1 .. Len(Backlog')
            PROVE  delivered[m] < Backlog'[n].id
        <4>1. delivered[m] \in Nat /\ sent \in Nat /\ delivered[m] <= sent
          BY IdTypes DEF OrderInv, HistoryOrder
        <4> QED
          BY <1>2, <4>1 DEF OrderInv, BacklogOrder, DeliveredBefore
      <3> QED
        BY <1>1, <3>1 DEF DeliveredBefore
    <2> QED
      BY <2>2, <2>3, <2>4 DEF BacklogOrder
  <1>5. FlitOrder'
    <2> SUFFICES ASSUME NEW f \in 1 .. Len(fw_peq)
                 PROVE  /\ Increasing(fw_peq[f]) /\ Live(fw_peq[f])'
                        /\ DeliveredBefore(fw_peq[f]) /\ Precede(fw_peq[f], Backlog')
      BY <1>1 DEF FlitOrder, DeliveredBefore
    <2>1. Live(fw_peq[f])'
      <3>1. ASSUME NEW n \in 1 .. Len(fw_peq[f])
            PROVE  fw_peq[f][n].id <= sent + 1 /\ fw_peq[f][n].id \notin dropped
        <4>1. fw_peq[f][n].id \in Nat /\ sent \in Nat
          BY IdTypes
        <4>2. fw_peq[f][n].id <= sent /\ fw_peq[f][n].id \notin dropped
          BY DEF OrderInv, FlitOrder, Live
        <4> QED
          BY <4>1, <4>2
      <3> QED
        BY <1>1, <3>1 DEF Live
    <2>2. Precede(fw_peq[f], Backlog')
      <3>1. ASSUME NEW m \in 1 .. Len(fw_peq[f]), NEW n \in 1 .. Len(Backlog')
            PROVE  fw_peq[f][m].id < Backlog'[n].id
        <4>1. fw_peq[f][m].id \in Nat /\ sent \in Nat
          BY IdTypes
        <4>2. fw_peq[f][m].id <= sent /\ Precede(fw_peq[f], Backlog)
          BY DEF OrderInv, FlitOrder, Live
        <4> QED
          BY <1>2, <4>1, <4>2 DEF Precede
      <3> QED
        BY <3>1 DEF Precede
    <2> QED
      BY <2>1, <2>2 DEF OrderInv, FlitOrder
  <1>6. ChannelOrder'
    BY <1>1 DEF OrderInv, ChannelOrder
  <1> QED
    BY <1>3, <1>4, <1>5, <1>6 DEF OrderInv

\* A flit takes packets from the front of the backlog.
LEMMA OrderTransmit ==
    ASSUME TypeOK, OrderInv, Transmit
    PROVE  OrderInv'
  <1> DEFINE flit == SubSeq(Backlog, 1, Fitting)
  <1>1. /\ fw_peq' = Append(fw_peq, flit)
        /\ UNCHANGED <<sent, delivered, dropped>>
    BY DEF Transmit, history
  <1>2. /\ flit \in Seq(Packets)
        /\ Len(flit) = Fitting
        /\ \A n \in 1 .. Fitting : flit[n] = Backlog[n]
        /\ Len(Backlog') = Len(Backlog) - Fitting
        /\ \A n \in 1 .. Len(Backlog') : Backlog'[n] = Backlog[Fitting + n]
    BY CutFacts DEF Transmit
  <1> HIDE DEF flit
  <1>3. Fitting \in 0 .. Len(Backlog)
    BY IdTypes, FittingRange
  <1>4. \A n \in 1 .. Len(flit) : n \in 1 .. Len(Backlog) /\ flit[n].id = Backlog[n].id
    BY <1>2, <1>3, IdTypes
  <1>5. \A n \in 1 .. Len(Backlog') :
            Fitting + n \in 1 .. Len(Backlog) /\ Backlog'[n].id = Backlog[Fitting + n].id
    BY <1>2, <1>3, IdTypes
  <1>6. /\ Len(fw_peq') = Len(fw_peq) + 1
        /\ \A f \in 1 .. Len(fw_peq) : fw_peq'[f] = fw_peq[f]
        /\ fw_peq'[Len(fw_peq) + 1] = flit
    BY <1>1, <1>2, AppendProperties DEF TypeOK
  <1>7. HistoryOrder'
    BY <1>1 DEF OrderInv, HistoryOrder, DeliveredInOrder
  <1>8. BacklogOrder'
    <2>1. Increasing(Backlog')
      <3>1. ASSUME NEW m \in 1 .. Len(Backlog'), NEW n \in 1 .. Len(Backlog'), m < n
            PROVE  Backlog'[m].id < Backlog'[n].id
        <4>1. Fitting + m < Fitting + n
          BY <1>3, <3>1, IdTypes
        <4> QED
          BY <1>5, <4>1 DEF OrderInv, BacklogOrder, Increasing
      <3> QED
        BY <3>1 DEF Increasing
    <2>2. Live(Backlog)'
      BY <1>1, <1>5 DEF OrderInv, BacklogOrder, Live
    <2>3. DeliveredBefore(Backlog)'
      BY <1>1, <1>5 DEF OrderInv, BacklogOrder, DeliveredBefore
    <2> QED
      BY <2>1, <2>2, <2>3 DEF BacklogOrder
  <1>9. FlitOrder'
    <2>1. ASSUME NEW f \in 1 .. Len(fw_peq)
          PROVE  /\ Increasing(fw_peq[f]) /\ Live(fw_peq[f]) /\ DeliveredBefore(fw_peq[f])
                 /\ Precede(fw_peq[f], Backlog')
      <3>1. Precede(fw_peq[f], Backlog')
        BY <1>5 DEF OrderInv, FlitOrder, Precede
      <3> QED
        BY <3>1 DEF OrderInv, FlitOrder
    <2>2. /\ Increasing(flit) /\ Live(flit) /\ DeliveredBefore(flit)
          /\ Precede(flit, Backlog')
      <3>1. Increasing(flit)
        BY <1>4 DEF OrderInv, BacklogOrder, Increasing
      <3>2. Live(flit)
        BY <1>4 DEF OrderInv, BacklogOrder, Live
      <3>3. DeliveredBefore(flit)
        BY <1>4 DEF OrderInv, BacklogOrder, DeliveredBefore
      <3>4. Precede(flit, Backlog')
        <4>1. ASSUME NEW m \in 1 .. Len(flit), NEW n \in 1 .. Len(Backlog')
              PROVE  m < Fitting + n
          BY <1>2, <1>3, IdTypes
        <4> QED
          BY <1>4, <1>5, <4>1 DEF OrderInv, BacklogOrder, Increasing, Precede
      <3> QED
        BY <3>1, <3>2, <3>3, <3>4
    <2>3. ASSUME NEW f \in 1 .. Len(fw_peq')
          PROVE  /\ Increasing(fw_peq'[f]) /\ Live(fw_peq'[f]) /\ DeliveredBefore(fw_peq'[f])
                 /\ Precede(fw_peq'[f], Backlog')
      <3>1. f \in 1 .. Len(fw_peq) \/ f = Len(fw_peq) + 1
        BY <1>6, IdTypes
      <3> QED
        BY <1>6, <2>1, <2>2, <3>1
    <2> QED
      BY <1>1, <2>3 DEF FlitOrder, Live, DeliveredBefore
  <1>10. ChannelOrder'
    <2> SUFFICES ASSUME NEW f \in 1 .. Len(fw_peq'), NEW g \in 1 .. Len(fw_peq'), f < g
                 PROVE  Precede(fw_peq'[f], fw_peq'[g])
      BY DEF ChannelOrder
    <2>1. f \in 1 .. Len(fw_peq)
      BY <1>6, IdTypes
    <2>2. CASE g \in 1 .. Len(fw_peq)
      BY <1>6, <2>1, <2>2 DEF OrderInv, ChannelOrder
    <2>3. CASE g = Len(fw_peq) + 1
      <3>1. Precede(fw_peq[f], Backlog)
        BY <2>1 DEF OrderInv, FlitOrder
      <3>2. Precede(fw_peq[f], flit)
        BY <1>4, <3>1 DEF Precede
      <3> QED
        BY <1>6, <2>1, <2>3, <3>2
    <2>4. g \in 1 .. Len(fw_peq) \/ g = Len(fw_peq) + 1
      <3>1. Len(fw_peq) \in Nat /\ g \in 1 .. Len(fw_peq) + 1
        BY <1>6, IdTypes
      <3> QED
        BY <3>1
    <2> QED
      BY <2>2, <2>3, <2>4
  <1> QED
    BY <1>7, <1>8, <1>9, <1>10 DEF OrderInv

\* What a reset throws away is neither delivered nor on its way.
LEMMA OrderReset ==
    ASSUME TypeOK, OrderInv, TransmitterReset
    PROVE  OrderInv'
  <1>1. /\ dropped' = dropped \cup Ids(Backlog)
        /\ UNCHANGED <<fw_peq, sent, delivered>>
        /\ Backlog' = <<>>
    BY DEF TransmitterReset, channel, Backlog
  <1>2. Len(Backlog') = 0
    BY <1>1, EmptySeq
  <1>3. ASSUME NEW k \in Ids(Backlog)
        PROVE  /\ k <= sent
               /\ \A n \in 1 .. Len(delivered) : delivered[n] # k
               /\ \A f \in 1 .. Len(fw_peq) : \A n \in 1 .. Len(fw_peq[f]) : fw_peq[f][n].id # k
    <2>1. PICK m \in 1 .. Len(Backlog) : k = Backlog[m].id
      BY DEF Ids
    <2>2. k <= sent
      BY <2>1 DEF OrderInv, BacklogOrder, Live
    <2>3. \A n \in 1 .. Len(delivered) : delivered[n] # k
      BY <2>1, IdTypes DEF OrderInv, BacklogOrder, DeliveredBefore
    <2>4. \A f \in 1 .. Len(fw_peq) : \A n \in 1 .. Len(fw_peq[f]) : fw_peq[f][n].id # k
      BY <2>1, IdTypes DEF OrderInv, FlitOrder, Precede
    <2> QED
      BY <2>2, <2>3, <2>4
  <1>4. HistoryOrder'
    BY <1>1, <1>3 DEF OrderInv, HistoryOrder, DeliveredInOrder
  <1>5. BacklogOrder'
    BY <1>2 DEF BacklogOrder, Increasing, Live, DeliveredBefore
  <1>6. FlitOrder'
    <2> SUFFICES ASSUME NEW f \in 1 .. Len(fw_peq)
                 PROVE  /\ Increasing(fw_peq[f]) /\ Live(fw_peq[f])'
                        /\ DeliveredBefore(fw_peq[f]) /\ Precede(fw_peq[f], Backlog')
      BY <1>1 DEF FlitOrder, DeliveredBefore
    <2>1. Live(fw_peq[f])'
      BY <1>1, <1>3 DEF OrderInv, FlitOrder, Live
    <2>2. Precede(fw_peq[f], Backlog')
      BY <1>2 DEF Precede
    <2> QED
      BY <2>1, <2>2 DEF OrderInv, FlitOrder
  <1>7. ChannelOrder'
    BY <1>1 DEF OrderInv, ChannelOrder
  <1> QED
    BY <1>4, <1>5, <1>6, <1>7 DEF OrderInv

\* The packets of the first flit are the next ones to deliver.
LEMMA OrderChannelFw ==
    ASSUME TypeOK, OrderInv, ChannelFw
    PROVE  OrderInv'
  <1> DEFINE flit == Head(fw_peq)
             ids == [n \in 1 .. Len(flit) |-> flit[n].id]
             D == Len(delivered)
  <1>1. /\ fw_peq # <<>> /\ fw_peq' = Tail(fw_peq)
        /\ delivered' = delivered \o ids
        /\ UNCHANGED <<sent, dropped, pkt_peq, pending_pkt>>
    BY DEF ChannelFw, tx
  <1>2. Backlog' = Backlog
    BY <1>1 DEF Backlog
  <1>3. /\ 1 \in 1 .. Len(fw_peq) /\ flit = fw_peq[1]
        /\ Len(fw_peq') = Len(fw_peq) - 1
        /\ \A f \in 1 .. Len(fw_peq') : fw_peq'[f] = fw_peq[f + 1]
    <2>1. fw_peq \in Seq(Seq(Packets))
      BY DEF TypeOK
    <2>2. Len(fw_peq) \in Nat \ {0}
      BY <1>1, <2>1, EmptySeq
    <2> QED
      BY <1>1, <2>1, <2>2, HeadTailProperties
  <1>4. /\ Len(flit) \in Nat
        /\ \A n \in 1 .. Len(flit) : flit[n].id \in Nat /\ ids[n] = flit[n].id
    BY <1>3, IdTypes
  <1>5. /\ Increasing(flit) /\ Live(flit) /\ DeliveredBefore(flit)
        /\ Precede(flit, Backlog)
        /\ \A f \in 1 .. Len(fw_peq') : Precede(flit, fw_peq'[f])
    <2>1. \A f \in 1 .. Len(fw_peq') : f + 1 \in 1 .. Len(fw_peq) /\ 1 < f + 1
      BY <1>3, IdTypes
    <2>2. \A f \in 1 .. Len(fw_peq') : Precede(flit, fw_peq'[f])
      BY <1>3, <2>1 DEF OrderInv, ChannelOrder
    <2> QED
      BY <1>3, <2>2 DEF OrderInv, FlitOrder
  <1> HIDE DEF flit
  <1>6. ids \in Seq(Nat) /\ Len(ids) = Len(flit)
    BY <1>4, IsASeq
  <1>7. delivered \in Seq(Nat)
    BY CreditFacts DEF TypeOK
  <1> HIDE DEF ids
  <1>8. /\ Len(delivered') = D + Len(flit)
        /\ \A n \in 1 .. D : delivered'[n] = delivered[n]
        /\ \A n \in 1 .. Len(flit) : delivered'[D + n] = flit[n].id
    <2>1. /\ Len(delivered') = D + Len(ids)
          /\ \A n \in 1 .. D + Len(ids) :
                 delivered'[n] = IF n <= D THEN delivered[n] ELSE ids[n - D]
      <3>1. /\ Len(delivered \o ids) = Len(delivered) + Len(ids)
            /\ \A n \in 1 .. Len(delivered) + Len(ids) :
                   (delivered \o ids)[n] = IF n <= Len(delivered) THEN delivered[n]
                                           ELSE ids[n - Len(delivered)]
        BY <1>6, <1>7, ConcatProperties
      <3> QED
        BY <1>1, <3>1
    <2>2. D \in Nat
      BY IdTypes
    <2> HIDE DEF D
    <2>3. ASSUME NEW n \in 1 .. D PROVE delivered'[n] = delivered[n]
      BY <1>4, <1>6, <2>1, <2>2
    <2>4. ASSUME NEW n \in 1 .. Len(flit) PROVE delivered'[D + n] = flit[n].id
      <3>1. D + n \in 1 .. D + Len(ids) /\ ~(D + n <= D) /\ (D + n) - D = n
        BY <1>4, <1>6, <2>2
      <3> QED
        BY <1>4, <2>1, <3>1
    <2> QED
      BY <1>6, <2>1, <2>3, <2>4
  <1>9. ASSUME NEW n \in 1 .. Len(delivered')
        PROVE  \/ n \in 1 .. D /\ delivered'[n] = delivered[n]
               \/ \E m \in 1 .. Len(flit) : n = D + m /\ delivered'[n] = flit[m].id
    <2>1. D \in Nat
      BY IdTypes
    <2>2. (n \in 1 .. D \/ n - D \in 1 .. Len(flit)) /\ n = D + (n - D)
      <3> HIDE DEF D
      <3> QED
        BY <1>4, <1>8, <2>1
    <2> QED
      BY <1>8, <2>1, <2>2
  <1>10. HistoryOrder'
    <2>1. ASSUME NEW m \in 1 .. Len(delivered'), NEW n \in 1 .. Len(delivered'), m < n
          PROVE  delivered'[m] < delivered'[n]
      <3>1. D \in Nat
        BY IdTypes
      <3> HIDE DEF D
      <3>2. CASE n \in 1 .. D /\ delivered'[n] = delivered[n]
        <4>1. m \in 1 .. D /\ delivered'[m] = delivered[m]
          BY <1>4, <1>9, <2>1, <3>1, <3>2
        <4> QED
          BY <2>1, <3>2, <4>1 DEF OrderInv, HistoryOrder, DeliveredInOrder, D
      <3>3. ASSUME NEW k \in 1 .. Len(flit), n = D + k, delivered'[n] = flit[k].id
            PROVE  delivered'[m] < delivered'[n]
        <4>1. CASE m \in 1 .. D /\ delivered'[m] = delivered[m]
          BY <1>5, <3>3, <4>1 DEF DeliveredBefore, D
        <4>2. ASSUME NEW j \in 1 .. Len(flit), m = D + j, delivered'[m] = flit[j].id
              PROVE  delivered'[m] < delivered'[n]
          <5>1. j < k
            BY <1>4, <2>1, <3>1, <3>3, <4>2
          <5> QED
            BY <1>5, <3>3, <4>2, <5>1 DEF Increasing
        <4> QED
          BY <1>9, <4>1, <4>2
      <3> QED
        BY <1>9, <3>2, <3>3
    <2>2. ASSUME NEW n \in 1 .. Len(delivered')
          PROVE  delivered'[n] \notin dropped /\ delivered'[n] <= sent
      BY <1>5, <1>9 DEF OrderInv, HistoryOrder, DeliveredInOrder, Live
    <2> QED
      BY <1>1, <2>1, <2>2 DEF OrderInv, HistoryOrder, DeliveredInOrder
  <1>11. BacklogOrder'
    <2>1. DeliveredBefore(Backlog)'
      BY <1>2, <1>5, <1>9 DEF OrderInv, BacklogOrder, DeliveredBefore, Precede
    <2> QED
      BY <1>1, <1>2, <2>1 DEF OrderInv, BacklogOrder, Live
  <1>12. FlitOrder'
    <2> SUFFICES ASSUME NEW f \in 1 .. Len(fw_peq')
                 PROVE  /\ Increasing(fw_peq'[f]) /\ Live(fw_peq'[f])
                        /\ DeliveredBefore(fw_peq[f])' /\ Precede(fw_peq'[f], Backlog)
      BY <1>1, <1>2 DEF FlitOrder, Live
    <2>1. f + 1 \in 1 .. Len(fw_peq) /\ fw_peq'[f] = fw_peq[f + 1]
      BY <1>3, IdTypes
    <2>2. /\ Increasing(fw_peq'[f]) /\ Live(fw_peq'[f]) /\ DeliveredBefore(fw_peq'[f])
          /\ Precede(fw_peq'[f], Backlog)
      BY <2>1 DEF OrderInv, FlitOrder
    <2>3. DeliveredBefore(fw_peq[f])'
      BY <1>5, <1>9, <2>2 DEF DeliveredBefore, Precede
    <2> QED
      BY <2>2, <2>3
  <1>13. ChannelOrder'
    <2>1. ASSUME NEW f \in 1 .. Len(fw_peq'), NEW g \in 1 .. Len(fw_peq'), f < g
          PROVE  Precede(fw_peq'[f], fw_peq'[g])
      <3>1. f + 1 \in 1 .. Len(fw_peq) /\ g + 1 \in 1 .. Len(fw_peq) /\ f + 1 < g + 1
        BY <1>3, <2>1, IdTypes
      <3> QED
        BY <1>3, <3>1 DEF OrderInv, ChannelOrder
    <2> QED
      BY <2>1 DEF ChannelOrder
  <1> QED
    BY <1>10, <1>11, <1>12, <1>13 DEF OrderInv

\* The other steps leave packets alone.
LEMMA OrderUnchanged == OrderInv /\ UNCHANGED orderVars => OrderInv'
  BY DEF OrderInv, orderVars, HistoryOrder, DeliveredInOrder, BacklogOrder, FlitOrder,
         ChannelOrder, Increasing, Precede, Live, DeliveredBefore, Backlog

\* Every step keeps the order.
LEMMA OrderStep == TypeOK /\ OrderInv /\ [Next]_vars => OrderInv'
  <1> SUFFICES ASSUME TypeOK, OrderInv, [Next]_vars PROVE OrderInv'
    OBVIOUS
  <1>1. CASE HandleReceivedCredits \/ ChannelBw
    BY <1>1, OrderUnchanged DEF HandleReceivedCredits, ChannelBw, orderVars, channel, history
  <1>2. CASE ReceiverClock \/ ReceiverReset \/ HandleReturnedCredits
    BY <1>2, OrderUnchanged DEF ReceiverClock, ReceiverReset, HandleReturnedCredits,
       orderVars, tx, channel, history
  <1>3. CASE EnterReset \/ LeaveReset
    BY <1>3, OrderUnchanged DEF EnterReset, LeaveReset, orderVars, tx, channel
  <1>4. CASE UNCHANGED vars
    BY <1>4, OrderUnchanged DEF vars, orderVars, tx, channel, history
  <1> QED
    BY <1>1, <1>2, <1>3, <1>4, OrderSend, OrderTransmit, OrderReset, OrderChannelFw DEF Next

\* Nothing has been sent at first.
LEMMA OrderInit == Init => OrderInv
  <1> SUFFICES ASSUME Init PROVE OrderInv
    OBVIOUS
  <1>1. Len(delivered) = 0 /\ Len(fw_peq) = 0 /\ Len(Backlog) = 0 /\ dropped = {}
    BY EmptySeq DEF Init, Backlog
  <1> QED
    BY <1>1 DEF OrderInv, HistoryOrder, DeliveredInOrder, BacklogOrder, FlitOrder,
       ChannelOrder, Increasing, Live, DeliveredBefore

\* Packets are handed on in the order they were sent, none twice and none that a
\* reset threw away, whatever sizes they have and however they are cut.
THEOREM Order == Spec => []DeliveredInOrder
  <1>1. OrderInv => DeliveredInOrder
    BY DEF OrderInv, HistoryOrder
  <1> QED
    BY <1>1, OrderInit, OrderStep, TypeCorrect, PTL DEF Spec
=============================================================================
