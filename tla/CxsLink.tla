------------------------------ MODULE CxsLink -------------------------------
(***************************************************************************)
(* The CXS link of interfaces/cxs/cxs_tlm.h: cxs_transmitter packs packets  *)
(* into flits and spends a credit per flit, cxs_channel carries flits one   *)
(* way and credits the other, cxs_receiver hands the packets on and returns *)
(* the credits.                                                             *)
(*                                                                          *)
(* The three modules are SystemC methods: each action is one method.  The   *)
(* two sides may be clocked differently and the channel has any delay, so   *)
(* the methods interleave freely; a peq whose entries are due in the order  *)
(* they were notified is a queue.                                           *)
(***************************************************************************)
EXTENDS Integers, Sequences, FiniteSets

CONSTANTS
    Sizes,          \* packet sizes in bytes
    BucketSize,     \* BUCKET_SIZE: bytes per bucket
    Buckets,        \* CXSMAXPKTPERFLIT: buckets per flit
    MaxCredit,      \* max_credit of the receiver
    BurstLen,       \* burst_len of the transmitter
    UInt,           \* number of values of unsigned
    SizeT,          \* number of values of size_t
    MaxPackets,     \* bound: packets sent
    MaxResets       \* bound: resets after the first

ASSUME SizeAssumption ==
    /\ BucketSize \in Nat \ {0} /\ Buckets \in Nat \ {0}
    /\ UInt \in Nat /\ SizeT \in Nat /\ UInt + BucketSize <= SizeT
    /\ Sizes \subseteq 0 .. UInt - 1
ASSUME CreditAssumption ==
    BurstLen \in Nat \ {0} /\ MaxCredit \in Nat /\ BurstLen <= MaxCredit
ASSUME BoundAssumption ==
    MaxPackets \in Nat /\ MaxResets \in Nat

Packets == [id : 1 .. MaxPackets, size : Sizes]
NoPacket == [id |-> 0, size |-> 0]

VARIABLES
    rst_i,                  \* the reset input of both sides
    pkt_peq,                \* transmitter: packets that wait to be sent
    pending_pkt,            \* transmitter: the packet cut at the end of a flit
    transfered_pkt_bytes,   \* transmitter: how much of it has been sent
    available_credits,      \* transmitter: credits it may spend
    received_credits,       \* transmitter: credits that arrived in this delta
    burst_credits,          \* transmitter: credits put aside for this burst
    fw_peq,                 \* channel: flits, as the packets that end in them
    bw_peq,                 \* channel: number of credits
    rx_credits,             \* receiver: available_credits, to be given out
    returned_credits,       \* receiver: credits of flits taken in this delta
    sent,                   \* number of packets handed to the transmitter
    delivered,              \* history: ids of the packets handed on
    dropped,                \* history: ids of the packets a reset threw away
    surplus,                \* history: burst_credits that outlived the last reset
    resets

tx == <<pkt_peq, pending_pkt, transfered_pkt_bytes, available_credits,
        received_credits, burst_credits>>
channel == <<fw_peq, bw_peq>>
rx == <<rx_credits, returned_credits>>
history == <<sent, delivered, dropped, surplus, resets>>
vars == <<rst_i, tx, channel, rx, history>>

\* Construction leaves everything empty; the reset input is active first, as
\* without a reset the receiver has no credits to give.
Init ==
    /\ rst_i = TRUE
    /\ pkt_peq = <<>> /\ pending_pkt = NoPacket /\ transfered_pkt_bytes = 0
    /\ available_credits = 0 /\ received_credits = 0 /\ burst_credits = 0
    /\ fw_peq = <<>> /\ bw_peq = 0
    /\ rx_credits = 0 /\ returned_credits = 0
    /\ sent = 0 /\ delivered = <<>> /\ dropped = {}
    /\ surplus = 0 /\ resets = 0

-----------------------------------------------------------------------------
\* The environment hands a packet to nb_transport_fw of the transmitter.
Send(s) ==
    /\ sent < MaxPackets
    /\ sent' = sent + 1
    /\ pkt_peq' = Append(pkt_peq, [id |-> sent + 1, size |-> s])
    /\ UNCHANGED <<rst_i, pending_pkt, transfered_pkt_bytes, available_credits,
                   received_credits, burst_credits, channel, rx, delivered,
                   dropped, surplus, resets>>

BacklogPendingLast ==
    IF pending_pkt = NoPacket THEN pkt_peq ELSE Append(pkt_peq, pending_pkt)

\* The packets the transmitter still has to send, the cut one first.
Backlog == IF pending_pkt = NoPacket THEN pkt_peq ELSE <<pending_pkt>> \o pkt_peq

BucketedSize(bytes) == ((bytes + BucketSize - 1) % SizeT) \div BucketSize

\* transfered_pkt_bytes outlives a reset in the middle of a packet: for a shorter
\* packet the difference, a size_t, wraps around.
RemainingBytes(n) ==
    (Backlog[n].size - (IF n = 1 THEN transfered_pkt_bytes ELSE 0)) % SizeT

\* UsedBuckets[n]: next_bucket after the first n packets of the backlog
UsedBuckets ==
    LET used[n \in 0 .. Len(Backlog)] ==
            IF n = 0 THEN 0 ELSE used[n - 1] + BucketedSize(RemainingBytes(n))
    IN  used

\* The number of packets that end in the next flit.
Fitting == Cardinality({n \in 1 .. Len(Backlog) : UsedBuckets[n] <= Buckets})

\* Not the early return of clock(): there are packets and credits.
MayTransmit == /\ Backlog # <<>>
               /\ burst_credits # 0 \/ available_credits >= BurstLen

\* A flit costs one credit of the burst; a new burst takes burst_len of them.
Spend ==
    IF burst_credits = 0
    THEN /\ available_credits' = available_credits - BurstLen
         /\ burst_credits' = BurstLen - 1
    ELSE /\ burst_credits' = burst_credits - 1
         /\ UNCHANGED available_credits

CutForgetsPrefix ==
    IF Fitting = Len(Backlog)
    THEN pkt_peq' = <<>> /\ pending_pkt' = NoPacket /\ transfered_pkt_bytes' = 0
    ELSE /\ pkt_peq' = SubSeq(Backlog, Fitting + 2, Len(Backlog))
         /\ pending_pkt' = Backlog[Fitting + 1]
         /\ transfered_pkt_bytes' =
                ((Buckets - UsedBuckets[Fitting]) * BucketSize) % UInt

\* The packet that does not fit is cut and continues in the next flit.
Cut ==
    IF Fitting = Len(Backlog)
    THEN pkt_peq' = <<>> /\ pending_pkt' = NoPacket /\ transfered_pkt_bytes' = 0
    ELSE /\ pkt_peq' = SubSeq(Backlog, Fitting + 2, Len(Backlog))
         /\ pending_pkt' = Backlog[Fitting + 1]
         /\ transfered_pkt_bytes' =
                ((IF Fitting = 0 THEN transfered_pkt_bytes ELSE 0)
                    + (Buckets - UsedBuckets[Fitting]) * BucketSize) % UInt

\* cxs_transmitter::clock without reset
Transmit ==
    /\ ~rst_i /\ MayTransmit
    /\ fw_peq' = Append(fw_peq, SubSeq(Backlog, 1, Fitting))
    /\ Cut
    /\ Spend
    /\ UNCHANGED <<rst_i, received_credits, bw_peq, rx, history>>

Ids(q) == {q[n].id : n \in 1 .. Len(q)}

\* cxs_transmitter::clock with reset
TransmitterReset ==
    /\ rst_i
    /\ dropped' = dropped \cup Ids(Backlog)
    /\ available_credits' = 0
    /\ pkt_peq' = <<>> /\ pending_pkt' = NoPacket
    /\ UNCHANGED <<rst_i, transfered_pkt_bytes, received_credits, burst_credits,
                   channel, rx, sent, delivered, surplus, resets>>

\* cxs_transmitter::handle_received_credits
HandleReceivedCredits ==
    /\ received_credits > 0
    /\ available_credits' = available_credits + received_credits
    /\ received_credits' = 0
    /\ UNCHANGED <<rst_i, pkt_peq, pending_pkt, transfered_pkt_bytes,
                   burst_credits, channel, rx, history>>

-----------------------------------------------------------------------------
\* cxs_channel::fw, and in it nb_transport_fw of the receiver, which returns
\* the credit and hands on the packets that end in the flit.
ChannelFw ==
    /\ fw_peq # <<>>
    /\ fw_peq' = Tail(fw_peq)
    /\ returned_credits' = returned_credits + 1
    /\ delivered' = delivered \o [n \in 1 .. Len(Head(fw_peq)) |->
                                      Head(fw_peq)[n].id]
    /\ UNCHANGED <<rst_i, tx, bw_peq, rx_credits, sent, dropped, surplus, resets>>

\* cxs_channel::bw, and in it nb_transport_bw of the transmitter
ChannelBw ==
    /\ bw_peq > 0
    /\ bw_peq' = bw_peq - 1
    /\ received_credits' = received_credits + 1
    /\ UNCHANGED <<rst_i, pkt_peq, pending_pkt, transfered_pkt_bytes,
                   available_credits, burst_credits, fw_peq, rx, history>>

ReceiverClockKeeps ==
    /\ ~rst_i /\ rx_credits > 0
    /\ bw_peq' = bw_peq + 1
    /\ UNCHANGED <<rst_i, tx, fw_peq, rx, history>>

\* cxs_receiver::clock without reset: gives out one credit
ReceiverClock ==
    /\ ~rst_i /\ rx_credits > 0
    /\ bw_peq' = bw_peq + 1
    /\ rx_credits' = rx_credits - 1
    /\ UNCHANGED <<rst_i, tx, fw_peq, returned_credits, history>>

\* cxs_receiver::clock with reset
ReceiverReset ==
    /\ rst_i
    /\ rx_credits' = MaxCredit
    /\ UNCHANGED <<rst_i, tx, channel, returned_credits, history>>

\* cxs_receiver::handle_received_credits
HandleReturnedCredits ==
    /\ returned_credits > 0
    /\ rx_credits' = rx_credits + returned_credits
    /\ returned_credits' = 0
    /\ UNCHANGED <<rst_i, tx, channel, history>>

-----------------------------------------------------------------------------
\* The environment resets both sides, in the middle of a burst or a packet, too.
EnterReset ==
    /\ ~rst_i /\ resets < MaxResets
    /\ rst_i' = TRUE
    /\ resets' = resets + 1
    /\ UNCHANGED <<tx, channel, rx, sent, delivered, dropped, surplus>>

\* The reset lasts until the channel has drained and both sides have seen it.
LeaveReset ==
    /\ rst_i
    /\ fw_peq = <<>> /\ bw_peq = 0 /\ received_credits = 0 /\ returned_credits = 0
    /\ available_credits = 0 /\ rx_credits = MaxCredit
    /\ Backlog = <<>>
    /\ rst_i' = FALSE
    /\ surplus' = burst_credits
    /\ UNCHANGED <<tx, channel, rx, sent, delivered, dropped, resets>>

Next ==
    \/ \E s \in Sizes : Send(s)
    \/ Transmit \/ TransmitterReset \/ HandleReceivedCredits
    \/ ChannelFw \/ ChannelBw
    \/ ReceiverClock \/ ReceiverReset \/ HandleReturnedCredits
    \/ EnterReset \/ LeaveReset

Spec == Init /\ [][Next]_vars

\* The clocks tick, the kernel runs triggered methods, a reset ends.
Fairness ==
    /\ WF_vars(Transmit) /\ WF_vars(TransmitterReset) /\ WF_vars(HandleReceivedCredits)
    /\ WF_vars(ChannelFw) /\ WF_vars(ChannelBw)
    /\ WF_vars(ReceiverClock) /\ WF_vars(ReceiverReset) /\ WF_vars(HandleReturnedCredits)
    /\ WF_vars(LeaveReset)

FairSpec == Spec /\ Fairness

-----------------------------------------------------------------------------
\* (transfered_pkt_bytes is left out: its type depends on what the recursive
\* function UsedBuckets computes.)
TypeOK ==
    /\ rst_i \in BOOLEAN
    /\ pkt_peq \in Seq(Packets)
    /\ pending_pkt \in Packets \cup {NoPacket}
    /\ available_credits \in Nat /\ received_credits \in Nat
    /\ burst_credits \in 0 .. BurstLen - 1
    /\ fw_peq \in Seq(Seq(Packets))
    /\ bw_peq \in Nat
    /\ rx_credits \in Nat /\ returned_credits \in Nat
    /\ sent \in 0 .. MaxPackets
    /\ delivered \in Seq(1 .. MaxPackets)
    /\ dropped \subseteq 1 .. MaxPackets
    /\ surplus \in 0 .. BurstLen - 1
    /\ resets \in 0 .. MaxResets

TransmitterCredits == available_credits + received_credits + burst_credits
ChannelCredits == Len(fw_peq) + bw_peq
ReceiverCredits == rx_credits + returned_credits

\* Outside a reset no credit is lost or made up: what the transmitter owns, what
\* travels as credit or as flit and what the receiver still has to give adds up
\* to max_credit, plus what the last reset left in burst_credits, which clock()
\* does not clear.  That surplus does not grow from reset to reset.
CreditsConserved ==
    ~rst_i => TransmitterCredits + ChannelCredits + ReceiverCredits = MaxCredit + surplus

\* Packets are handed on in the order they were sent, none twice, whatever way
\* they are cut into flits, and none that a reset threw away.
DeliveredInOrder ==
    /\ \A m, n \in 1 .. Len(delivered) : m < n => delivered[m] < delivered[n]
    /\ \A n \in 1 .. Len(delivered) : delivered[n] \notin dropped

\* A reset has left more transferred bytes than the next packet has.
Overrun == Backlog # <<>> /\ transfered_pkt_bytes > Backlog[1].size

\* A packet that was sent is handed on, unless a reset throws it away: the link
\* does not run out of credits, and cut packets come to an end.  Only after an
\* overrun the transmitter may send flits for ever in which no packet ends.
PacketArrives ==
    \A k \in 1 .. MaxPackets :
        sent >= k ~> \/ k \in dropped
                     \/ \E n \in 1 .. Len(delivered) : delivered[n] = k
                     \/ Overrun
=============================================================================
