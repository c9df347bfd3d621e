----------------------------- MODULE SpscQueue ------------------------------
(***************************************************************************)
(* rigtorp::SPSCQueue (common/rigtorp/SPSCQueue.h), the wait-free queue that *)
(* carries every hand-over between threads in this library: tasks of         *)
(* util::thread_syncronizer, time stamps and tasks of the multi-threaded     *)
(* quantum keeper, time stamps of the TCP bridge, scc::async_queue.          *)
(*                                                                           *)
(* One action per access to shared memory.  An acquire load of the index     *)
(* that the other thread stores may return any value that index had since    *)
(* the loading thread last observed it (coherence allows no older one).      *)
(***************************************************************************)
EXTENDS Integers, Sequences

CONSTANTS
    Values,         \* what is pushed
    Capacity,       \* the constructor's argument
    Raw             \* an element slot that holds no object

\* The constructor: at least one element, and one slack slot.
N == (IF Capacity < 1 THEN 1 ELSE Capacity) + 1

ASSUME CapacityAssumption == Capacity \in Nat
ASSUME RawAssumption == Raw \notin Values

Slots == 0 .. N - 1

VARIABLES
    slots,          \* element storage
    writeIdx,       \* stored by the producer, loaded by both
    readIdxCache,   \* the producer's last load of readIdx
    ppc, value,     \* producer: where it is, and what it pushes
    readIdx,        \* stored by the consumer, loaded by both
    writeIdxCache,  \* the consumer's last load of writeIdx in front()
    seen,           \* the consumer's latest observation of writeIdx
    cpc             \* consumer: where it is

producer == <<writeIdx, readIdxCache, ppc, value>>
consumer == <<readIdx, writeIdxCache, seen, cpc>>
vars == <<slots, producer, consumer>>

Init ==
    /\ slots = [i \in Slots |-> Raw]
    /\ writeIdx = 0 /\ readIdxCache = 0
    /\ readIdx = 0 /\ writeIdxCache = 0 /\ seen = 0
    /\ ppc = "idle" /\ cpc = "idle"
    /\ value \in Values

-----------------------------------------------------------------------------
Following(i) == IF i + 1 = N THEN 0 ELSE i + 1

\* The steps that an index takes to get from a to b.
Dist(a, b) == IF a <= b THEN b - a ELSE b - a + N

\* What a load may return: observed is the loader's last observation of the
\* index and current its latest value.
Loadable(observed, current) ==
    {i \in Slots : Dist(observed, i) <= Dist(observed, current)}

\* emplace(v) with "push", try_emplace(v) with "try": is there room, as far as
\* the cached read index tells?
EmplaceIgnoresSlack(how, v) ==
    /\ ppc = "idle"
    /\ value' = v
    /\ ppc' = IF writeIdx = readIdxCache /\ slots[writeIdx] # Raw THEN how ELSE "construct"
    /\ UNCHANGED <<slots, writeIdx, readIdxCache, consumer>>

Emplace(how, v) ==
    /\ ppc = "idle"
    /\ value' = v
    /\ ppc' = IF Following(writeIdx) = readIdxCache THEN how ELSE "construct"
    /\ UNCHANGED <<slots, writeIdx, readIdxCache, consumer>>

\* readIdxCache_ = readIdx_.load(acquire): push() spins until there is room,
\* try_push() gives up
LoadReadIdxTrusts(r) ==
    /\ ppc \in {"push", "try"}
    /\ readIdxCache' = r
    /\ ppc' = "construct"
    /\ UNCHANGED <<slots, writeIdx, value, consumer>>

LoadReadIdxOnce(r) ==
    /\ ppc \in {"push", "try"}
    /\ ppc' = IF Following(writeIdx) # readIdxCache THEN "construct"
              ELSE IF ppc = "push" THEN "push" ELSE "idle"
    /\ UNCHANGED <<slots, writeIdx, readIdxCache, value, consumer>>

LoadReadIdx(r) ==
    /\ ppc \in {"push", "try"}
    /\ readIdxCache' = r
    /\ ppc' = IF Following(writeIdx) # r THEN "construct"
              ELSE IF ppc = "push" THEN "push" ELSE "idle"
    /\ UNCHANGED <<slots, writeIdx, value, consumer>>

\* new(&slots_[writeIdx]) T(v)
Construct ==
    /\ ppc = "construct"
    /\ slots' = [slots EXCEPT ![writeIdx] = value]
    /\ ppc' = "publish"
    /\ UNCHANGED <<writeIdx, readIdxCache, value, consumer>>

\* writeIdx_.store(next, release)
PublishNoWrap ==
    /\ ppc = "publish"
    /\ writeIdx' = writeIdx + 1
    /\ ppc' = "idle"
    /\ UNCHANGED <<slots, readIdxCache, value, consumer>>

Publish ==
    /\ ppc = "publish"
    /\ writeIdx' = Following(writeIdx)
    /\ ppc' = "idle"
    /\ UNCHANGED <<slots, readIdxCache, value, consumer>>

\* size() by the consumer, which loads writeIdx and its own readIdx
Size(w) ==
    /\ cpc = "idle"
    /\ seen' = w
    /\ cpc' = IF Dist(readIdx, w) > 0 THEN "counted" ELSE "idle"
    /\ UNCHANGED <<slots, readIdx, writeIdxCache, producer>>

\* front() on an element that the cached write index already covers
FrontCached ==
    /\ cpc \in {"idle", "counted"}
    /\ readIdx # writeIdxCache
    /\ cpc' = "front"
    /\ UNCHANGED <<slots, readIdx, writeIdxCache, seen, producer>>

\* front() that loads writeIdx; it returns nullptr if that is still readIdx
FrontLoadStale(w) ==
    /\ cpc \in {"idle", "counted"}
    /\ readIdx = writeIdxCache
    /\ seen' = w /\ writeIdxCache' = writeIdxCache
    /\ cpc' = IF writeIdxCache = readIdx THEN "idle" ELSE "front"
    /\ UNCHANGED <<slots, readIdx, producer>>

FrontLoad(w) ==
    /\ cpc \in {"idle", "counted"}
    /\ readIdx = writeIdxCache
    /\ seen' = w /\ writeIdxCache' = w
    /\ cpc' = IF w = readIdx THEN "idle" ELSE "front"
    /\ UNCHANGED <<slots, readIdx, producer>>

\* pop(): slots_[readIdx].~T()
Destroy ==
    /\ cpc = "front"
    /\ slots' = [slots EXCEPT ![readIdx] = Raw]
    /\ cpc' = "popped"
    /\ UNCHANGED <<readIdx, writeIdxCache, seen, producer>>

\* pop(): readIdx_.store(next, release)
Release ==
    /\ cpc = "popped"
    /\ readIdx' = Following(readIdx)
    /\ cpc' = "idle"
    /\ UNCHANGED <<slots, writeIdxCache, seen, producer>>

Next ==
    \/ \E v \in Values, how \in {"push", "try"} : Emplace(how, v)
    \/ \E r \in Loadable(readIdxCache, readIdx) : LoadReadIdx(r)
    \/ Construct
    \/ Publish
    \/ \E w \in Loadable(seen, writeIdx) : Size(w)
    \/ FrontCached
    \/ \E w \in Loadable(seen, writeIdx) : FrontLoad(w)
    \/ Destroy
    \/ Release

Spec == Init /\ [][Next]_vars

\* Both threads run, stores become visible in finite time, the consumer drains.
FairSpec ==
    /\ Spec
    /\ WF_vars(LoadReadIdx(readIdx)) /\ WF_vars(Construct) /\ WF_vars(Publish)
    /\ WF_vars(FrontCached) /\ WF_vars(FrontLoad(writeIdx))
    /\ WF_vars(Destroy) /\ WF_vars(Release)

-----------------------------------------------------------------------------
\* The index of the first element that is still alive, and the number of those
\* that are published.
First == IF cpc = "popped" THEN Following(readIdx) ELSE readIdx
Count == Dist(First, writeIdx)
Place(i) == IF First + i < N THEN First + i ELSE First + i - N

\* The elements in the queue, oldest first.
Items == [i \in 1 .. Count |-> slots[Place(i - 1)]]

\* Type correctness of the indices, of the storage and of the two threads.
TypeOK ==
    /\ slots \in [Slots -> Values \cup {Raw}]
    /\ writeIdx \in Slots /\ readIdxCache \in Slots
    /\ readIdx \in Slots /\ writeIdxCache \in Slots /\ seen \in Slots
    /\ ppc \in {"idle", "push", "try", "construct", "publish"}
    /\ cpc \in {"idle", "counted", "front", "popped"}
    /\ value \in Values

\* Neither thread enters a slot that belongs to the other: the producer never
\* constructs over a living element and front() never points to a dead one.
NoClash ==
    /\ ppc = "construct" => slots[writeIdx] = Raw
    /\ cpc = "front" => slots[readIdx] # Raw

\* Once size() told the consumer of an element, front() does not return nullptr:
\* sc_time_syncronizer::process_pending_tasks dereferences it unchecked.
FrontAfterSize == [][cpc = "counted" => cpc' # "idle"]_vars

\* The queue is a bounded first-in first-out queue: a push takes effect when
\* writeIdx is stored, a pop when the element is destroyed.
Fifo == INSTANCE BoundedFifo WITH
            Capacity <- N - 1,
            items <- Items

ImplementsFifo == Fifo!Spec

\* A push() that found the queue full gets through, if the consumer drains it.
PushCompletes == ppc = "push" ~> ppc = "idle"
=============================================================================
