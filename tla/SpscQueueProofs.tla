-------------------------- MODULE SpscQueueProofs ---------------------------
(***************************************************************************)
(* Theorems about SpscQueue for every capacity and every set of values: the  *)
(* two threads never meet in a slot, and the queue is a bounded FIFO, under  *)
(* loads that return values as old as the memory model allows.               *)
(***************************************************************************)
EXTENDS SpscQueue, SequenceTheorems, TLAPS

\* Where the indices stand on the ring: the read index is between the producer's
\* observation of it and the write index, and so on.
RingOrder ==
    /\ Dist(readIdxCache, readIdx) <= Dist(readIdxCache, writeIdx)
    /\ Dist(readIdx, writeIdxCache) <= Dist(readIdx, seen)
    /\ Dist(readIdx, seen) <= Dist(readIdx, writeIdx)

\* What the threads know at their program points.
Knowledge ==
    /\ ppc \in {"construct", "publish"} => Following(writeIdx) # readIdxCache
    /\ cpc \in {"front", "popped"} => readIdx # writeIdxCache
    /\ cpc = "counted" => readIdx # seen

\* A slot holds an object if it lies between the first element and the write
\* index, or was constructed and is about to be published.
Alive ==
    \A i \in Slots :
        slots[i] # Raw <=> \/ Dist(First, i) < Dist(First, writeIdx)
                           \/ i = writeIdx /\ ppc = "publish"

\* The object about to be published is the value being pushed.
Constructed == ppc = "publish" => slots[writeIdx] = value

Inv == TypeOK /\ RingOrder /\ Knowledge /\ Alive /\ Constructed

-----------------------------------------------------------------------------
\* The constructor leaves room for one element and the slack slot.
LEMMA RingSize == N \in Nat /\ N >= 2
  BY CapacityAssumption DEF N

\* Advancing an index stays on the ring, and distances are slots too.
LEMMA IndexFacts ==
    ASSUME NEW a \in Slots, NEW b \in Slots
    PROVE  /\ Following(a) \in Slots
           /\ Following(a) # a
           /\ Dist(a, b) \in Slots
           /\ Dist(a, b) = 0 <=> a = b
           /\ Dist(a, a) = 0
  BY RingSize DEF Slots, Following, Dist

\* Distances can be compared.
LEMMA DistNat == \A a, b \in Slots : Dist(a, b) \in Nat
  BY RingSize DEF Slots, Dist

\* Moving an index past a slot, in terms of distances.
LEMMA StepFacts ==
    ASSUME NEW a \in Slots, NEW b \in Slots
    PROVE  /\ Following(b) # a => Dist(a, Following(b)) = Dist(a, b) + 1
           /\ a # b => Dist(Following(a), b) = Dist(a, b) - 1
  BY RingSize DEF Slots, Following, Dist

\* Distances seen from different origins.
LEMMA ChainFacts ==
    ASSUME NEW a \in Slots, NEW b \in Slots, NEW c \in Slots,
           Dist(a, b) <= Dist(a, c)
    PROVE  /\ Dist(b, c) = Dist(a, c) - Dist(a, b)
           /\ \A i \in Slots : Dist(b, i) <= Dist(b, c) =>
                  /\ Dist(a, i) = Dist(a, b) + Dist(b, i)
                  /\ Dist(a, i) <= Dist(a, c)
  BY RingSize DEF Slots, Dist

\* The producer never runs into the consumer.
LEMMA NeverFullBeyondSlack ==
    ASSUME Inv, ppc \in {"construct", "publish"}
    PROVE  Following(writeIdx) # readIdx /\ Following(writeIdx) # First
  <1>1. /\ readIdx \in Slots /\ writeIdx \in Slots /\ readIdxCache \in Slots
        /\ writeIdxCache \in Slots
        /\ Following(writeIdx) # readIdxCache
        /\ Dist(readIdxCache, readIdx) <= Dist(readIdxCache, writeIdx)
    BY DEF Inv, TypeOK, RingOrder, Knowledge
  <1>2. Following(writeIdx) # readIdx
    BY <1>1, RingSize DEF Slots, Following, Dist
  <1>3. cpc = "popped" => readIdx # writeIdx
    <2>1. cpc = "popped" => Dist(readIdx, writeIdxCache) <= Dist(readIdx, writeIdx)
                            /\ readIdx # writeIdxCache
      <3>1. seen \in Slots /\ Dist(readIdx, writeIdxCache) <= Dist(readIdx, seen)
            /\ Dist(readIdx, seen) <= Dist(readIdx, writeIdx)
        BY DEF Inv, TypeOK, RingOrder
      <3> QED BY <1>1, <3>1, IndexFacts DEF Slots, Inv, Knowledge
    <2> QED BY <2>1, <1>1, IndexFacts DEF Slots
  <1>4. cpc = "popped" => Following(writeIdx) # Following(readIdx)
    BY <1>1, <1>3, RingSize DEF Slots, Following
  <1> QED BY <1>2, <1>4 DEF First

\* The consumer never runs into the producer.
LEMMA NeverEmptyAtFront ==
    ASSUME Inv
    PROVE  /\ cpc \in {"front", "popped"} => readIdx # writeIdx
           /\ cpc = "counted" => readIdx # writeIdx
  <1>1. /\ readIdx \in Slots /\ writeIdx \in Slots /\ seen \in Slots
        /\ writeIdxCache \in Slots
        /\ Dist(readIdx, writeIdxCache) <= Dist(readIdx, seen)
        /\ Dist(readIdx, seen) <= Dist(readIdx, writeIdx)
    BY DEF Inv, TypeOK, RingOrder
  <1>2. readIdx = writeIdx => readIdx = seen /\ readIdx = writeIdxCache
    BY <1>1, IndexFacts DEF Slots
  <1> QED BY <1>2 DEF Inv, Knowledge

-----------------------------------------------------------------------------
\* A new queue satisfies the invariant.
LEMMA InitInv == Init => Inv
  <1> SUFFICES ASSUME Init PROVE Inv OBVIOUS
  <1>1. 0 \in Slots BY RingSize DEF Slots
  <1>2. TypeOK BY <1>1 DEF Init, TypeOK
  <1>3. Dist(0, 0) = 0 BY <1>1, IndexFacts
  <1>4. RingOrder /\ Knowledge /\ Constructed
    BY <1>3 DEF Init, RingOrder, Knowledge, Constructed
  <1>5. Alive
    <2>1. First = 0 /\ writeIdx = 0 /\ ppc = "idle" BY DEF Init, First
    <2>2. \A i \in Slots : slots[i] = Raw BY DEF Init
    <2>3. \A i \in Slots : ~(Dist(0, i) < 0) BY <1>1, IndexFacts DEF Slots
    <2> QED BY <1>3, <2>1, <2>2, <2>3 DEF Alive
  <1> QED BY <1>2, <1>4, <1>5 DEF Inv

\* Each step of the producer keeps the invariant.
LEMMA ProducerStep ==
    ASSUME Inv,
           \/ \E v \in Values, how \in {"push", "try"} : Emplace(how, v)
           \/ \E r \in Loadable(readIdxCache, readIdx) : LoadReadIdx(r)
           \/ Construct
           \/ Publish
    PROVE  Inv'
  <1>0. /\ TypeOK /\ RingOrder /\ Knowledge /\ Alive /\ Constructed
        /\ writeIdx \in Slots /\ readIdx \in Slots /\ readIdxCache \in Slots
        /\ writeIdxCache \in Slots /\ seen \in Slots /\ First \in Slots
    BY IndexFacts DEF Inv, TypeOK, First
  <1>1. ASSUME NEW v \in Values, NEW how \in {"push", "try"}, Emplace(how, v)
        PROVE  Inv'
    <2>1. UNCHANGED <<slots, writeIdx, readIdxCache, readIdx, writeIdxCache, seen, cpc>>
          /\ ppc = "idle" /\ value' = v
          /\ ppc' = (IF Following(writeIdx) = readIdxCache THEN how ELSE "construct")
      BY <1>1 DEF Emplace, consumer
    <2>2. TypeOK' BY <1>0, <2>1 DEF TypeOK
    <2>3. RingOrder' BY <1>0, <2>1 DEF RingOrder
    <2>4. Knowledge' BY <1>0, <2>1 DEF Knowledge
    <2>5. Alive' BY <1>0, <2>1 DEF Alive, First
    <2>6. Constructed' BY <2>1 DEF Constructed
    <2> QED BY <2>2, <2>3, <2>4, <2>5, <2>6 DEF Inv
  <1>2. ASSUME NEW r \in Loadable(readIdxCache, readIdx), LoadReadIdx(r)
        PROVE  Inv'
    <2>1. /\ UNCHANGED <<slots, writeIdx, value, readIdx, writeIdxCache, seen, cpc>>
          /\ ppc \in {"push", "try"} /\ readIdxCache' = r
          /\ ppc' = (IF Following(writeIdx) # r THEN "construct"
                     ELSE IF ppc = "push" THEN "push" ELSE "idle")
      BY <1>2 DEF LoadReadIdx, consumer
    <2>2. r \in Slots /\ Dist(readIdxCache, r) <= Dist(readIdxCache, readIdx)
      BY DEF Loadable
    <2>3. TypeOK' BY <1>0, <2>1, <2>2 DEF TypeOK
    <2>4. Dist(r, readIdx) <= Dist(r, writeIdx)
      BY <1>0, <2>2, RingSize DEF RingOrder, Dist, Slots
    <2>5. RingOrder' BY <1>0, <2>1, <2>4 DEF RingOrder
    <2>6. Knowledge' BY <1>0, <2>1 DEF Knowledge
    <2>7. Alive' BY <1>0, <2>1 DEF Alive, First
    <2>8. Constructed' BY <2>1 DEF Constructed
    <2> QED BY <2>3, <2>5, <2>6, <2>7, <2>8 DEF Inv
  <1>3. CASE Construct
    <2>1. /\ UNCHANGED <<writeIdx, readIdxCache, value, readIdx, writeIdxCache, seen, cpc>>
          /\ ppc = "construct" /\ ppc' = "publish"
          /\ slots' = [slots EXCEPT ![writeIdx] = value]
      BY <1>3 DEF Construct, consumer
    <2>2. TypeOK' BY <1>0, <2>1 DEF TypeOK
    <2>3. RingOrder' BY <1>0, <2>1 DEF RingOrder
    <2>4. Knowledge' BY <1>0, <2>1 DEF Knowledge
    <2>5. slots'[writeIdx] = value /\ value # Raw
          /\ \A i \in Slots : i # writeIdx => slots'[i] = slots[i]
      BY <1>0, <2>1, RawAssumption DEF TypeOK
    <2>6. Alive'
      <3>1. First' = First BY <2>1 DEF First
      <3> QED BY <1>0, <2>1, <2>5, <3>1 DEF Alive
    <2>7. Constructed' BY <2>1, <2>5 DEF Constructed
    <2> QED BY <2>2, <2>3, <2>4, <2>6, <2>7 DEF Inv
  <1>4. CASE Publish
    <2>1. /\ UNCHANGED <<slots, readIdxCache, value, readIdx, writeIdxCache, seen, cpc>>
          /\ ppc = "publish" /\ ppc' = "idle" /\ writeIdx' = Following(writeIdx)
      BY <1>4 DEF Publish, consumer
    <2>2. TypeOK' BY <1>0, <2>1, IndexFacts DEF TypeOK
    <2>3. Following(writeIdx) # readIdx /\ Following(writeIdx) # First
          /\ Following(writeIdx) # readIdxCache
      BY <2>1, <1>0, NeverFullBeyondSlack DEF Knowledge
    <2>4. \A a \in {readIdx, First, readIdxCache} :
              Dist(a, Following(writeIdx)) = Dist(a, writeIdx) + 1
      BY <1>0, <2>3, StepFacts
    <2>5. RingOrder'
      <3>1. /\ Dist(readIdxCache, readIdx) \in Nat /\ Dist(readIdxCache, writeIdx) \in Nat
            /\ Dist(readIdx, seen) \in Nat /\ Dist(readIdx, writeIdx) \in Nat
        BY <1>0, DistNat
      <3>2. /\ Dist(readIdxCache, readIdx) <= Dist(readIdxCache, Following(writeIdx))
            /\ Dist(readIdx, seen) <= Dist(readIdx, Following(writeIdx))
        BY <1>0, <2>4, <3>1 DEF RingOrder
      <3> QED BY <1>0, <2>1, <3>2 DEF RingOrder
    <2>6. Knowledge' BY <1>0, <2>1 DEF Knowledge
    <2>7. Alive'
      <3>1. First' = First BY <2>1 DEF First
      <3>2. \A i \in Slots : Dist(First, i) < Dist(First, writeIdx) + 1
                <=> Dist(First, i) < Dist(First, writeIdx) \/ i = writeIdx
        BY <1>0, RingSize DEF Dist, Slots
      <3> QED BY <1>0, <2>1, <2>4, <3>1, <3>2 DEF Alive
    <2>8. Constructed' BY <2>1 DEF Constructed
    <2> QED BY <2>2, <2>5, <2>6, <2>7, <2>8 DEF Inv
  <1> QED BY <1>1, <1>2, <1>3, <1>4

\* Each step of the consumer keeps the invariant.
LEMMA ConsumerStep ==
    ASSUME Inv,
           \/ \E w \in Loadable(seen, writeIdx) : Size(w) \/ FrontLoad(w)
           \/ FrontCached
           \/ Destroy
           \/ Release
    PROVE  Inv'
  <1>0. /\ TypeOK /\ RingOrder /\ Knowledge /\ Alive /\ Constructed
        /\ writeIdx \in Slots /\ readIdx \in Slots /\ readIdxCache \in Slots
        /\ writeIdxCache \in Slots /\ seen \in Slots /\ First \in Slots
    BY IndexFacts DEF Inv, TypeOK, First
  <1>1. ASSUME NEW w \in Loadable(seen, writeIdx), Size(w) \/ FrontLoad(w)
        PROVE  Inv'
    <2>1. /\ UNCHANGED <<slots, writeIdx, readIdxCache, ppc, value, readIdx>>
          /\ cpc \in {"idle", "counted"} /\ seen' = w
          /\ \/ /\ writeIdxCache' = writeIdxCache
                /\ cpc' = IF Dist(readIdx, w) > 0 THEN "counted" ELSE "idle"
             \/ /\ writeIdxCache' = w
                /\ cpc' = IF w = readIdx THEN "idle" ELSE "front"
      BY <1>1 DEF Size, FrontLoad, producer
    <2>2. w \in Slots /\ Dist(seen, w) <= Dist(seen, writeIdx) BY DEF Loadable
    <2>3. TypeOK' BY <1>0, <2>1, <2>2 DEF TypeOK
    <2>4. Dist(readIdx, seen) <= Dist(readIdx, w)
          /\ Dist(readIdx, w) <= Dist(readIdx, writeIdx)
      BY <1>0, <2>2, RingSize DEF RingOrder, Dist, Slots
    <2>5. RingOrder'
      <3>1. /\ Dist(readIdx, writeIdxCache) \in Nat /\ Dist(readIdx, seen) \in Nat
            /\ Dist(readIdx, w) \in Nat
        BY <1>0, <2>2, DistNat
      <3>2. Dist(readIdx, writeIdxCache) <= Dist(readIdx, w)
            /\ Dist(readIdx, w) <= Dist(readIdx, w)
        BY <1>0, <2>4, <3>1 DEF RingOrder
      <3> QED BY <1>0, <2>1, <2>4, <3>2 DEF RingOrder
    <2>6. Knowledge'
      <3>1. Dist(readIdx, w) > 0 => readIdx # w BY <1>0, <2>2, IndexFacts
      <3> QED BY <1>0, <2>1, <3>1 DEF Knowledge
    <2>7. Alive'
      <3>1. First' = First BY <2>1 DEF First
      <3> QED BY <1>0, <2>1, <3>1 DEF Alive
    <2>8. Constructed' BY <1>0, <2>1 DEF Constructed
    <2> QED BY <2>3, <2>5, <2>6, <2>7, <2>8 DEF Inv
  <1>2. CASE FrontCached
    <2>1. /\ UNCHANGED <<slots, writeIdx, readIdxCache, ppc, value, readIdx, writeIdxCache, seen>>
          /\ cpc \in {"idle", "counted"} /\ cpc' = "front" /\ readIdx # writeIdxCache
      BY <1>2 DEF FrontCached, producer
    <2>2. First' = First BY <2>1 DEF First
    <2> QED BY <1>0, <2>1, <2>2
         DEF Inv, TypeOK, RingOrder, Knowledge, Alive, Constructed
  <1>3. CASE Destroy
    <2>1. /\ UNCHANGED <<writeIdx, readIdxCache, ppc, value, readIdx, writeIdxCache, seen>>
          /\ cpc = "front" /\ cpc' = "popped"
          /\ slots' = [slots EXCEPT ![readIdx] = Raw]
      BY <1>3 DEF Destroy, producer
    <2>2. readIdx # writeIdx BY <2>1, NeverEmptyAtFront
    <2>3. First = readIdx /\ First' = Following(readIdx) BY <2>1 DEF First, Following
    <2>4. TypeOK' BY <1>0, <2>1 DEF TypeOK
    <2>5. RingOrder' /\ Knowledge' BY <1>0, <2>1 DEF RingOrder, Knowledge
    <2>6. slots'[readIdx] = Raw /\ \A i \in Slots : i # readIdx => slots'[i] = slots[i]
      BY <1>0, <2>1 DEF TypeOK
    <2>7. \A i \in Slots :
              Dist(Following(readIdx), i) < Dist(Following(readIdx), writeIdx)
                <=> i # readIdx /\ Dist(readIdx, i) < Dist(readIdx, writeIdx)
      BY <1>0, <2>2, RingSize DEF Dist, Following, Slots
    <2>8. Alive' BY <1>0, <2>1, <2>2, <2>3, <2>6, <2>7 DEF Alive
    <2>9. Constructed' BY <1>0, <2>1, <2>2, <2>6 DEF Constructed
    <2> QED BY <2>4, <2>5, <2>8, <2>9 DEF Inv
  <1>4. CASE Release
    <2>1. /\ UNCHANGED <<slots, writeIdx, readIdxCache, ppc, value, writeIdxCache, seen>>
          /\ cpc = "popped" /\ cpc' = "idle" /\ readIdx' = Following(readIdx)
      BY <1>4 DEF Release, producer
    <2>2. readIdx # writeIdx /\ readIdx # writeIdxCache
      BY <1>0, <2>1, NeverEmptyAtFront DEF Knowledge
    <2>3. readIdx # seen
      BY <1>0, <2>2, IndexFacts DEF RingOrder, Slots
    <2>4. TypeOK' BY <1>0, <2>1, IndexFacts DEF TypeOK
    <2>5. \A b \in {writeIdx, writeIdxCache, seen} :
              Dist(Following(readIdx), b) = Dist(readIdx, b) - 1
      BY <1>0, <2>2, <2>3, StepFacts
    <2>6. Dist(readIdxCache, Following(readIdx)) <= Dist(readIdxCache, writeIdx)
      BY <1>0, <2>2, RingSize DEF RingOrder, Dist, Following, Slots
    <2>7. RingOrder'
      <3>1. /\ Dist(readIdx, writeIdxCache) \in Nat /\ Dist(readIdx, seen) \in Nat
            /\ Dist(readIdx, writeIdx) \in Nat
        BY <1>0, DistNat
      <3>2. /\ Dist(Following(readIdx), writeIdxCache) <= Dist(Following(readIdx), seen)
            /\ Dist(Following(readIdx), seen) <= Dist(Following(readIdx), writeIdx)
        BY <1>0, <2>5, <3>1 DEF RingOrder
      <3> QED BY <2>1, <2>6, <3>2 DEF RingOrder
    <2>8. Knowledge' BY <1>0, <2>1 DEF Knowledge
    <2>9. First' = First BY <2>1 DEF First, Following
    <2>10. Alive' BY <1>0, <2>1, <2>9 DEF Alive
    <2>11. Constructed' BY <1>0, <2>1 DEF Constructed
    <2> QED BY <2>4, <2>7, <2>8, <2>10, <2>11 DEF Inv
  <1> QED BY <1>1, <1>2, <1>3, <1>4

\* Every step of either thread keeps the invariant.
LEMMA NextInv == Inv /\ [Next]_vars => Inv'
  <1> SUFFICES ASSUME Inv, [Next]_vars PROVE Inv' OBVIOUS
  <1>1. CASE Next BY <1>1, ProducerStep, ConsumerStep DEF Next
  <1>2. CASE UNCHANGED vars
    <2>1. UNCHANGED <<slots, writeIdx, readIdxCache, ppc, value, readIdx, writeIdxCache, seen, cpc>>
      BY <1>2 DEF vars, producer, consumer
    <2> QED BY <2>1
         DEF Inv, TypeOK, RingOrder, Knowledge, Alive, Constructed, First
  <1> QED BY <1>1, <1>2

\* The invariant holds in every behaviour of the two threads.
LEMMA Invariance == Spec => []Inv
  BY InitInv, NextInv, PTL DEF Spec

\* The queue keeps its types; in particular no index leaves the ring.
THEOREM TypeCorrect == Spec => []TypeOK
  <1>1. Inv => TypeOK BY DEF Inv
  <1> QED BY <1>1, Invariance, PTL

\* The producer and the consumer never enter each other's slots.
THEOREM ThreadsNeverClash == Spec => []NoClash
  <1>1. Inv => NoClash
    <2> SUFFICES ASSUME Inv PROVE NoClash OBVIOUS
    <2>1. Alive /\ writeIdx \in Slots /\ readIdx \in Slots BY DEF Inv, TypeOK
    <2>2. ppc = "construct" => slots[writeIdx] = Raw
      <3>1. First \in Slots BY <2>1, IndexFacts DEF First
      <3>2. ~(Dist(First, writeIdx) < Dist(First, writeIdx))
        BY <2>1, <3>1, IndexFacts DEF Slots
      <3> QED BY <2>1, <3>2 DEF Alive
    <2>3. cpc = "front" => slots[readIdx] # Raw
      <3> SUFFICES ASSUME cpc = "front" PROVE slots[readIdx] # Raw OBVIOUS
      <3>1. First = readIdx BY DEF First
      <3>2. readIdx # writeIdx BY NeverEmptyAtFront
      <3>3. Dist(readIdx, readIdx) < Dist(readIdx, writeIdx)
        BY <2>1, <3>2, IndexFacts DEF Slots
      <3> QED BY <2>1, <3>1, <3>3 DEF Alive
    <2> QED BY <2>2, <2>3 DEF NoClash
  <1> QED BY <1>1, Invariance, PTL

\* After a size() that is not zero, front() returns an element.
THEOREM FrontFollowsSize == Spec => FrontAfterSize
  <1>1. Inv /\ [Next]_vars => [cpc = "counted" => cpc' # "idle"]_vars
    <2> SUFFICES ASSUME Inv, Next, cpc = "counted", cpc' = "idle" PROVE FALSE
      OBVIOUS
    <2>1. PICK w \in Loadable(seen, writeIdx) : FrontLoad(w)
      BY DEF Next, Emplace, LoadReadIdx, Construct, Publish, Size, FrontCached,
             Destroy, Release, consumer
    <2>2. w = readIdx /\ readIdx # seen /\ w \in Slots
          /\ Dist(seen, w) <= Dist(seen, writeIdx)
      BY <2>1 DEF FrontLoad, Loadable, Inv, Knowledge
    <2>3. /\ Dist(readIdx, seen) <= Dist(readIdx, writeIdx)
          /\ readIdx \in Slots /\ writeIdx \in Slots /\ seen \in Slots
      BY DEF Inv, RingOrder, TypeOK
    <2> QED BY <2>2, <2>3, RingSize DEF Dist, Slots
  <1> QED BY <1>1, Invariance, PTL DEF Spec, FrontAfterSize

-----------------------------------------------------------------------------
\* The places of the elements, counted from the first one.
LEMMA PlaceFacts ==
    ASSUME Inv
    PROVE  /\ First \in Slots /\ Count \in Slots
           /\ \A j \in Slots : Place(j) \in Slots /\ Dist(First, Place(j)) = j
           /\ Place(Count) = writeIdx
  <1>1. First \in Slots /\ writeIdx \in Slots BY IndexFacts DEF Inv, TypeOK, First
  <1>2. Count \in Slots BY <1>1, IndexFacts DEF Count
  <1> QED BY <1>1, <1>2, RingSize DEF Place, Dist, Slots, Count

\* The elements form a sequence of values no longer than the capacity.
LEMMA ItemsSequence ==
    ASSUME Inv
    PROVE  /\ Items \in Seq(Values)
           /\ Len(Items) = Count
           /\ Count \in Nat
           /\ \A i \in 1 .. Count : Items[i] = slots[Place(i - 1)]
  <1>1. First \in Slots /\ Count \in Slots
        /\ \A j \in Slots : Place(j) \in Slots /\ Dist(First, Place(j)) = j
    BY PlaceFacts
  <1>2. Count \in Nat /\ Count < N BY <1>1, RingSize DEF Slots
  <1>3. ASSUME NEW i \in 1 .. Count PROVE slots[Place(i - 1)] \in Values
    <2>1. i - 1 \in Slots /\ i - 1 < Count BY <1>2, RingSize DEF Slots
    <2>2. Place(i - 1) \in Slots /\ Dist(First, Place(i - 1)) < Count
      BY <1>1, <2>1
    <2>3. slots[Place(i - 1)] # Raw BY <2>2 DEF Inv, Alive, Count
    <2> QED BY <2>2, <2>3 DEF Inv, TypeOK
  <1>4. Items \in [1 .. Count -> Values] BY <1>3 DEF Items
  <1>5. Items \in Seq(Values) /\ Len(Items) = Count
    BY <1>2, <1>4, SeqDef, LenProperties
  <1> QED BY <1>2, <1>5 DEF Items

\* Steps that move neither end and leave the living elements alone do not change
\* the abstract queue.
LEMMA ItemsStutter ==
    ASSUME Inv, Inv', First' = First, writeIdx' = writeIdx,
           \A i \in Slots : i # writeIdx => slots'[i] = slots[i]
    PROVE  Items' = Items
  <1>1. Count' = Count BY DEF Count
  <1>2. \A i : Place(i)' = Place(i) BY DEF Place
  <1>3. ASSUME NEW i \in 1 .. Count PROVE slots'[Place(i - 1)] = slots[Place(i - 1)]
    <2>1. Count \in Slots /\ writeIdx \in Slots /\ First \in Slots
      BY PlaceFacts DEF Inv, TypeOK
    <2>2. i - 1 \in Slots /\ i - 1 < Count BY <2>1, RingSize DEF Slots
    <2>3. Place(i - 1) \in Slots /\ Dist(First, Place(i - 1)) = i - 1
      BY <2>2, PlaceFacts
    <2>4. Place(i - 1) # writeIdx BY <2>1, <2>2, <2>3 DEF Count, Slots
    <2> QED BY <2>3, <2>4
  <1> QED BY <1>1, <1>2, <1>3 DEF Items

\* Storing writeIdx appends the constructed value.
LEMMA ItemsPublish ==
    ASSUME Inv, Inv', Publish
    PROVE  Len(Items) < N - 1 /\ Items' = Append(Items, value) /\ value \in Values
  <1>1. /\ ppc = "publish" /\ writeIdx' = Following(writeIdx) /\ slots' = slots
        /\ First' = First /\ value \in Values
    BY DEF Publish, consumer, First, Inv, TypeOK
  <1>2. /\ First \in Slots /\ writeIdx \in Slots /\ Following(writeIdx) \in Slots
        /\ Following(writeIdx) # First
    BY <1>1, PlaceFacts, IndexFacts, NeverFullBeyondSlack DEF Inv, TypeOK
  <1>3. Count' = Count + 1 BY <1>1, <1>2, StepFacts DEF Count
  <1>4. Count' \in Slots /\ Count \in Slots BY PlaceFacts, <1>1, <1>2, IndexFacts DEF Count
  <1>5. Count + 1 < N /\ Count \in Nat BY <1>3, <1>4, RingSize DEF Slots
  <1>6. slots[Place(Count)] = value BY <1>1, PlaceFacts DEF Inv, Constructed
  <1>7. \A i : Place(i)' = Place(i) BY <1>1 DEF Place
  <1>8. Items' = [i \in 1 .. Count + 1 |-> slots[Place(i - 1)]]
    BY <1>1, <1>3, <1>7 DEF Items
  <1>9. /\ Items \in Seq(Values) /\ Len(Items) = Count
        /\ \A i \in 1 .. Count : Items[i] = slots[Place(i - 1)]
    BY ItemsSequence
  <1>10. Append(Items, value) = [i \in 1 .. Count + 1 |-> slots[Place(i - 1)]]
    <2> DEFINE t == Append(Items, value)
    <2>1. /\ t \in Seq(Values) /\ Len(t) = Count + 1 /\ t[Count + 1] = value
          /\ \A i \in 1 .. Count : t[i] = Items[i]
      BY <1>1, <1>9, AppendProperties
    <2> HIDE DEF t
    <2>2. t \in [1 .. Count + 1 -> Values] BY <2>1, LenProperties
    <2>3. ASSUME NEW i \in 1 .. Count + 1 PROVE t[i] = slots[Place(i - 1)]
      <3>1. CASE i = Count + 1
        <4>1. i - 1 = Count BY <3>1, <1>5
        <4> QED BY <3>1, <4>1, <1>6, <2>1
      <3>2. CASE i # Count + 1
        <4>1. i \in 1 .. Count BY <3>2, <1>5
        <4> QED BY <4>1, <1>9, <2>1
      <3> QED BY <3>1, <3>2
    <2>4. t = [i \in 1 .. Count + 1 |-> slots[Place(i - 1)]] BY <2>2, <2>3
    <2> QED BY <2>4 DEF t
  <1>11. Items' = Append(Items, value) BY <1>8, <1>10
  <1>12. Len(Items) < N - 1 BY <1>5, <1>9, RingSize
  <1> QED BY <1>1, <1>11, <1>12

\* Destroying the element at readIdx removes the oldest one.
LEMMA ItemsDestroy ==
    ASSUME Inv, Inv', Destroy
    PROVE  Items # <<>> /\ Items' = Tail(Items)
  <1>1. /\ cpc = "front" /\ cpc' = "popped"
        /\ readIdx' = readIdx /\ writeIdx' = writeIdx
        /\ slots' = [slots EXCEPT ![readIdx] = Raw]
    BY DEF Destroy, producer
  <1>2. /\ First = readIdx /\ First' = Following(readIdx) /\ readIdx # writeIdx
        /\ readIdx \in Slots /\ writeIdx \in Slots
    BY <1>1, NeverEmptyAtFront DEF First, Following, Inv, TypeOK
  <1>3. Count' = Count - 1 BY <1>1, <1>2, StepFacts DEF Count
  <1>4. Count \in Slots /\ Count # 0 BY <1>2, IndexFacts DEF Count
  <1>5. Count \in Nat /\ Count >= 1 /\ Count < N BY <1>4, RingSize DEF Slots
  <1>6. ASSUME NEW i \in 1 .. Count - 1
        PROVE  slots'[Place(i - 1)'] = slots[Place(i)]
    <2>1. i \in Slots /\ i - 1 \in Slots /\ i # 0 BY <1>5, RingSize DEF Slots
    <2>2. Place(i - 1)' = Place(i)
      BY <1>2, <2>1, RingSize DEF Place, Following, Slots
    <2>3. Place(i) \in Slots /\ Dist(First, Place(i)) = i BY <2>1, PlaceFacts
    <2>4. Place(i) # readIdx BY <1>2, <2>1, <2>3, IndexFacts
    <2> QED BY <1>1, <2>2, <2>3, <2>4 DEF Inv, TypeOK
  <1>7. Items' = [i \in 1 .. Count - 1 |-> slots[Place(i)]]
    BY <1>3, <1>6 DEF Items
  <1>8. /\ Items \in Seq(Values) /\ Len(Items) = Count
        /\ \A i \in 1 .. Count : Items[i] = slots[Place(i - 1)]
    BY ItemsSequence
  <1>9. Items # <<>> BY <1>5, <1>8, EmptySeq
  <1>10. Tail(Items) = [i \in 1 .. Count - 1 |-> slots[Place(i)]]
    <2> DEFINE t == Tail(Items)
    <2>1. /\ t \in Seq(Values) /\ Len(t) = Count - 1
          /\ \A i \in 1 .. Len(t) : t[i] = Items[i + 1]
      BY <1>8, <1>9, HeadTailProperties
    <2> HIDE DEF t
    <2>2. t \in [1 .. Count - 1 -> Values] BY <2>1, LenProperties
    <2>3. ASSUME NEW i \in 1 .. Count - 1 PROVE t[i] = slots[Place(i)]
      <3>1. i + 1 \in 1 .. Count /\ (i + 1) - 1 = i BY <1>5
      <3>2. Items[i + 1] = slots[Place(i)] BY <3>1, <1>8
      <3> QED BY <3>2, <2>1
    <2>4. t = [i \in 1 .. Count - 1 |-> slots[Place(i)]] BY <2>2, <2>3
    <2> QED BY <2>4 DEF t
  <1> QED BY <1>7, <1>9, <1>10

\* Every step is a push, a pop or a stutter of the abstract queue.
LEMMA StepImplements ==
    ASSUME Inv, Inv', [Next]_vars
    PROVE  [Fifo!Next]_Items
  <1>1. CASE Publish
    <2>1. Len(Items) < N - 1 /\ Items' = Append(Items, value) /\ value \in Values
      BY <1>1, ItemsPublish
    <2> QED BY <2>1 DEF Fifo!Next, Fifo!Push
  <1>2. CASE Destroy BY <1>2, ItemsDestroy DEF Fifo!Next, Fifo!Pop
  <1>3. CASE \/ \E v \in Values, how \in {"push", "try"} : Emplace(how, v)
             \/ \E r \in Loadable(readIdxCache, readIdx) : LoadReadIdx(r)
             \/ Construct
             \/ \E w \in Loadable(seen, writeIdx) : Size(w) \/ FrontLoad(w)
             \/ FrontCached
             \/ Release
             \/ UNCHANGED vars
    <2>1. First' = First /\ writeIdx' = writeIdx
      BY <1>3 DEF Emplace, LoadReadIdx, Construct, Size, FrontLoad, FrontCached,
                  Release, vars, producer, consumer, First, Following
    <2>2. \A i \in Slots : i # writeIdx => slots'[i] = slots[i]
      BY <1>3 DEF Emplace, LoadReadIdx, Construct, Size, FrontLoad, FrontCached,
                  Release, vars, Inv, TypeOK
    <2> QED BY <2>1, <2>2, ItemsStutter
  <1> QED BY <1>1, <1>2, <1>3 DEF Next

\* SPSCQueue is a bounded first-in first-out queue, for every capacity.
THEOREM QueueImplementsFifo == Spec => ImplementsFifo
  <1>1. Init => Fifo!Init
    <2> SUFFICES ASSUME Init PROVE Items = <<>> BY DEF Fifo!Init
    <2>1. Inv BY InitInv
    <2>2. Count = 0
      BY <2>1, PlaceFacts, IndexFacts DEF Init, Count, First
    <2> QED BY <2>1, <2>2, ItemsSequence, EmptySeq
  <1>2. Inv /\ Inv' /\ [Next]_vars => [Fifo!Next]_Items BY StepImplements
  <1> QED BY <1>1, <1>2, Invariance, PTL DEF Spec, ImplementsFifo, Fifo!Spec
=============================================================================
