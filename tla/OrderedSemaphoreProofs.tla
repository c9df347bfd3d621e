----------------------- MODULE OrderedSemaphoreProofs -----------------------
(***************************************************************************)
(* Theorems about OrderedSemaphore for any number of processes, any initial *)
(* capacity and any sequence of operations.                                 *)
(***************************************************************************)
EXTENDS OrderedSemaphore, SequenceTheorems, FiniteSetTheorems, TLAPS

\* The discipline of queues q whose waiting processes are W.
EntriesWait(q, W) ==
    \A k \in {0, 1} : \A i \in 1 .. Len(q[k]) : q[k][i] \in W

WaitersQueued(q, W) ==
    \A p \in W : \E k \in {0, 1} : \E i \in 1 .. Len(q[k]) : q[k][i] = p

NoDuplicates(q) ==
    \A j, k \in {0, 1} : \A h \in 1 .. Len(q[j]), i \in 1 .. Len(q[k]) :
        q[j][h] = q[k][i] => j = k /\ h = i

Disciplined(q, W) == EntriesWait(q, W) /\ WaitersQueued(q, W) /\ NoDuplicates(q)

\* The history a records only processes that really stand in front.
StandsBefore(q, r, k, i) ==
    \/ \E h \in 1 .. Len(q[k]) : h < i /\ q[k][h] = r
    \/ k = 0 /\ \E h \in 1 .. Len(q[1]) : q[1][h] = r

AheadStands(q, a) ==
    \A k \in {0, 1} : \A i \in 1 .. Len(q[k]) :
        \A r \in a[q[k][i]] : StandsBefore(q, r, k, i)

\* The inductive invariant of queues, program counters and history.
Inv == TypeOK /\ Disciplined(queue, Waiting) /\ AheadStands(queue, ahead)

-----------------------------------------------------------------------------
\* What push_back does to a queue.
LEMMA AppendEntries ==
    ASSUME NEW S, NEW s \in Seq(S), NEW e \in S
    PROVE  /\ Append(s, e) \in Seq(S)
           /\ Len(s) \in Nat
           /\ Len(Append(s, e)) = Len(s) + 1
           /\ \A i \in 1 .. Len(s) : Append(s, e)[i] = s[i]
           /\ Append(s, e)[Len(s) + 1] = e
  BY AppendProperties, LenProperties

\* What pop_front does to a queue.
LEMMA TailEntries ==
    ASSUME NEW S, NEW s \in Seq(S), s # <<>>
    PROVE  /\ Tail(s) \in Seq(S)
           /\ Len(s) \in Nat \ {0}
           /\ Len(Tail(s)) = Len(s) - 1
           /\ Head(s) = s[1]
           /\ \A i \in 1 .. Len(s) - 1 : Tail(s)[i] = s[i + 1]
  BY HeadTailProperties, LenProperties, EmptySeq

\* A queue of length 0 is empty.
LEMMA NonEmpty ==
    ASSUME NEW S, NEW s \in Seq(S)
    PROVE  /\ Len(s) \in Nat
           /\ (s = <<>>) <=> (Len(s) = 0)
  BY EmptySeq, LenProperties

\* Popping the head of the line takes away the entry of p and no other.
LEMMA PopTakesHead ==
    ASSUME NEW q \in [{0, 1} -> Seq(Procs)], NEW W, NEW p \in W,
           Disciplined(q, W), HeadOfLine(q) = p,
           NEW a \in [Procs -> SUBSET Procs], AheadStands(q, a), p \in Procs
    PROVE  /\ PopFront(q) \in [{0, 1} -> Seq(Procs)]
           /\ Disciplined(PopFront(q), W \ {p})
           /\ AheadStands(PopFront(q), Granted(a, p))
           /\ a[p] = {}
  <1> DEFINE n == IF q[1] # <<>> THEN 1 ELSE 0
  <1> DEFINE o == 1 - n
  <1> DEFINE t == PopFront(q)
  <1>1. n \in {0, 1} /\ o \in {0, 1} /\ n # o /\ {0, 1} = {n, o} OBVIOUS
  <1>2. q[n] # <<>>
    <2>1. CASE q[1] # <<>> BY <2>1
    <2>2. CASE q[1] = <<>>
      <3>1. PICK k \in {0, 1} : \E i \in 1 .. Len(q[k]) : q[k][i] = p
        BY DEF Disciplined, WaitersQueued
      <3>2. k = 0 BY <3>1, <2>2, NonEmpty
      <3> QED BY <3>1, <3>2, <2>2, NonEmpty
    <2> QED BY <2>1, <2>2
  <1>3. t = [q EXCEPT ![n] = Tail(q[n])] BY DEF PopFront
  <1>4. p = q[n][1] /\ Len(q[n]) \in Nat \ {0} /\ Len(q[o]) \in Nat
    BY <1>1, <1>2, TailEntries, NonEmpty DEF HeadOfLine
  <1>5. /\ t \in [{0, 1} -> Seq(Procs)]
        /\ t[o] = q[o]
        /\ Len(t[n]) = Len(q[n]) - 1
        /\ \A i \in 1 .. Len(q[n]) - 1 : t[n][i] = q[n][i + 1]
    <2>1. Tail(q[n]) \in Seq(Procs) BY <1>1, <1>2, TailEntries
    <2>2. t[n] = Tail(q[n]) /\ t[o] = q[o] /\ t \in [{0, 1} -> Seq(Procs)]
      BY <1>1, <1>3, <2>1
    <2> QED BY <2>2, <1>1, <1>2, TailEntries
  <1> HIDE DEF n, o, t
  <1>6. EntriesWait(t, W \ {p})
    <2> SUFFICES ASSUME NEW k \in {n, o}, NEW i \in 1 .. Len(t[k])
                 PROVE  t[k][i] \in W /\ t[k][i] # p
      BY <1>1 DEF EntriesWait
    <2>1. \A x \in {n, o} : \A y \in 1 .. Len(q[x]) :
              q[x][y] \in W /\ (q[x][y] = q[n][1] => x = n /\ y = 1)
      <3>1. 1 \in 1 .. Len(q[n]) BY <1>4
      <3> QED BY <3>1, <1>1 DEF Disciplined, EntriesWait, NoDuplicates
    <2>2. CASE k = n
      <3>1. t[k][i] = q[n][i + 1] /\ i + 1 \in 1 .. Len(q[n]) /\ i + 1 # 1
        BY <2>2, <1>4, <1>5
      <3> QED BY <3>1, <2>1, <1>4
    <2>3. CASE k = o
      <3>1. t[k][i] = q[o][i] /\ i \in 1 .. Len(q[o]) BY <2>3, <1>5
      <3> QED BY <3>1, <2>1, <1>1, <1>4
    <2> QED BY <2>2, <2>3
  <1>7. WaitersQueued(t, W \ {p})
    <2> SUFFICES ASSUME NEW r \in W, r # p
                 PROVE \E k \in {0, 1} : \E i \in 1 .. Len(t[k]) : t[k][i] = r
      BY DEF WaitersQueued
    <2>1. PICK k \in {n, o} : \E i \in 1 .. Len(q[k]) : q[k][i] = r
      BY <1>1 DEF Disciplined, WaitersQueued
    <2>2. CASE k = n
      <3>1. PICK i \in 1 .. Len(q[n]) : q[n][i] = r BY <2>1, <2>2
      <3>2. i # 1 BY <3>1, <1>4
      <3>3. i - 1 \in 1 .. Len(t[n]) /\ t[n][i - 1] = r
        BY <3>1, <3>2, <1>4, <1>5
      <3> QED BY <3>3, <1>1
    <2>3. CASE k = o BY <2>1, <2>3, <1>1, <1>5
    <2> QED BY <2>1, <2>2, <2>3
  <1>8. NoDuplicates(t)
    <2> SUFFICES ASSUME NEW j \in {n, o}, NEW k \in {n, o},
                        NEW h \in 1 .. Len(t[j]), NEW i \in 1 .. Len(t[k]),
                        t[j][h] = t[k][i]
                 PROVE  j = k /\ h = i
      BY <1>1 DEF NoDuplicates
    <2>1. \A x \in {n, o} : \A y \in 1 .. Len(t[x]) :
              \E z \in 1 .. Len(q[x]) :
                  t[x][y] = q[x][z] /\ z = (IF x = n THEN y + 1 ELSE y)
      BY <1>1, <1>4, <1>5
    <2>2. \A x, y \in {n, o} : \A u \in 1 .. Len(q[x]), v \in 1 .. Len(q[y]) :
              q[x][u] = q[y][v] => x = y /\ u = v
      BY <1>1 DEF Disciplined, NoDuplicates
    <2>3. PICK z \in 1 .. Len(q[j]) :
              t[j][h] = q[j][z] /\ z = (IF j = n THEN h + 1 ELSE h) BY <2>1
    <2>4. PICK w \in 1 .. Len(q[k]) :
              t[k][i] = q[k][w] /\ w = (IF k = n THEN i + 1 ELSE i) BY <2>1
    <2>5. j = k /\ z = w
      <3>1. q[j][z] = q[k][w] BY <2>3, <2>4
      <3> QED BY <3>1, <2>2
    <2>6. Len(t[j]) \in Nat /\ Len(t[k]) \in Nat BY <1>1, <1>4, <1>5
    <2> QED BY <2>3, <2>4, <2>5, <2>6
  <1>9. a[p] = {}
    <2> SUFFICES ASSUME NEW r \in a[p] PROVE FALSE OBVIOUS
    <2>1. StandsBefore(q, r, n, 1) BY <1>1, <1>4 DEF AheadStands
    <2>2. n = 0 => Len(q[1]) = 0 BY NonEmpty DEF n
    <2> QED BY <2>1, <2>2, <1>1, <1>4 DEF StandsBefore
  <1>10. AheadStands(t, Granted(a, p))
    <2> DEFINE b == Granted(a, p)
    <2> SUFFICES ASSUME NEW k \in {0, 1}, NEW i \in 1 .. Len(t[k]),
                        NEW r \in b[t[k][i]]
                 PROVE  StandsBefore(t, r, k, i)
      BY DEF AheadStands
    <2>1. t[k][i] \in Procs /\ t[k] \in Seq(Procs) /\ Len(t[k]) \in Nat
      BY <1>5, <1>1, <1>4, ElementOfSeq
    <2>2. r # p /\ r \in a[t[k][i]] BY <2>1 DEF Granted
    <2>3. CASE k = n
      <3>1. t[n][i] = q[n][i + 1] /\ i + 1 \in 1 .. Len(q[n])
        <4>1. i \in 1 .. Len(q[n]) - 1 BY <2>3, <1>5
        <4> QED BY <4>1, <1>4, <1>5
      <3>2. StandsBefore(q, r, n, i + 1)
        BY <3>1, <2>2, <2>3, <1>1 DEF AheadStands
      <3>3. CASE \E h \in 1 .. Len(q[n]) : h < i + 1 /\ q[n][h] = r
        <4>1. PICK h \in 1 .. Len(q[n]) : h < i + 1 /\ q[n][h] = r BY <3>3
        <4>2. h # 1 BY <4>1, <2>2, <1>4
        <4>3. h - 1 \in 1 .. Len(t[n]) /\ h - 1 < i /\ t[n][h - 1] = r
          BY <4>1, <4>2, <1>4, <1>5
        <4> QED BY <4>3, <2>3 DEF StandsBefore
      <3>4. CASE n = 0 /\ \E h \in 1 .. Len(q[1]) : q[1][h] = r
        <4>1. o = 1 BY <3>4, <1>1
        <4>2. t[1] = q[1] BY <4>1, <1>5
        <4> QED BY <4>2, <3>4, <2>3 DEF StandsBefore
      <3> QED BY <3>2, <3>3, <3>4 DEF StandsBefore
    <2>4. CASE k = o
      <3>1. t[o][i] = q[o][i] /\ i \in 1 .. Len(q[o]) BY <2>4, <1>5
      <3>2. StandsBefore(q, r, o, i)
        BY <3>1, <2>2, <2>4, <1>1 DEF AheadStands
      <3>3. CASE \E h \in 1 .. Len(q[o]) : h < i /\ q[o][h] = r
        BY <3>3, <1>5, <2>4 DEF StandsBefore
      <3>4. CASE o = 0 /\ \E h \in 1 .. Len(q[1]) : q[1][h] = r
        <4>1. n = 1 BY <3>4, <1>1
        <4>2. PICK h \in 1 .. Len(q[1]) : q[1][h] = r BY <3>4
        <4>3. h # 1 BY <4>1, <4>2, <2>2, <1>4
        <4>4. h - 1 \in 1 .. Len(t[1]) /\ t[1][h - 1] = r
          BY <4>1, <4>2, <4>3, <1>4, <1>5
        <4> QED BY <4>4, <3>4, <2>4 DEF StandsBefore
      <3> QED BY <3>2, <3>3, <3>4 DEF StandsBefore
    <2> QED BY <2>3, <2>4, <1>1
  <1> QED BY <1>5, <1>6, <1>7, <1>8, <1>9, <1>10 DEF Disciplined, t

\* Pushing a process that does not wait yet keeps the queues and the history.
LEMMA PushKeepsOrder ==
    ASSUME Inv, NEW p \in Procs, p \notin Waiting, NEW k \in {0, 1}
    PROVE  /\ PushBack(p, k) \in [{0, 1} -> Seq(Procs)]
           /\ AheadOnArrival(p, k) \in [Procs -> SUBSET Procs]
           /\ Disciplined(PushBack(p, k), Waiting \cup {p})
           /\ AheadStands(PushBack(p, k), AheadOnArrival(p, k))
           /\ queue[k] = <<>> => Head(PushBack(p, k)[k]) = p
           /\ queue[k] # <<>> => Head(PushBack(p, k)[k]) = Head(queue[k])
           /\ PushBack(p, k)[k] # <<>>
           /\ PushBack(p, k)[1 - k] = queue[1 - k]
  <1> DEFINE t == PushBack(p, k)
  <1> DEFINE o == 1 - k
  <1> DEFINE n == Len(queue[k])
  <1> DEFINE b == AheadOnArrival(p, k)
  <1>1. queue \in [{0, 1} -> Seq(Procs)] BY DEF Inv, TypeOK
  <1>2. o \in {0, 1} /\ k # o /\ {0, 1} = {k, o} OBVIOUS
  <1>3. /\ t \in [{0, 1} -> Seq(Procs)]
        /\ t[k] = Append(queue[k], p)
        /\ t[o] = queue[o]
    BY <1>1, <1>2, AppendEntries DEF PushBack
  <1>4. /\ n \in Nat
        /\ Len(t[k]) = n + 1
        /\ \A i \in 1 .. n : t[k][i] = queue[k][i]
        /\ t[k][n + 1] = p
        /\ Len(t[o]) \in Nat
    BY <1>1, <1>2, <1>3, AppendEntries, NonEmpty
  <1>5. /\ queue[k] = <<>> => Head(t[k]) = p
        /\ queue[k] # <<>> => Head(t[k]) = Head(queue[k])
        /\ t[k] # <<>>
    <2>1. t[k] # <<>> /\ Head(t[k]) = t[k][1]
      BY <1>1, <1>3, <1>4, NonEmpty, TailEntries
    <2>2. queue[k] # <<>> => n # 0 /\ Head(queue[k]) = queue[k][1]
      BY <1>1, NonEmpty, TailEntries
    <2>3. queue[k] = <<>> => n = 0 BY <1>1, NonEmpty
    <2> QED BY <2>1, <2>2, <2>3, <1>4
  <1>6. b \in [Procs -> SUBSET Procs] BY DEF AheadOnArrival, Inv, TypeOK
  <1>7. \A j \in {0, 1} : \A i \in 1 .. Len(t[j]) :
            \/ j = k /\ i = n + 1 /\ t[j][i] = p
            \/ i \in 1 .. Len(queue[j]) /\ t[j][i] = queue[j][i]
    BY <1>2, <1>3, <1>4
  <1>8. \A j \in {0, 1} : \A i \in 1 .. Len(queue[j]) :
            /\ i \in 1 .. Len(t[j]) /\ t[j][i] = queue[j][i]
            /\ t[j][i] \in Waiting
            /\ t[j][i] # p
    <2>1. \A j \in {0, 1} : \A i \in 1 .. Len(queue[j]) : queue[j][i] \in Waiting
      BY DEF Inv, Disciplined, EntriesWait
    <2>2. ASSUME NEW i \in 1 .. Len(queue[k])
          PROVE  i \in 1 .. Len(t[k]) /\ t[k][i] = queue[k][i]
      BY <1>4
    <2>3. ASSUME NEW i \in 1 .. Len(queue[o])
          PROVE  i \in 1 .. Len(t[o]) /\ t[o][i] = queue[o][i]
      BY <1>3
    <2> HIDE DEF t, o, n, b
    <2> QED
      BY <1>2, <2>1, <2>2, <2>3
  <1> HIDE DEF t, o, n, b
  <1>9. EntriesWait(t, Waiting \cup {p}) BY <1>7, <1>8 DEF EntriesWait
  <1>10. WaitersQueued(t, Waiting \cup {p})
    <2>1. \A r \in Waiting : \E j \in {0, 1} : \E i \in 1 .. Len(t[j]) : t[j][i] = r
      BY <1>8 DEF Inv, Disciplined, WaitersQueued
    <2>2. n + 1 \in 1 .. Len(t[k]) /\ t[k][n + 1] = p BY <1>4
    <2> QED BY <2>1, <2>2 DEF WaitersQueued
  <1>11. NoDuplicates(t)
    <2> SUFFICES ASSUME NEW j \in {0, 1}, NEW m \in {0, 1},
                        NEW h \in 1 .. Len(t[j]), NEW i \in 1 .. Len(t[m]),
                        t[j][h] = t[m][i]
                 PROVE  j = m /\ h = i
      BY DEF NoDuplicates
    <2>1. CASE t[j][h] = p BY <2>1, <1>7, <1>8
    <2>2. CASE t[j][h] # p
      <3>1. /\ h \in 1 .. Len(queue[j]) /\ t[j][h] = queue[j][h]
            /\ i \in 1 .. Len(queue[m]) /\ t[m][i] = queue[m][i]
        BY <2>2, <1>7
      <3>2. queue[j][h] = queue[m][i] BY <3>1
      <3> QED BY <3>1, <3>2 DEF Inv, Disciplined, NoDuplicates
    <2> QED BY <2>1, <2>2
  <1>12. AheadStands(t, b)
    <2> SUFFICES ASSUME NEW j \in {0, 1}, NEW i \in 1 .. Len(t[j]),
                        NEW r \in b[t[j][i]]
                 PROVE  StandsBefore(t, r, j, i)
      BY DEF AheadStands
    <2>1. CASE j = k /\ i = n + 1 /\ t[j][i] = p
      <3>1. PICK m \in k .. 1 : Stands(r, m)
        BY <2>1, <1>6 DEF AheadOnArrival, b
      <3>2. m \in {0, 1} OBVIOUS
      <3>3. PICK h \in 1 .. Len(queue[m]) : queue[m][h] = r
        BY <3>1 DEF Stands
      <3>4. h \in 1 .. Len(t[m]) /\ t[m][h] = r BY <3>2, <3>3, <1>8
      <3>5. CASE m = k
        BY <3>3, <3>4, <3>5, <2>1, <1>4 DEF StandsBefore, n
      <3>6. CASE m # k
        <4>1. m = 1 /\ k = 0 BY <3>2, <3>6
        <4> QED BY <4>1, <3>4, <2>1 DEF StandsBefore
      <3> QED BY <3>5, <3>6
    <2>2. CASE i \in 1 .. Len(queue[j]) /\ t[j][i] = queue[j][i]
      <3> DEFINE s == queue[j][i]
      <3>1. s # p /\ s \in Procs BY <2>2, <1>8 DEF Waiting
      <3>2. b[s] = IF k = 1 /\ Stands(s, 0) THEN ahead[s] \cup {p} ELSE ahead[s]
        BY <3>1 DEF AheadOnArrival, b
      <3>3. CASE r \in ahead[s]
        <4>1. StandsBefore(queue, r, j, i)
          BY <3>3, <2>2 DEF Inv, AheadStands
        <4> QED BY <4>1, <1>8 DEF StandsBefore
      <3>4. CASE r \notin ahead[s]
        <4>1. r = p /\ k = 1 /\ Stands(s, 0) BY <3>2, <3>4, <2>2
        <4>2. j = 0
          BY <4>1, <2>2 DEF Stands, Inv, Disciplined, NoDuplicates
        <4>3. n + 1 \in 1 .. Len(t[1]) /\ t[1][n + 1] = r BY <4>1, <1>4
        <4> QED BY <4>2, <4>3 DEF StandsBefore
      <3> QED BY <3>3, <3>4
    <2> QED BY <2>1, <2>2, <1>7
  <1> QED
    BY <1>3, <1>5, <1>6, <1>9, <1>10, <1>11, <1>12 DEF Disciplined, t, o, b

\* One pass of the loop of wait(), the calling process p being the entry that
\* the queues have beyond the blocked ones.
LEMMA LoopKeepsOrder ==
    ASSUME TypeOK, NEW p \in Procs, NEW q \in [{0, 1} -> Seq(Procs)],
           NEW a \in [Procs -> SUBSET Procs],
           Disciplined(q, Waiting \cup {p}), AheadStands(q, a),
           WaitLoop(p, q, a), UNCHANGED <<capacity, free_evt>>
    PROVE  /\ Inv'
           /\ p \notin Waiting' => a[p] = {}
           /\ \A r \in Procs : r # p => (r \in Waiting <=> r \in Waiting')
  <1>1. \A r \in Procs : r # p => pc'[r] = pc[r] BY DEF WaitLoop, TypeOK
  <1>2. CASE ~in_use(p, q) /\ WaitLoop(p, q, a)
    <2>1. /\ queue' = PopFront(q)
          /\ value' = value - 1
          /\ pc' = [pc EXCEPT ![p] = "running"]
          /\ owned' = IF p \in Lockers THEN owned \cup {p} ELSE owned
          /\ ahead' = Granted(a, p)
      BY <1>2 DEF WaitLoop
    <2>2. HeadOfLine(q) = p BY <1>2 DEF in_use
    <2>3. Waiting' = (Waiting \cup {p}) \ {p}
      BY <1>1, <2>1 DEF Waiting, TypeOK
    <2>4. /\ queue' \in [{0, 1} -> Seq(Procs)]
          /\ Disciplined(queue', Waiting') /\ AheadStands(queue', ahead')
          /\ a[p] = {}
      <3> DEFINE W == Waiting \cup {p}
      <3>1. p \in W /\ Disciplined(q, W) OBVIOUS
      <3> HIDE DEF W
      <3>2. /\ PopFront(q) \in [{0, 1} -> Seq(Procs)]
            /\ Disciplined(PopFront(q), W \ {p})
            /\ AheadStands(PopFront(q), Granted(a, p))
            /\ a[p] = {}
        BY <3>1, <2>2, PopTakesHead
      <3> QED BY <3>2, <2>1, <2>3 DEF W
    <2>5. TypeOK' BY <2>1, <2>4 DEF TypeOK, Granted
    <2> QED BY <2>3, <2>4, <2>5 DEF Inv
  <1>3. CASE in_use(p, q) /\ WaitLoop(p, q, a)
    <2>1. /\ queue' = q
          /\ pc' = [pc EXCEPT ![p] = "blocked"]
          /\ ahead' = a
          /\ UNCHANGED <<value, owned>>
      BY <1>3 DEF WaitLoop
    <2>2. Waiting' = Waiting \cup {p} BY <1>1, <2>1 DEF Waiting, TypeOK
    <2>3. TypeOK' BY <2>1 DEF TypeOK
    <2> QED BY <2>1, <2>2, <2>3 DEF Inv
  <1> QED BY <1>2, <1>3

-----------------------------------------------------------------------------
\* The invariant holds initially.
LEMMA InitInv == Init => Inv
  <1> SUFFICES ASSUME Init PROVE Inv OBVIOUS
  <1>1. <<>> \in Seq(Procs) /\ Len(<<>>) = 0 OBVIOUS
  <1>2. TypeOK
    <2>1. queue \in [{0, 1} -> Seq(Procs)] BY <1>1 DEF Init
    <2>2. pc \in [Procs -> {"running", "blocked", "woken"}] BY DEF Init
    <2>3. ahead \in [Procs -> SUBSET Procs] BY DEF Init
    <2>4. value \in Int /\ capacity \in Nat BY CapacityAssumption DEF Init
    <2>5. free_evt \in BOOLEAN /\ owned \in SUBSET Lockers BY Zenon DEF Init
    <2> QED BY <2>1, <2>2, <2>3, <2>4, <2>5 DEF TypeOK
  <1>3. Waiting = {} BY DEF Init, Waiting
  <1>4. \A k \in {0, 1} : Len(queue[k]) = 0 BY <1>1 DEF Init
  <1> QED
    BY <1>2, <1>3, <1>4 DEF Inv, Disciplined, EntriesWait, WaitersQueued,
       NoDuplicates, AheadStands

\* The loop after a wake-up keeps the invariant; a process that leaves it has nobody
\* left in front.
LEMMA RetryOrder ==
    ASSUME Inv, NEW p \in Procs, Retry(p)
    PROVE  Inv' /\ (pc'[p] = "running" => ahead[p] = {})
  <1>1. p \in Waiting BY DEF Retry, Waiting
  <1>2. Waiting \cup {p} = Waiting BY <1>1
  <1>3. /\ TypeOK /\ queue \in [{0, 1} -> Seq(Procs)]
        /\ ahead \in [Procs -> SUBSET Procs]
        /\ Disciplined(queue, Waiting \cup {p}) /\ AheadStands(queue, ahead)
    BY <1>2 DEF Inv, TypeOK
  <1>4. WaitLoop(p, queue, ahead) /\ UNCHANGED <<capacity, free_evt>> BY DEF Retry
  <1>5. Inv' /\ (p \notin Waiting' => ahead[p] = {}) BY <1>3, <1>4, LoopKeepsOrder
  <1> QED BY <1>5 DEF Waiting

\* wait() keeps the invariant; a call that takes a unit at once found nobody that is
\* to be served before it.
LEMMA WaitOrder ==
    ASSUME Inv, NEW p \in Procs, NEW k \in Priorities, Wait(p, k)
    PROVE  Inv' /\ (pc'[p] = "running" => AheadOnArrival(p, k)[p] = {})
  <1> DEFINE q == PushBack(p, k)
  <1> DEFINE a == AheadOnArrival(p, k)
  <1>1. p \notin Waiting /\ k \in {0, 1}
    BY PriorityAssumption DEF Wait, Waiting
  <1>2. /\ q \in [{0, 1} -> Seq(Procs)] /\ a \in [Procs -> SUBSET Procs]
        /\ Disciplined(q, Waiting \cup {p}) /\ AheadStands(q, a)
    BY <1>1, PushKeepsOrder
  <1>3. WaitLoop(p, q, a) /\ UNCHANGED <<capacity, free_evt>> BY DEF Wait
  <1>4. TypeOK BY DEF Inv
  <1> HIDE DEF q, a
  <1>5. Inv' /\ (p \notin Waiting' => a[p] = {}) BY <1>2, <1>3, <1>4, LoopKeepsOrder
  <1> QED BY <1>5 DEF Waiting, a

\* Both ways through the loop keep the invariant.
LEMMA WaitStep ==
    ASSUME Inv, NEW p \in Procs,
           Retry(p) \/ \E k \in Priorities : Wait(p, k)
    PROVE  Inv'
  <1>1. CASE Retry(p) BY <1>1, RetryOrder
  <1>2. CASE \E k \in Priorities : Wait(p, k) BY <1>2, WaitOrder
  <1> QED BY <1>1, <1>2

\* The other operations touch neither queues nor history, and nobody leaves wait().
LEMMA OtherStep ==
    ASSUME Inv,
           \/ \E p \in Procs : ReleaseOfLock(p) \/ Post(p) \/ TryWait(p)
           \/ \E p \in Procs, c \in Resizes : SetCapacity(p, c)
           \/ Deliver
           \/ UNCHANGED vars
    PROVE  Inv' /\ Waiting' = Waiting
  <1>1. queue' = queue /\ ahead' = ahead
    BY DEF ReleaseOfLock, Post, TryWait, SetCapacity, Deliver, vars
  <1>2. TypeOK /\ TypeOK' /\ Waiting' = Waiting
    <2>1. TypeOK BY DEF Inv
    <2>2. ASSUME NEW p \in Procs, ReleaseOfLock(p)
          PROVE TypeOK' /\ Waiting' = Waiting
      BY <2>1, <2>2 DEF ReleaseOfLock, post, NotifyIfFree, TypeOK, Waiting
    <2>3. ASSUME NEW p \in Procs, Post(p)
          PROVE TypeOK' /\ Waiting' = Waiting
      BY <2>1, <2>3 DEF Post, post, NotifyIfFree, TypeOK, Waiting
    <2>4. ASSUME NEW p \in Procs, TryWait(p)
          PROVE TypeOK' /\ Waiting' = Waiting
      BY <2>1, <2>4 DEF TryWait, TypeOK, Waiting
    <2>5. ASSUME NEW p \in Procs, NEW c \in Resizes, SetCapacity(p, c)
          PROVE TypeOK' /\ Waiting' = Waiting
      BY <2>1, <2>5, CapacityAssumption
         DEF SetCapacity, NotifyIfFree, TypeOK, Waiting
    <2>6. CASE Deliver
      BY <2>1, <2>6 DEF Deliver, TypeOK, Waiting
    <2>7. CASE UNCHANGED vars
      BY <2>1, <2>7 DEF vars, TypeOK, Waiting
    <2> QED BY <2>1, <2>2, <2>3, <2>4, <2>5, <2>6, <2>7
  <1> QED BY <1>1, <1>2 DEF Inv

\* Every operation of the semaphore keeps the invariant.
LEMMA NextInv ==
    ASSUME Inv, [Next]_vars
    PROVE  Inv'
  BY WaitStep, OtherStep DEF Next

\* The invariant holds in every behaviour of the semaphore.
LEMMA Invariance == Spec => []Inv
  BY InitInv, NextInv, PTL DEF Spec

\* ordered_semaphore keeps its types.
THEOREM TypeCorrect == Spec => []TypeOK
  <1>1. Inv => TypeOK BY DEF Inv
  <1> QED BY <1>1, Invariance, PTL

\* The two queues hold exactly the processes inside wait(), each once.
THEOREM QueuesDisciplined == Spec => []QueueDiscipline
  <1>1. Inv => QueueDiscipline
    BY DEF Inv, Disciplined, EntriesWait, WaitersQueued, NoDuplicates,
       QueueDiscipline
  <1> QED BY <1>1, Invariance, PTL

\* wait() grants first come first served within a priority, urgent first, to those
\* it had to block and to those it serves at once.
THEOREM GrantsInOrder == Spec => GrantInOrder
  <1>1. ASSUME Inv, NEW p \in Procs
        PROVE  /\ Retry(p) /\ pc'[p] = "running" => ahead[p] = {}
               /\ \A k \in Priorities :
                      Wait(p, k) /\ pc'[p] = "running" => AheadOnArrival(p, k)[p] = {}
    BY <1>1, RetryOrder, WaitOrder
  <1>2. Inv =>
          [\A p \in Procs :
            /\ Retry(p) /\ pc'[p] = "running" => ahead[p] = {}
            /\ \A k \in Priorities :
                   Wait(p, k) /\ pc'[p] = "running" => AheadOnArrival(p, k)[p] = {}]_vars
    BY <1>1
  <1> QED BY <1>2, Invariance, PTL DEF GrantInOrder

-----------------------------------------------------------------------------
\* The semaphore is never given the capacity 0, which means "no limit".
Limited == InitCapacity # 0 /\ 0 \notin Resizes

\* What keeps a free semaphore from going idle under a waiter.
ServeInv == Inv /\ capacity # 0 /\ value <= capacity /\ FreeSemaphoreServes

\* One pass of the loop: either p takes a unit, and the semaphore is not entirely
\* free any more, or p is not the head of the line.
LEMMA LoopServes ==
    ASSUME ServeInv, NEW p \in Procs, NEW q, NEW a, WaitLoop(p, q, a),
           UNCHANGED <<capacity, free_evt>>, Inv',
           Waiting # {} => HeadOfLine(q) \in {p, HeadOfLine(queue)},
           Waiting = {} => HeadOfLine(q) = p
    PROVE  ServeInv'
  <1>1. TypeOK /\ value <= capacity /\ capacity \in Nat /\ capacity # 0 /\ value \in Int
    BY DEF ServeInv, Inv, TypeOK
  <1>2. CASE ~in_use(p, q) /\ WaitLoop(p, q, a)
    <2>1. value' = value - 1 /\ capacity' = capacity BY <1>2 DEF WaitLoop
    <2>2. value' <= capacity' /\ value' # capacity' BY <1>1, <2>1
    <2> QED BY <1>1, <2>1, <2>2 DEF ServeInv, FreeSemaphoreServes
  <1>3. CASE in_use(p, q) /\ WaitLoop(p, q, a)
    <2>1. /\ value' = value /\ capacity' = capacity /\ free_evt' = free_evt
          /\ queue' = q /\ pc' = [pc EXCEPT ![p] = "blocked"]
      BY <1>3 DEF WaitLoop
    <2>2. value' <= capacity' /\ capacity' # 0 BY <1>1, <2>1
    <2>3. ASSUME value' = capacity', ~free_evt'
          PROVE  pc'[HeadOfLine(queue')] = "woken"
      <3>1. value = capacity /\ value > 0 /\ ~free_evt BY <2>1, <2>3, <1>1
      <3>2. HeadOfLine(q) # p BY <1>3, <3>1 DEF in_use
      <3>3. Waiting # {} /\ HeadOfLine(q) = HeadOfLine(queue) BY <3>2
      <3>4. pc[HeadOfLine(queue)] = "woken"
        BY <3>1, <3>3, <1>1 DEF ServeInv, FreeSemaphoreServes
      <3>5. HeadOfLine(queue') = HeadOfLine(queue) BY <3>3, <2>1
      <3>6. pc'[HeadOfLine(queue)] = pc[HeadOfLine(queue)]
        BY <2>1, <3>2, <3>3, <1>1 DEF TypeOK
      <3> QED BY <3>4, <3>5, <3>6
    <2>4. FreeSemaphoreServes' BY <2>3 DEF FreeSemaphoreServes
    <2> QED BY <2>2, <2>4 DEF ServeInv
  <1> QED BY <1>2, <1>3

\* A call of wait() does not strand the head of the line of a free semaphore.
LEMMA ServeWait ==
    ASSUME ServeInv, NEW p \in Procs,
           Retry(p) \/ \E k \in Priorities : Wait(p, k)
    PROVE  ServeInv'
  <1>0. Inv /\ Inv' BY WaitStep DEF ServeInv
  <1>1. CASE Retry(p)
    <2>1. p \in Waiting BY <1>1 DEF Retry, Waiting
    <2>2. WaitLoop(p, queue, ahead) /\ UNCHANGED <<capacity, free_evt>>
      BY <1>1 DEF Retry
    <2> QED BY <1>0, <2>1, <2>2, LoopServes
  <1>2. ASSUME NEW k \in Priorities, Wait(p, k) PROVE ServeInv'
    <2>1. p \notin Waiting /\ k \in {0, 1}
      BY <1>2, PriorityAssumption DEF Wait, Waiting
    <2> DEFINE q == PushBack(p, k)
    <2>2. /\ queue[k] = <<>> => Head(q[k]) = p
          /\ queue[k] # <<>> => Head(q[k]) = Head(queue[k])
          /\ q[k] # <<>>
          /\ q[1 - k] = queue[1 - k]
      BY <1>0, <2>1, PushKeepsOrder
    <2>3. WaitLoop(p, q, AheadOnArrival(p, k)) /\ UNCHANGED <<capacity, free_evt>>
      BY <1>2 DEF Wait
    <2>4. Waiting = {} => queue[0] = <<>> /\ queue[1] = <<>>
      <3>1. queue[0] \in Seq(Procs) /\ queue[1] \in Seq(Procs)
        BY <1>0 DEF Inv, TypeOK
      <3>2. Waiting = {} => ~(1 <= Len(queue[0])) /\ ~(1 <= Len(queue[1]))
        BY <1>0, <3>1, NonEmpty DEF Inv, Disciplined, EntriesWait
      <3> QED BY <3>1, <3>2, NonEmpty
    <2>5. Waiting # {} => queue[0] # <<>> \/ queue[1] # <<>>
      BY <1>0, NonEmpty DEF Inv, Disciplined, WaitersQueued
    <2> HIDE DEF q
    <2>6. Waiting = {} => HeadOfLine(q) = p
      BY <2>1, <2>2, <2>4 DEF HeadOfLine
    <2>7. Waiting # {} => HeadOfLine(q) \in {p, HeadOfLine(queue)}
      BY <2>1, <2>2, <2>5 DEF HeadOfLine
    <2> QED BY <1>0, <2>3, <2>6, <2>7, LoopServes
  <1> QED BY <1>1, <1>2

\* post() on an unfree or free semaphore leaves value at most at the capacity,
\* and notifies whenever it ends up entirely free.
LEMMA ServePost ==
    ASSUME ServeInv, post, capacity' = capacity, Inv', queue' = queue, pc' = pc
    PROVE  ServeInv'
  <1>1. value \in Int /\ capacity \in Nat /\ capacity # 0 /\ value <= capacity
    BY DEF ServeInv, Inv, TypeOK
  <1>2. value' <= capacity' /\ value' \in Int BY <1>1 DEF post
  <1>3. value' = capacity' => free_evt'
    <2>1. value' = capacity' => value' > 0 BY <1>1
    <2>2. value' > 0 => free_evt' BY DEF post, NotifyIfFree
    <2> QED BY <2>1, <2>2
  <1> QED BY <1>1, <1>2, <1>3 DEF ServeInv, FreeSemaphoreServes

\* A resize moves value and capacity by the same amount.
LEMMA ServeResize ==
    ASSUME Limited, ServeInv, NEW p \in Procs, NEW c \in Resizes,
           SetCapacity(p, c), Inv'
    PROVE  ServeInv'
  <1>1. value \in Int /\ capacity \in Nat /\ value <= capacity /\ c \in Nat /\ c # 0
    BY CapacityAssumption DEF ServeInv, Inv, TypeOK, Limited
  <1>2. value' = value - (capacity - c) /\ capacity' = c BY DEF SetCapacity
  <1>3. value' <= capacity' /\ (value' = capacity' => value' > 0) BY <1>1, <1>2
  <1>4. value' > 0 => free_evt' BY <1>2 DEF SetCapacity, NotifyIfFree
  <1> QED BY <1>1, <1>2, <1>3, <1>4 DEF ServeInv, FreeSemaphoreServes

\* free_evt wakes the head of the line along with everybody else.
LEMMA ServeDeliver ==
    ASSUME ServeInv, Deliver, Inv', Waiting' = Waiting
    PROVE  ServeInv'
  <1>1. Waiting # {} => HeadOfLine(queue) \in Waiting
    <2> SUFFICES ASSUME NEW r \in Waiting PROVE HeadOfLine(queue) \in Waiting
      OBVIOUS
    <2>1. PICK k \in {0, 1} : \E i \in 1 .. Len(queue[k]) : queue[k][i] = r
      BY DEF ServeInv, Inv, Disciplined, WaitersQueued
    <2>2. queue \in [{0, 1} -> Seq(Procs)] BY DEF ServeInv, Inv, TypeOK
    <2>3. queue[k] # <<>> BY <2>1, <2>2, NonEmpty
    <2>4. \A j \in {0, 1} : queue[j] # <<>> => Head(queue[j]) \in Waiting
      <3> SUFFICES ASSUME NEW j \in {0, 1}, queue[j] # <<>>
                   PROVE  Head(queue[j]) \in Waiting
        OBVIOUS
      <3>1. Head(queue[j]) = queue[j][1] /\ Len(queue[j]) \in Nat \ {0}
        BY <2>2, TailEntries
      <3> QED BY <3>1 DEF ServeInv, Inv, Disciplined, EntriesWait
    <2> QED BY <2>3, <2>4 DEF HeadOfLine
  <1>2. \A r \in Waiting : pc'[r] = "woken"
    BY DEF Deliver, Waiting, ServeInv, Inv, TypeOK
  <1>3. value' = value /\ capacity' = capacity /\ queue' = queue BY DEF Deliver
  <1>4. HeadOfLine(queue') = HeadOfLine(queue) BY <1>3
  <1>5. FreeSemaphoreServes' BY <1>1, <1>2, <1>4 DEF FreeSemaphoreServes
  <1> QED BY <1>3, <1>5 DEF ServeInv

\* No operation strands the head of the line of a free, limited semaphore.
LEMMA NextServes ==
    ASSUME Limited, ServeInv, [Next]_vars
    PROVE  ServeInv'
  <1>0. Inv /\ Inv' BY NextInv DEF ServeInv
  <1>1. ASSUME NEW p \in Procs, Retry(p) \/ \E k \in Priorities : Wait(p, k)
        PROVE ServeInv'
    BY <1>1, ServeWait
  <1>2. ASSUME NEW p \in Procs, ReleaseOfLock(p) PROVE ServeInv'
    BY <1>0, <1>2, ServePost DEF ReleaseOfLock
  <1>3. ASSUME NEW p \in Procs, Post(p) PROVE ServeInv'
    BY <1>0, <1>3, ServePost DEF Post
  <1>4. ASSUME NEW p \in Procs, TryWait(p) PROVE ServeInv'
    <2>1. value \in Int /\ capacity \in Nat /\ value <= capacity
      BY DEF ServeInv, Inv, TypeOK
    <2>2. value' = value - 1 /\ capacity' = capacity BY <1>4 DEF TryWait
    <2>3. value' <= capacity' /\ value' # capacity' BY <2>1, <2>2
    <2> QED BY <1>0, <2>2, <2>3 DEF ServeInv, FreeSemaphoreServes
  <1>5. ASSUME NEW p \in Procs, NEW c \in Resizes, SetCapacity(p, c)
        PROVE ServeInv'
    BY <1>0, <1>5, ServeResize
  <1>6. CASE Deliver BY <1>0, <1>6, OtherStep, ServeDeliver
  <1>7. CASE UNCHANGED vars
    <2>1. Waiting' = Waiting BY <1>0, <1>7, OtherStep
    <2> QED BY <1>0, <1>7, <2>1
         DEF vars, ServeInv, FreeSemaphoreServes, HeadOfLine
  <1> QED BY <1>1, <1>2, <1>3, <1>4, <1>5, <1>6, <1>7 DEF Next

\* A limited semaphore serves its waiters in every behaviour.
LEMMA ServeInvariance == ASSUME Limited PROVE Spec => []ServeInv
  <1>1. Init => ServeInv
    <2> SUFFICES ASSUME Init PROVE ServeInv OBVIOUS
    <2>1. Inv BY InitInv
    <2>2. Waiting = {} BY DEF Init, Waiting
    <2>3. capacity # 0 /\ value <= capacity
      BY CapacityAssumption DEF Init, Limited
    <2> QED BY <2>1, <2>2, <2>3 DEF ServeInv, FreeSemaphoreServes
  <1>2. ServeInv /\ [Next]_vars => ServeInv' BY NextServes
  <1> QED BY <1>1, <1>2, PTL DEF Spec

\* A limited semaphore is never entirely free while somebody waits and no wake-up
\* of the head of the line is under way.
THEOREM FreeSemaphoreServesWaiters ==
    ASSUME Limited PROVE Spec => []FreeSemaphoreServes
  <1>1. ServeInv => FreeSemaphoreServes BY DEF ServeInv
  <1> QED BY <1>1, ServeInvariance, PTL

\* A limited semaphore never holds more units than its capacity.
THEOREM LimitedNeverOverfull == ASSUME Limited PROVE Spec => []NeverOverfull
  <1>1. ServeInv => NeverOverfull BY DEF ServeInv, NeverOverfull
  <1> QED BY <1>1, ServeInvariance, PTL

-----------------------------------------------------------------------------
\* A process inside wait() owns no unit yet, so that the unit it is granted is a
\* new one.
OwnersRun == \A p \in owned : pc[p] = "running"

LockInv == Inv /\ IsFiniteSet(owned) /\ OwnersRun

\* A pass of the loop of wait() moves one unit from value to a lock, or none.
LEMMA LoopAccounts ==
    ASSUME LockInv, NEW p \in Procs, p \notin owned, NEW q, NEW a,
           WaitLoop(p, q, a), capacity' = capacity
    PROVE  /\ IsFiniteSet(owned') /\ OwnersRun'
           /\ p \in Lockers /\ Accounted => Accounted'
  <1>1. /\ value \in Int /\ capacity \in Nat /\ owned \subseteq Procs
        /\ pc \in [Procs -> {"running", "blocked", "woken"}]
    BY DEF Procs, LockInv, Inv, TypeOK
  <1>2. IsFiniteSet(owned) /\ Cardinality(owned) \in Nat /\ OwnersRun
    BY FS_CardinalityType DEF LockInv
  <1>3. CASE ~in_use(p, q)
    <2>1. /\ value' = value - 1 /\ pc' = [pc EXCEPT ![p] = "running"]
          /\ owned' = IF p \in Lockers THEN owned \cup {p} ELSE owned
      BY <1>3 DEF WaitLoop
    <2>2. CASE p \in Lockers
      <3>1. IsFiniteSet(owned') /\ Cardinality(owned') = Cardinality(owned) + 1
        BY <1>2, <2>1, <2>2, FS_AddElement
      <3>2. OwnersRun' BY <1>1, <1>2, <2>1, <2>2 DEF OwnersRun
      <3> QED BY <1>1, <1>2, <2>1, <3>1, <3>2 DEF Accounted
    <2>3. CASE p \notin Lockers
      <3>1. OwnersRun' BY <1>1, <1>2, <2>1, <2>3 DEF OwnersRun
      <3> QED BY <1>2, <2>1, <2>3, <3>1
    <2> QED BY <2>2, <2>3
  <1>4. CASE in_use(p, q)
    <2>1. value' = value /\ owned' = owned /\ pc' = [pc EXCEPT ![p] = "blocked"]
      BY <1>4 DEF WaitLoop
    <2>2. OwnersRun' BY <1>1, <1>2, <2>1 DEF OwnersRun
    <2> QED BY <1>2, <2>1, <2>2 DEF Accounted
  <1> QED
    BY <1>3, <1>4

\* Every step keeps the owners, and all but those of the raw users keep the accounts.
LEMMA NextAccounts ==
    ASSUME LockInv, [Next]_vars
    PROVE  /\ LockInv'
           /\ Accounted /\ (\A p \in RawUsers : ~RawUse(p)) => Accounted'
  <1> DEFINE Kept == LockInv' /\ (Accounted /\ (\A p \in RawUsers : ~RawUse(p)) => Accounted')
  <1> SUFFICES Kept OBVIOUS
  <1>1. Inv'
    BY NextInv DEF LockInv
  <1>2. value \in Int /\ capacity \in Nat /\ pc \in [Procs -> {"running", "blocked", "woken"}]
        /\ owned \subseteq Procs
    BY DEF LockInv, Inv, TypeOK, Procs
  <1>3. IsFiniteSet(owned) /\ Cardinality(owned) \in Nat /\ OwnersRun
    BY FS_CardinalityType DEF LockInv
  <1>4. ASSUME NEW p \in Procs, NEW k \in Priorities, Wait(p, k)  PROVE Kept
    <2>1. /\ IsFiniteSet(owned') /\ OwnersRun'
          /\ p \in Lockers /\ Accounted => Accounted'
      BY <1>4, LoopAccounts DEF Wait
    <2>2. p \in Lockers \/ (p \in RawUsers /\ RawUse(p)) BY <1>4 DEF Procs, RawUse
    <2> QED BY <1>1, <2>1, <2>2 DEF LockInv
  <1>5. ASSUME NEW p \in Procs, Retry(p)  PROVE Kept
    <2>1. p \notin owned
      BY <1>3, <1>5 DEF Retry, OwnersRun
    <2>2. /\ IsFiniteSet(owned') /\ OwnersRun'
          /\ p \in Lockers /\ Accounted => Accounted'
      BY <1>5, <2>1, LoopAccounts DEF Retry
    <2>3. p \in Lockers \/ (p \in RawUsers /\ RawUse(p)) BY <1>5 DEF Procs, RawUse
    <2> QED BY <1>1, <2>2, <2>3 DEF LockInv
  <1>6. ASSUME NEW p \in Procs, ReleaseOfLock(p)  PROVE Kept
    <2>1. p \in owned /\ owned' = owned \ {p} /\ capacity' = capacity /\ pc' = pc
      BY <1>6 DEF ReleaseOfLock
    <2>2. IsFiniteSet(owned') /\ Cardinality(owned') = Cardinality(owned) - 1
      BY <1>3, <2>1, FS_RemoveElement
    <2>3. Cardinality(owned') \in Nat
      BY <2>2, FS_CardinalityType
    <2>4. ASSUME Accounted PROVE Accounted'
      \* the lock owns a unit, so the semaphore is not entirely free
      <3>1. value # capacity BY <1>2, <1>3, <2>2, <2>3, <2>4 DEF Accounted
      <3>2. value' = value + 1 BY <1>6, <3>1 DEF ReleaseOfLock, post
      <3> QED BY <1>2, <1>3, <2>1, <2>2, <2>4, <3>2 DEF Accounted
    <2> QED
      BY <1>1, <1>3, <2>1, <2>2, <2>4 DEF LockInv, OwnersRun
  <1>7. ASSUME NEW p \in Procs, Post(p) \/ TryWait(p)  PROVE Kept
    <2>1. p \in RawUsers /\ RawUse(p) BY <1>7 DEF Post, TryWait, RawUse
    <2>2. owned' = owned /\ pc' = pc BY <1>7 DEF Post, TryWait
    <2> QED BY <1>1, <1>3, <2>1, <2>2 DEF LockInv, OwnersRun
  <1>8. ASSUME NEW p \in Procs, NEW c \in Resizes, SetCapacity(p, c)  PROVE Kept
    <2>1. c \in Nat /\ capacity' = c /\ value' = value - (capacity - c)
          /\ owned' = owned /\ pc' = pc
      BY <1>8, CapacityAssumption DEF SetCapacity
    <2> QED
      BY <1>1, <1>2, <1>3, <2>1 DEF LockInv, Accounted, OwnersRun
  <1>9. CASE Deliver
    <2>1. value' = value /\ capacity' = capacity /\ owned' = owned
          /\ \A p \in Procs : pc[p] = "running" => pc'[p] = "running"
      BY <1>2, <1>9 DEF Deliver
    <2> QED
      BY <1>1, <1>2, <1>3, <2>1 DEF LockInv, Accounted, OwnersRun
  <1>10. CASE UNCHANGED vars
    BY <1>1, <1>3, <1>10 DEF LockInv, Accounted, OwnersRun, vars
  <1> QED
    BY <1>4, <1>5, <1>6, <1>7, <1>8, <1>9, <1>10 DEF Next

\* Initially no lock object owns a unit and all units are there.
LEMMA InitAccounts == Init => LockInv /\ Accounted
  <1> SUFFICES ASSUME Init PROVE LockInv /\ Accounted
    OBVIOUS
  <1>1. Inv /\ owned = {} /\ value = InitCapacity /\ capacity = InitCapacity
    BY InitInv DEF Init
  <1> QED
    BY <1>1, FS_EmptySet, CapacityAssumption DEF LockInv, Accounted, OwnersRun

\* No step of a lock object, of set_capacity or of the kernel loses a unit or makes
\* one: not the cap of post(), not a lock released while others wait, and not a
\* set_capacity below the units in use.
THEOREM LocksAddUp == Spec => LocksAccounted
  <1>1. LockInv /\ [Next]_vars => LockInv' BY NextAccounts
  <1>2. LockInv /\ [Next]_vars =>
            [Accounted /\ (\A p \in RawUsers : ~RawUse(p)) => Accounted']_vars
    BY NextAccounts
  <1> QED
    BY <1>1, <1>2, InitAccounts, PTL DEF Spec, LocksAccounted

\* While only lock objects use the semaphore, the units left and the units owned add
\* up to the capacity in every state.
THEOREM LocksAlwaysAddUp == ASSUME RawUsers = {} PROVE Spec => []Accounted
  <1>1. LockInv /\ Accounted /\ [Next]_vars => LockInv' /\ Accounted' BY NextAccounts
  <1> QED
    BY <1>1, InitAccounts, PTL DEF Spec
=============================================================================
