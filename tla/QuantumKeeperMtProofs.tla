----------------------- MODULE QuantumKeeperMtProofs ------------------------
(***************************************************************************)
(* Theorems about the multi-threaded quantum keeper, for any number of       *)
(* clients, any quantum, any channel size and any end of the simulation.     *)
(***************************************************************************)
EXTENDS QuantumKeeperMt, SequenceTheorems, FiniteSetTheorems, NaturalSets, TLAPS

-----------------------------------------------------------------------------
(* The invariants *)

ClientStates == {"sync", "run", "push", "flag", "spin", "taskflag", "wait",
                 "free", "notfree", "done"}

Entry == [tick : Times, task : BOOLEAN]

\* What TypeOK leaves open: a target that is on its way lies within the
\* simulation, and tkMin is a time or none.
Ranges ==
    /\ tkMin \in Times \cup {Infinity}
    /\ kpc \in {"timestep", "flag", "spin"} => target \in Times
    /\ kpc = "unblock" => deputy \in Clients

\* The places in which a task of a client can be.
Queued(c) == \E i \in 1 .. Len(chan[c]) : chan[c][i].task
Forwarded(c) == \E i \in 1 .. Len(pending) : pending[i][1] = c
Scheduled(c) == due[c] # None
Busy(c) == busy[c] # None

\* A client has no more than one task, which is in one place, and waits for it.
OneTask(c) ==
    /\ Queued(c) => ~Forwarded(c) /\ ~Scheduled(c) /\ ~Busy(c) /\ ~ready[c]
    /\ Forwarded(c) => ~Scheduled(c) /\ ~Busy(c) /\ ~ready[c]
    /\ Scheduled(c) => ~Busy(c) /\ ~ready[c]
    /\ Busy(c) => ~ready[c]
    /\ Queued(c) \/ Forwarded(c) \/ Scheduled(c) \/ Busy(c) \/ ready[c]
           => cpc[c] \in {"taskflag", "wait"}

\* A report of time is not ahead of its client.  A task is the last entry of the channel;
\* it carries the time its client asked for and is not scheduled before.
Reports(c) ==
    /\ \A i \in 1 .. Len(chan[c]) :
           IF chan[c][i].task THEN i = Len(chan[c]) /\ chan[c][i].tick = asked[c]
                              ELSE chan[c][i].tick <= local[c]
    /\ \A i \in 1 .. Len(pending) : pending[i][1] = c => pending[i][2] = asked[c]
    /\ due[c] # None => due[c] >= asked[c]

Inv == TypeOK /\ Ranges /\ \A c \in Clients : OneTask(c) /\ Reports(c)

\* A non-empty channel has the attention of the time keeper.
Noticed ==
    /\ \A c \in Clients :
           chan[c] # <<>> => update_it \/ cpc[c] \in {"flag", "taskflag"} \/ tkpc \in 1 .. c
    /\ scChan # <<>> => update_it \/ kpc = "flag"

\* What the time keeper found in a channel concerns the client it is at.
Drain == (has_task => has_entries) /\ (tkpc \notin Clients => ~has_entries)

\* The time that the time keeper has of a client is not ahead of it, unless it is the time
\* of a task, for which the client waits.
Judged(c) ==
    /\ ~waiting4sc[c] /\ ~(tkpc = c /\ has_task) => tlt[c] <= local[c]
    /\ tkpc = c /\ has_entries /\ ~has_task => tlt[c] <= local[c]

\* The clients that the time keeper has seen in this pass are not behind its minimum,
\* and between two passes not behind the window.
Window ==
    /\ tkpc \in 1 .. NumClients + 2 =>
           \A c \in Clients : c < tkpc => waiting4sc[c] \/ tkMin <= tlt[c]
    /\ tkpc \in {0, NumClients + 3} =>
           \A c \in Clients : waiting4sc[c] \/ clientMax <= tlt[c] + Quantum

-----------------------------------------------------------------------------
(* Minimum and maximum *)

\* The minimum of two numbers.
LEMMA MinPair ==
    ASSUME NEW a \in Int, NEW b \in Int
    PROVE  Min({a, b}) = IF a <= b THEN a ELSE b
  BY DEF Min

\* The maximum of two numbers.
LEMMA MaxPair ==
    ASSUME NEW a \in Int, NEW b \in Int
    PROVE  Max({a, b}) = IF a >= b THEN a ELSE b
  BY DEF Max

\* The maximum of one number.
LEMMA MaxSingle ==
    ASSUME NEW a \in Int
    PROVE  Max({a}) = a
  BY DEF Max

\* The constants.
LEMMA Constants ==
    /\ NumClients \in Nat \ {0} /\ Quantum \in Nat \ {0} /\ FreeStep \in Nat \ {0}
    /\ MaxTime \in Nat /\ ChannelSize \in Nat \ {0}
    /\ Increments \subseteq Nat /\ Durations \subseteq Nat /\ Events \subseteq Times
    /\ Infinity \in Nat /\ Infinity \notin Times /\ Times \subseteq Nat /\ None \notin Nat
  BY QuantumAssumption, WorkloadAssumption DEF Infinity, Times, None

\* The room of SystemC's channel, with the two updates sent before the simulation starts.
LEMMA KernelRoom ==
    /\ Max({2, ChannelSize}) \in Nat /\ 2 <= Max({2, ChannelSize})
    /\ ChannelSize <= Max({2, ChannelSize})
  BY Constants, MaxPair

\* The next event of SystemC lies ahead.
LEMMA NextEventAhead ==
    ASSUME TypeOK
    PROVE  NextEvent \in Nat /\ NextEvent > now /\ \A e \in FutureEvents : NextEvent <= e
  <1>1. ASSUME NEW e \in FutureEvents  PROVE e \in Nat
    <2>1. CASE e \in Events
      BY <2>1, Constants DEF Times
    <2>2. ASSUME NEW c \in Clients, e = due[c] \/ e = busy[c]  PROVE e \in Nat
      <3>1. e \in Times \cup {None} /\ e > now /\ now \in Times
        BY <2>2 DEF FutureEvents, TypeOK
      <3> QED
        BY <3>1, Constants DEF Times, None
    <2> QED
      BY <2>1, <2>2 DEF FutureEvents
  <1>2. CASE FutureEvents = {}
    <2>1. NextEvent = Infinity /\ now \in Times
      BY <1>2 DEF NextEvent, TypeOK
    <2> QED
      BY <1>2, <2>1, Constants DEF Times, Infinity
  <1>3. CASE FutureEvents # {}
    <2>1. NextEvent = Min(FutureEvents)
      BY <1>3 DEF NextEvent
    <2>2. NextEvent \in FutureEvents /\ \A e \in FutureEvents : NextEvent <= e
      BY <1>1, <1>3, <2>1, MinNat
    <2> QED
      BY <1>1, <2>2 DEF FutureEvents
  <1> QED
    BY <1>2, <1>3

-----------------------------------------------------------------------------
\* Inv holds before the threads start.
LEMMA InvInit == Init => Inv
  <1> SUFFICES ASSUME Init  PROVE Inv
    OBVIOUS
  <1>1. 0 \in Times /\ 0 \in Nat /\ None \notin Times /\ 0 \in 0 .. NumClients + 3
    BY Constants DEF Times, None
  <1>2. scChan \in Seq(Times) /\ pending \in Seq(Clients \X Times)
    BY <1>1 DEF Init
  <1>3. chan \in [Clients -> Seq([tick : Times, task : BOOLEAN])]
    BY <1>1 DEF Init
  <1>4. TypeOK
    <2>1. Len(scChan) <= Max({2, ChannelSize}) /\ \A c \in Clients : Len(chan[c]) <= ChannelSize
      BY Constants, KernelRoom DEF Init
    <2> QED
      BY <1>1, <1>2, <1>3, <2>1, Constants DEF Init, TypeOK
  <1>5. Ranges
    BY DEF Init, Ranges
  <1>6. ASSUME NEW c \in Clients  PROVE OneTask(c) /\ Reports(c)
    BY <1>6 DEF Init, OneTask, Reports, Queued, Forwarded, Scheduled, Busy
  <1> QED
    BY <1>4, <1>5, <1>6 DEF Inv

\* The entries of the channels.
LEMMA EntryType ==
    ASSUME TypeOK, NEW c \in Clients
    PROVE  /\ chan[c] \in Seq(Entry) /\ Len(chan[c]) \in Nat
           /\ \A i \in 1 .. Len(chan[c]) :
                  /\ chan[c][i] \in Entry
                  /\ chan[c][i].tick \in Times /\ chan[c][i].task \in BOOLEAN
  <1>1. chan[c] \in Seq(Entry)
    BY DEF TypeOK, Entry
  <1>2. \A i \in 1 .. Len(chan[c]) : chan[c][i] \in Entry
    BY <1>1, ElementOfSeq
  <1>3. \A x \in Entry : x.tick \in Times /\ x.task \in BOOLEAN
    BY DEF Entry
  <1> QED
    BY <1>1, <1>2, <1>3, LenProperties

\* A step that leaves a client and its task alone.
LEMMA Untouched ==
    ASSUME NEW c \in Clients, OneTask(c), Reports(c), pending' = pending,
           cpc'[c] = cpc[c], local'[c] = local[c], ready'[c] = ready[c], asked'[c] = asked[c],
           chan'[c] = chan[c], due'[c] = due[c], busy'[c] = busy[c]
    PROVE  OneTask(c)' /\ Reports(c)'
  BY DEF OneTask, Reports, Queued, Forwarded, Scheduled, Busy

\* An advance of local time keeps Inv.
LEMMA InvInc ==
    ASSUME Inv, NEW c \in Clients, NEW d \in Nat, Inc(c, d),
           cpc[c] \in {"run", "sync"} \/ (cpc[c] = "wait" /\ ready[c])
    PROVE  Inv'
  <1> USE DEF Inv
  <1>1. /\ local[c] + d \in Times /\ local[c] \in Nat /\ clientMax \in Nat
        /\ local' = [local EXCEPT ![c] = local[c] + d]
    BY Constants DEF TypeOK, Inc, Times
  <1>2. TypeOK'
    <2>1. local' \in [Clients -> Times]
      BY <1>1 DEF TypeOK
    <2>2. limit' \in [Clients -> Nat]
      BY <1>1 DEF TypeOK, Inc
    <2>3. ready' \in [Clients -> BOOLEAN] /\ asked' \in [Clients -> Times]
      BY Constants DEF TypeOK, Inc, Times
    <2>4. cpc' \in [Clients -> ClientStates]
      BY DEF TypeOK, Inc, ClientStates
    <2> QED
      BY <2>1, <2>2, <2>3, <2>4
      DEF TypeOK, Inc, ClientStates, windowVars, keeperVars, drainVars, deputyVars, kernelVars
  <1>3. Ranges'
    BY DEF Ranges, Inc, windowVars, keeperVars, drainVars, deputyVars, kernelVars
  <1>4. ASSUME NEW x \in Clients, x # c  PROVE OneTask(x)' /\ Reports(x)'
    BY <1>4, Untouched DEF TypeOK, Inc, keeperVars, deputyVars
  <1>5. ~Queued(c) /\ ~Forwarded(c) /\ ~Scheduled(c) /\ ~Busy(c)
    BY DEF OneTask
  <1>6. OneTask(c)'
    BY <1>5 DEF TypeOK, OneTask, Inc, keeperVars, deputyVars, Queued, Forwarded, Scheduled, Busy
  <1>7. Reports(c)'
    <2>1. /\ chan' = chan /\ pending' = pending /\ due' = due
          /\ local'[c] = local[c] + d /\ local[c] + d >= local[c]
      BY <1>1 DEF TypeOK, Inc, deputyVars
    <2>2. \A i \in 1 .. Len(chan[c]) : chan[c][i].tick \in Nat
      BY EntryType, Constants
    <2>3. \A i \in 1 .. Len(chan[c]) : chan[c][i].tick <= local'[c]
      BY <1>1, <1>5, <2>1, <2>2 DEF Reports, Queued
    <2> QED
      BY <1>5, <2>1, <2>3 DEF Reports, Queued, Forwarded, Scheduled
  <1> QED
    BY <1>2, <1>3, <1>4, <1>6, <1>7

\* The push of a report into the channel keeps Inv.
LEMMA InvReport ==
    ASSUME Inv, NEW c \in Clients, NEW time \in Times, NEW task \in BOOLEAN,
           Report(c, time, task), cpc[c] \in {"run", "push"},
           asked' = [asked EXCEPT ![c] = IF task THEN time ELSE asked[c]],
           task \/ time = local[c],
           cpc' = [cpc EXCEPT ![c] = IF task THEN "taskflag" ELSE "flag"]
    PROVE  Inv'
  <1> USE DEF Inv
  <1> DEFINE e == [tick |-> time, task |-> task]
  <1>1. /\ chan' = [chan EXCEPT ![c] = Append(chan[c], e)] /\ e \in Entry
        /\ chan[c] \in Seq(Entry) /\ Len(chan[c]) < ChannelSize
    BY DEF TypeOK, Report, Entry
  <1>2. /\ chan'[c] \in Seq(Entry)
        /\ Len(chan'[c]) = Len(chan[c]) + 1 /\ chan'[c][Len(chan[c]) + 1] = e
        /\ \A i \in 1 .. Len(chan[c]) : chan'[c][i] = chan[c][i]
        /\ Len(chan[c]) \in Nat
    <2> HIDE DEF e
    <2>1. chan'[c] = Append(chan[c], e)
      BY <1>1 DEF TypeOK
    <2> QED
      BY <1>1, <2>1, AppendProperties, LenProperties
  <1>3. TypeOK'
    <2>1. chan' \in [Clients -> Seq(Entry)]
      BY <1>1, <1>2 DEF TypeOK, Entry
    <2>2. cpc' \in [Clients -> ClientStates] /\ asked' \in [Clients -> Times]
      BY DEF TypeOK, ClientStates
    <2>3. ASSUME NEW x \in Clients  PROVE Len(chan'[x]) <= ChannelSize
      <3>1. CASE x = c
        BY <1>1, <1>2, <3>1, Constants
      <3>2. CASE x # c
        BY <1>1, <3>2 DEF TypeOK
      <3> QED
        BY <3>1, <3>2
    <2> QED
      BY <2>1, <2>2, <2>3
      DEF TypeOK, Report, Entry, ClientStates, windowVars, keeperVars, drainVars, deputyVars, kernelVars
  <1>4. Ranges'
    BY DEF Ranges, Report, windowVars, keeperVars, drainVars, deputyVars, kernelVars
  <1>5. ASSUME NEW x \in Clients, x # c  PROVE OneTask(x)' /\ Reports(x)'
    BY <1>5, Untouched DEF TypeOK, Report, keeperVars, deputyVars
  <1>6. ~Queued(c) /\ ~Forwarded(c) /\ ~Scheduled(c) /\ ~Busy(c) /\ ~ready[c]
    BY DEF OneTask
  <1>7. /\ local' = local /\ pending' = pending /\ due' = due /\ busy' = busy
        /\ ready' = ready /\ cpc'[c] = IF task THEN "taskflag" ELSE "flag"
        /\ asked'[c] = IF task THEN time ELSE asked[c]
    BY DEF TypeOK, Report, deputyVars
  <1>8. Queued(c)' => task
    <2> SUFFICES ASSUME NEW i \in 1 .. Len(chan'[c]), chan'[c][i].task  PROVE task
      BY DEF Queued
    <2>1. i \notin 1 .. Len(chan[c])
      BY <1>2, <1>6 DEF Queued
    <2>2. i = Len(chan[c]) + 1
      BY <1>2, <2>1
    <2> QED
      BY <1>2, <2>2
  <1>9. OneTask(c)'
    BY <1>6, <1>7, <1>8 DEF OneTask, Forwarded, Scheduled, Busy
  <1>10. Reports(c)'
    <2>1. time \in Int /\ local[c] \in Int
      BY Constants DEF TypeOK, Times
    <2>2. \A i \in 1 .. Len(chan'[c]) : i \in 1 .. Len(chan[c]) \/ i = Len(chan[c]) + 1
      BY <1>2
    <2>3. \A i \in 1 .. Len(chan[c]) : ~chan'[c][i].task /\ chan'[c][i].tick <= local[c]
      BY <1>2, <1>6 DEF Reports, Queued
    <2>4. e.tick = time /\ e.task = task
      OBVIOUS
    <2> HIDE DEF e
    <2> QED
      BY <1>2, <1>6, <1>7, <2>1, <2>2, <2>3, <2>4 DEF Reports, Forwarded, Scheduled
  <1> QED
    BY <1>3, <1>4, <1>5, <1>9, <1>10

\* The store of update_it behind the push keeps Inv.
LEMMA InvFlagUpdate ==
    ASSUME Inv, NEW c \in Clients, FlagUpdate(c)
    PROVE  Inv'
  <1> USE DEF Inv
  <1>1. cpc' \in [Clients -> ClientStates] /\ update_it' = TRUE
    BY DEF TypeOK, ClientStates, FlagUpdate, SetUpdate
  <1>2. TypeOK'
    BY <1>1 DEF TypeOK, FlagUpdate, ClientStates, windowVars, keeperVars, drainVars, deputyVars, kernelVars
  <1>3. Ranges'
    BY DEF Ranges, FlagUpdate, windowVars, keeperVars, drainVars, deputyVars, kernelVars
  <1>4. ASSUME NEW x \in Clients, x # c  PROVE OneTask(x)' /\ Reports(x)'
    BY <1>4, Untouched DEF TypeOK, FlagUpdate, keeperVars, deputyVars
  <1>5. OneTask(c)' /\ Reports(c)'
    <2>1. /\ cpc'[c] = IF cpc[c] = "flag" THEN "spin" ELSE "wait"
          /\ cpc[c] = "flag" \/ cpc[c] = "taskflag"
      BY DEF TypeOK, FlagUpdate
    <2>2. /\ local' = local /\ chan' = chan /\ pending' = pending /\ due' = due
          /\ busy' = busy /\ ready' = ready /\ asked' = asked
      BY DEF FlagUpdate, deputyVars
    <2> QED
      BY <2>1, <2>2 DEF OneTask, Reports, Queued, Forwarded, Scheduled, Busy
  <1> QED
    BY <1>2, <1>3, <1>4, <1>5

\* The other steps of a client neither report nor have a task.
LEMMA InvClientAlone ==
    ASSUME Inv, NEW c \in Clients, Spin(c) \/ FinishThread(c) \/ FinishStore(c)
    PROVE  Inv'
  <1> USE DEF Inv
  <1>1. /\ local' = local /\ asked' = asked /\ chan' = chan /\ pending' = pending
        /\ due' = due /\ busy' = busy /\ ready' = ready /\ kpc' = kpc /\ target' = target
        /\ deputy' = deputy /\ tkMin' = tkMin
    BY DEF Spin, FinishThread, FinishStore, keeperVars, drainVars, deputyVars, kernelVars
  <1>2. cpc[c] \notin {"taskflag", "wait"} /\ \A x \in Clients \ {c} : cpc'[x] = cpc[x]
    BY DEF TypeOK, Spin, FinishThread, FinishStore
  <1>3. TypeOK'
    <2>1. cpc' \in [Clients -> ClientStates]
      BY DEF TypeOK, ClientStates, Spin, FinishThread, FinishStore
    <2>2. limit' \in [Clients -> Nat]
      BY DEF TypeOK, Spin, FinishThread, FinishStore
    <2>3. blocked' \in [Clients -> BOOLEAN] /\ freeRunning' \in BOOLEAN
      BY DEF TypeOK, Spin, FinishThread, FinishStore, deputyVars
    <2>4. UNCHANGED <<took, scChan, update_it, windowVars, keeperVars, now, phase>>
      BY DEF Spin, FinishThread, FinishStore, keeperVars, kernelVars
    <2> QED
      BY <1>1, <2>1, <2>2, <2>3, <2>4 DEF TypeOK, ClientStates, windowVars, keeperVars, drainVars
  <1>4. Ranges'
    BY <1>1 DEF Ranges
  <1>5. ASSUME NEW x \in Clients, x # c  PROVE OneTask(x)' /\ Reports(x)'
    BY <1>1, <1>2, <1>5, Untouched
  <1>6. OneTask(c)' /\ Reports(c)'
    BY <1>1, <1>2 DEF OneTask, Reports, Queued, Forwarded, Scheduled, Busy
  <1> QED
    BY <1>3, <1>4, <1>5, <1>6

\* Every step of a client thread keeps Inv.
LEMMA InvClient ==
    ASSUME Inv, NEW c \in Clients, ClientNext(c)
    PROVE  Inv'
  <1>1. ASSUME NEW d \in Increments, CheckAndSync(c, d)  PROVE Inv'
    <2>1. d \in Nat /\ Inc(c, d) /\ cpc[c] = "run"
      BY <1>1, Constants DEF CheckAndSync
    <2> QED
      BY <2>1, InvInc
  <1>2. CASE EnterThread(c)
    <2>1. 0 \in Nat /\ Inc(c, 0) /\ cpc[c] = "sync"
      BY <1>2 DEF EnterThread
    <2> QED
      BY <2>1, InvInc
  <1>3. CASE AfterTask(c)
    <2>1. took[c] \in Nat /\ Inc(c, took[c]) /\ cpc[c] = "wait" /\ ready[c]
      BY <1>3 DEF AfterTask, Inv, TypeOK
    <2> QED
      BY <2>1, InvInc
  <1>4. CASE PushTime(c)
    <2>1. /\ FALSE \in BOOLEAN /\ Report(c, local[c], FALSE) /\ cpc[c] = "push"
          /\ cpc' = [cpc EXCEPT ![c] = IF FALSE THEN "taskflag" ELSE "flag"]
          /\ asked' = [asked EXCEPT ![c] = IF FALSE THEN local[c] ELSE asked[c]]
          /\ local[c] \in Times
      BY <1>4 DEF PushTime, Inv, TypeOK
    <2> QED
      BY <2>1, InvReport
  <1>5. ASSUME NEW when \in Times, ExecuteOnSysc(c, when)  PROVE Inv'
    <2>1. /\ TRUE \in BOOLEAN /\ Report(c, when, TRUE) /\ cpc[c] = "run"
          /\ cpc' = [cpc EXCEPT ![c] = IF TRUE THEN "taskflag" ELSE "flag"]
          /\ asked' = [asked EXCEPT ![c] = IF TRUE THEN when ELSE asked[c]]
      BY <1>5 DEF ExecuteOnSysc
    <2> QED
      BY <2>1, InvReport
  <1> QED
    BY <1>1, <1>2, <1>3, <1>4, <1>5, InvFlagUpdate, InvClientAlone DEF ClientNext

-----------------------------------------------------------------------------
(* The time keeper *)

\* The time keeper that sees update_it keeps Inv.
LEMMA InvTkBegin ==
    ASSUME Inv, TkBegin
    PROVE  Inv'
  <1> USE DEF Inv
  <1>1. scTlt' \in Times
    <2>1. CASE scChan = <<>>
      BY <2>1 DEF TkBegin, TypeOK
    <2>2. CASE scChan # <<>>
      <3>1. scChan \in Seq(Times) /\ Len(scChan) \in 1 .. Len(scChan)
        BY <2>2, EmptySeq, LenProperties DEF TypeOK
      <3> QED
        BY <2>2, <3>1, ElementOfSeq DEF TkBegin
    <2> QED
      BY <2>1, <2>2
  <1>2. scChan' \in Seq(Times) /\ Len(scChan') <= Max({2, ChannelSize})
    BY KernelRoom DEF TkBegin
  <1>3. tkpc' \in 0 .. NumClients + 3 /\ update_it' = FALSE
    BY Constants DEF TkBegin
  <1>4. TypeOK'
    BY <1>1, <1>2, <1>3
    DEF TypeOK, TkBegin, clientVars, windowVars, drainVars, deputyVars, kernelVars
  <1>5. Ranges'
    BY DEF Ranges, TkBegin, kernelVars
  <1>6. ASSUME NEW x \in Clients  PROVE OneTask(x)' /\ Reports(x)'
    BY <1>6, Untouched DEF TkBegin, clientVars, deputyVars
  <1> QED
    BY <1>4, <1>5, <1>6

\* The stores of the window keep Inv.
LEMMA InvTkStore ==
    ASSUME Inv, TkStoreMin \/ TkStoreMax \/ TkStoreKernel
    PROVE  Inv'
  <1> USE DEF Inv
  <1>1. WindowMin \in Times /\ KernelTime \in Times
    BY DEF WindowMin, KernelTime, Ranges, TypeOK
  <1>2. clientMin' \in Times /\ clientMax' \in Nat /\ scKernel' \in Times
    BY <1>1, Constants DEF TkStoreMin, TkStoreMax, TkStoreKernel, TypeOK
  <1>3. tkpc' \in 0 .. NumClients + 3 /\ tkMin' \in (Times \cup {Infinity}) \cap Nat
    BY Constants DEF TkStoreMin, TkStoreMax, TkStoreKernel, TypeOK, Ranges
  <1>4. UNCHANGED <<clientVars, chan, scChan, update_it, pending, tlt, scTlt, waiting4sc,
                    drainVars, deputyVars, kernelVars>>
    BY DEF TkStoreMin, TkStoreMax, TkStoreKernel
  <1>5. TypeOK'
    BY <1>2, <1>3, <1>4 DEF TypeOK, clientVars, drainVars, deputyVars, kernelVars
  <1>6. Ranges'
    BY <1>3, <1>4 DEF Ranges, kernelVars
  <1>7. ASSUME NEW x \in Clients  PROVE OneTask(x)' /\ Reports(x)'
    BY <1>4, <1>7, Untouched DEF clientVars, deputyVars
  <1> QED
    BY <1>5, <1>6, <1>7

\* The tasks that wait for the kernel.
LEMMA PendingType ==
    ASSUME TypeOK
    PROVE  /\ pending \in Seq(Clients \X Times) /\ Len(pending) \in Nat
           /\ \A i \in 1 .. Len(pending) :
                  pending[i][1] \in Clients /\ pending[i][2] \in Times
  <1>1. pending \in Seq(Clients \X Times)
    BY DEF TypeOK
  <1>2. \A i \in 1 .. Len(pending) : pending[i] \in Clients \X Times
    BY <1>1, ElementOfSeq
  <1> QED
    BY <1>1, <1>2, LenProperties

\* What taking an entry from a channel leaves there and in pending_tasks.
LEMMA Taken ==
    ASSUME Inv, TkTake
    PROVE  \E c \in Clients, e \in Entry :
               /\ c = tkpc /\ Len(chan[c]) \in Nat \ {0} /\ e = chan[c][1]
               /\ has_entries' = TRUE /\ has_task' = (has_task \/ e.task)
               /\ tlt' = [tlt EXCEPT ![c] = e.tick]
               /\ \A x \in Clients \ {c} : chan'[x] = chan[x]
               /\ chan' \in [Clients -> Seq(Entry)] /\ Len(chan'[c]) = Len(chan[c]) - 1
               /\ \A i \in 1 .. Len(chan'[c]) : chan'[c][i] = chan[c][i + 1]
               /\ pending' = IF e.task THEN Append(pending, <<c, e.tick>>) ELSE pending
  <1> USE DEF Inv
  <1>1. PICK c \in Clients : c = tkpc /\ chan[c] # <<>>
    BY DEF TkTake
  <1>2. chan[c] \in Seq(Entry) /\ Len(chan[c]) \in Nat \ {0} /\ chan \in [Clients -> Seq(Entry)]
    BY <1>1, EntryType, EmptySeq DEF TypeOK, Entry
  <1>3. Head(chan[c]) = chan[c][1] /\ chan[c][1] \in Entry
    BY <1>2, EntryType
  <1>4. /\ Tail(chan[c]) \in Seq(Entry) /\ Len(Tail(chan[c])) = Len(chan[c]) - 1
        /\ \A i \in 1 .. Len(Tail(chan[c])) : Tail(chan[c])[i] = chan[c][i + 1]
    BY <1>1, <1>2, HeadTailProperties
  <1>5. chan' = [chan EXCEPT ![c] = Tail(chan[c])]
    BY <1>1 DEF TkTake
  <1>6. /\ chan'[c] = Tail(chan[c]) /\ chan' \in [Clients -> Seq(Entry)]
        /\ \A x \in Clients \ {c} : chan'[x] = chan[x]
    BY <1>2, <1>4, <1>5
  <1>7. /\ has_entries' = TRUE /\ has_task' = (has_task \/ chan[c][1].task)
        /\ tlt' = [tlt EXCEPT ![c] = chan[c][1].tick]
        /\ pending' = IF chan[c][1].task THEN Append(pending, <<c, chan[c][1].tick>>)
                                          ELSE pending
    BY <1>1, <1>3 DEF TkTake
  <1> DEFINE e == chan[c][1]
  <1>8. e \in Entry
    BY <1>3
  <1>9. /\ has_entries' = TRUE /\ has_task' = (has_task \/ e.task)
        /\ tlt' = [tlt EXCEPT ![c] = e.tick]
        /\ pending' = IF e.task THEN Append(pending, <<c, e.tick>>) ELSE pending
    BY <1>7
  <1>10. Len(chan'[c]) = Len(chan[c]) - 1 /\ \A i \in 1 .. Len(chan'[c]) : chan'[c][i] = chan[c][i + 1]
    BY <1>4, <1>6
  <1>11. e = chan[c][1]
    OBVIOUS
  <1> HIDE DEF e
  <1> QED
    BY <1>1, <1>2, <1>6, <1>8, <1>9, <1>10, <1>11, Zenon

\* Taking an entry from a channel, and forwarding its task, keeps Inv.
LEMMA InvTkTake ==
    ASSUME Inv, TkTake
    PROVE  Inv'
  <1> USE DEF Inv
  <1>1. PICK c \in Clients, e \in Entry :
             /\ c = tkpc /\ Len(chan[c]) \in Nat \ {0} /\ e = chan[c][1]
             /\ has_entries' = TRUE /\ has_task' = (has_task \/ e.task)
             /\ tlt' = [tlt EXCEPT ![c] = e.tick]
             /\ \A x \in Clients \ {c} : chan'[x] = chan[x]
             /\ chan' \in [Clients -> Seq(Entry)] /\ Len(chan'[c]) = Len(chan[c]) - 1
             /\ \A i \in 1 .. Len(chan'[c]) : chan'[c][i] = chan[c][i + 1]
             /\ pending' = IF e.task THEN Append(pending, <<c, e.tick>>) ELSE pending
    BY Taken
  <1>2. e.tick \in Times /\ e.task \in BOOLEAN /\ <<c, e.tick>> \in Clients \X Times
    BY DEF Entry
  <1>3. UNCHANGED <<clientVars, scChan, update_it, windowVars, tkpc, scTlt, waiting4sc, tkMin,
                    deputyVars, kernelVars>>
    BY DEF TkTake
  <1>4. /\ pending' \in Seq(Clients \X Times)
        /\ Len(pending') = IF e.task THEN Len(pending) + 1 ELSE Len(pending)
        /\ \A i \in 1 .. Len(pending) : pending'[i] = pending[i]
        /\ e.task => pending'[Len(pending) + 1] = <<c, e.tick>>
    <2>1. CASE e.task
      <3>1. pending' = Append(pending, <<c, e.tick>>)
        BY <1>1, <2>1
      <3> QED
        BY <1>2, <2>1, <3>1, PendingType, AppendProperties
    <2>2. CASE ~e.task
      BY <1>1, <2>2, PendingType
    <2> QED
      BY <2>1, <2>2
  <1>5. e.task => Queued(c) /\ e.tick = asked[c] /\ Len(chan[c]) = 1
    <2> SUFFICES ASSUME e.task  PROVE Queued(c) /\ e.tick = asked[c] /\ Len(chan[c]) = 1
      OBVIOUS
    <2>1. 1 \in 1 .. Len(chan[c]) /\ chan[c][1].task
      BY <1>1
    <2>2. 1 = Len(chan[c]) /\ chan[c][1].tick = asked[c]
      BY <2>1 DEF Reports
    <2> QED
      BY <1>1, <2>1, <2>2 DEF Queued
  <1>6. Queued(c)' => ~e.task /\ Queued(c)
    <2> SUFFICES ASSUME NEW i \in 1 .. Len(chan'[c]), chan'[c][i].task
                 PROVE  ~e.task /\ Queued(c)
      BY DEF Queued
    <2>1. i + 1 \in 1 .. Len(chan[c]) /\ Len(chan[c]) # 1 /\ chan'[c][i] = chan[c][i + 1]
      BY <1>1
    <2> QED
      BY <1>2, <1>5, <2>1 DEF Queued
  <1>7. TypeOK'
    <2>1. ASSUME NEW x \in Clients  PROVE Len(chan'[x]) <= ChannelSize
      <3>1. Len(chan[x]) <= ChannelSize
        BY DEF TypeOK
      <3>2. CASE x = c
        BY <1>1, <3>1, <3>2, Constants
      <3>3. CASE x # c
        BY <1>1, <3>1, <3>3
      <3> QED
        BY <3>2, <3>3
    <2>2. tlt' \in [Clients -> Times] /\ has_entries' \in BOOLEAN /\ has_task' \in BOOLEAN
      BY <1>1, <1>2 DEF TypeOK
    <2> QED
      BY <1>1, <1>3, <1>4, <2>1, <2>2
      DEF TypeOK, Entry, clientVars, windowVars, deputyVars, kernelVars
  <1>8. Ranges'
    BY <1>3 DEF Ranges, kernelVars
  <1>9. UNCHANGED <<cpc, local, ready, asked, due, busy>>
    BY <1>3 DEF clientVars, deputyVars
  <1>10. ASSUME NEW x \in Clients  PROVE Forwarded(x)' <=> Forwarded(x) \/ (x = c /\ e.task)
    BY <1>1, <1>2, <1>4, PendingType DEF Forwarded
  <1>11. ASSUME NEW x \in Clients, NEW i \in 1 .. Len(pending'), pending'[i][1] = x
         PROVE  pending'[i][2] = asked[x]
    <2>1. CASE i \in 1 .. Len(pending)
      BY <1>4, <1>11, <2>1 DEF Reports
    <2>2. CASE i \notin 1 .. Len(pending)
      <3>1. e.task /\ i = Len(pending) + 1
        BY <1>2, <1>4, <2>2, PendingType
      <3> QED
        BY <1>4, <1>5, <1>11, <3>1
    <2> QED
      BY <2>1, <2>2
  <1>12. ASSUME NEW x \in Clients, x # c  PROVE OneTask(x)' /\ Reports(x)'
    <2>1. chan'[x] = chan[x]
      BY <1>1, <1>12
    <2>2. OneTask(x)'
      BY <1>9, <1>10, <1>12, <2>1 DEF OneTask, Queued, Scheduled, Busy
    <2>3. Reports(x)'
      BY <1>9, <1>11, <1>12, <2>1 DEF Reports
    <2> QED
      BY <2>2, <2>3
  <1>13. OneTask(c)'
    BY <1>2, <1>5, <1>6, <1>9, <1>10 DEF OneTask, Scheduled, Busy
  <1>14. Reports(c)'
    <2>1. ASSUME NEW i \in 1 .. Len(chan'[c])
          PROVE  IF chan'[c][i].task THEN i = Len(chan'[c]) /\ chan'[c][i].tick = asked[c]
                                     ELSE chan'[c][i].tick <= local[c]
      <3>1. i + 1 \in 1 .. Len(chan[c]) /\ chan'[c][i] = chan[c][i + 1]
        BY <1>1
      <3>2. IF chan[c][i + 1].task
            THEN i + 1 = Len(chan[c]) /\ chan[c][i + 1].tick = asked[c]
            ELSE chan[c][i + 1].tick <= local[c]
        BY <3>1 DEF Reports
      <3> QED
        BY <1>1, <3>1, <3>2
    <2> QED
      BY <1>9, <1>11, <2>1 DEF Reports
  <1> QED
    BY <1>7, <1>8, <1>12, <1>13, <1>14

\* The end of the collection from a channel keeps Inv.
LEMMA InvTkCollect ==
    ASSUME Inv, TkCollect
    PROVE  Inv'
  <1> USE DEF Inv
  <1>1. PICK c \in Clients : c = tkpc
    BY DEF TkCollect
  <1>2. /\ waiting4sc' = [waiting4sc EXCEPT ![c] = StillWaiting(c)]
        /\ tkMin' = IF StillWaiting(c) THEN tkMin ELSE Slowest(tkMin, tlt[c])
        /\ has_entries' = FALSE /\ has_task' = FALSE /\ tkpc' = tkpc + 1
        /\ UNCHANGED <<clientVars, chan, scChan, update_it, pending, windowVars, tlt, scTlt,
                       deputyVars, kernelVars>>
    BY <1>1 DEF TkCollect
  <1>3. tkMin' \in (Times \cup {Infinity}) \cap Nat
    <2>1. tlt[c] \in Times /\ tkMin \in Times \cup {Infinity} /\ tkMin \in Nat
      BY DEF TypeOK, Ranges
    <2>2. tkMin \in Int /\ tlt[c] \in Int /\ tlt[c] \in Nat
      BY <2>1 DEF Times
    <2>3. Slowest(tkMin, tlt[c]) \in {tkMin, tlt[c]}
      BY <2>2, MinPair DEF Slowest
    <2> QED
      BY <1>2, <2>1, <2>2, <2>3
  <1>4. TypeOK'
    <2>1. waiting4sc' \in [Clients -> BOOLEAN]
      BY <1>2 DEF TypeOK, StillWaiting
    <2>2. tkpc' \in 0 .. NumClients + 3
      BY <1>1, <1>2, Constants DEF Clients
    <2> QED
      BY <1>2, <1>3, <2>1, <2>2
      DEF TypeOK, clientVars, windowVars, deputyVars, kernelVars
  <1>5. Ranges'
    BY <1>2, <1>3 DEF Ranges, kernelVars
  <1>6. ASSUME NEW x \in Clients  PROVE OneTask(x)' /\ Reports(x)'
    BY <1>2, <1>6, Untouched DEF clientVars, deputyVars
  <1> QED
    BY <1>4, <1>5, <1>6

-----------------------------------------------------------------------------
(* The kernel *)

\* The steps that touch no client and no task.
LEMMA InvKernelAlone ==
    ASSUME Inv, NoTasks \/ StoreFreeRunning \/ Unblock \/ Decide \/ PushKernelTime
                \/ FlagKernelTime \/ Timestep
    PROVE  Inv'
  <1> USE DEF Inv
  <1> USE DEF NoTasks, StoreFreeRunning, Unblock, PushKernelTime, FlagKernelTime, Timestep
  <1>1. UNCHANGED <<clientVars, chan, pending, windowVars, keeperVars, due, busy>>
    BY DEF Decide, deputyVars
  <1>2. /\ blocked' \in [Clients -> BOOLEAN] /\ freeRunning' \in BOOLEAN
        /\ update_it' \in BOOLEAN /\ deputy' \in Clients \cup {None}
    BY DEF Decide, TypeOK, SetUpdate, deputyVars
  <1>3. scChan' \in Seq(Times) /\ Len(scChan') <= Max({2, ChannelSize})
    <2>1. CASE PushKernelTime
      <3>1. scChan \in Seq(Times) /\ target \in Times
        BY <2>1 DEF TypeOK, Ranges
      <3>2. scChan' = Append(scChan, target) /\ Len(scChan) < ChannelSize
        BY <2>1
      <3>3. scChan' \in Seq(Times) /\ Len(scChan') = Len(scChan) + 1 /\ Len(scChan) \in Nat
        BY <3>1, <3>2, AppendProperties, LenProperties
      <3> QED
        BY <3>2, <3>3, KernelRoom, Constants
    <2>2. CASE ~PushKernelTime
      BY <2>2 DEF Decide, TypeOK
    <2> QED
      BY <2>1, <2>2
  <1>4. /\ phase' \in {"INITIAL", "PROCESSING", "ARMED"}
        /\ now' \in Times /\ target' \in Nat
        /\ kpc' \in {"method", "unblock", "free", "notfree", "decide", "timestep", "flag",
                     "spin", "ended"}
        /\ kpc' \in {"timestep", "flag", "spin"} => target' \in Times
        /\ kpc' # "unblock"
    <2>1. CASE Decide
      <3>1. NextEvent \in Nat /\ clientMin \in Nat /\ now \in Nat /\ FreeStep \in Nat /\ target \in Nat
        BY NextEventAhead, Constants DEF TypeOK
      <3>2. ASSUME NEW t \in Nat, AdvanceTo(t)
            PROVE  /\ target' \in Nat /\ kpc' \in {"timestep", "ended"} /\ phase' = phase
                   /\ kpc' = "timestep" => target' \in Times
        BY <3>2, Constants DEF AdvanceTo, Times
      <3>3. \/ Again
            \/ \E t \in Nat : AdvanceTo(t)
            \/ phase' = "ARMED" /\ kpc' = "method" /\ target' = target
        BY <2>1, <3>1 DEF Decide
      <3>4. now' = now
        BY <2>1 DEF Decide
      <3> QED
        BY <3>1, <3>2, <3>3, <3>4 DEF Again, TypeOK
    <2>2. CASE ~Decide
      BY <2>2, Constants DEF TypeOK, Ranges
    <2> QED
      BY <2>1, <2>2
  <1>5. TypeOK'
    BY <1>1, <1>2, <1>3, <1>4 DEF TypeOK, clientVars, windowVars, keeperVars, drainVars
  <1>6. Ranges'
    BY <1>1, <1>4 DEF Ranges, keeperVars
  <1>7. ASSUME NEW x \in Clients  PROVE OneTask(x)' /\ Reports(x)'
    BY <1>1, <1>7, Untouched DEF clientVars, keeperVars
  <1> QED
    BY <1>5, <1>6, <1>7

\* The time at which a task is scheduled.
LEMMA ScheduledAt ==
    ASSUME Inv, ScheduleTasks, NEW c \in Clients
    PROVE  /\ Forwarded(c) => due'[c] = IF now >= asked[c] THEN now ELSE asked[c]
           /\ ~Forwarded(c) => due'[c] = due[c]
  <1> USE DEF Inv
  <1> DEFINE of(x) == {pending[i][2] : i \in {j \in 1 .. Len(pending) : pending[j][1] = x}}
  <1>1. due'[c] = IF of(c) = {} THEN due[c] ELSE DueTime(Max(of(c)))
    BY DEF ScheduleTasks
  <1>2. of(c) # {} <=> Forwarded(c)
    BY DEF Forwarded
  <1>3. \A t \in of(c) : t = asked[c]
    BY DEF Reports
  <1> HIDE DEF of
  <1>4. Forwarded(c) => of(c) = {asked[c]}
    BY <1>2, <1>3
  <1>5. asked[c] \in Times /\ now \in Times
    BY DEF TypeOK
  <1>6. asked[c] \in Int /\ now \in Int
    BY <1>5 DEF Times
  <1> QED
    BY <1>1, <1>2, <1>4, <1>6, MaxSingle, MaxPair DEF DueTime

\* sc_method that starts tasks keeps Inv.
LEMMA InvScheduleTasks ==
    ASSUME Inv, ScheduleTasks
    PROVE  Inv'
  <1> USE DEF Inv
  <1>1. /\ pending' = <<>> /\ kpc' \in {"free", "notfree"}
        /\ blocked' \in [Clients -> BOOLEAN] /\ DOMAIN due' = Clients
        /\ UNCHANGED <<clientVars, chan, scChan, update_it, windowVars, keeperVars,
                       busy, freeRunning, now, target, phase, deputy>>
    BY DEF ScheduleTasks, TypeOK
  <1>2. due' = [c \in Clients |-> due'[c]]
    BY DEF ScheduleTasks
  <1>3. ASSUME NEW c \in Clients
        PROVE  /\ Forwarded(c) => due'[c] \in Times /\ due'[c] >= asked[c]
               /\ ~Forwarded(c) => due'[c] = due[c]
               /\ due'[c] \in Times \cup {None}
    <2>1. asked[c] \in Times /\ now \in Times /\ due[c] \in Times \cup {None}
      BY DEF TypeOK
    <2> QED
      BY <2>1, ScheduledAt DEF Times
  <1>4. TypeOK'
    <2>1. due' \in [Clients -> Times \cup {None}]
      BY <1>2, <1>3
    <2>2. pending' \in Seq(Clients \X Times)
      BY <1>1
    <2> QED
      BY <1>1, <2>1, <2>2 DEF TypeOK, clientVars, windowVars, keeperVars, drainVars
  <1>5. Ranges'
    BY <1>1 DEF Ranges, keeperVars
  <1>6. ASSUME NEW c \in Clients  PROVE OneTask(c)' /\ Reports(c)'
    <2>1. /\ ~Forwarded(c)' /\ Len(pending') = 0
          /\ UNCHANGED <<cpc, local, asked, ready, chan, busy>>
      BY <1>1 DEF Forwarded, clientVars, keeperVars
    <2>2. CASE Forwarded(c)
      BY <1>3, <2>1, <2>2 DEF OneTask, Reports, Queued, Scheduled, Busy
    <2>3. CASE ~Forwarded(c)
      <3>1. due'[c] = due[c]
        BY <1>3, <2>3
      <3> QED
        BY <2>1, <2>3, <3>1 DEF OneTask, Reports, Queued, Scheduled, Busy
    <2> QED
      BY <2>2, <2>3
  <1> QED
    BY <1>4, <1>5, <1>6

\* A deputy that runs its task keeps Inv.
LEMMA InvRunTask ==
    ASSUME Inv, NEW c \in Clients, NEW duration \in Durations, RunTask(c, duration)
    PROVE  Inv'
  <1> USE DEF Inv
  <1>1. /\ due[c] # None /\ due' = [due EXCEPT ![c] = None]
        /\ kpc = "method" /\ now + duration \in Times /\ now + duration # None
        /\ duration \in Nat /\ now \in Times
    <2>1. /\ due[c] # None /\ due' = [due EXCEPT ![c] = None]
          /\ kpc = "method" /\ now + duration <= MaxTime
      BY DEF RunTask, DueNow
    <2>2. duration \in Nat /\ now \in Times
      BY Constants DEF TypeOK
    <2> QED
      BY <2>1, <2>2, Constants DEF Times
  <1>2. UNCHANGED <<cpc, local, limit, asked, chan, scChan, update_it, pending, windowVars,
                    keeperVars, blocked, freeRunning, now, target, phase>>
    BY DEF RunTask
  <1>3. /\ took' = [took EXCEPT ![c] = duration]
        /\ \/ /\ ready' = [ready EXCEPT ![c] = TRUE] /\ busy' = busy
              /\ kpc' = "unblock" /\ deputy' = c
           \/ /\ ready' = ready /\ busy' = [busy EXCEPT ![c] = now + duration]
              /\ kpc' = kpc /\ deputy' = deputy
    <2>1. CASE duration = 0
      <3>1. Complete(c, duration) /\ busy' = busy
        BY <2>1 DEF RunTask
      <3> QED
        BY <3>1 DEF Complete
    <2>2. CASE duration # 0
      BY <2>2 DEF RunTask
    <2> QED
      BY <2>1, <2>2
  <1>4. TypeOK'
    <2>1. due' \in [Clients -> Times \cup {None}]
      BY <1>1 DEF TypeOK
    <2>2. busy' \in [Clients -> Times \cup {None}]
      BY <1>1, <1>3 DEF TypeOK
    <2>3. took' \in [Clients -> Nat]
      BY <1>1, <1>3 DEF TypeOK
    <2>4. ready' \in [Clients -> BOOLEAN]
      BY <1>3 DEF TypeOK
    <2> QED
      BY <1>2, <1>3, <2>1, <2>2, <2>3, <2>4 DEF TypeOK, windowVars, keeperVars, drainVars
  <1>5. Ranges'
    BY <1>1, <1>2, <1>3 DEF Ranges, keeperVars
  <1>6. ASSUME NEW x \in Clients, x # c  PROVE OneTask(x)' /\ Reports(x)'
    <2>1. due'[x] = due[x] /\ busy'[x] = busy[x] /\ ready'[x] = ready[x]
      BY <1>1, <1>3, <1>6 DEF TypeOK
    <2> QED
      BY <1>2, <1>6, <2>1, Untouched DEF keeperVars
  <1>7. ~Queued(c) /\ ~Forwarded(c) /\ ~Busy(c) /\ ~ready[c] /\ cpc[c] \in {"taskflag", "wait"}
    BY <1>1 DEF OneTask, Scheduled
  <1>8. due'[c] = None /\ (Busy(c)' => ~ready'[c])
    BY <1>1, <1>3, <1>7 DEF TypeOK, Busy
  <1>9. OneTask(c)' /\ Reports(c)'
    BY <1>2, <1>7, <1>8 DEF OneTask, Reports, Queued, Forwarded, Scheduled, Busy, keeperVars
  <1> QED
    BY <1>4, <1>5, <1>6, <1>9

\* The end of a task that took time keeps Inv.
LEMMA InvEndTask ==
    ASSUME Inv, NEW c \in Clients, EndTask(c)
    PROVE  Inv'
  <1> USE DEF Inv
  <1>1. /\ busy[c] # None /\ busy' = [busy EXCEPT ![c] = None]
        /\ took' = [took EXCEPT ![c] = took[c]] /\ ready' = [ready EXCEPT ![c] = TRUE]
        /\ deputy' = c /\ kpc' = "unblock"
        /\ UNCHANGED <<cpc, local, limit, asked, due, chan, scChan, update_it, pending, windowVars,
                       keeperVars, blocked, freeRunning, now, target, phase>>
    BY DEF EndTask, DoneNow, Complete
  <1>2. TypeOK'
    <2>1. busy' \in [Clients -> Times \cup {None}]
      BY <1>1 DEF TypeOK
    <2>2. took' \in [Clients -> Nat]
      BY <1>1 DEF TypeOK
    <2>3. ready' \in [Clients -> BOOLEAN]
      BY <1>1 DEF TypeOK
    <2> QED
      BY <1>1, <2>1, <2>2, <2>3 DEF TypeOK, windowVars, keeperVars, drainVars
  <1>3. Ranges'
    BY <1>1 DEF Ranges, keeperVars
  <1>4. ASSUME NEW x \in Clients, x # c  PROVE OneTask(x)' /\ Reports(x)'
    <2>1. busy'[x] = busy[x] /\ ready'[x] = ready[x]
      BY <1>1, <1>4 DEF TypeOK
    <2> QED
      BY <1>1, <1>4, <2>1, Untouched DEF keeperVars
  <1>5. ~Queued(c) /\ ~Forwarded(c) /\ ~Scheduled(c) /\ cpc[c] \in {"taskflag", "wait"}
    BY <1>1 DEF OneTask, Busy
  <1>6. busy'[c] = None
    BY <1>1 DEF TypeOK
  <1>7. OneTask(c)' /\ Reports(c)'
    BY <1>1, <1>5, <1>6 DEF OneTask, Reports, Queued, Forwarded, Scheduled, Busy, keeperVars
  <1> QED
    BY <1>2, <1>3, <1>4, <1>7

-----------------------------------------------------------------------------
(* Types, and tasks that never run early *)

\* Every step keeps Inv.
LEMMA InvNext == Inv /\ [Next]_vars => Inv'
  <1> SUFFICES ASSUME Inv, [Next]_vars  PROVE Inv'
    OBVIOUS
  <1>1. CASE Next
    BY <1>1, InvClient, InvTkBegin, InvTkTake, InvTkCollect, InvTkStore, InvKernelAlone,
       InvScheduleTasks, InvRunTask, InvEndTask DEF Next, KeeperNext, KernelNext
  <1>2. CASE UNCHANGED vars
    <2>1. /\ UNCHANGED <<cpc, local, limit, took, ready, asked, chan, scChan, update_it, pending>>
          /\ UNCHANGED <<clientMin, clientMax, scKernel, tkpc, tlt, scTlt, waiting4sc, tkMin>>
          /\ UNCHANGED <<has_entries, has_task>>
          /\ UNCHANGED <<kpc, now, target, phase, deputy, due, busy, blocked, freeRunning>>
      BY <1>2 DEF vars, clientVars, windowVars, keeperVars, drainVars, deputyVars, kernelVars
    <2>2. TypeOK /\ Ranges
      BY DEF Inv
    <2>3. TypeOK'
      BY <2>1, <2>2 DEF TypeOK
    <2>4. Ranges'
      BY <2>1, <2>2 DEF Ranges
    <2>5. ASSUME NEW x \in Clients  PROVE OneTask(x)' /\ Reports(x)'
      BY <2>1, <2>5, Untouched DEF Inv
    <2> QED
      BY <2>3, <2>4, <2>5 DEF Inv
  <1> QED
    BY <1>1, <1>2

\* Inv holds in every reachable state.
LEMMA InvInvariant == Spec => []Inv
  BY InvInit, InvNext, PTL DEF Spec

\* The variables of the client threads, the time keeper and the kernel keep their types, and
\* no channel holds more than it has room for.
THEOREM TypeCorrect == Spec => []TypeOK
  <1>1. Inv => TypeOK
    BY DEF Inv
  <1> QED
    BY <1>1, InvInvariant, PTL

\* Only a deputy that runs its task takes the task away.
LEMMA DueTaken ==
    ASSUME Inv, [Next]_vars, NEW c \in Clients, due[c] # None, due'[c] = None
    PROVE  kpc = "method" /\ DueNow(c)
  <1>1. CASE due' = due
    BY <1>1
  <1>2. ASSUME NEW x \in Clients, NEW d \in Durations, RunTask(x, d)
        PROVE  kpc = "method" /\ DueNow(c)
    <2>1. due' = [due EXCEPT ![x] = None] /\ kpc = "method" /\ DueNow(x)
      BY <1>2 DEF RunTask
    <2>2. x = c
      BY <2>1 DEF Inv, TypeOK
    <2> QED
      BY <2>1, <2>2
  <1>3. CASE ScheduleTasks
    <2>1. ~Forwarded(c)
      BY DEF Inv, OneTask, Scheduled
    <2>2. due'[c] = due[c]
      BY <1>3, <2>1 DEF ScheduleTasks, Forwarded
    <2> QED
      BY <2>2
  <1>4. ASSUME NEW x \in Clients, ClientNext(x)  PROVE due' = due
    BY <1>4 DEF ClientNext, CheckAndSync, EnterThread, AfterTask, Inc, PushTime, ExecuteOnSysc,
       Report, FlagUpdate, Spin, FinishThread, FinishStore, deputyVars
  <1>5. KeeperNext => due' = due
    BY DEF KeeperNext, TkBegin, TkTake, TkCollect, TkStoreMin, TkStoreMax, TkStoreKernel, deputyVars
  <1>6. ASSUME NEW x \in Clients, EndTask(x)  PROVE due' = due
    BY <1>6 DEF EndTask
  <1>7. NoTasks \/ StoreFreeRunning \/ Unblock \/ Decide \/ PushKernelTime \/ FlagKernelTime
        \/ Timestep \/ UNCHANGED vars => due' = due
    BY DEF NoTasks, StoreFreeRunning, Unblock, Decide, PushKernelTime, FlagKernelTime, Timestep,
       vars, deputyVars
  <1> QED
    BY <1>1, <1>2, <1>3, <1>4, <1>5, <1>6, <1>7 DEF Next, KernelNext

\* A task never runs in SystemC before the time its client asked for, which may lie behind or
\* ahead of the client's local time, whatever the clients, the quantum and the other events are.
THEOREM NeverEarly == Spec => TaskNeverEarly
  <1> DEFINE Step == \A c \in Clients : due[c] # None /\ due'[c] = None => now >= asked[c]
  <1>1. ASSUME Inv, [Next]_vars  PROVE Step
    <2> SUFFICES ASSUME NEW c \in Clients, due[c] # None, due'[c] = None
                 PROVE  now >= asked[c]
      OBVIOUS
    <2>1. DueNow(c)
      BY <1>1, DueTaken
    <2>2. due[c] <= now /\ due[c] >= asked[c]
      BY <1>1, <2>1 DEF Inv, Reports, DueNow
    <2>3. due[c] \in Times /\ now \in Times /\ asked[c] \in Times
      BY <1>1 DEF Inv, TypeOK
    <2> QED
      BY <2>2, <2>3 DEF Times
  <1>2. Inv /\ [Next]_vars => [Step]_vars
    BY <1>1
  <1> QED
    BY <1>2, InvInvariant, PTL DEF Spec, TaskNeverEarly

-----------------------------------------------------------------------------
(* No report is left behind *)

\* Noticed holds before the threads start.
LEMMA NoticedInit == Init => Noticed
  BY DEF Init, Noticed

\* A client that pushes has still to set update_it: Noticed is kept.
LEMMA NoticedClient ==
    ASSUME Inv, Noticed, NEW c \in Clients, ClientNext(c)
    PROVE  Noticed'
  <1> USE DEF Inv
  <1>1. UNCHANGED <<scChan, tkpc, kpc>>
    BY DEF ClientNext, CheckAndSync, EnterThread, AfterTask, Inc, PushTime, ExecuteOnSysc,
       Report, FlagUpdate, Spin, FinishThread, FinishStore, keeperVars, kernelVars
  <1>2. CASE FlagUpdate(c)
    BY <1>2 DEF FlagUpdate, SetUpdate, Noticed
  <1>3. CASE PushTime(c) \/ \E when \in Times : ExecuteOnSysc(c, when)
    <2>1. /\ update_it' = update_it /\ cpc'[c] \in {"flag", "taskflag"}
          /\ \A x \in Clients \ {c} : chan'[x] = chan[x] /\ cpc'[x] = cpc[x]
      BY <1>3 DEF PushTime, ExecuteOnSysc, Report, TypeOK
    <2> QED
      BY <1>1, <2>1 DEF Noticed
  <1>4. CASE ~FlagUpdate(c) /\ ~PushTime(c) /\ ~\E when \in Times : ExecuteOnSysc(c, when)
    <2>1. /\ update_it' = update_it /\ chan' = chan
          /\ cpc[c] \notin {"flag", "taskflag"} /\ \A x \in Clients \ {c} : cpc'[x] = cpc[x]
      BY <1>4 DEF ClientNext, CheckAndSync, EnterThread, AfterTask, Inc, Spin, FinishThread,
         FinishStore, TypeOK
    <2> QED
      BY <1>1, <2>1 DEF Noticed
  <1> QED
    BY <1>2, <1>3, <1>4

\* The time keeper clears update_it before it reads the channels: Noticed is kept.
LEMMA NoticedKeeper ==
    ASSUME Inv, Noticed, KeeperNext
    PROVE  Noticed'
  <1> USE DEF Inv
  <1>1. UNCHANGED <<cpc, kpc>>
    BY DEF KeeperNext, TkBegin, TkTake, TkCollect, TkStoreMin, TkStoreMax, TkStoreKernel, clientVars,
       kernelVars
  <1>2. CASE TkBegin
    <2>1. tkpc' = 1 /\ scChan' = <<>> /\ \A c \in Clients : 1 \in 1 .. c
      BY <1>2 DEF TkBegin, Clients
    <2> QED
      BY <2>1 DEF Noticed
  <1>3. CASE TkCollect
    <2>1. /\ tkpc \in Clients /\ tkpc' = tkpc + 1 /\ UNCHANGED <<chan, scChan, update_it>>
          /\ chan[tkpc] = <<>>
      BY <1>3 DEF TkCollect
    <2>2. ASSUME NEW x \in Clients, x # tkpc, tkpc \in 1 .. x  PROVE tkpc' \in 1 .. x
      BY <2>1, <2>2 DEF Clients
    <2> QED
      BY <1>1, <2>1, <2>2 DEF Noticed
  <1>4. CASE TkTake
    <2>1. /\ tkpc \in Clients /\ UNCHANGED <<tkpc, scChan, update_it>>
          /\ \A x \in Clients \ {tkpc} : chan'[x] = chan[x]
      BY <1>4 DEF TkTake, TypeOK
    <2>2. tkpc \in 1 .. tkpc
      BY <2>1 DEF Clients
    <2> QED
      BY <1>1, <2>1, <2>2 DEF Noticed
  <1>5. CASE TkStoreMin \/ TkStoreMax \/ TkStoreKernel
    <2>1. UNCHANGED <<chan, scChan, update_it>> /\ \A c \in Clients : tkpc \notin 1 .. c
      BY <1>5, Constants DEF TkStoreMin, TkStoreMax, TkStoreKernel, Clients
    <2> QED
      BY <1>1, <2>1 DEF Noticed
  <1> QED
    BY <1>2, <1>3, <1>4, <1>5 DEF KeeperNext

\* The kernel does not touch the reports of clients: Noticed is kept.
LEMMA NoticedKernel ==
    ASSUME Inv, Noticed, KernelNext
    PROVE  Noticed'
  <1>1. UNCHANGED <<chan, tkpc, cpc>>
    BY DEF KernelNext, ScheduleTasks, NoTasks, RunTask, EndTask, StoreFreeRunning, Unblock,
       Decide, PushKernelTime, FlagKernelTime, Timestep, clientVars, keeperVars
  <1>2. CASE PushKernelTime
    BY <1>1, <1>2 DEF PushKernelTime, Noticed
  <1>3. CASE FlagKernelTime
    BY <1>1, <1>3 DEF FlagKernelTime, SetUpdate, Noticed
  <1>4. CASE ~PushKernelTime /\ ~FlagKernelTime
    <2>1. scChan' = scChan /\ update_it' = update_it /\ kpc # "flag"
      BY <1>4 DEF KernelNext, ScheduleTasks, NoTasks, RunTask, EndTask, StoreFreeRunning,
         Unblock, Decide, Timestep
    <2> QED
      BY <1>1, <2>1 DEF Noticed
  <1> QED
    BY <1>2, <1>3, <1>4

\* While the time keeper sleeps and update_it is cleared, no report waits for it that its
\* sender is not about to announce: no interleaving of the senders' push and store with the
\* time keeper's exchange and collection leaves a report behind.
THEOREM NoReportLost == Spec => []NoReportLeftBehind
  <1>1. ASSUME Inv, Noticed, [Next]_vars  PROVE Noticed'
    <2>1. CASE UNCHANGED vars
      BY <1>1, <2>1 DEF Noticed, vars, clientVars, keeperVars, kernelVars
    <2> QED
      BY <1>1, <2>1, NoticedClient, NoticedKeeper, NoticedKernel DEF Next
  <1>2. Inv /\ Noticed => NoReportLeftBehind
    BY DEF Noticed, NoReportLeftBehind
  <1> QED
    BY <1>1, <1>2, NoticedInit, InvInvariant, PTL DEF Spec

-----------------------------------------------------------------------------
(* The window *)

\* Window holds before the threads start.
LEMMA WindowInit == Init => Window
  BY Constants DEF Init, Window, Clients

\* Only the time keeper thread writes the window.
LEMMA KeeperAlone ==
    ASSUME [Next]_vars, ~KeeperNext
    PROVE  UNCHANGED <<keeperVars, windowVars>>
  <1>1. ASSUME NEW c \in Clients, ClientNext(c)  PROVE UNCHANGED <<keeperVars, windowVars>>
    BY <1>1 DEF ClientNext, CheckAndSync, EnterThread, AfterTask, Inc, PushTime, ExecuteOnSysc,
       Report, FlagUpdate, Spin, FinishThread, FinishStore
  <1>2. KernelNext \/ UNCHANGED vars => UNCHANGED <<keeperVars, windowVars>>
    BY DEF KernelNext, ScheduleTasks, NoTasks, RunTask, EndTask, StoreFreeRunning, Unblock,
       Decide, PushKernelTime, FlagKernelTime, Timestep, vars
  <1> QED
    BY <1>1, <1>2 DEF Next

\* Drain and Judged hold before the threads start.
LEMMA JudgedInit == Init => Drain /\ \A c \in Clients : Judged(c)
  BY DEF Init, Drain, Judged

\* A client thread only moves forward.
LEMMA LocalTimeGrows ==
    ASSUME Inv, [Next]_vars, NEW c \in Clients
    PROVE  local'[c] >= local[c] /\ local[c] \in Nat /\ local'[c] \in Nat
  <1>1. Inv'
    BY InvNext
  <1>2. local[c] \in Nat /\ local'[c] \in Nat /\ local \in [Clients -> Times]
    BY <1>1, Constants DEF Inv, TypeOK
  <1>3. ASSUME NEW x \in Clients, NEW d \in Nat, Inc(x, d)  PROVE local'[c] >= local[c]
    <2>1. local' = [local EXCEPT ![x] = local[x] + d]
      BY <1>3 DEF Inc
    <2>2. local'[c] = IF c = x THEN local[c] + d ELSE local[c]
      BY <1>2, <2>1
    <2> QED
      BY <1>2, <2>2
  <1>4. ASSUME NEW x \in Clients, ClientNext(x)  PROVE local'[c] >= local[c]
    <2>1. ASSUME NEW d \in Increments, CheckAndSync(x, d)  PROVE local'[c] >= local[c]
      <3>1. d \in Nat /\ Inc(x, d)
        BY <2>1, Constants DEF CheckAndSync
      <3> QED
        BY <3>1, <1>3
    <2>2. CASE EnterThread(x)
      BY <2>2, <1>3 DEF EnterThread
    <2>3. CASE AfterTask(x)
      <3>1. took[x] \in Nat /\ Inc(x, took[x])
        BY <2>3 DEF AfterTask, Inv, TypeOK
      <3> QED
        BY <3>1, <1>3
    <2>4. CASE PushTime(x) \/ (\E when \in Times : ExecuteOnSysc(x, when)) \/ FlagUpdate(x)
               \/ Spin(x) \/ FinishThread(x) \/ FinishStore(x)
      <3>1. local' = local
        BY <2>4 DEF PushTime, ExecuteOnSysc, Report, FlagUpdate, Spin, FinishThread, FinishStore
      <3> QED
        BY <1>2, <3>1
    <2> QED
      BY <1>4, <2>1, <2>2, <2>3, <2>4 DEF ClientNext
  <1>5. KeeperNext \/ KernelNext \/ UNCHANGED vars => local' = local
    BY DEF KeeperNext, TkBegin, TkTake, TkCollect, TkStoreMin, TkStoreMax, TkStoreKernel,
       KernelNext, ScheduleTasks, NoTasks, RunTask, EndTask, StoreFreeRunning, Unblock,
       Decide, PushKernelTime, FlagKernelTime, Timestep, vars, clientVars
  <1> QED
    BY <1>2, <1>4, <1>5 DEF Next

\* Every step keeps Drain and Judged.
LEMMA JudgedNext ==
    ASSUME Inv, Drain, \A c \in Clients : Judged(c), [Next]_vars
    PROVE  Drain' /\ \A c \in Clients : Judged(c)'
  <1>1. CASE ~KeeperNext
    <2>1. UNCHANGED <<tkpc, tlt, waiting4sc, has_entries, has_task>>
      BY <1>1, KeeperAlone DEF keeperVars, drainVars
    <2>2. ASSUME NEW c \in Clients  PROVE tlt[c] <= local[c] => tlt[c] <= local'[c]
      <3>1. tlt[c] \in Nat
        BY Constants DEF Inv, TypeOK
      <3> QED
        BY <3>1, LocalTimeGrows
    <2> QED
      BY <2>1, <2>2 DEF Drain, Judged
  <1>2. CASE TkTake
    <2>1. PICK c \in Clients, e \in Entry :
               /\ c = tkpc /\ Len(chan[c]) \in Nat \ {0} /\ e = chan[c][1]
               /\ has_entries' = TRUE /\ has_task' = (has_task \/ e.task)
               /\ tlt' = [tlt EXCEPT ![c] = e.tick]
      BY <1>2, Taken
    <2>2. UNCHANGED <<tkpc, waiting4sc, local>>
      BY <1>2 DEF TkTake, clientVars
    <2>3. tlt'[c] = e.tick /\ \A x \in Clients \ {c} : tlt'[x] = tlt[x]
      BY <2>1 DEF Inv, TypeOK
    <2>4. ~e.task => e.tick <= local[c]
      BY <2>1 DEF Inv, Reports
    <2> QED
      BY <2>1, <2>2, <2>3, <2>4 DEF Drain, Judged
  <1>3. CASE TkCollect
    <2>1. PICK c \in Clients : c = tkpc
      BY <1>3 DEF TkCollect
    <2>2. /\ has_entries' = FALSE /\ has_task' = FALSE /\ UNCHANGED <<tlt, local>>
          /\ waiting4sc'[c] = StillWaiting(c)
          /\ \A x \in Clients \ {c} : waiting4sc'[x] = waiting4sc[x]
      BY <1>3, <2>1 DEF TkCollect, clientVars, Inv, TypeOK
    <2>3. ~StillWaiting(c) => tlt[c] <= local[c]
      BY <2>1 DEF StillWaiting, Judged, Drain
    <2> QED
      BY <2>1, <2>2, <2>3 DEF Drain, Judged
  <1>4. CASE TkBegin \/ TkStoreMin \/ TkStoreMax \/ TkStoreKernel
    <2>1. UNCHANGED <<tlt, waiting4sc, has_entries, has_task, local>> /\ tkpc \notin Clients
      BY <1>4, Constants
      DEF TkBegin, TkStoreMin, TkStoreMax, TkStoreKernel, drainVars, clientVars, Clients
    <2>2. ~has_entries /\ ~has_task
      BY <2>1 DEF Drain
    <2> QED
      BY <2>1, <2>2 DEF Drain, Judged
  <1> QED
    BY <1>1, <1>2, <1>3, <1>4 DEF KeeperNext

\* Every step keeps Window.
LEMMA WindowNext ==
    ASSUME Inv, Window, [Next]_vars
    PROVE  Window'
  <1> USE DEF Inv
  <1>1. CASE ~KeeperNext
    BY <1>1, KeeperAlone DEF Window, keeperVars, windowVars
  <1>2. CASE TkBegin
    BY <1>2, Constants DEF TkBegin, Window, Clients
  <1>3. CASE TkCollect
    <2>1. PICK c \in Clients : c = tkpc
      BY <1>3 DEF TkCollect
    <2>2. /\ tkpc' = tkpc + 1 /\ tlt' = tlt /\ waiting4sc'[c] = StillWaiting(c)
          /\ \A x \in Clients \ {c} : waiting4sc'[x] = waiting4sc[x]
          /\ tkMin' = IF StillWaiting(c) THEN tkMin ELSE Slowest(tkMin, tlt[c])
      BY <1>3, <2>1 DEF TkCollect, TypeOK
    <2>3. tkMin \in Nat /\ \A x \in Clients : tlt[x] \in Nat
      BY Constants DEF TypeOK
    <2>4. Slowest(tkMin, tlt[c]) = IF tkMin <= tlt[c] THEN tkMin ELSE tlt[c]
      BY <2>3, MinPair DEF Slowest
    <2>5. tkMin' <= tkMin /\ tkMin' \in Nat /\ (waiting4sc'[c] \/ tkMin' <= tlt[c])
      BY <2>2, <2>3, <2>4
    <2>6. ASSUME NEW x \in Clients, x < tkpc  PROVE waiting4sc'[x] \/ tkMin' <= tlt[x]
      <3>1. x # c /\ (waiting4sc[x] \/ tkMin <= tlt[x])
        BY <2>1, <2>6, Constants DEF Window, Clients
      <3> QED
        BY <2>2, <2>3, <2>5, <3>1
    <2>7. c + 1 \notin {0, NumClients + 3} /\ \A x \in Clients : x < c + 1 => x = c \/ x < c
      BY Constants DEF Clients
    <2> QED
      BY <2>1, <2>2, <2>5, <2>6, <2>7 DEF Window
  <1>7. CASE TkTake
    <2>1. PICK c \in Clients, e \in Entry : c = tkpc /\ tlt' = [tlt EXCEPT ![c] = e.tick]
      BY <1>7, Taken
    <2>2. /\ UNCHANGED <<tkpc, waiting4sc, tkMin>> /\ \A x \in Clients \ {c} : tlt'[x] = tlt[x]
      BY <1>7, <2>1 DEF TkTake, TypeOK
    <2>3. c \notin {0, NumClients + 3} /\ \A x \in Clients : x < c => x # c
      BY Constants DEF Clients
    <2> QED
      BY <2>1, <2>2, <2>3 DEF Window
  <1>4. CASE TkStoreMin
    BY <1>4, Constants DEF TkStoreMin, Window, Clients
  <1>5. CASE TkStoreMax
    <2>1. /\ tkpc' = NumClients + 3 /\ UNCHANGED <<tlt, waiting4sc>>
          /\ clientMax' = WindowMin + Quantum
      BY <1>5, Constants DEF TkStoreMax
    <2>2. ASSUME NEW c \in Clients, ~waiting4sc[c]  PROVE clientMax' <= tlt[c] + Quantum
      <3>1. tkMin <= tlt[c] /\ tlt[c] \in Times /\ tkMin \in Nat
        BY <1>5, <2>2, Constants DEF TkStoreMax, Window, Clients, TypeOK
      <3>2. tkMin # Infinity
        BY <3>1, Constants DEF Times, Infinity
      <3>3. WindowMin = tkMin
        BY <3>2 DEF WindowMin
      <3> QED
        BY <2>1, <3>1, <3>3, Constants DEF Times
    <2>3. NumClients + 3 \notin 1 .. NumClients + 2
      BY Constants
    <2> QED
      BY <2>1, <2>2, <2>3 DEF Window
  <1>6. CASE TkStoreKernel
    BY <1>6, Constants DEF TkStoreKernel, Window
  <1> QED
    BY <1>1, <1>2, <1>3, <1>4, <1>5, <1>6, <1>7 DEF KeeperNext

\* The window that the time keeper publishes never exceeds the local time of a client that
\* runs by more than the quantum.
THEOREM WindowFollows == Spec => []WindowFollowsSlowest
  <1> DEFINE Judgement == Drain /\ \A c \in Clients : Judged(c)
  <1>1. Inv /\ Window /\ Judgement => WindowFollowsSlowest
    <2> SUFFICES ASSUME Inv, Window, Judgement, tkpc = 0, NEW c \in Clients, ~waiting4sc[c]
                 PROVE  clientMax <= local[c] + Quantum
      BY DEF WindowFollowsSlowest
    <2>1. tkpc \notin Clients
      BY DEF Clients
    <2>2. clientMax <= tlt[c] + Quantum /\ tlt[c] <= local[c]
      BY <2>1 DEF Window, Judged
    <2>3. clientMax \in Nat /\ tlt[c] \in Times /\ local[c] \in Times
      BY DEF Inv, TypeOK
    <2> QED
      BY <2>2, <2>3, Constants DEF Times
  <1>2. Inv /\ Judgement /\ [Next]_vars => Judgement'
    BY JudgedNext
  <1>3. Init => Judgement
    BY JudgedInit
  <1> HIDE DEF Judgement
  <1> QED
    BY <1>1, <1>2, <1>3, WindowInit, WindowNext, InvInvariant, PTL DEF Spec
=============================================================================
