-------------------------- MODULE OrderedSemaphore --------------------------
(***************************************************************************)
(* scc::ordered_semaphore (sysc/scc/ordered_semaphore.{h,cpp}): a counting  *)
(* semaphore for SystemC processes that grants in the order of arrival,     *)
(* with an urgent queue (priority 1) in front of the ordinary one.          *)
(*                                                                          *)
(* SystemC processes are coroutines: what one does between two calls of     *)
(* sc_core::wait is atomic, so every operation is one action, and a blocked *)
(* wait() is resumed by a Retry action.  The order in which the kernel runs *)
(* the processes of one evaluation phase is implementation defined, so any  *)
(* order is possible.                                                       *)
(***************************************************************************)
EXTENDS Integers, Sequences, FiniteSets

CONSTANTS
    Lockers,        \* processes that use the RAII class ordered_semaphore::lock
    RawUsers,       \* processes that call wait, trywait and post themselves
    InitCapacity,   \* the constructor's init_value, 0 = unlimited, initially empty
    Resizes,        \* the arguments set_capacity is called with
    Priorities,     \* the priorities wait is called with
    MaxDebt,        \* bound: no trywait or set_capacity takes value below -MaxDebt
    MaxValue        \* bound: no post or set_capacity takes value above it

Procs == Lockers \cup RawUsers

ASSUME ClientsAssumption == Lockers \cap RawUsers = {}
ASSUME CapacityAssumption == InitCapacity \in Nat /\ Resizes \subseteq Nat
ASSUME PriorityAssumption == Priorities \subseteq {0, 1}
ASSUME BoundAssumption == MaxDebt \in Nat /\ MaxValue \in Int

VARIABLES
    value,      \* units left; negative after a shrinking set_capacity
    capacity,   \* 0 means no upper limit
    queue,      \* queue[1] is served before queue[0]
    pc,         \* "running", "blocked" in wait(free_evt), "woken" by it
    free_evt,   \* a delta notification of free_evt is pending
    owned,      \* lockers whose lock object owns a unit
    ahead       \* history: the waiters to be granted a unit before p

vars == <<value, capacity, queue, pc, free_evt, owned, ahead>>

Waiting == {p \in Procs : pc[p] # "running"}

Init ==
    /\ value = InitCapacity
    /\ capacity = InitCapacity
    /\ queue = [k \in {0, 1} |-> <<>>]
    /\ pc = [p \in Procs |-> "running"]
    /\ free_evt = FALSE
    /\ owned = {}
    /\ ahead = [p \in Procs |-> {}]

-----------------------------------------------------------------------------
\* The mutated forms of a definition, each a plausible slip in that code,
\* stand in front of it and are named after it.
HeadOfLineOrdinaryFirst(q) == IF q[0] # <<>> THEN Head(q[0]) ELSE Head(q[1])

\* The process that the next free unit is for, queues q not both empty.
HeadOfLine(q) == IF q[1] # <<>> THEN Head(q[1]) ELSE Head(q[0])

\* ~in_use() for whoever asks while a unit is left
in_useByAnyone(p, q) == value <= 0

\* in_use() answers true, called by p while the queues are q.
in_use(p, q) == ~(value > 0 /\ HeadOfLine(q) = p)

PopFrontMissing(q) == IF q[1] # <<>> THEN q ELSE [q EXCEPT ![0] = Tail(@)]

\* in_use() pops the queue that p is the head of.
PopFront(q) == IF q[1] # <<>> THEN [q EXCEPT ![1] = Tail(@)]
                              ELSE [q EXCEPT ![0] = Tail(@)]

\* The history a after p was granted a unit.
Granted(a, p) == [r \in Procs |-> IF r = p THEN {} ELSE a[r] \ {p}]

\* while(in_use()) wait(free_evt); --value;   one pass of the loop by p, the
\* queues being q and the history a.
WaitLoop(p, q, a) ==
    \/ /\ ~in_use(p, q)
       /\ queue' = PopFront(q)
       /\ value' = value - 1
       /\ pc' = [pc EXCEPT ![p] = "running"]
       /\ owned' = IF p \in Lockers THEN owned \cup {p} ELSE owned
       /\ ahead' = Granted(a, p)
    \/ /\ in_use(p, q)
       /\ queue' = q
       /\ pc' = [pc EXCEPT ![p] = "blocked"]
       /\ ahead' = a
       /\ UNCHANGED <<value, owned>>

\* wait() first pushes the calling process onto the queue of its priority.
PushBack(p, k) == [queue EXCEPT ![k] = Append(@, p)]

Stands(r, k) == \E i \in 1 .. Len(queue[k]) : queue[k][i] = r

\* p comes after those that already stand in its queue or in a more urgent one,
\* and an urgent p comes before the ordinary ones.
AheadOnArrival(p, k) ==
    [r \in Procs |->
        IF r = p THEN {w \in Procs : \E j \in k .. 1 : Stands(w, j)}
        ELSE IF k = 1 /\ Stands(r, 0) THEN ahead[r] \cup {p} ELSE ahead[r]]

\* wait(priority), called directly or by the constructor of lock
Wait(p, k) ==
    /\ pc[p] = "running" /\ p \notin owned
    /\ WaitLoop(p, PushBack(p, k), AheadOnArrival(p, k))
    /\ UNCHANGED <<capacity, free_evt>>

\* p was resumed by free_evt and evaluates the loop condition again
Retry(p) ==
    /\ pc[p] = "woken"
    /\ WaitLoop(p, queue, ahead)
    /\ UNCHANGED <<capacity, free_evt>>

NotifyIfFreeNever(v) == free_evt' = free_evt

\* free_evt.notify(SC_ZERO_TIME) if a unit is available
NotifyIfFree(v) == free_evt' = (free_evt \/ v > 0)

postUnlimited ==
    /\ value' = value + 1
    /\ NotifyIfFree(value + 1)

\* post(): a post on an entirely free semaphore leaves value alone
post ==
    LET v == IF capacity # 0 /\ value = capacity THEN value ELSE value + 1
    IN  /\ value' = v
        /\ NotifyIfFree(v)

ReleaseOfLockTwice(p) ==
    /\ p \in Lockers /\ pc[p] = "running"
    /\ owned' = owned \ {p}
    /\ post
    /\ UNCHANGED <<capacity, queue, pc, ahead>>

\* lock::release(), also called by ~lock()
ReleaseOfLock(p) ==
    /\ p \in owned /\ pc[p] = "running"
    /\ owned' = owned \ {p}
    /\ post
    /\ UNCHANGED <<capacity, queue, pc, ahead>>

\* post() by a process that need not hold a unit
Post(p) ==
    /\ p \in RawUsers /\ pc[p] = "running"
    /\ value < MaxValue
    /\ post
    /\ UNCHANGED <<capacity, queue, pc, owned, ahead>>

\* trywait() that takes a unit (the one that returns -1 changes nothing)
TryWait(p) ==
    /\ p \in RawUsers /\ pc[p] = "running"
    /\ value # 0
    /\ value > -MaxDebt
    /\ value' = value - 1
    /\ UNCHANGED <<capacity, queue, pc, free_evt, owned, ahead>>

SetCapacityStoresDiff(p, c) ==
    /\ pc[p] = "running"
    /\ value - (capacity - c) \in -MaxDebt .. MaxValue
    /\ capacity' = capacity - c
    /\ value' = value - (capacity - c)
    /\ NotifyIfFree(value - (capacity - c))
    /\ UNCHANGED <<queue, pc, owned, ahead>>

\* set_capacity(c) of the resizable class (on an ordered_semaphore_t it only warns)
SetCapacity(p, c) ==
    /\ pc[p] = "running"
    /\ value - (capacity - c) \in -MaxDebt .. MaxValue
    /\ capacity' = c
    /\ value' = value - (capacity - c)
    /\ NotifyIfFree(value - (capacity - c))
    /\ UNCHANGED <<queue, pc, owned, ahead>>

\* The kernel's delta notification phase, reached once every process resumed
\* before has run: every process that waits for free_evt becomes runnable.
Deliver ==
    /\ free_evt
    /\ \A p \in Procs : pc[p] # "woken"
    /\ free_evt' = FALSE
    /\ pc' = [p \in Procs |-> IF pc[p] = "blocked" THEN "woken" ELSE pc[p]]
    /\ UNCHANGED <<value, capacity, queue, owned, ahead>>

Next ==
    \/ \E p \in Procs, k \in Priorities : Wait(p, k)
    \/ \E p \in Procs : Retry(p)
    \/ \E p \in Procs : ReleaseOfLock(p)
    \/ \E p \in Procs : Post(p)
    \/ \E p \in Procs : TryWait(p)
    \/ \E p \in Procs, c \in Resizes : SetCapacity(p, c)
    \/ Deliver

Spec == Init /\ [][Next]_vars

\* The kernel keeps running (Deliver, Retry) and every lock object is destroyed
\* at the end of its scope (ReleaseOfLock).
FairSpec ==
    /\ Spec
    /\ WF_vars(Deliver)
    /\ \A p \in Procs : WF_vars(Retry(p)) /\ WF_vars(ReleaseOfLock(p))

-----------------------------------------------------------------------------
\* Type correctness of the members of ordered_semaphore and of the history.
TypeOK ==
    /\ value \in Int
    /\ capacity \in Nat
    /\ queue \in [{0, 1} -> Seq(Procs)]
    /\ pc \in [Procs -> {"running", "blocked", "woken"}]
    /\ free_evt \in BOOLEAN
    /\ owned \in SUBSET Lockers
    /\ ahead \in [Procs -> SUBSET Procs]

\* A process sits in a queue exactly while it is inside wait(), once, and in one
\* queue only: in_use() pops precisely the entry of the process that leaves.
QueueDiscipline ==
    /\ \A k \in {0, 1} : \A i \in 1 .. Len(queue[k]) : queue[k][i] \in Waiting
    /\ \A p \in Waiting : \E k \in {0, 1} : \E i \in 1 .. Len(queue[k]) : queue[k][i] = p
    /\ \A j, k \in {0, 1} : \A h \in 1 .. Len(queue[j]), i \in 1 .. Len(queue[k]) :
            queue[j][h] = queue[k][i] => j = k /\ h = i

\* ordered_semaphore.h:42 "access is granted in the order of arrival": a unit is
\* never handed out by wait() to a process while another one that is to be served
\* before it (it came earlier with the same priority, or is urgent and the granted
\* one is not) still waits.  That is said of a process resumed by free_evt, and of
\* one whose call takes a unit at once while others stand in the queues.  trywait()
\* takes no place in the line and may overtake all of it.
GrantInOrder ==
    [][\A p \in Procs :
        /\ Retry(p) /\ pc'[p] = "running" => ahead[p] = {}
        /\ \A k \in Priorities :
               Wait(p, k) /\ pc'[p] = "running" => AheadOnArrival(p, k)[p] = {}]_vars

\* value never exceeds the capacity of a limited semaphore.
NeverOverfull == capacity # 0 => value <= capacity

\* If nobody holds a unit and somebody waits, the wake-up of the process at the
\* head of the line is under way: the semaphore cannot go idle under a waiter.
FreeSemaphoreServes ==
    capacity # 0 /\ value = capacity /\ Waiting # {} =>
        free_evt \/ pc[HeadOfLine(queue)] = "woken"

\* All units in use are owned by lock objects.
Accounted == value + Cardinality(owned) = capacity

\* A step that may take or give a unit for a process without a lock object.
RawUse(p) == Post(p) \/ TryWait(p) \/ Retry(p) \/ \E k \in Priorities : Wait(p, k)

\* Lock objects, set_capacity and the kernel keep the units left and the units owned
\* in balance with the capacity, also when it shrinks below the units in use: only
\* processes that call wait, trywait and post themselves can upset it.
LocksAccounted ==
    [][Accounted /\ (\A p \in RawUsers : ~RawUse(p)) => Accounted']_vars

\* A process that waits for a lock gets it, if every lock is released, in the end all
\* units in use are owned by locks, and no more urgent requests overtake it.
LockServed ==
    <>[]Accounted /\ <>[][\A p \in Procs : 1 \in Priorities => ~Wait(p, 1)]_vars
        => \A p \in Lockers : p \in Waiting ~> p \in owned

\* ordered_semaphore.h:71 "lock (take) the semaphore, block if not available": a
\* process at the head of the line is not left blocked while a unit is available.
BlocksOnlyIfUnavailable ==
    value > 0 /\ Waiting # {} =>
        free_evt \/ pc[HeadOfLine(queue)] = "woken"
=============================================================================
