--------------------------- MODULE OsKernel_proofs ---------------------------
(***************************************************************************)
(* Theorems about the kernel for every number of tasks, every set of       *)
(* priorities, waits and clocks, and both schedulers, with the lemmas they *)
(* rest on about the operators of OsTask: the type of what each operation  *)
(* makes of a control block, what it leaves alone, and that the searches   *)
(* find a task.                                                            *)
(***************************************************************************)
EXTENDS OsKernel, WellFoundedInduction, TLAPS

-----------------------------------------------------------------------------
(* OsTask *)

\* It waits for time, or will when resumed, only while some is left.
HasTimeLeft(tcb) ==
    /\ tcb.state \in TimedState => tcb.time > 0
    /\ tcb.state = "SUSPENDED" /\ tcb.savedState \in TimedState => tcb.time > 0

\* Well formed and, as long as no tick comes inside os_task_suspend, never waiting
\* for time that is over.
Sound(tcb) == WellFormed(tcb) /\ (~INTERRUPTS => HasTimeLeft(tcb))

\* The entries of task_list after os_task_init have the type of control blocks.
LEMMA InitialType == os_task_init \in [Tid -> TCB]
<1>1. /\ 0 \in Time
      /\ 255 \in ClockId /\ NO_SEM \in Nat /\ 0 \in 0 .. 255
      /\ "SUSPENDED" \in TaskState /\ "NONE" \in YieldPoint
      /\ Bits \in SUBSET Bits
  BY TaskAssumption DEF Time, ClockId, NO_SEM, TaskState, YieldPoint
<1>2. InitialTCB \in TCB
  BY <1>1 DEF InitialTCB, TCB
<1> QED
  BY <1>2 DEF os_task_init

\* os_task_create makes a well-formed READY task of the given priority.
LEMMA CreatedFacts ==
    ASSUME NEW tcb \in TCB, NEW prio \in 0 .. 255
    PROVE  /\ CreatedTCB(tcb, prio) \in TCB
           /\ CreatedTCB(tcb, prio).prio = prio
           /\ CreatedTCB(tcb, prio).state = "READY"
           /\ Sound(CreatedTCB(tcb, prio))
<1> DEFINE r == [tcb EXCEPT !.prio = prio, !.state = "READY",
                            !.savedState = "READY", !.semaphore = 0,
                            !.internal_state = "TOP", !.time = 0]
<1>1. 0 \in Time /\ 0 \in Nat /\ "READY" \in TaskState /\ "TOP" \in YieldPoint
  BY TaskAssumption DEF Time, TaskState, YieldPoint
<1>2. r \in TCB /\ r.prio = prio /\ r.state = "READY" /\ r.savedState = "READY"
  BY <1>1 DEF TCB
<1>3. CreatedTCB(tcb, prio) = Cleared(r)
  BY DEF CreatedTCB
<1> HIDE DEF r
<1>4. /\ Cleared(r) \in TCB
      /\ Cleared(r).prio = r.prio
      /\ Cleared(r).state = r.state
      /\ Cleared(r).savedState = r.savedState
  BY <1>2 DEF Cleared, TCB
<1> QED
  BY <1>2, <1>3, <1>4 DEF Sound, WellFormed, HasTimeLeft, TimedState

\* os_task_kill changes the state and nothing else.
LEMMA KilledFacts ==
    ASSUME NEW tcb \in TCB
    PROVE  /\ [tcb EXCEPT !.state = "KILLED"] \in TCB
           /\ [tcb EXCEPT !.state = "KILLED"].prio = tcb.prio
           /\ [tcb EXCEPT !.state = "KILLED"].state = "KILLED"
           /\ Sound(tcb) => Sound([tcb EXCEPT !.state = "KILLED"])
BY DEF TCB, TaskState, Sound, WellFormed, HasTimeLeft, TimedState

\* os_task_suspend: killed tasks stay killed, a waiter of a semaphore forgets
\* that it waited.
LEMMA SuspendedFacts ==
    ASSUME NEW tcb \in TCB
    PROVE  /\ Suspended(tcb) \in TCB
           /\ Suspended(tcb).prio = tcb.prio
           /\ Suspended(tcb).state
                = IF tcb.state = "KILLED" THEN "KILLED" ELSE "SUSPENDED"
           /\ Sound(tcb) => Sound(Suspended(tcb))
<1>1. CASE tcb.state = "WAITING_SEM"
  BY <1>1 DEF Suspended, SuspendedFrom, TCB, TaskState, YieldPoint, Sound,
     WellFormed, HasTimeLeft, TimedState
<1>2. CASE tcb.state \in {"KILLED", "SUSPENDED"}
  BY <1>2 DEF Suspended, SuspendedFrom, Sound, WellFormed, HasTimeLeft
<1>3. CASE tcb.state \notin {"KILLED", "SUSPENDED", "WAITING_SEM"}
  BY <1>3 DEF Suspended, SuspendedFrom, TCB, TaskState, Sound, WellFormed,
     HasTimeLeft, TimedState
<1> QED
  BY <1>1, <1>2, <1>3

\* The stores of os_task_suspend, whatever state it has read.
LEMMA SuspendedFromFacts ==
    ASSUME NEW tcb \in TCB, NEW state \in TaskState
    PROVE  /\ SuspendedFrom(tcb, state) \in TCB
           /\ SuspendedFrom(tcb, state).prio = tcb.prio
           /\ state \in {"KILLED", "SUSPENDED"} => SuspendedFrom(tcb, state) = tcb
           /\ state \notin {"KILLED", "SUSPENDED"}
                => SuspendedFrom(tcb, state).state = "SUSPENDED"
           /\ WellFormed(tcb) => WellFormed(SuspendedFrom(tcb, state))
<1>1. CASE state = "WAITING_SEM"
  BY <1>1 DEF SuspendedFrom, TCB, TaskState, YieldPoint, WellFormed
<1>2. CASE state \in {"KILLED", "SUSPENDED"}
  BY <1>2 DEF SuspendedFrom
<1>3. CASE state \notin {"KILLED", "SUSPENDED", "WAITING_SEM"}
  BY <1>3 DEF SuspendedFrom, TCB, TaskState, WellFormed
<1> QED
  BY <1>1, <1>2, <1>3

\* os_task_resume: killed tasks stay killed, a READY task stays READY, nobody
\* comes back as a waiter of a semaphore.
LEMMA ResumedFacts ==
    ASSUME NEW tcb \in TCB
    PROVE  /\ Resumed(tcb) \in TCB
           /\ Resumed(tcb).prio = tcb.prio
           /\ tcb.state # "SUSPENDED" => Resumed(tcb) = tcb
           /\ Sound(tcb) => /\ Sound(Resumed(tcb))
                            /\ tcb.state = "SUSPENDED"
                                 => Resumed(tcb).state # "WAITING_SEM"
BY DEF Resumed, TCB, Sound, WellFormed, HasTimeLeft, TimedState

\* os_task_wait_time_set
LEMMA WaitingTimeFacts ==
    ASSUME NEW tcb \in TCB, NEW id \in ClockId, NEW time \in Time
    PROVE  /\ WaitingTime(tcb, id, time) \in TCB
           /\ WaitingTime(tcb, id, time).prio = tcb.prio
           /\ WaitingTime(tcb, id, time).state = "WAITING_TIME"
           /\ Sound(tcb) /\ time # 0
                => Sound(WaitingTime(tcb, id, time))
<1>1. /\ time \in Int
      /\ time # 0 => time > 0
  BY TaskAssumption DEF Time
<1> DEFINE r == WaitingTime(tcb, id, time)
<1>2. r \in TCB
  BY DEF WaitingTime, TCB, TaskState
<1>3. /\ r.prio = tcb.prio /\ r.state = "WAITING_TIME"
      /\ r.savedState = tcb.savedState /\ r.time = time
  BY DEF WaitingTime, TCB
<1> HIDE DEF r
<1>4. Sound(tcb) /\ time # 0 => Sound(r)
  BY <1>1, <1>3 DEF Sound, WellFormed, HasTimeLeft, TimedState
<1> QED
  BY <1>2, <1>3, <1>4 DEF r

\* os_task_internal_state_set
LEMMA YieldedFacts ==
    ASSUME NEW tcb \in TCB, NEW point \in YieldPoint
    PROVE  /\ [tcb EXCEPT !.internal_state = point] \in TCB
           /\ [tcb EXCEPT !.internal_state = point].prio = tcb.prio
           /\ [tcb EXCEPT !.internal_state = point].state = tcb.state
           /\ [tcb EXCEPT !.internal_state = point].semaphore = tcb.semaphore
           /\ Sound(tcb)
                => Sound([tcb EXCEPT !.internal_state = point])
BY DEF TCB, Sound, WellFormed, HasTimeLeft

\* task_tick: only waits for time end, and only they can make a task READY.
LEMMA TickedFacts ==
    ASSUME NEW tcb \in TCB, NEW id \in ClockId, NEW size \in Nat
    PROVE  /\ Ticked(tcb, id, size) \in TCB
           /\ Ticked(tcb, id, size).prio = tcb.prio
           /\ Ticked(tcb, id, size).semaphore = tcb.semaphore
           /\ \/ Ticked(tcb, id, size).state = tcb.state
              \/ /\ tcb.state \in TimedState
                 /\ Ticked(tcb, id, size).state = "READY"
           /\ Sound(tcb) => Sound(Ticked(tcb, id, size))
<1> DEFINE r == Ticked(tcb, id, size)
<1>1. tcb.time \in 0 .. TIME_MOD - 1
  BY DEF TCB, Time
<1>7. 0 \in Time
  BY TaskAssumption DEF Time
<1>2. CASE tcb.state \in TimedState /\ tcb.clockId = id /\ tcb.time > size
  <2>1. tcb.time - size \in 0 .. TIME_MOD - 1 /\ tcb.time - size > 0
    BY <1>1, <1>2, TaskAssumption
  <2>2. ~(tcb.time <= size)
    BY <1>1, <1>2, TaskAssumption
  <2>3. r = [tcb EXCEPT !.time = tcb.time - size]
    BY <1>2, <2>2 DEF Ticked, TimedState
  <2> QED
    BY <2>1, <2>3 DEF TCB, Time, Sound, WellFormed, HasTimeLeft
<1>3. CASE /\ tcb.state = "WAITING_TIME" /\ tcb.clockId = id
           /\ ~(tcb.time > size)
  <2>1. r = [tcb EXCEPT !.time = 0, !.state = "READY"]
    BY <1>1, <1>3 DEF Ticked, TimedState
  <2> QED
    BY <2>1, <1>3, <1>7 DEF TCB, TaskState, Sound, WellFormed, HasTimeLeft, TimedState
<1>4. CASE /\ tcb.state = "WAITING_EVENT_TIMEOUT" /\ tcb.clockId = id
           /\ ~(tcb.time > size)
  <2> DEFINE c == Cleared(tcb)
  <2>1. r = [c EXCEPT !.time = 0, !.state = "READY"]
    BY <1>1, <1>4 DEF Ticked, TimedState
  <2>2. /\ c \in TCB /\ c.prio = tcb.prio /\ c.savedState = tcb.savedState
        /\ c.semaphore = tcb.semaphore
    BY DEF Cleared, TCB
  <2> HIDE DEF c
  <2> QED
    BY <2>1, <2>2, <1>4, <1>7 DEF TCB, TaskState, Sound, WellFormed, HasTimeLeft, TimedState
<1>5. CASE tcb.state = "WAITING_SEM"
  <2>1. (tcb.time + 1) % TIME_MOD \in 0 .. TIME_MOD - 1
    BY <1>1, TaskAssumption
  <2>2. r = [tcb EXCEPT !.time = (tcb.time + 1) % TIME_MOD]
    BY <1>5 DEF Ticked, TimedState
  <2> QED
    BY <2>1, <2>2, <1>5 DEF TCB, Time, Sound, WellFormed, HasTimeLeft, TimedState
<1>6. CASE /\ tcb.state # "WAITING_SEM"
           /\ ~(tcb.state \in TimedState /\ tcb.clockId = id)
  BY <1>6 DEF Ticked, TimedState
<1> QED
  BY <1>2, <1>3, <1>4, <1>5, <1>6 DEF TimedState

-----------------------------------------------------------------------------
\* A nonempty set of natural numbers has a least element.
LEMMA LeastNat ==
    ASSUME NEW T \in SUBSET Nat, T # {}
    PROVE  \E x \in T : \A y \in T : x <= y
<1> DEFINE R == OpToRel(<, Nat)
<1>1. \E x \in T : \A y \in T : ~ (<<y, x>> \in R)
  BY NatLessThanWellFounded, WFMin
<1>2. \A x, y \in Nat : y < x => <<y, x>> \in R
  BY DEF OpToRel
<1> HIDE DEF R
<1>3. \A x, y \in T : x \in Nat /\ y \in Nat
  OBVIOUS
<1>4. \A x, y \in T : ~ (<<y, x>> \in R) => x <= y
  BY <1>2, <1>3
<1> QED
  BY <1>1, <1>4

\* A bounded one has a greatest.
LEMMA GreatestNat ==
    ASSUME NEW T \in SUBSET Nat, T # {}, NEW n \in Nat, \A x \in T : x <= n
    PROVE  \E x \in T : \A y \in T : y <= x
<1> DEFINE D == {n - x : x \in T}
<1>a. \A x \in T : n - x \in Nat
  OBVIOUS
<1>2. \A x \in T : n - x \in D
  OBVIOUS
<1>1. D \in SUBSET Nat /\ D # {}
  <2>1. D # {}
    BY <1>2
  <2>2. \A d \in D : d \in Nat
    BY <1>a
  <2> QED BY <2>1, <2>2
<1>3. ASSUME NEW d \in D PROVE \E x \in T : d = n - x
  OBVIOUS
<1> HIDE DEF D
<1>4. PICK d \in D : \A y \in D : d <= y
  BY <1>1, LeastNat
<1>5. PICK x \in T : d = n - x
  BY <1>3
<1>6. \A y \in T : n - x <= n - y
  BY <1>2, <1>4, <1>5
<1> QED
  BY <1>6

\* highest_prio_ready_task finds a task if one is READY and none of the READY
\* tasks has priority 255.
LEMMA PrioritySearchFinds ==
    ASSUME NEW tl \in [Tid -> TCB], NEW n, ReadyTasks(tl, n) # {},
           \A t \in ReadyTasks(tl, n) : tl[t].prio # 255
    PROVE  highest_prio_ready_task(tl, n) # {}
<1> DEFINE R == ReadyTasks(tl, n)
           P == {tl[t].prio : t \in R}
<1>1. \A t \in R : tl[t].prio \in 0 .. 255
  BY DEF ReadyTasks, TCB
<1>2. P \in SUBSET Nat /\ P # {}
  BY <1>1
<1>3. PICK x \in P : \A y \in P : x <= y
  <2> HIDE DEF P
  <2> QED BY <1>2, LeastNat
<1>4. PICK t \in R : x = tl[t].prio
  OBVIOUS
<1>5. \A u \in R : tl[t].prio <= tl[u].prio
  BY <1>3, <1>4
<1>6. tl[t].prio < 255
  BY <1>1
<1> QED
  BY <1>5, <1>6 DEF highest_prio_ready_task

\* next_ready_task finds a task if one is READY.
LEMMA RoundRobinSearchFinds ==
    ASSUME NEW tl, NEW n \in Nat, NEW last \in Nat, ReadyTasks(tl, n) # {}
    PROVE  next_ready_task(tl, n, last) # {}
<1> DEFINE R == ReadyTasks(tl, n)
           S(t) == ScanSteps(n, ScanStart(n, last), t)
           P == {S(t) : t \in R}
<1>1. ScanStart(n, last) \in Nat /\ (ScanStart(n, last) < n \/ n = 0)
  BY DEF ScanStart
<1>2. \A t \in R : t \in Nat /\ t < n
  BY TaskAssumption DEF ReadyTasks, Tid
<1>3. \A t \in R : S(t) \in Nat
  BY <1>1, <1>2 DEF ScanSteps
<1>4. P \in SUBSET Nat /\ P # {}
  BY <1>3
<1>5. PICK x \in P : \A y \in P : x <= y
  <2> HIDE DEF P
  <2> QED BY <1>4, LeastNat
<1>6. PICK t \in R : x = S(t)
  OBVIOUS
<1> QED
  BY <1>5, <1>6 DEF next_ready_task

-----------------------------------------------------------------------------
(* OsKernel *)

\* The part of the invariant that is about the task list.
ListOK(tl, n) ==
    /\ tl \in [Tid -> TCB]
    /\ \A t \in Tid : t < n => Sound(tl[t]) /\ tl[t].prio \in Prio
    /\ \A t, u \in Tid : t < n /\ u < n /\ t # u => tl[t].prio # tl[u].prio

PriosGiven == \A t \in Created : task_list[t].prio \in Prio

TasksSound == \A t \in Created : Sound(task_list[t])

\* The inductive invariant.  The task that executes is READY only if no task
\* kills itself and goes on.
KernelInv ==
    /\ TypeOK
    /\ UniquePrio
    /\ TasksSound
    /\ PriosGiven
    /\ ~SELF_KILL => ExecutingIsReady

\* A task that is killed stays killed in one step.
KilledStays ==
    \A t \in Created :
        task_list[t].state = "KILLED" => task_list'[t].state = "KILLED"

\* The task ids are the numbers below N_TASKS, none of them NO_TID.
LEMMA TidFacts ==
    /\ N_TASKS \in Nat
    /\ \A t \in Tid : t \in Nat /\ t < N_TASKS /\ t # NO_TID
    /\ \A t \in Nat : t < N_TASKS => t \in Tid
BY TaskAssumption DEF Tid, NO_TID

\* Writing one control block keeps the list well formed if the block is and
\* has the same priority.
LEMMA UpdateOK ==
    ASSUME NEW tl, NEW n, ListOK(tl, n), NEW t \in Tid,
           NEW r \in TCB, r.prio = tl[t].prio, t < n => Sound(r)
    PROVE  ListOK([tl EXCEPT ![t] = r], n)
BY DEF ListOK

\* The new control block must not repeat a priority.
LEMMA CreateOK ==
    ASSUME NEW tl, NEW n \in Tid, ListOK(tl, n), NEW prio \in Prio,
           \A t \in Tid : t < n => tl[t].prio # prio
    PROVE  ListOK(os_task_create(tl, n, prio), n + 1)
<1> DEFINE r == CreatedTCB(tl[n], prio)
<1>1. tl \in [Tid -> TCB] /\ tl[n] \in TCB /\ prio \in 0 .. 255
  BY KernelAssumption DEF ListOK
<1>2. r \in TCB /\ r.prio = prio /\ Sound(r)
  BY <1>1, CreatedFacts
<1>3. os_task_create(tl, n, prio) = [tl EXCEPT ![n] = r]
  BY DEF os_task_create
<1>4. \A t \in Tid : t < n + 1 => t < n \/ t = n
  BY TidFacts
<1> HIDE DEF r
<1> QED
  BY <1>1, <1>2, <1>3, <1>4 DEF ListOK

\* task_tick keeps the list well formed and ends no state but a wait.
LEMMA TickOK ==
    ASSUME NEW tl, NEW n, ListOK(tl, n), NEW id \in ClockId, NEW size \in Nat
    PROVE  /\ ListOK(task_tick(tl, n, id, size), n)
           /\ \A t \in Tid : tl[t].state \in {"READY", "KILLED"}
                => task_tick(tl, n, id, size)[t].state = tl[t].state
<1> DEFINE new == task_tick(tl, n, id, size)
<1>1. tl \in [Tid -> TCB]
  BY DEF ListOK
<1>2. \A t \in Tid : new[t] = IF t < n THEN Ticked(tl[t], id, size) ELSE tl[t]
  BY DEF task_tick
<1>3. \A t \in Tid :
        /\ Ticked(tl[t], id, size) \in TCB
        /\ Ticked(tl[t], id, size).prio = tl[t].prio
        /\ \/ Ticked(tl[t], id, size).state = tl[t].state
           \/ tl[t].state \in TimedState
        /\ Sound(tl[t]) => Sound(Ticked(tl[t], id, size))
  BY <1>1, TickedFacts
<1>4. new \in [Tid -> TCB]
  BY <1>1, <1>3 DEF task_tick
<1> HIDE DEF new
<1>5. ListOK(new, n)
  BY <1>2, <1>3, <1>4 DEF ListOK
<1> QED
  BY <1>2, <1>3, <1>5 DEF new, TimedState

\* os_task_suspend of u with a tick inside.
LEMMA SuspendTickedOK ==
    ASSUME INTERRUPTS, NEW tl, NEW n, ListOK(tl, n), NEW u \in Tid,
           NEW id \in ClockId, NEW size \in Nat
    PROVE  LET new == os_task_suspend_ticked(tl, n, u, id, size)
           IN  /\ ListOK(new, n)
               /\ \A t \in Tid : tl[t].state \in {"READY", "KILLED"} /\ t # u
                                   => new[t].state = tl[t].state
               /\ tl[u].state = "KILLED" => new[u].state = "KILLED"
<1> DEFINE mid == task_tick(tl, n, id, size)
           r == SuspendedFrom(mid[u], tl[u].state)
           new == os_task_suspend_ticked(tl, n, u, id, size)
<1>1. tl \in [Tid -> TCB] /\ tl[u].state \in TaskState
  BY DEF ListOK, TCB
<1>2. /\ ListOK(mid, n)
      /\ \A t \in Tid : tl[t].state \in {"READY", "KILLED"}
                           => mid[t].state = tl[t].state
  BY TickOK
<1>3. mid \in [Tid -> TCB] /\ new = [mid EXCEPT ![u] = r]
  BY <1>2 DEF ListOK, os_task_suspend_ticked
<1> HIDE DEF mid
<1>4. /\ r \in TCB /\ r.prio = mid[u].prio
      /\ tl[u].state = "KILLED" => r = mid[u]
      /\ WellFormed(mid[u]) => WellFormed(r)
  BY <1>1, <1>3, SuspendedFromFacts
<1> HIDE DEF r
<1>5. u < n => Sound(r)
  BY <1>2, <1>4 DEF ListOK, Sound
<1>6. ListOK([mid EXCEPT ![u] = r], n)
  BY <1>2, <1>4, <1>5, UpdateOK
<1> HIDE DEF new
<1>7. /\ ListOK(new, n)
      /\ \A t \in Tid : tl[t].state \in {"READY", "KILLED"} /\ t # u
                          => new[t].state = tl[t].state
      /\ tl[u].state = "KILLED" => new[u].state = "KILLED"
  BY <1>2, <1>3, <1>4, <1>6
<1> QED
  BY <1>7 DEF new

\* OS_YIELD after writing block r: two writes to the same entry.
LEMMA YieldOK ==
    ASSUME NEW tl, NEW n, ListOK(tl, n), NEW t \in Tid,
           NEW r \in TCB, r.prio = tl[t].prio, t < n => Sound(r),
           NEW point \in YieldPoint
    PROVE  /\ ListOK(os_task_internal_state_set([tl EXCEPT ![t] = r], t, point), n)
           /\ \A u \in Tid \ {t} :
                os_task_internal_state_set([tl EXCEPT ![t] = r], t, point)[u] = tl[u]
<1> DEFINE q == [r EXCEPT !.internal_state = point]
<1>1. tl \in [Tid -> TCB]
  BY DEF ListOK
<1>2. q \in TCB /\ q.prio = tl[t].prio /\ (t < n => Sound(q))
  BY YieldedFacts
<1>3. os_task_internal_state_set([tl EXCEPT ![t] = r], t, point)
        = [tl EXCEPT ![t] = q]
  BY <1>1 DEF os_task_internal_state_set
<1> HIDE DEF q
<1>4. ListOK([tl EXCEPT ![t] = q], n)
  BY <1>2, UpdateOK
<1> QED
  BY <1>1, <1>3, <1>4

-----------------------------------------------------------------------------
\* os_init, with no task created, satisfies it.
LEMMA InitInv == os_init => KernelInv
<1> SUFFICES ASSUME os_init PROVE KernelInv
  OBVIOUS
<1>1. Created = {}
  <2>1. \A t \in Tid : ~(t < 0)
    BY TidFacts
  <2> QED
    BY <2>1 DEF os_init, Created
<1>2. TypeOK
  <2>1. nTasks \in 0 .. N_TASKS /\ loops \in 0 .. TICK_LIMIT + 1
    BY TaskAssumption, KernelAssumption DEF os_init
  <2>2. task_list \in [Tid -> TCB]
    BY InitialType DEF os_init
  <2> QED
    BY <2>1, <2>2 DEF os_init, TypeOK
<1> QED
  BY <1>1, <1>2 DEF os_init, KernelInv, UniquePrio, TasksSound,
     PriosGiven, ExecutingIsReady

-----------------------------------------------------------------------------
(* One step *)

\* What every step from a state with the invariant has to establish.
StepOK == KernelInv' /\ (~SELF_KILL => KilledStays)

\* The part of TypeOK that is not about the task list.
ControlOK ==
    /\ nTasks \in 0 .. N_TASKS
    /\ last_running_task \in Tid \cup {0, NO_TID}
    /\ running \in {0, 1}
    /\ running_tid \in Created \cup {NO_TID}
    /\ loops \in 0 .. TICK_LIMIT + 1
    /\ halted \in BOOLEAN

\* The invariant in the two parts the steps are about.
LEMMA InvParts ==
    KernelInv <=> /\ ListOK(task_list, nTasks)
                  /\ ControlOK
                  /\ ~SELF_KILL => ExecutingIsReady
BY DEF KernelInv, TypeOK, ControlOK, ListOK, UniquePrio, TasksSound, PriosGiven, Created

\* The same for the state after the step.
LEMMA InvPartsNext ==
    ASSUME ListOK(task_list', nTasks'), ControlOK',
           ~SELF_KILL => ExecutingIsReady' /\ KilledStays
    PROVE  StepOK
BY DEF StepOK, KernelInv, TypeOK, ControlOK, ListOK, UniquePrio,
   TasksSound, PriosGiven, Created

\* A step that leaves the task list alone.
LEMMA SameListOK ==
    ASSUME KernelInv, UNCHANGED <<task_list, nTasks>>, ControlOK',
           \/ UNCHANGED running_tid
           \/ running_tid' = NO_TID
           \/ task_list[running_tid'].state = "READY"
    PROVE  StepOK
<1>1. ListOK(task_list', nTasks')
  BY InvParts
<1>2. ~SELF_KILL => ExecutingIsReady' /\ KilledStays
  BY DEF KernelInv, ExecutingIsReady, KilledStays, Created
<1> QED
  BY <1>1, <1>2, InvPartsNext

\* A macro of the running task t that leaves block r and yields.
LEMMA YieldStepOK ==
    ASSUME KernelInv, NEW t \in Tid, Executing(t),
           NEW r \in TCB, r.prio = task_list[t].prio,
           Sound(task_list[t]) => Sound(r),
           NEW point \in YieldPoint,
           OS_YIELD(t, [task_list EXCEPT ![t] = r], point)
    PROVE  StepOK
<1>1. ListOK(task_list, nTasks) /\ ControlOK
  BY InvParts
<1>2. t < nTasks => Sound(r)
  BY <1>1 DEF ListOK
<1>3. /\ ListOK(task_list', nTasks')
      /\ \A u \in Tid \ {t} : task_list'[u] = task_list[u]
  BY <1>1, <1>2, YieldOK DEF OS_YIELD
<1>4. ControlOK'
  BY <1>1 DEF OS_YIELD, ControlOK, Created
<1>5. ~SELF_KILL => ExecutingIsReady' /\ KilledStays
  BY <1>3 DEF OS_YIELD, Executing, KernelInv, ExecutingIsReady, KilledStays,
     Created
<1> QED
  BY <1>3, <1>4, <1>5, InvPartsNext

\* A call that leaves block r of task u and lets the running task t go on.
LEMMA ContinueStepOK ==
    ASSUME KernelInv, NEW t \in Tid, Executing(t), NEW u \in Tid,
           u = t => SELF_KILL,
           NEW r \in TCB, r.prio = task_list[u].prio,
           Sound(task_list[u]) => Sound(r),
           task_list[u].state = "KILLED" => r.state = "KILLED",
           Continue([task_list EXCEPT ![u] = r])
    PROVE  StepOK
<1>1. ListOK(task_list, nTasks) /\ ControlOK
  BY InvParts
<1>2. u < nTasks => Sound(r)
  BY <1>1 DEF ListOK
<1>3. /\ task_list' = [task_list EXCEPT ![u] = r]
      /\ UNCHANGED <<nTasks, running_tid>>
  BY DEF Continue
<1>4. ListOK(task_list', nTasks')
  BY <1>1, <1>2, <1>3, UpdateOK
<1>5. ControlOK'
  BY <1>1 DEF Continue, ControlOK, Created
<1>6. ~SELF_KILL => ExecutingIsReady' /\ KilledStays
  BY <1>1, <1>3 DEF Executing, KernelInv, ExecutingIsReady, KilledStays,
     Created, ListOK
<1> QED
  BY <1>4, <1>5, <1>6, InvPartsNext

\* os_task_create and os_start.
LEMMA MainOK == ASSUME KernelInv, Main PROVE StepOK
<1>1. ListOK(task_list, nTasks) /\ ControlOK
  BY InvParts
<1>2. CASE os_start
  <2>1. ControlOK'
    BY <1>1, <1>2 DEF os_start, ControlOK, Created
  <2> QED
    BY <1>2, <2>1, SameListOK DEF os_start
<1>3. ASSUME NEW prio \in Prio, TaskCreate(prio), MayCreate(prio)
      PROVE  StepOK
  <2>1. /\ task_list' = os_task_create(task_list, nTasks, prio)
        /\ nTasks' = nTasks + 1
        /\ UNCHANGED <<last_running_task, running, running_tid, loops, halted>>
    BY <1>3 DEF TaskCreate
  <2>2. nTasks \in Tid
    BY <1>1, <1>3, TidFacts DEF MayCreate, ControlOK
  <2>3. \A t \in Tid : t < nTasks => task_list[t].prio # prio
    BY <1>3 DEF MayCreate, Created
  <2>4. ListOK(task_list', nTasks')
    BY <1>1, <2>1, <2>2, <2>3, CreateOK
  <2>5. \A t \in Tid : t < nTasks => /\ t < nTasks'
                                     /\ task_list'[t] = task_list[t]
    BY <1>1, <2>1, <2>2, TidFacts DEF ListOK, os_task_create
  <2>6. ControlOK'
    BY <1>1, <2>1, <2>2, <2>5, TidFacts DEF ControlOK, Created
  <2>7. ~SELF_KILL => ExecutingIsReady' /\ KilledStays
    BY <1>1, <2>1, <2>5
    DEF KernelInv, ExecutingIsReady, KilledStays, ControlOK, Created
  <2> QED
    BY <2>4, <2>6, <2>7, InvPartsNext
<1>4. ASSUME NEW prio \in Prio, TaskCreate(prio), ~MayCreate(prio)
      PROVE  StepOK
  <2>1. ControlOK'
    BY <1>1, <1>4 DEF TaskCreate, os_on_assert, ControlOK, Created
  <2> QED
    BY <1>4, <2>1, SameListOK DEF TaskCreate, os_on_assert
<1> QED
  BY <1>2, <1>3, <1>4 DEF Main

\* os_schedule: what it picks is READY.
LEMMA ScheduleOK == ASSUME KernelInv, os_schedule PROVE StepOK
<1>1. ListOK(task_list, nTasks) /\ ControlOK
  BY InvParts
<1>2. CountLoop /\ loops <= TICK_LIMIT => loops' \in 0 .. TICK_LIMIT + 1
  BY <1>1, KernelAssumption DEF CountLoop, ControlOK
<1>3. ASSUME NEW t \in Tid, Dispatch(t) PROVE StepOK
  <2>1. t < nTasks /\ task_list[t].state = "READY"
    BY <1>3 DEF Dispatch, Picked, next_ready_task, highest_prio_ready_task,
       ReadyTasks
  <2>2. ControlOK'
    BY <1>1, <1>2, <1>3, <2>1 DEF Dispatch, Scheduling, ControlOK, Created
  <2> QED
    BY <1>3, <2>1, <2>2, SameListOK DEF Dispatch
<1>4. CASE Scheduling /\ Sleep
  <2>1. ControlOK'
    BY <1>1, <1>2, <1>4 DEF Sleep, Scheduling, ControlOK, Created
  <2> QED
    BY <1>4, <2>1, SameListOK DEF Sleep
<1>5. CASE Scheduling /\ SchedulePastTaskList
  <2>1. ControlOK'
    BY <1>1, <1>5 DEF SchedulePastTaskList, os_on_assert, ControlOK, Created
  <2> QED
    BY <1>5, <2>1, SameListOK DEF SchedulePastTaskList, os_on_assert
<1> QED
  BY <1>3, <1>4, <1>5 DEF os_schedule, NothingFound

\* os_tick and os_sub_nTick, between any two calls of a task.
LEMMA ClockOK == ASSUME KernelInv, Clock PROVE StepOK
<1>1. ListOK(task_list, nTasks) /\ ControlOK
  BY InvParts
<1>2. PICK id \in ClockId, size \in Nat : Tick(id, size)
  BY KernelAssumption DEF Clock, os_tick, os_sub_nTick, ClockId
<1>3. /\ ListOK(task_list', nTasks')
      /\ \A t \in Tid : task_list[t].state \in {"READY", "KILLED"}
                          => task_list'[t].state = task_list[t].state
  BY <1>1, <1>2, TickOK DEF Tick
<1>4. ControlOK'
  BY <1>1, <1>2 DEF Tick, ControlOK, Created
<1>5. ~SELF_KILL => ExecutingIsReady' /\ KilledStays
  BY <1>1, <1>2, <1>3
  DEF Tick, KernelInv, ExecutingIsReady, KilledStays, ControlOK, Created
<1> QED
  BY <1>3, <1>4, <1>5, InvPartsNext

\* A tick is of a clock, by a number.
LEMMA TickKindFacts == \A k \in TickKinds : k[1] \in ClockId /\ k[2] \in Nat
<1>1. /\ <<0, 1>>[1] \in ClockId /\ <<0, 1>>[2] \in Nat
      /\ \A k \in (Clocks \ {0}) \X NTicks : k[1] \in Clocks /\ k[2] \in NTicks
  BY DEF ClockId
<1> QED
  BY <1>1, KernelAssumption DEF TickKinds

\* The tick inside os_task_suspend: the task that executes is not its victim.
LEMMA InterruptedOK == ASSUME KernelInv, Interrupted PROVE StepOK
<1>1. ListOK(task_list, nTasks) /\ ControlOK
  BY InvParts
<1>2. PICK t \in Tid, u \in Tid, k \in TickKinds :
         task_suspend_ticked(t, u, k[1], k[2])
  BY DEF Interrupted
<1>3. PICK id \in ClockId, size \in Nat : id = k[1] /\ size = k[2]
  BY TickKindFacts
<1>4. /\ INTERRUPTS /\ Executing(t) /\ u # t
      /\ Continue(os_task_suspend_ticked(task_list, nTasks, u, id, size))
  BY <1>2, <1>3 DEF task_suspend_ticked
<1>5. /\ task_list' = os_task_suspend_ticked(task_list, nTasks, u, id, size)
      /\ UNCHANGED <<nTasks, last_running_task, running, running_tid, loops, halted>>
  BY <1>4 DEF Continue
<1>6. /\ ListOK(task_list', nTasks')
      /\ \A v \in Tid : task_list[v].state \in {"READY", "KILLED"} /\ v # u
                          => task_list'[v].state = task_list[v].state
      /\ task_list[u].state = "KILLED" => task_list'[u].state = "KILLED"
  BY <1>1, <1>4, <1>5, SuspendTickedOK
<1>7. ControlOK'
  BY <1>1, <1>5 DEF ControlOK, Created
<1>8. ~SELF_KILL => ExecutingIsReady' /\ KilledStays
  BY <1>4, <1>5, <1>6 DEF Executing, KernelInv, ExecutingIsReady, KilledStays, Created
<1> QED
  BY <1>6, <1>7, <1>8, InvPartsNext

\* The task macros.
LEMMA TaskOK == ASSUME KernelInv, NEW t \in Tid, TaskStep(t) PROVE StepOK
<1>1. ListOK(task_list, nTasks) /\ ControlOK
  BY InvParts
<1>2. \A u \in Tid : task_list[u] \in TCB
  BY <1>1 DEF ListOK
<1>3. ASSUME NEW id \in Clocks, NEW ticks \in WaitTicks,
             task_wait_id(t, id, ticks)
      PROVE  StepOK
  <2> DEFINE r == WaitingTime(task_list[t], id, ticks)
  <2>1. CASE ticks = 0
    <3>1. ControlOK'
      BY <1>1, <1>3, <2>1 DEF task_wait_id, os_on_assert, ControlOK, Created
    <3> QED
      BY <1>3, <2>1, <3>1, SameListOK DEF task_wait_id, os_on_assert
  <2>2. CASE ticks # 0
    <3>1. /\ r \in TCB /\ r.prio = task_list[t].prio
          /\ Sound(task_list[t]) => Sound(r)
      BY <1>2, <2>2, WaitingTimeFacts, KernelAssumption
    <3>2. /\ Executing(t)
          /\ OS_YIELD(t, [task_list EXCEPT ![t] = r], "WAIT_TICKS")
      BY <1>3, <2>2 DEF task_wait_id, os_task_wait_time_set
    <3>3. "WAIT_TICKS" \in YieldPoint
      BY DEF YieldPoint
    <3> QED
      BY <3>1, <3>2, <3>3, YieldStepOK
  <2> QED
    BY <2>1, <2>2
<1>4. ASSUME NEW u \in Tid, task_suspend(t, u) PROVE StepOK
  <2> DEFINE r == Suspended(task_list[u])
  <2>1. /\ r \in TCB /\ r.prio = task_list[u].prio
        /\ Sound(task_list[u]) => Sound(r)
        /\ task_list[u].state = "KILLED" => r.state = "KILLED"
    BY <1>2, SuspendedFacts
  <2>2. CASE u = t
    <3>1. /\ Executing(t)
          /\ OS_YIELD(t, [task_list EXCEPT ![t] = r], "SUSPEND_TASK")
      BY <1>4, <2>2 DEF task_suspend, os_task_suspend
    <3>2. "SUSPEND_TASK" \in YieldPoint
      BY DEF YieldPoint
    <3> QED
      BY <2>1, <2>2, <3>1, <3>2, YieldStepOK
  <2>3. CASE u # t
    <3>1. Executing(t) /\ Continue([task_list EXCEPT ![u] = r])
      BY <1>4, <2>3 DEF task_suspend, os_task_suspend
    <3> QED
      BY <2>1, <2>3, <3>1, ContinueStepOK
  <2> QED
    BY <2>2, <2>3
<1>5. ASSUME NEW u \in Tid, task_resume(t, u) PROVE StepOK
  <2> DEFINE r == Resumed(task_list[u])
  <2>1. /\ r \in TCB /\ r.prio = task_list[u].prio
        /\ Sound(task_list[u]) => Sound(r)
        /\ task_list[u].state = "KILLED" => r.state = "KILLED"
    BY <1>2, ResumedFacts
  <2>2. CASE u = t
    <3>1. /\ Executing(t)
          /\ OS_YIELD(t, [task_list EXCEPT ![t] = r], "RESUME_TASK")
      BY <1>5, <2>2 DEF task_resume, os_task_resume
    <3>2. "RESUME_TASK" \in YieldPoint
      BY DEF YieldPoint
    <3> QED
      BY <2>1, <2>2, <3>1, <3>2, YieldStepOK
  <2>3. CASE u # t
    <3>1. Executing(t) /\ Continue([task_list EXCEPT ![u] = r])
      BY <1>5, <2>3 DEF task_resume, os_task_resume
    <3> QED
      BY <2>1, <2>3, <3>1, ContinueStepOK
  <2> QED
    BY <2>2, <2>3
<1>6. ASSUME NEW u \in Tid, TaskKill(t, u) PROVE StepOK
  <2> DEFINE r == [task_list[u] EXCEPT !.state = "KILLED"]
  <2>1. /\ r \in TCB /\ r.prio = task_list[u].prio /\ r.state = "KILLED"
        /\ Sound(task_list[u]) => Sound(r)
    BY <1>2, KilledFacts
  <2>2. /\ Executing(t) /\ Continue([task_list EXCEPT ![u] = r])
        /\ u = t => SELF_KILL
    BY <1>6 DEF TaskKill, os_task_kill
  <2> QED
    BY <2>1, <2>2, ContinueStepOK
<1>7. CASE task_close(t)
  <2> DEFINE r == [task_list[t] EXCEPT !.state = "KILLED"]
  <2>1. /\ r \in TCB /\ r.prio = task_list[t].prio /\ r.state = "KILLED"
        /\ Sound(task_list[t]) => Sound(r)
    BY <1>2, KilledFacts
  <2>2. /\ task_list' = [task_list EXCEPT ![t] = r]
        /\ running_tid' = NO_TID
        /\ UNCHANGED <<nTasks, last_running_task, running, loops, halted>>
    BY <1>7 DEF task_close, os_task_kill
  <2> HIDE DEF r
  <2>3. ListOK(task_list', nTasks')
    BY <1>1, <2>1, <2>2, UpdateOK DEF ListOK
  <2>4. ControlOK'
    BY <1>1, <2>2 DEF ControlOK, Created
  <2>5. ~SELF_KILL => ExecutingIsReady' /\ KilledStays
    BY <1>1, <2>1, <2>2 DEF ExecutingIsReady, KilledStays, Created, ListOK
  <2> QED
    BY <2>3, <2>4, <2>5, InvPartsNext
<1> QED
  BY <1>3, <1>4, <1>5, <1>6, <1>7 DEF TaskStep, TaskYield, TaskCall

-----------------------------------------------------------------------------
\* Every step of the kernel.
LEMMA StepInv == KernelInv /\ [KernelNext]_kernelVars => StepOK
<1> SUFFICES ASSUME KernelInv, [KernelNext]_kernelVars PROVE StepOK
  OBVIOUS
<1>1. CASE UNCHANGED kernelVars
  <2>1. ControlOK'
    BY <1>1, InvParts DEF kernelVars, ControlOK, Created
  <2> QED
    BY <1>1, <2>1, SameListOK DEF kernelVars
<1> QED
  BY <1>1, MainOK, ScheduleOK, ClockOK, TaskOK, InterruptedOK DEF KernelNext, Undisturbed

\* The inductive invariant holds of every behaviour, so the type invariant and
\* the invariants about the task list do: priorities stay distinct
\* (os_task_create), and no sequence of suspensions, resumptions and ticks
\* leaves a task in a state it cannot leave.
THEOREM KernelInvariant == KernelSpec => []KernelInv
<1>1. os_init => KernelInv
  BY InitInv
<1>2. KernelInv /\ [KernelNext]_kernelVars => KernelInv'
  BY StepInv DEF StepOK
<1> QED
  BY <1>1, <1>2, PTL DEF KernelSpec

\* The types of the kernel variables and of every control block.
THEOREM KernelType == KernelSpec => []TypeOK
<1>1. KernelInv => TypeOK
  BY DEF KernelInv
<1> QED
  BY <1>1, KernelInvariant, PTL

\* One task per priority, for any number of tasks.
THEOREM PriosUnique == KernelSpec => []UniquePrio
<1>1. KernelInv => UniquePrio
  BY DEF KernelInv
<1> QED
  BY <1>1, KernelInvariant, PTL

\* What is saved of a task can be resumed, a tick inside os_task_suspend or not: it
\* is never a state that the task could not leave by itself.
THEOREM WellFormedAlways == KernelSpec => []TasksWellFormed
<1>1. KernelInv => TasksWellFormed
  BY DEF KernelInv, TasksSound, Sound, TasksWellFormed
<1> QED
  BY <1>1, KernelInvariant, PTL

\* Nobody takes the READY state away from the task that executes, as long as no
\* task kills itself and goes on.
THEOREM RunningStaysReady ==
    ASSUME ~SELF_KILL
    PROVE  KernelSpec => []ExecutingIsReady
<1>1. KernelInv => ExecutingIsReady
  BY DEF KernelInv
<1> QED
  BY <1>1, KernelInvariant, PTL

\* A killed task is never brought back, as long as no task kills itself and
\* goes on.
THEOREM KilledForever ==
    ASSUME ~SELF_KILL
    PROVE  KernelSpec => KilledIsFinal
<1>1. KernelInv /\ [KernelNext]_kernelVars =>
        [\A t \in Created :
           task_list[t].state = "KILLED" => task_list'[t].state = "KILLED"]_kernelVars
  BY StepInv DEF StepOK, KilledStays
<1> QED
  BY <1>1, KernelInvariant, PTL DEF KernelSpec, KilledIsFinal

\* The loop never sleeps while a task is READY: always under round robin, and
\* with fixed priorities if no task is given priority 255.
THEOREM ReadyIsPicked ==
    ASSUME ROUND_ROBIN \/ 255 \notin Prio
    PROVE  KernelSpec => []ReadyIsDispatchable
<1>1. ASSUME KernelInv, ReadyTasks(task_list, nTasks) # {}
      PROVE  Picked # {}
  <2>1. ListOK(task_list, nTasks) /\ ControlOK
    BY <1>1, InvParts
  <2>2. CASE ROUND_ROBIN
    <3>1. nTasks \in Nat /\ last_running_task \in Nat
      BY <2>1, TidFacts DEF ControlOK, NO_TID
    <3> QED
      BY <1>1, <2>2, <3>1, RoundRobinSearchFinds DEF Picked
  <2>3. CASE ~ROUND_ROBIN
    <3>1. \A t \in ReadyTasks(task_list, nTasks) : task_list[t].prio # 255
      BY <2>1, <2>3 DEF ReadyTasks, ListOK
    <3> QED
      BY <1>1, <2>1, <2>3, <3>1, PrioritySearchFinds DEF Picked, ListOK
  <2> QED
    BY <2>2, <2>3
<1>2. KernelInv => ReadyIsDispatchable
  BY <1>1 DEF ReadyIsDispatchable
<1> QED
  BY <1>2, KernelInvariant, PTL

-----------------------------------------------------------------------------
(* Suspension *)

\* The task that executes waits for nothing and is not suspended: it is READY, or
\* has killed itself.
ExecutingRuns ==
    running_tid # NO_TID => task_list[running_tid].state \in {"READY", "KILLED"}

\* What SuspendedIsFrozen says of one control block, r being what is made of tcb.
StaysFrozen(r, tcb) ==
    tcb.state = "SUSPENDED" =>
        /\ [r EXCEPT !.state = "SUSPENDED"] = tcb
        /\ r.state \in {"SUSPENDED", "KILLED", tcb.savedState}

\* What a step has to establish.
FrozenStep ==
    /\ ExecutingRuns'
    /\ \A t \in Created : StaysFrozen(task_list'[t], task_list[t])

\* task_tick, os_task_suspend, os_task_resume and os_task_kill find nothing to
\* change in a suspended task but its state.
LEMMA FrozenFacts ==
    ASSUME NEW tcb \in TCB
    PROVE  /\ StaysFrozen(tcb, tcb)
           /\ \A id, size : StaysFrozen(Ticked(tcb, id, size), tcb)
           /\ StaysFrozen(Suspended(tcb), tcb)
           /\ \A id, size :
                StaysFrozen(SuspendedFrom(Ticked(tcb, id, size), tcb.state), tcb)
           /\ StaysFrozen(Resumed(tcb), tcb)
           /\ StaysFrozen([tcb EXCEPT !.state = "KILLED"], tcb)
<1>1. ASSUME tcb.state = "SUSPENDED"
      PROVE  /\ [tcb EXCEPT !.state = "SUSPENDED"] = tcb
             /\ \A s : [[tcb EXCEPT !.state = s] EXCEPT !.state = "SUSPENDED"] = tcb
             /\ \A s : [tcb EXCEPT !.state = s].state = s
  BY <1>1 DEF TCB
<1>2. tcb.state = "SUSPENDED" => /\ \A id, size : Ticked(tcb, id, size) = tcb
                                 /\ Suspended(tcb) = tcb
                                 /\ SuspendedFrom(tcb, tcb.state) = tcb
                                 /\ Resumed(tcb) = [tcb EXCEPT !.state = tcb.savedState]
  BY DEF Ticked, TimedState, Suspended, SuspendedFrom, Resumed
<1>3. \A r : r = tcb => StaysFrozen(r, tcb)
  BY <1>1 DEF StaysFrozen
<1>4. ASSUME NEW id, NEW size
      PROVE  /\ StaysFrozen(Ticked(tcb, id, size), tcb)
             /\ StaysFrozen(SuspendedFrom(Ticked(tcb, id, size), tcb.state), tcb)
  <2>1. CASE tcb.state = "SUSPENDED"
    <3>1. Ticked(tcb, id, size) = tcb
      BY <1>2, <2>1
    <3>2. SuspendedFrom(Ticked(tcb, id, size), tcb.state) = tcb
      BY <1>2, <2>1, <3>1
    <3> QED
      BY <1>3, <3>1, <3>2
  <2>2. CASE tcb.state # "SUSPENDED"
    BY <2>2 DEF StaysFrozen
  <2> QED
    BY <2>1, <2>2
<1>5. /\ StaysFrozen(tcb, tcb)
      /\ StaysFrozen(Suspended(tcb), tcb)
      /\ StaysFrozen(Resumed(tcb), tcb)
      /\ StaysFrozen([tcb EXCEPT !.state = "KILLED"], tcb)
  BY <1>1, <1>2 DEF StaysFrozen
<1> QED
  BY <1>4, <1>5

\* Steps that leave the task list alone.
LEMMA FrozenSame ==
    ASSUME KernelInv, ExecutingRuns, task_list' = task_list,
           \/ UNCHANGED running_tid
           \/ running_tid' = NO_TID
           \/ task_list[running_tid'].state = "READY"
    PROVE  FrozenStep
<1>1. \A t \in Created : task_list[t] \in TCB
  BY InvParts DEF ListOK, Created
<1> QED
  BY <1>1, FrozenFacts DEF FrozenStep, ExecutingRuns

\* The macro of the running task t, which is not suspended, leaves a block and
\* yields.
LEMMA FrozenYield ==
    ASSUME KernelInv, ExecutingRuns, NEW t \in Tid, Executing(t), NEW r,
           task_list' = [task_list EXCEPT ![t] = r], running_tid' = NO_TID
    PROVE  FrozenStep
<1>1. task_list \in [Tid -> TCB] /\ Created \subseteq Tid
  BY InvParts DEF ListOK, Created
<1>2. ASSUME NEW u \in Created PROVE StaysFrozen(task_list'[u], task_list[u])
  <2>1. CASE u = t
    BY <2>1 DEF Executing, ExecutingRuns, StaysFrozen
  <2>2. CASE u # t
    BY <1>1, <1>2, <2>2, FrozenFacts
  <2> QED
    BY <2>1, <2>2
<1> QED
  BY <1>2 DEF FrozenStep, ExecutingRuns

\* A call that leaves block r of task u and lets the running task go on.
LEMMA FrozenContinue ==
    ASSUME KernelInv, ExecutingRuns, NEW u \in Tid, NEW r,
           StaysFrozen(r, task_list[u]), u # running_tid \/ r.state = "KILLED",
           task_list' = [task_list EXCEPT ![u] = r], UNCHANGED running_tid
    PROVE  FrozenStep
<1>1. task_list \in [Tid -> TCB] /\ Created \subseteq Tid
  BY InvParts DEF ListOK, Created
<1>2. running_tid \in Created \cup {NO_TID}
  BY InvParts DEF ControlOK
<1>3. ASSUME NEW t \in Created PROVE StaysFrozen(task_list'[t], task_list[t])
  BY <1>1, <1>3, FrozenFacts
<1>4. ExecutingRuns'
  BY <1>1, <1>2 DEF ExecutingRuns
<1> QED
  BY <1>3, <1>4 DEF FrozenStep

\* Every step of the kernel keeps suspended tasks as they are.
LEMMA StepFrozen ==
    ASSUME KernelInv, ExecutingRuns, [KernelNext]_kernelVars
    PROVE  FrozenStep
<1>1. ListOK(task_list, nTasks) /\ ControlOK
  BY InvParts
<1>2. task_list \in [Tid -> TCB] /\ Created \subseteq Tid
  BY <1>1 DEF ListOK, Created
<1>3. CASE Main
  <2>1. ASSUME NEW prio \in Prio, TaskCreate(prio), MayCreate(prio)
        PROVE  FrozenStep
    <3>1. task_list' = os_task_create(task_list, nTasks, prio)
          /\ UNCHANGED running_tid
      BY <2>1 DEF TaskCreate
    <3>2. \A t \in Created : t # nTasks
      BY <1>1, TidFacts DEF Created, ControlOK
    <3>3. \A t \in Created : task_list'[t] = task_list[t] /\ task_list[t] \in TCB
      BY <1>2, <3>1, <3>2 DEF os_task_create
    <3>4. running_tid \in Created \cup {NO_TID}
      BY <1>1 DEF ControlOK
    <3> QED
      BY <3>1, <3>3, <3>4, FrozenFacts DEF FrozenStep, ExecutingRuns
  <2>2. ASSUME NEW prio \in Prio, TaskCreate(prio), ~MayCreate(prio)
        PROVE  FrozenStep
    BY <2>2, FrozenSame DEF TaskCreate, os_on_assert
  <2>3. CASE os_start
    BY <2>3, FrozenSame DEF os_start
  <2> QED
    BY <1>3, <2>1, <2>2, <2>3 DEF Main
<1>4. CASE os_schedule
  <2>1. ASSUME NEW t \in Tid, Dispatch(t) PROVE FrozenStep
    <3>1. task_list[t].state = "READY"
      BY <2>1 DEF Dispatch, Picked, next_ready_task, highest_prio_ready_task,
         ReadyTasks
    <3> QED
      BY <2>1, <3>1, FrozenSame DEF Dispatch
  <2>2. CASE NothingFound
    BY <2>2, FrozenSame DEF NothingFound, Sleep, SchedulePastTaskList, os_on_assert
  <2> QED
    BY <1>4, <2>1, <2>2 DEF os_schedule
<1>5. CASE Clock
  <2>1. PICK id \in ClockId, size \in Nat : Tick(id, size)
    BY <1>5, KernelAssumption DEF Clock, os_tick, os_sub_nTick, ClockId
  <2>2. /\ task_list' = task_tick(task_list, nTasks, id, size)
        /\ UNCHANGED <<nTasks, running_tid>>
    BY <2>1 DEF Tick
  <2>3. \A t \in Created : StaysFrozen(task_list'[t], task_list[t])
    BY <1>2, <2>2, FrozenFacts DEF task_tick
  <2>4. \A t \in Tid : task_list[t].state \in {"READY", "KILLED"}
                         => task_list'[t].state = task_list[t].state
    BY <1>1, <2>2, TickOK
  <2>5. running_tid \in Created \cup {NO_TID}
    BY <1>1 DEF ControlOK
  <2> QED
    BY <1>2, <2>2, <2>3, <2>4, <2>5 DEF FrozenStep, ExecutingRuns
<1>6. ASSUME NEW t \in Tid, TaskStep(t) PROVE FrozenStep
  <2>1. ASSUME NEW id \in Clocks, NEW ticks \in WaitTicks, task_wait_id(t, id, ticks)
        PROVE  FrozenStep
    <3> DEFINE r == [WaitingTime(task_list[t], id, ticks)
                       EXCEPT !.internal_state = "WAIT_TICKS"]
    <3>1. CASE ticks = 0
      BY <2>1, <3>1, FrozenSame DEF task_wait_id, os_on_assert
    <3>2. CASE ticks # 0
      <4>1. /\ Executing(t) /\ running_tid' = NO_TID
            /\ task_list' = [task_list EXCEPT ![t] = r]
        BY <1>2, <2>1, <3>2 DEF task_wait_id, OS_YIELD, os_task_wait_time_set,
           os_task_internal_state_set
      <4> HIDE DEF r
      <4> QED
        BY <4>1, FrozenYield
    <3> QED
      BY <3>1, <3>2
  <2>2. ASSUME NEW u \in Tid, task_suspend(t, u) PROVE FrozenStep
    <3> DEFINE r == Suspended(task_list[u])
               y == [r EXCEPT !.internal_state = "SUSPEND_TASK"]
    <3>1. CASE u = t
      <4>1. /\ Executing(t) /\ running_tid' = NO_TID
            /\ task_list' = [task_list EXCEPT ![t] = y]
        BY <1>2, <2>2, <3>1 DEF task_suspend, OS_YIELD, os_task_suspend,
           os_task_internal_state_set
      <4> HIDE DEF y
      <4> QED
        BY <4>1, FrozenYield
    <3>2. CASE u # t
      <4>1. /\ Executing(t) /\ UNCHANGED running_tid
            /\ task_list' = [task_list EXCEPT ![u] = r]
        BY <2>2, <3>2 DEF task_suspend, Continue, os_task_suspend
      <4>2. StaysFrozen(r, task_list[u]) /\ u # running_tid
        BY <1>2, <3>2, <4>1, FrozenFacts DEF Executing
      <4> HIDE DEF r
      <4> QED
        BY <4>1, <4>2, FrozenContinue
    <3> QED
      BY <3>1, <3>2
  <2>3. ASSUME NEW u \in Tid, task_resume(t, u) PROVE FrozenStep
    <3> DEFINE r == Resumed(task_list[u])
               y == [r EXCEPT !.internal_state = "RESUME_TASK"]
    <3>1. CASE u = t
      <4>1. /\ Executing(t) /\ running_tid' = NO_TID
            /\ task_list' = [task_list EXCEPT ![t] = y]
        BY <1>2, <2>3, <3>1 DEF task_resume, OS_YIELD, os_task_resume,
           os_task_internal_state_set
      <4> HIDE DEF y
      <4> QED
        BY <4>1, FrozenYield
    <3>2. CASE u # t
      <4>1. /\ Executing(t) /\ UNCHANGED running_tid
            /\ task_list' = [task_list EXCEPT ![u] = r]
        BY <2>3, <3>2 DEF task_resume, Continue, os_task_resume
      <4>2. StaysFrozen(r, task_list[u]) /\ u # running_tid
        BY <1>2, <3>2, <4>1, FrozenFacts DEF Executing
      <4> HIDE DEF r
      <4> QED
        BY <4>1, <4>2, FrozenContinue
    <3> QED
      BY <3>1, <3>2
  <2>4. ASSUME NEW u \in Tid, TaskKill(t, u) PROVE FrozenStep
    <3> DEFINE r == [task_list[u] EXCEPT !.state = "KILLED"]
    <3>1. /\ UNCHANGED running_tid
          /\ task_list' = [task_list EXCEPT ![u] = r]
      BY <2>4 DEF TaskKill, Continue, os_task_kill
    <3>2. StaysFrozen(r, task_list[u]) /\ r.state = "KILLED"
      BY <1>2, FrozenFacts, KilledFacts
    <3> HIDE DEF r
    <3> QED
      BY <3>1, <3>2, FrozenContinue
  <2>5. CASE task_close(t)
    <3> DEFINE r == [task_list[t] EXCEPT !.state = "KILLED"]
    <3>1. /\ Executing(t) /\ running_tid' = NO_TID
          /\ task_list' = [task_list EXCEPT ![t] = r]
      BY <2>5 DEF task_close, os_task_kill
    <3> HIDE DEF r
    <3> QED
      BY <3>1, FrozenYield
  <2> QED
    BY <1>6, <2>1, <2>2, <2>3, <2>4, <2>5 DEF TaskStep, TaskYield, TaskCall
<1>7. CASE UNCHANGED kernelVars
  BY <1>7, FrozenSame DEF kernelVars
<1>8. CASE Interrupted
  <2>1. PICK t \in Tid, u \in Tid, k \in TickKinds :
           task_suspend_ticked(t, u, k[1], k[2])
    BY <1>8 DEF Interrupted
  <2>2. PICK id \in ClockId, size \in Nat : id = k[1] /\ size = k[2]
    BY TickKindFacts
  <2>3. /\ INTERRUPTS /\ Executing(t) /\ u # t
        /\ task_list' = os_task_suspend_ticked(task_list, nTasks, u, id, size)
        /\ UNCHANGED running_tid
    BY <2>1, <2>2 DEF task_suspend_ticked, Continue
  <2>4. ASSUME NEW v \in Created PROVE StaysFrozen(task_list'[v], task_list[v])
    <3>1. v \in Tid /\ task_list[v] \in TCB /\ v < nTasks
      BY <1>2 DEF Created
    <3>2. task_list'[v] = IF v = u THEN SuspendedFrom(Ticked(task_list[v], id, size),
                                                      task_list[v].state)
                                   ELSE Ticked(task_list[v], id, size)
      BY <2>3, <3>1 DEF os_task_suspend_ticked, task_tick
    <3> QED
      BY <3>1, <3>2, FrozenFacts
  <2>5. \A v \in Tid : task_list[v].state \in {"READY", "KILLED"} /\ v # u
                         => task_list'[v].state = task_list[v].state
    BY <1>1, <2>3, SuspendTickedOK
  <2>6. running_tid \in Created \cup {NO_TID}
    BY <1>1 DEF ControlOK
  <2> QED
    BY <1>2, <2>3, <2>4, <2>5, <2>6 DEF FrozenStep, ExecutingRuns, Executing
<1> QED
  BY <1>3, <1>4, <1>5, <1>6, <1>7, <1>8 DEF KernelNext, Undisturbed

\* Suspension freezes a task (os_task_suspend, os_task_resume), self-kills or not:
\* ticks and the calls of others leave it as it is, and it goes back to the state
\* it was suspended in or is killed.
THEOREM SuspensionFreezes == KernelSpec => SuspendedIsFrozen
<1>1. os_init => ExecutingRuns
  BY DEF os_init, ExecutingRuns
<1>2. KernelInv /\ ExecutingRuns /\ [KernelNext]_kernelVars => ExecutingRuns'
  BY StepFrozen DEF FrozenStep
<1>3. KernelInv /\ ExecutingRuns /\ [KernelNext]_kernelVars =>
        [\A t \in Created : task_list[t].state = "SUSPENDED" =>
            /\ [task_list'[t] EXCEPT !.state = "SUSPENDED"] = task_list[t]
            /\ task_list'[t].state
                 \in {"SUSPENDED", "KILLED", task_list[t].savedState}]_kernelVars
  BY StepFrozen DEF FrozenStep, StaysFrozen
<1> QED
  BY <1>1, <1>2, <1>3, KernelInvariant, PTL DEF KernelSpec, SuspendedIsFrozen
=============================================================================
