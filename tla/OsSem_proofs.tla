---------------------------- MODULE OsSem_proofs ----------------------------
(***************************************************************************)
(* Theorems about the semaphores, for every number of tasks, semaphores    *)
(* and tokens: types, that no token is idle while a task waits for it,     *)
(* that the macros implement the abstract semaphores of Semaphore, and     *)
(* that round robin releases the task that has waited longest.             *)
(***************************************************************************)
EXTENDS OsSemClients, OsKernel_proofs

\* Whoever waits, waits at a semaphore that exists.
WaitersLive ==
    \A t \in Created :
        task_list[t].state = "WAITING_SEM" => task_list[t].semaphore \in Live

\* The inductive invariant.  WaitersLive is why a semaphore that is created
\* with tokens has no waiters yet.
SemInv ==
    /\ KernelInv
    /\ semList \in [Sem -> Sem_t]
    /\ nSemaphores \in 0 .. N_TOTAL_SEMAPHORES
    /\ WaitersLive
    /\ NoIdleToken

\* A step after which no task waits at a semaphore it did not wait at before.
NoNewWaiter ==
    \A t \in Tid :
        t < nTasks' /\ task_list'[t].state = "WAITING_SEM" =>
            /\ t < nTasks
            /\ task_list[t].state = "WAITING_SEM"
            /\ task_list'[t].semaphore = task_list[t].semaphore

\* The same of one control block, r being what is made of tcb.
Quiet(r, tcb) ==
    r.state = "WAITING_SEM" => /\ tcb.state = "WAITING_SEM"
                               /\ r.semaphore = tcb.semaphore

\* The ids os_sem_create gives.
LEMMA SemFacts ==
    /\ N_TOTAL_SEMAPHORES \in Nat
    /\ \A s \in Sem : s \in Nat /\ s < N_TOTAL_SEMAPHORES
    /\ \A s \in Nat : s < N_TOTAL_SEMAPHORES => s \in Sem
BY SemAssumption DEF Sem

-----------------------------------------------------------------------------
(* Steps of the kernel *)

\* A call after which the task goes on.
LEMMA QuietContinue ==
    ASSUME ListOK(task_list, nTasks), NEW u \in Tid, NEW r \in TCB,
           Quiet(r, task_list[u]), Continue([task_list EXCEPT ![u] = r])
    PROVE  NoNewWaiter
BY DEF ListOK, Quiet, Continue, NoNewWaiter

\* A macro that leaves a block and yields.
LEMMA QuietYield ==
    ASSUME ListOK(task_list, nTasks), NEW t \in Tid, NEW r \in TCB,
           Quiet(r, task_list[t]), NEW point \in YieldPoint,
           OS_YIELD(t, [task_list EXCEPT ![t] = r], point)
    PROVE  NoNewWaiter
<1> DEFINE q == [r EXCEPT !.internal_state = point]
<1>1. q.state = r.state /\ q.semaphore = r.semaphore
  BY YieldedFacts
<1>2. task_list' = [task_list EXCEPT ![t] = q] /\ nTasks' = nTasks
  BY DEF OS_YIELD, os_task_internal_state_set, ListOK
<1> HIDE DEF q
<1> QED
  BY <1>1, <1>2 DEF ListOK, Quiet, NoNewWaiter

\* task_suspend, task_resume, os_task_kill, task_wait and task_close.
LEMMA TaskStepQuiet ==
    ASSUME KernelInv, NEW t \in Tid, TaskStep(t)
    PROVE  NoNewWaiter
<1>1. ListOK(task_list, nTasks)
  BY InvParts
<1>2. \A u \in Tid : task_list[u] \in TCB
  BY <1>1 DEF ListOK
<1>3. {"WAIT_TICKS", "SUSPEND_TASK", "RESUME_TASK"} \subseteq YieldPoint
  BY DEF YieldPoint
<1>4. ASSUME NEW id \in Clocks, NEW ticks \in WaitTicks,
             task_wait_id(t, id, ticks)
      PROVE  NoNewWaiter
  <2> DEFINE r == WaitingTime(task_list[t], id, ticks)
  <2>1. CASE ticks = 0
    BY <1>4, <2>1 DEF task_wait_id, os_on_assert, NoNewWaiter
  <2>2. CASE ticks # 0
    <3>1. r \in TCB /\ Quiet(r, task_list[t])
      BY <1>2, WaitingTimeFacts, KernelAssumption DEF Quiet
    <3>2. OS_YIELD(t, [task_list EXCEPT ![t] = r], "WAIT_TICKS")
      BY <1>4, <2>2 DEF task_wait_id, os_task_wait_time_set
    <3> QED
      BY <1>1, <1>3, <3>1, <3>2, QuietYield
  <2> QED
    BY <2>1, <2>2
<1>5. ASSUME NEW u \in Tid, task_suspend(t, u) PROVE NoNewWaiter
  <2> DEFINE r == Suspended(task_list[u])
  <2>1. r \in TCB /\ Quiet(r, task_list[u])
    BY <1>2, SuspendedFacts DEF Quiet
  <2>2. CASE u = t
    <3>1. OS_YIELD(t, [task_list EXCEPT ![t] = r], "SUSPEND_TASK")
      BY <1>5, <2>2 DEF task_suspend, os_task_suspend
    <3> QED
      BY <1>1, <1>3, <2>1, <2>2, <3>1, QuietYield
  <2>3. CASE u # t
    <3>1. Continue([task_list EXCEPT ![u] = r])
      BY <1>5, <2>3 DEF task_suspend, os_task_suspend
    <3> QED
      BY <1>1, <2>1, <3>1, QuietContinue
  <2> QED
    BY <2>2, <2>3
<1>6. ASSUME NEW u \in Tid, task_resume(t, u) PROVE NoNewWaiter
  <2> DEFINE r == Resumed(task_list[u])
  <2>1. r \in TCB /\ Quiet(r, task_list[u])
    <3>1. Sound(task_list[u])
      BY <1>1, <1>6 DEF task_resume, Created, ListOK
    <3> QED
      BY <1>2, <3>1, ResumedFacts DEF Quiet
  <2>2. CASE u = t
    <3>1. OS_YIELD(t, [task_list EXCEPT ![t] = r], "RESUME_TASK")
      BY <1>6, <2>2 DEF task_resume, os_task_resume
    <3> QED
      BY <1>1, <1>3, <2>1, <2>2, <3>1, QuietYield
  <2>3. CASE u # t
    <3>1. Continue([task_list EXCEPT ![u] = r])
      BY <1>6, <2>3 DEF task_resume, os_task_resume
    <3> QED
      BY <1>1, <2>1, <3>1, QuietContinue
  <2> QED
    BY <2>2, <2>3
<1>7. ASSUME NEW u \in Tid, TaskKill(t, u) PROVE NoNewWaiter
  <2> DEFINE r == [task_list[u] EXCEPT !.state = "KILLED"]
  <2>1. r \in TCB /\ Quiet(r, task_list[u])
    BY <1>2, KilledFacts DEF Quiet
  <2>2. Continue([task_list EXCEPT ![u] = r])
    BY <1>7 DEF TaskKill, os_task_kill
  <2> QED
    BY <1>1, <2>1, <2>2, QuietContinue
<1>8. CASE task_close(t)
  <2> DEFINE r == [task_list[t] EXCEPT !.state = "KILLED"]
  <2>1. r \in TCB /\ r.state = "KILLED"
    BY <1>2, KilledFacts
  <2>2. task_list' = [task_list EXCEPT ![t] = r] /\ nTasks' = nTasks
    BY <1>8 DEF task_close, os_task_kill
  <2> HIDE DEF r
  <2> QED
    BY <1>1, <2>1, <2>2 DEF ListOK, NoNewWaiter
<1> QED
  BY <1>4, <1>5, <1>6, <1>7, <1>8 DEF TaskStep, TaskYield, TaskCall

\* No step of the kernel makes a task wait at a semaphore: resuming cannot, since
\* nobody is saved as a waiter (os_task_suspend).
LEMMA KernelQuiet ==
    ASSUME KernelInv, [Undisturbed]_kernelVars
    PROVE  NoNewWaiter
<1>1. ListOK(task_list, nTasks) /\ ControlOK
  BY InvParts
<1>2. CASE Main
  <2>1. CASE os_start
    BY <2>1 DEF os_start, NoNewWaiter
  <2>2. ASSUME NEW prio \in Prio, TaskCreate(prio), MayCreate(prio)
        PROVE  NoNewWaiter
    <3> DEFINE r == CreatedTCB(task_list[nTasks], prio)
    <3>1. nTasks \in Tid
      BY <1>1, <2>2, TidFacts DEF MayCreate, ControlOK
    <3>2. prio \in 0 .. 255 /\ task_list[nTasks] \in TCB
      BY <1>1, <3>1, KernelAssumption DEF ListOK
    <3>3. r.state = "READY"
      BY <3>2, CreatedFacts
    <3>4. /\ task_list' = [task_list EXCEPT ![nTasks] = r]
          /\ nTasks' = nTasks + 1
      BY <2>2 DEF TaskCreate, os_task_create
    <3>5. \A t \in Tid : t < nTasks + 1 => t < nTasks \/ t = nTasks
      BY <3>1, TidFacts
    <3> HIDE DEF r
    <3> QED
      BY <1>1, <3>1, <3>3, <3>4, <3>5 DEF ListOK, NoNewWaiter
  <2>3. ASSUME NEW prio \in Prio, TaskCreate(prio), ~MayCreate(prio)
        PROVE  NoNewWaiter
    BY <2>3 DEF TaskCreate, os_on_assert, NoNewWaiter
  <2> QED
    BY <1>2, <2>1, <2>2, <2>3 DEF Main
<1>3. CASE os_schedule
  BY <1>3 DEF os_schedule, NothingFound, Dispatch, Sleep, SchedulePastTaskList,
     os_on_assert, NoNewWaiter
<1>4. CASE Clock
  <2>1. PICK id \in ClockId, size \in Nat : Tick(id, size)
    BY <1>4, KernelAssumption DEF Clock, os_tick, os_sub_nTick, ClockId
  <2>2. \A t \in Tid : t < nTasks =>
          /\ task_list'[t] = Ticked(task_list[t], id, size)
          /\ Quiet(Ticked(task_list[t], id, size), task_list[t])
    BY <1>1, <2>1, TickedFacts DEF Tick, task_tick, ListOK, Quiet
  <2> QED
    BY <2>1, <2>2 DEF Tick, Quiet, NoNewWaiter
<1>5. ASSUME NEW t \in Tid, TaskStep(t) PROVE NoNewWaiter
  BY <1>5, TaskStepQuiet
<1>6. CASE UNCHANGED kernelVars
  BY <1>6 DEF kernelVars, NoNewWaiter
<1> QED
  BY <1>2, <1>3, <1>4, <1>5, <1>6 DEF Undisturbed

\* A step that adds no waiter and changes no semaphore.
LEMMA QuietStepOK ==
    ASSUME SemInv, KernelInv', NoNewWaiter, UNCHANGED semVars
    PROVE  SemInv'
BY DEF SemInv, semVars, NoNewWaiter, WaitersLive, NoIdleToken, Waiters,
   SemWaiters, Live, Created

-----------------------------------------------------------------------------
(* Steps of the semaphores *)

\* A signal makes one waiter READY, or none, and touches nobody else.
LEMMA ReleaseOK ==
    ASSUME NEW tl, NEW n, ListOK(tl, n), NEW s
    PROVE  /\ ListOK(os_task_release_waiting_task(tl, n, s), n)
           /\ \A t \in Tid :
                LET r == os_task_release_waiting_task(tl, n, s)[t]
                IN  r = tl[t] \/ /\ tl[t].state = "WAITING_SEM"
                                 /\ r.state = "READY"
<1> DEFINE new == os_task_release_waiting_task(tl, n, s)
           free(t) == [tl[t] EXCEPT !.state = "READY"]
<1>1. tl \in [Tid -> TCB]
  BY DEF ListOK
<1>2. \A t \in FoundTask(tl, n, s) : tl[t].state = "WAITING_SEM"
  BY DEF FoundTask, SemWaiters
<1>3. \A t \in Tid : new[t] = IF t \in FoundTask(tl, n, s) THEN free(t) ELSE tl[t]
  BY DEF os_task_release_waiting_task
<1>4. \A t \in Tid : /\ free(t) \in TCB
                     /\ free(t).prio = tl[t].prio
                     /\ free(t).state = "READY"
                     /\ Sound(tl[t]) => Sound(free(t))
  BY <1>1 DEF TCB, TaskState, Sound, WellFormed, HasTimeLeft, TimedState
<1>5. new \in [Tid -> TCB]
  BY <1>1, <1>4 DEF os_task_release_waiting_task
<1> HIDE DEF new, free
<1>6. ListOK(new, n)
  BY <1>3, <1>4, <1>5 DEF ListOK
<1> QED
  BY <1>2, <1>3, <1>4, <1>6 DEF new

\* What a signal that finds waiters does, yielding (t = the caller) or not.
LEMMA HandOverOK ==
    ASSUME SemInv, NEW s \in Live, UNCHANGED semVars,
           LET tl == os_task_release_waiting_task(task_list, nTasks, s)
           IN  \/ Continue(tl)
               \/ \E t \in Tid : Executing(t) /\ OS_YIELD(t, tl, "SIGNAL_SEM")
    PROVE  SemInv'
<1> DEFINE tl == os_task_release_waiting_task(task_list, nTasks, s)
<1>1. ListOK(task_list, nTasks) /\ ControlOK
  BY InvParts DEF SemInv
<1>2. /\ ListOK(tl, nTasks)
      /\ \A t \in Tid : \/ tl[t] = task_list[t]
                        \/ /\ task_list[t].state = "WAITING_SEM"
                           /\ tl[t].state = "READY"
  BY <1>1, ReleaseOK
<1> HIDE DEF tl
<1>3. CASE Continue(tl)
  <2>1. task_list' = tl /\ nTasks' = nTasks /\ running_tid' = running_tid
    BY <1>3 DEF Continue
  <2>2. ControlOK'
    BY <1>1, <1>3 DEF Continue, ControlOK, Created
  <2>3. ~SELF_KILL => ExecutingIsReady' /\ KilledStays
    BY <1>1, <1>2, <2>1
    DEF SemInv, KernelInv, ExecutingIsReady, KilledStays, ControlOK, Created
  <2>4. KernelInv'
    BY <1>2, <2>1, <2>2, <2>3, InvPartsNext DEF StepOK
  <2>5. NoNewWaiter
    BY <1>2, <2>1 DEF NoNewWaiter
  <2> QED
    BY <2>4, <2>5, QuietStepOK
<1>4. ASSUME NEW t \in Tid, Executing(t), OS_YIELD(t, tl, "SIGNAL_SEM")
      PROVE  SemInv'
  <2> DEFINE q == [tl[t] EXCEPT !.internal_state = "SIGNAL_SEM"]
  <2>1. tl[t] \in TCB /\ "SIGNAL_SEM" \in YieldPoint
    BY <1>2 DEF ListOK, YieldPoint
  <2>2. /\ q \in TCB /\ q.prio = tl[t].prio /\ q.state = tl[t].state
        /\ q.semaphore = tl[t].semaphore
        /\ Sound(tl[t]) => Sound(q)
    BY <2>1, YieldedFacts
  <2>3. /\ task_list' = [tl EXCEPT ![t] = q]
        /\ nTasks' = nTasks /\ running_tid' = NO_TID
    BY <1>4 DEF OS_YIELD, os_task_internal_state_set
  <2> HIDE DEF q
  <2>4. ListOK(task_list', nTasks')
    BY <1>2, <2>2, <2>3, UpdateOK DEF ListOK
  <2>5. ControlOK'
    BY <1>1, <1>4, <2>3 DEF OS_YIELD, ControlOK, Created
  <2>6. \A u \in Tid : /\ task_list'[u].state = tl[u].state
                       /\ task_list'[u].semaphore = tl[u].semaphore
    BY <1>2, <2>2, <2>3 DEF ListOK
  <2>7. ~SELF_KILL => ExecutingIsReady' /\ KilledStays
    BY <1>2, <2>3, <2>6 DEF ExecutingIsReady, KilledStays, Created
  <2>8. KernelInv'
    BY <2>4, <2>5, <2>7, InvPartsNext DEF StepOK
  <2>9. NoNewWaiter
    BY <1>2, <2>3, <2>6 DEF NoNewWaiter
  <2> QED
    BY <2>8, <2>9, QuietStepOK
<1> QED
  BY <1>3, <1>4 DEF tl

\* A call that goes on and changes the value of one semaphore, which has no
\* waiters or gets no new tokens.
LEMMA ValueStepOK ==
    ASSUME SemInv, NEW s \in Live, NEW v \in 0 .. 255,
           v = 0 \/ Waiters(s) = {} \/ semList[s].value > 0,
           semList' = [semList EXCEPT ![s].value = v],
           Continue(task_list), UNCHANGED nSemaphores
    PROVE  SemInv'
<1>1. ControlOK
  BY InvParts DEF SemInv
<1>2. KernelInv'
  <2>1. ControlOK'
    BY <1>1 DEF Continue, ControlOK, Created
  <2> QED
    BY <2>1, SameListOK DEF SemInv, Continue, StepOK
<1>3. UNCHANGED <<task_list, nTasks, nSemaphores>>
  BY DEF Continue
<1>4. s \in Sem
  BY DEF Live
<1>5. semList' \in [Sem -> Sem_t]
  BY <1>4 DEF SemInv, Sem_t
<1>6. \A r \in Sem \ {s} : semList'[r] = semList[r]
  BY DEF SemInv
<1>7. semList'[s].value = v
  BY <1>4 DEF SemInv, Sem_t
<1>8. NoIdleToken'
  BY <1>3, <1>6, <1>7 DEF SemInv, NoIdleToken, Waiters, Live
<1> QED
  BY <1>2, <1>3, <1>5, <1>8 DEF SemInv, WaitersLive, Live, Created

\* os_sem_increment, when nobody waits: a token more, up to the maximum.
LEMMA IncrementOK ==
    ASSUME SemInv, NEW s \in Live,
           ~os_task_waiting_this_semaphore(task_list, nTasks, s),
           semList' = os_sem_increment(s),
           Continue(task_list), UNCHANGED nSemaphores
    PROVE  SemInv'
<1> DEFINE v == IF semList[s].value < semList[s].maxValue
                THEN semList[s].value + 1 ELSE semList[s].value
<1>1. s \in Sem /\ semList[s] \in Sem_t
  BY DEF SemInv, Live
<1>2. v \in 0 .. 255
  BY <1>1 DEF Sem_t
<1>3. semList' = [semList EXCEPT ![s].value = v]
  BY DEF os_sem_increment
<1>4. Waiters(s) = {}
  BY DEF os_task_waiting_this_semaphore, Waiters
<1> HIDE DEF v
<1> QED
  BY <1>2, <1>3, <1>4, ValueStepOK

\* OS_WAIT_SEM: takes a token, or waits at a semaphore that has none.
LEMMA WaitOK ==
    ASSUME SemInv, NEW t \in Tid, NEW s \in Sem, sem_wait(t, s)
    PROVE  SemInv'
<1>1. ListOK(task_list, nTasks) /\ ControlOK
  BY InvParts DEF SemInv
<1>2. s \in Live /\ Executing(t) /\ UNCHANGED nSemaphores
  BY DEF sem_wait
<1>3. semList[s] \in Sem_t
  BY DEF SemInv
<1>4. CASE os_sem_larger_than_zero(s)
  <2> DEFINE v == semList[s].value - 1
  <2>1. v \in 0 .. 255 /\ semList[s].value > 0
    BY <1>3, <1>4 DEF Sem_t, os_sem_larger_than_zero
  <2>2. semList' = [semList EXCEPT ![s].value = v] /\ Continue(task_list)
    BY <1>4 DEF sem_wait, os_sem_decrement, os_sem_larger_than_zero
  <2> HIDE DEF v
  <2> QED
    BY <1>2, <2>1, <2>2, ValueStepOK
<1>5. CASE ~os_sem_larger_than_zero(s)
  <2> DEFINE r == WaitingSem(task_list[t], s)
             q == [r EXCEPT !.internal_state = "WAIT_SEM"]
  <2>1. task_list[t] \in TCB /\ 0 \in Time /\ s \in Nat
    BY <1>1, TaskAssumption, SemFacts DEF ListOK, Time
  <2>2. /\ r \in TCB /\ r.prio = task_list[t].prio
        /\ r.state = "WAITING_SEM" /\ r.semaphore = s
        /\ Sound(task_list[t]) => Sound(r)
    BY <2>1 DEF WaitingSem, TCB, TaskState, Sound, WellFormed, HasTimeLeft, TimedState
  <2>3. "WAIT_SEM" \in YieldPoint
    BY DEF YieldPoint
  <2>4. /\ OS_YIELD(t, [task_list EXCEPT ![t] = r], "WAIT_SEM")
        /\ UNCHANGED semList
    BY <1>5 DEF sem_wait, task_wait_sem_set
  <2>5. q.semaphore = s /\ q.state = "WAITING_SEM"
    BY <2>2, <2>3, YieldedFacts
  <2>6. KernelInv'
    BY <1>2, <2>2, <2>3, <2>4, YieldStepOK DEF SemInv, StepOK
  <2>7. task_list' = [task_list EXCEPT ![t] = q] /\ nTasks' = nTasks
    BY <1>1, <2>4 DEF OS_YIELD, os_task_internal_state_set, ListOK
  <2> HIDE DEF r, q
  <2>8. \A u \in Tid \ {t} : task_list'[u] = task_list[u]
    BY <1>1, <2>7 DEF ListOK
  <2>9. task_list'[t].state = "WAITING_SEM" /\ task_list'[t].semaphore = s
    BY <1>1, <2>5, <2>7 DEF ListOK
  <2>10. WaitersLive'
    BY <1>2, <2>7, <2>8, <2>9 DEF SemInv, WaitersLive, Live, Created
  <2>11. NoIdleToken'
    BY <1>2, <1>5, <2>4, <2>7, <2>8, <2>9
    DEF SemInv, NoIdleToken, Waiters, SemWaiters, Live, os_sem_larger_than_zero
  <2> QED
    BY <1>2, <2>4, <2>6, <2>10, <2>11 DEF SemInv
<1> QED
  BY <1>4, <1>5

\* OS_SIGNAL_SEM and OS_SIGNAL_SEM_NO_SCHEDULE: the token goes to a waiter if there
\* is one, else it is counted.
LEMMA SignalOK ==
    ASSUME SemInv, NEW s \in Sem,
           sem_ISR_signal(s) \/ \E t \in Tid : sem_signal(t, s)
    PROVE  SemInv'
<1>1. s \in Live
  BY DEF sem_ISR_signal, sem_signal
<1>2. CASE os_task_waiting_this_semaphore(task_list, nTasks, s)
  BY <1>1, <1>2, HandOverOK DEF sem_ISR_signal, sem_signal, semVars
<1>3. CASE ~os_task_waiting_this_semaphore(task_list, nTasks, s)
  BY <1>1, <1>3, IncrementOK DEF sem_ISR_signal, sem_signal
<1> QED
  BY <1>2, <1>3

\* os_sem_create: nobody waits at a semaphore that did not exist.
LEMMA SemCreateOK ==
    ASSUME SemInv, NEW max \in SemMax, NEW initial \in SemInitial,
           SemCreate(max, initial)
    PROVE  SemInv'
<1>1. ListOK(task_list, nTasks) /\ ControlOK
  BY InvParts DEF SemInv
<1>2. CASE nSemaphores < N_TOTAL_SEMAPHORES
  <2>1. /\ semList' = [semList EXCEPT ![nSemaphores] =
                          [maxValue |-> max, value |-> initial]]
        /\ nSemaphores' = nSemaphores + 1
        /\ UNCHANGED kernelVars
    BY <1>2 DEF SemCreate
  <2>2. KernelInv'
    <3>1. ControlOK'
      BY <1>1, <2>1 DEF kernelVars, ControlOK, Created
    <3> QED
      BY <2>1, <3>1, SameListOK DEF SemInv, kernelVars, StepOK
  <2>3. nSemaphores \in Sem /\ nSemaphores' \in 0 .. N_TOTAL_SEMAPHORES
    BY <1>2, <2>1, SemFacts DEF SemInv
  <2>4. semList' \in [Sem -> Sem_t]
    BY <2>1, <2>3, SemAssumption DEF SemInv, Sem_t
  <2>5. \A s \in Live' : s \in Live \/ s = nSemaphores
    BY <2>1, <2>3, SemFacts DEF Live
  <2>6. Live \subseteq Live' /\ nSemaphores \notin Live
    BY <2>1, <2>3, SemFacts DEF Live
  <2>7. \A s \in Live : semList'[s] = semList[s]
    BY <2>1, <2>6 DEF SemInv, Live
  <2>8. Waiters(nSemaphores) = {}
    BY <2>6 DEF SemInv, WaitersLive, Waiters, SemWaiters, Created
  <2>9. UNCHANGED <<task_list, nTasks>>
    BY <2>1 DEF kernelVars
  <2>10. NoIdleToken'
    BY <2>5, <2>7, <2>8, <2>9 DEF SemInv, NoIdleToken, Waiters
  <2>11. WaitersLive'
    BY <2>6, <2>9 DEF SemInv, WaitersLive, Created
  <2> QED
    BY <2>2, <2>3, <2>4, <2>10, <2>11 DEF SemInv
<1>3. CASE ~(nSemaphores < N_TOTAL_SEMAPHORES)
  <2>1. os_on_assert /\ UNCHANGED semVars
    BY <1>3 DEF SemCreate
  <2>2. KernelInv'
    <3>1. ControlOK'
      BY <1>1, <2>1 DEF os_on_assert, ControlOK, Created
    <3> QED
      BY <2>1, <3>1, SameListOK DEF SemInv, os_on_assert, StepOK
  <2>3. NoNewWaiter
    BY <2>1 DEF os_on_assert, NoNewWaiter
  <2> QED
    BY <2>1, <2>2, <2>3, QuietStepOK
<1> QED
  BY <1>2, <1>3

-----------------------------------------------------------------------------
\* os_init, without semaphores.
LEMMA SemInitInv == SemInit => SemInv
<1> SUFFICES ASSUME SemInit PROVE SemInv
  OBVIOUS
<1>1. KernelInv
  BY InitInv DEF SemInit
<1>2. \A t \in Tid : ~(t < 0)
  BY TidFacts
<1>3. nTasks = 0
  BY DEF SemInit, os_init
<1>4. \A s \in Sem : ~(s < 0)
  BY SemFacts
<1>5. semList \in [Sem -> Sem_t] /\ nSemaphores \in 0 .. N_TOTAL_SEMAPHORES
  BY SemAssumption DEF SemInit, os_sem_init, Sem_t
<1>6. Live = {}
  BY <1>4 DEF SemInit, os_sem_init, Live
<1> QED
  BY <1>1, <1>2, <1>3, <1>5, <1>6
  DEF SemInv, WaitersLive, NoIdleToken, Created

\* Every step of kernel and semaphores.
LEMMA SemStepInv == SemInv /\ [SemNext]_osVars => SemInv'
<1> SUFFICES ASSUME SemInv, [SemNext]_osVars PROVE SemInv'
  OBVIOUS
<1>1. CASE SemStep
  BY <1>1, SemCreateOK, WaitOK, SignalOK DEF SemStep
<1>2. CASE [Undisturbed]_kernelVars /\ UNCHANGED semVars
  <2>1. KernelInv'
    BY <1>2, StepInv DEF SemInv, StepOK, KernelNext
  <2>2. NoNewWaiter
    BY <1>2, KernelQuiet DEF SemInv
  <2> QED
    BY <1>2, <2>1, <2>2, QuietStepOK
<1> QED
  BY <1>1, <1>2 DEF SemNext, osVars

\* The inductive invariant holds of every behaviour (os_sem.c).
THEOREM SemInvariant == SemSpec => []SemInv
<1>1. SemInit => SemInv
  BY SemInitInv
<1>2. SemInv /\ [SemNext]_osVars => SemInv'
  BY SemStepInv
<1> QED
  BY <1>1, <1>2, PTL DEF SemSpec

\* The types of the kernel and of the semaphores.
THEOREM SemType == SemSpec => []SemTypeOK
<1>1. SemInv => SemTypeOK
  BY DEF SemInv, KernelInv, SemTypeOK
<1> QED
  BY <1>1, SemInvariant, PTL

\* No sequence of waits, signals, suspensions, resumptions and kills leaves a
\* task waiting at a semaphore that has a token.
THEOREM TokensNeverIdle == SemSpec => []NoIdleToken
<1>1. SemInv => NoIdleToken
  BY DEF SemInv
<1> QED
  BY <1>1, SemInvariant, PTL

-----------------------------------------------------------------------------
(* What callers see (OsSemClients) *)

\* A task goes on behind a sem_wait that blocked, or will when it is resumed.
Passes(tcb) ==
    /\ tcb.internal_state = "WAIT_SEM"
    /\ \/ tcb.state = "READY"
       \/ tcb.state = "SUSPENDED" /\ tcb.savedState = "READY"

\* Who waits for a token has yielded there, and a wait for time cannot end
\* behind a sem_wait.
PlaceOK(tcb) ==
    /\ tcb.state \in {"READY", "KILLED", "SUSPENDED", "WAITING_TIME",
                      "WAITING_SEM"}
    /\ tcb.savedState \in {"READY", "WAITING_TIME"}
    /\ tcb.state = "WAITING_SEM" => tcb.internal_state = "WAIT_SEM"
    /\ \/ tcb.state = "WAITING_TIME"
       \/ tcb.state = "SUSPENDED" /\ tcb.savedState = "WAITING_TIME"
       => tcb.internal_state # "WAIT_SEM"

\* What a call that is not of a semaphore may make of a control block: it does
\* not let a task through, nor make it wait.
Keeps(r, tcb) ==
    /\ r \in TCB
    /\ PlaceOK(r)
    /\ r.state = "WAITING_SEM" => /\ tcb.state = "WAITING_SEM"
                                  /\ r.semaphore = tcb.semaphore
                                  /\ r.time = tcb.time
    /\ tcb.state = "WAITING_SEM" => r.state # "READY"
    /\ Passes(r) => Passes(tcb)

PlacesOK == \A t \in Created : PlaceOK(task_list[t])

UnmadeEmpty ==
    \A s \in Sem \ Live : semList[s] = [maxValue |-> 0, value |-> 0]

\* The inductive invariant of the refinement.
CallersInv == SemInv /\ ExecutingRuns /\ UnmadeEmpty /\ PlacesOK

\* os_task_suspend: a waiter goes back to the top of its procedure.
LEMMA SuspendedKeeps ==
    ASSUME NEW tcb \in TCB, PlaceOK(tcb)
    PROVE  Keeps(Suspended(tcb), tcb)
<1>1. Suspended(tcb) \in TCB
  BY SuspendedFacts
<1>2. CASE tcb.state = "WAITING_SEM"
  BY <1>1, <1>2 DEF Suspended, SuspendedFrom, TCB, Keeps, PlaceOK, Passes
<1>3. CASE tcb.state \in {"KILLED", "SUSPENDED"}
  BY <1>1, <1>3 DEF Suspended, SuspendedFrom, Keeps, PlaceOK, Passes
<1>4. CASE tcb.state \in {"READY", "WAITING_TIME"}
  <2>1. Suspended(tcb)
          = [tcb EXCEPT !.savedState = tcb.state, !.state = "SUSPENDED"]
    BY <1>4 DEF Suspended, SuspendedFrom
  <2> QED
    BY <1>1, <1>4, <2>1 DEF TCB, Keeps, PlaceOK, Passes
<1> QED
  BY <1>2, <1>3, <1>4 DEF PlaceOK

\* os_task_resume: nobody was saved as a waiter.
LEMMA ResumedKeeps ==
    ASSUME NEW tcb \in TCB, PlaceOK(tcb)
    PROVE  Keeps(Resumed(tcb), tcb)
<1>1. Resumed(tcb) \in TCB
  BY ResumedFacts
<1> QED
  BY <1>1 DEF Resumed, TCB, Keeps, PlaceOK, Passes

\* os_task_kill withdraws a waiter.
LEMMA KilledKeeps ==
    ASSUME NEW tcb \in TCB, PlaceOK(tcb)
    PROVE  Keeps([tcb EXCEPT !.state = "KILLED"], tcb)
<1>1. [tcb EXCEPT !.state = "KILLED"] \in TCB
  BY KilledFacts
<1> QED
  BY <1>1 DEF TCB, Keeps, PlaceOK, Passes

\* A yield of the running task, elsewhere than in sem_wait.
LEMMA YieldedKeeps ==
    ASSUME NEW r, NEW tcb \in TCB, Keeps(r, tcb), r.state # "WAITING_SEM",
           NEW point \in YieldPoint, point # "WAIT_SEM"
    PROVE  Keeps([r EXCEPT !.internal_state = point], tcb)
<1> DEFINE q == [r EXCEPT !.internal_state = point]
<1>1. /\ q \in TCB /\ q.state = r.state /\ q.savedState = r.savedState
      /\ q.internal_state = point
  BY YieldedFacts DEF Keeps, TCB
<1> HIDE DEF q
<1>2. Keeps(q, tcb)
  BY <1>1 DEF Keeps, PlaceOK, Passes
<1> QED
  BY <1>2 DEF q

\* OS_WAIT_TICKS leaves the task at another place than behind OS_WAIT_SEM.
LEMMA WaitingKeeps ==
    ASSUME NEW tcb \in TCB, PlaceOK(tcb), NEW id \in ClockId, NEW ticks \in Time
    PROVE  Keeps([WaitingTime(tcb, id, ticks)
                    EXCEPT !.internal_state = "WAIT_TICKS"], tcb)
<1> DEFINE w == WaitingTime(tcb, id, ticks)
           r == [w EXCEPT !.internal_state = "WAIT_TICKS"]
<1>1. /\ w \in TCB /\ w.state = "WAITING_TIME"
      /\ w.savedState = tcb.savedState
  BY WaitingTimeFacts DEF WaitingTime, TCB
<1>2. "WAIT_TICKS" \in YieldPoint
  BY DEF YieldPoint
<1> HIDE DEF w
<1>3. /\ r \in TCB /\ r.state = "WAITING_TIME"
      /\ r.savedState = tcb.savedState
      /\ r.internal_state = "WAIT_TICKS"
  BY <1>1, <1>2, YieldedFacts DEF TCB
<1> HIDE DEF r
<1>4. Keeps(r, tcb)
  BY <1>3 DEF Keeps, PlaceOK, Passes
<1> QED
  BY <1>4 DEF r, w

\* A step that changes block u at most, and no semaphore.
OneBlock(u) ==
    /\ u \in Created
    /\ nTasks' = nTasks
    /\ task_list' \in [Tid -> TCB]
    /\ \A v \in Tid \ {u} : task_list'[v] = task_list[v]
    /\ Keeps(task_list'[u], task_list[u])

\* What the macros may assume of the task that calls them.
LEMMA RunningFacts ==
    ASSUME CallersInv, NEW t \in Tid, Executing(t)
    PROVE  /\ t \in Created
           /\ task_list[t] \in TCB
           /\ PlaceOK(task_list[t])
           /\ task_list[t].state \in {"READY", "KILLED"}
<1>1. ControlOK /\ ListOK(task_list, nTasks)
  BY InvParts DEF CallersInv, SemInv
<1> QED
  BY <1>1 DEF Executing, CallersInv, ExecutingRuns, PlacesOK, ControlOK, ListOK

\* A call that writes block u and goes on.
LEMMA ContinueOne ==
    ASSUME CallersInv, NEW u \in Created, NEW r, Keeps(r, task_list[u]),
           Continue([task_list EXCEPT ![u] = r]),
           u = running_tid => r.state = "KILLED"
    PROVE  OneBlock(u) /\ ExecutingRuns'
<1>1. ControlOK /\ ListOK(task_list, nTasks)
  BY InvParts DEF CallersInv, SemInv
<1>2. u \in Tid /\ r \in TCB
  BY DEF Created, Keeps
<1>3. OneBlock(u)
  BY <1>1, <1>2 DEF Continue, OneBlock, ListOK
<1>4. running_tid # NO_TID => running_tid \in Tid
  BY <1>1 DEF ControlOK, Created
<1> QED
  BY <1>1, <1>2, <1>3, <1>4
  DEF Continue, CallersInv, ExecutingRuns, ListOK

\* A macro of the running task, other than sem_wait, that yields.
LEMMA YieldOne ==
    ASSUME CallersInv, NEW t \in Tid, Executing(t), NEW r,
           Keeps(r, task_list[t]), r.state # "WAITING_SEM",
           NEW point \in YieldPoint, point # "WAIT_SEM",
           OS_YIELD(t, [task_list EXCEPT ![t] = r], point)
    PROVE  OneBlock(t) /\ ExecutingRuns'
<1> DEFINE q == [r EXCEPT !.internal_state = point]
<1>1. ListOK(task_list, nTasks)
  BY InvParts DEF CallersInv, SemInv
<1>2. task_list' = [task_list EXCEPT ![t] = q] /\ nTasks' = nTasks
  BY <1>1 DEF OS_YIELD, os_task_internal_state_set, ListOK
<1>3. Keeps(q, task_list[t])
  BY RunningFacts, YieldedKeeps
<1>4. q \in TCB
  BY <1>3 DEF Keeps
<1> HIDE DEF q
<1>5. OneBlock(t)
  BY <1>1, <1>2, <1>3, <1>4, RunningFacts DEF OneBlock, ListOK
<1> QED
  BY <1>5 DEF OS_YIELD, ExecutingRuns

\* The calls of a task that are not of a semaphore.
LEMMA TaskStepOne ==
    ASSUME CallersInv, NEW t \in Tid, TaskStep(t)
    PROVE  /\ ExecutingRuns'
           /\ UNCHANGED <<task_list, nTasks>> \/ \E u \in Tid : OneBlock(u)
<1>1. ListOK(task_list, nTasks) /\ ControlOK
  BY InvParts DEF CallersInv, SemInv
<1>2. \A u \in Created : task_list[u] \in TCB /\ PlaceOK(task_list[u]) /\ u \in Tid
  BY <1>1 DEF ListOK, CallersInv, PlacesOK, Created
<1>3. {"WAIT_TICKS", "SUSPEND_TASK", "RESUME_TASK"} \subseteq YieldPoint
  BY DEF YieldPoint
<1>4. ASSUME NEW id \in Clocks, NEW ticks \in WaitTicks,
             task_wait_id(t, id, ticks)
      PROVE  /\ ExecutingRuns'
             /\ UNCHANGED <<task_list, nTasks>> \/ \E u \in Tid : OneBlock(u)
  <2>1. CASE ticks = 0
    BY <1>4, <2>1 DEF task_wait_id, os_on_assert, CallersInv, ExecutingRuns
  <2>2. CASE ticks # 0
    <3> DEFINE r == [WaitingTime(task_list[t], id, ticks)
                       EXCEPT !.internal_state = "WAIT_TICKS"]
    <3>1. /\ OS_YIELD(t, [task_list EXCEPT ![t] =
                            WaitingTime(task_list[t], id, ticks)], "WAIT_TICKS")
          /\ Executing(t)
      BY <1>4, <2>2 DEF task_wait_id, os_task_wait_time_set
    <3>2. /\ task_list' = [task_list EXCEPT ![t] = r]
          /\ nTasks' = nTasks /\ running_tid' = NO_TID
      BY <1>1, <3>1 DEF OS_YIELD, os_task_internal_state_set, ListOK
    <3>3. t \in Created /\ Keeps(r, task_list[t])
      BY <3>1, RunningFacts, WaitingKeeps, KernelAssumption
    <3>4. r \in TCB
      BY <3>3 DEF Keeps
    <3> HIDE DEF r
    <3> QED
      BY <1>1, <3>2, <3>3, <3>4 DEF OneBlock, ListOK, ExecutingRuns
  <2> QED
    BY <2>1, <2>2
<1>5. ASSUME NEW u \in Tid, task_suspend(t, u)
      PROVE  OneBlock(u) /\ ExecutingRuns'
  <2> DEFINE r == Suspended(task_list[u])
  <2>1. /\ u \in Created /\ Executing(t)
        /\ IF u = t THEN OS_YIELD(t, [task_list EXCEPT ![u] = r], "SUSPEND_TASK")
                    ELSE Continue([task_list EXCEPT ![u] = r])
    BY <1>5 DEF task_suspend, os_task_suspend
  <2>2. Keeps(r, task_list[u])
    BY <1>2, <2>1, SuspendedKeeps
  <2>3. r.state # "WAITING_SEM"
    BY <1>2, <2>1, SuspendedFacts
  <2> HIDE DEF r
  <2>4. CASE u = t
    BY <1>3, <2>1, <2>2, <2>3, <2>4, YieldOne
  <2>5. CASE u # t
    BY <2>1, <2>2, <2>5, ContinueOne DEF Executing
  <2> QED
    BY <2>4, <2>5
<1>6. ASSUME NEW u \in Tid, task_resume(t, u)
      PROVE  OneBlock(u) /\ ExecutingRuns'
  <2> DEFINE r == Resumed(task_list[u])
  <2>1. /\ u \in Created /\ Executing(t)
        /\ IF u = t THEN OS_YIELD(t, [task_list EXCEPT ![u] = r], "RESUME_TASK")
                    ELSE Continue([task_list EXCEPT ![u] = r])
    BY <1>6 DEF task_resume, os_task_resume
  <2>2. Keeps(r, task_list[u])
    BY <1>2, <2>1, ResumedKeeps
  <2>3. u = t => r.state # "WAITING_SEM"
    BY <2>1, RunningFacts DEF Resumed
  <2> HIDE DEF r
  <2>4. CASE u = t
    BY <1>3, <2>1, <2>2, <2>3, <2>4, YieldOne
  <2>5. CASE u # t
    BY <2>1, <2>2, <2>5, ContinueOne DEF Executing
  <2> QED
    BY <2>4, <2>5
<1>7. ASSUME NEW u \in Tid, TaskKill(t, u)
      PROVE  OneBlock(u) /\ ExecutingRuns'
  <2> DEFINE r == [task_list[u] EXCEPT !.state = "KILLED"]
  <2>1. u \in Created /\ Continue([task_list EXCEPT ![u] = r])
    BY <1>7 DEF TaskKill, os_task_kill
  <2>2. Keeps(r, task_list[u]) /\ r.state = "KILLED"
    BY <1>2, <2>1, KilledKeeps, KilledFacts
  <2> HIDE DEF r
  <2> QED
    BY <2>1, <2>2, ContinueOne
<1>8. CASE task_close(t)
  <2> DEFINE r == [task_list[t] EXCEPT !.state = "KILLED"]
  <2>1. /\ task_list' = [task_list EXCEPT ![t] = r] /\ Executing(t)
        /\ nTasks' = nTasks /\ running_tid' = NO_TID
    BY <1>8 DEF task_close, os_task_kill
  <2>2. t \in Created /\ Keeps(r, task_list[t])
    BY <2>1, RunningFacts, KilledKeeps
  <2>3. r \in TCB
    BY <2>2 DEF Keeps
  <2> HIDE DEF r
  <2> QED
    BY <1>1, <2>1, <2>2, <2>3 DEF OneBlock, ListOK, ExecutingRuns
<1> QED
  BY <1>4, <1>5, <1>6, <1>7, <1>8 DEF TaskStep, TaskYield, TaskCall

\* A tick takes nobody in or out of a wait for a token.
LEMMA TickedPlaces ==
    ASSUME NEW tcb \in TCB, PlaceOK(tcb), NEW id \in ClockId, NEW size \in Nat
    PROVE  LET r == Ticked(tcb, id, size)
           IN  /\ PlaceOK(r)
               /\ r.state = "WAITING_SEM" <=> tcb.state = "WAITING_SEM"
               /\ r.semaphore = tcb.semaphore
               /\ r.state = "WAITING_SEM" =>
                    r.time = (tcb.time + 1) % TIME_MOD
               /\ Passes(r) <=> Passes(tcb)
<1> DEFINE r == Ticked(tcb, id, size)
<1>1. tcb.time \in Int
  BY TaskAssumption DEF TCB, Time
<1>2. CASE tcb.state = "WAITING_TIME" /\ tcb.clockId = id /\ tcb.time > size
  <2>1. r = [tcb EXCEPT !.time = tcb.time - size]
    BY <1>1, <1>2 DEF Ticked, TimedState
  <2> QED
    BY <1>2, <2>1 DEF TCB, PlaceOK, Passes
<1>3. CASE tcb.state = "WAITING_TIME" /\ tcb.clockId = id /\ ~(tcb.time > size)
  <2>1. r = [tcb EXCEPT !.time = 0, !.state = "READY"]
    BY <1>1, <1>3 DEF Ticked, TimedState
  <2> QED
    BY <1>3, <2>1 DEF TCB, PlaceOK, Passes
<1>4. CASE tcb.state = "WAITING_SEM"
  <2>1. r = [tcb EXCEPT !.time = (tcb.time + 1) % TIME_MOD]
    BY <1>4 DEF Ticked, TimedState
  <2> QED
    BY <1>4, <2>1 DEF TCB, PlaceOK, Passes
<1>5. CASE /\ tcb.state # "WAITING_SEM"
           /\ ~(tcb.state = "WAITING_TIME" /\ tcb.clockId = id)
  BY <1>5 DEF Ticked, TimedState, PlaceOK
<1> QED
  BY <1>2, <1>3, <1>4, <1>5

-----------------------------------------------------------------------------
(* Steps of the kernel are no concern of the abstract semaphores, or withdraw a *)
(* waiter, or let a task that has passed move on.                               *)

\* The waiters and the tasks let through that a list tl of n tasks has.
SameCallers ==
    /\ \A s \in Sem : Waiters(s)' = Waiters(s)
    /\ LetThrough' = LetThrough

\* A step that callers of semaphores see nothing of.
LEMMA SameElsewhere ==
    ASSUME SameCallers, UNCHANGED semVars, last' = None
    PROVE  Abstract!Next
<1>1. Abstract!Elsewhere
  BY DEF SameCallers, semVars, None, Abstract!Elsewhere, Abstract!None
<1> QED
  BY <1>1 DEF Abstract!Next

\* A call that changes one block and no semaphore: a waiter withdraws, or
\* nothing.
LEMMA OneBlockRefines ==
    ASSUME CallersInv, NEW u \in Tid, OneBlock(u), UNCHANGED semVars,
           last' = None
    PROVE  Abstract!Next
<1> DEFINE tcb == task_list[u]
           r   == task_list'[u]
<1>1. /\ u \in Created /\ nTasks' = nTasks /\ Created' = Created
      /\ \A v \in Tid \ {u} : task_list'[v] = task_list[v]
      /\ Keeps(r, tcb)
  BY DEF OneBlock, Created
<1>2. \A v \in Created : v \in Tid /\ v < nTasks
  BY DEF Created
<1>3. \A s \in Sem : Waiters(s)' =
        IF tcb.state = "WAITING_SEM" /\ r.state # "WAITING_SEM"
        THEN Waiters(s) \ {u} ELSE Waiters(s)
  BY <1>1 DEF Waiters, SemWaiters, Keeps
<1>4. LetThrough' = IF Passes(tcb) /\ ~Passes(r)
                    THEN LetThrough \ {u} ELSE LetThrough
  BY <1>1, <1>2 DEF LetThrough, Keeps, Passes
<1>5. CASE tcb.state = "WAITING_SEM" /\ r.state # "WAITING_SEM"
  <2>1. tcb.semaphore \in Sem /\ u \in Waiters(tcb.semaphore)
    BY <1>1, <1>2, <1>5 DEF CallersInv, SemInv, WaitersLive, Live, Waiters, SemWaiters
  <2>2. \A s \in Sem \ {tcb.semaphore} : u \notin Waiters(s)
    BY DEF Waiters, SemWaiters
  <2>3. LetThrough' = LetThrough
    BY <1>4, <1>5 DEF Passes
  <2>4. [s \in Sem |-> Waiters(s)']
          = [[s \in Sem |-> Waiters(s)] EXCEPT ![tcb.semaphore] = @ \ {u}]
    <3> DEFINE x == tcb.semaphore
    <3>1. x \in Sem
      BY <2>1
    <3>2. \A s \in Sem : Waiters(s)' = Waiters(s) \ {u}
      BY <1>3, <1>5
    <3>3. \A s \in Sem \ {x} : Waiters(s) \ {u} = Waiters(s)
      BY <2>2
    <3> HIDE DEF x
    <3>4. [s \in Sem |-> Waiters(s)']
            = [[s \in Sem |-> Waiters(s)] EXCEPT ![x] = @ \ {u}]
      <4>1. [s \in Sem |-> Waiters(s)'] = [s \in Sem |-> Waiters(s) \ {u}]
        BY <3>2
      <4> QED
        BY <3>1, <3>3, <4>1
    <3> QED
      BY <3>4 DEF x
  <2>5. Abstract!Withdraw(u, tcb.semaphore)
    BY <2>1, <2>3, <2>4 DEF semVars, None, Abstract!Withdraw, Abstract!None
  <2> QED
    BY <2>1, <2>5 DEF Abstract!Next
<1>6. CASE /\ ~(tcb.state = "WAITING_SEM" /\ r.state # "WAITING_SEM")
           /\ Passes(tcb) /\ ~Passes(r)
  <2>1. Abstract!MoveOn(u)
    BY <1>3, <1>4, <1>6 DEF semVars, None, Abstract!MoveOn, Abstract!None
  <2> QED
    BY <2>1 DEF Abstract!Next
<1>7. CASE /\ ~(tcb.state = "WAITING_SEM" /\ r.state # "WAITING_SEM")
           /\ ~(Passes(tcb) /\ ~Passes(r))
  BY <1>3, <1>4, <1>7, SameElsewhere DEF SameCallers
<1> QED
  BY <1>5, <1>6, <1>7

\* Ticks.
LEMMA ClockRefines ==
    ASSUME CallersInv, Clock
    PROVE  /\ SameCallers
           /\ ExecutingRuns'
           /\ PlacesOK'
           /\ \A t \in Created : task_list'[t].state = "WAITING_SEM" =>
                /\ task_list[t].state = "WAITING_SEM"
                /\ task_list'[t].time = (task_list[t].time + 1) % TIME_MOD
           /\ \A t \in Created : task_list[t].state = "WAITING_SEM" =>
                task_list'[t].state # "READY"
<1>1. ListOK(task_list, nTasks) /\ ControlOK
  BY InvParts DEF CallersInv, SemInv
<1>2. PICK id \in ClockId, size \in Nat : Tick(id, size)
  BY KernelAssumption DEF Clock, os_tick, os_sub_nTick, ClockId
<1>3. nTasks' = nTasks /\ running_tid' = running_tid /\ Created' = Created
  BY <1>2 DEF Tick, Created
<1>4. ASSUME NEW t \in Created
      PROVE  /\ PlaceOK(task_list'[t])
             /\ task_list'[t].state = "WAITING_SEM"
                  <=> task_list[t].state = "WAITING_SEM"
             /\ task_list'[t].semaphore = task_list[t].semaphore
             /\ task_list'[t].state = "WAITING_SEM" =>
                  task_list'[t].time = (task_list[t].time + 1) % TIME_MOD
             /\ Passes(task_list'[t]) <=> Passes(task_list[t])
  <2>1. t \in Tid /\ t < nTasks
    BY DEF Created
  <2>2. task_list[t] \in TCB /\ PlaceOK(task_list[t])
    BY <1>1, <2>1 DEF ListOK, CallersInv, PlacesOK
  <2>3. task_list'[t] = Ticked(task_list[t], id, size)
    BY <1>2, <2>1 DEF Tick, task_tick
  <2> QED
    BY <2>2, <2>3, TickedPlaces
<1>5. SameCallers
  BY <1>3, <1>4 DEF SameCallers, Waiters, SemWaiters, LetThrough, Passes, Created
<1>6. ExecutingRuns'
  <2>1. \A t \in Tid : task_list[t].state \in {"READY", "KILLED"}
                          => task_list'[t].state = task_list[t].state
    BY <1>1, <1>2, TickOK DEF Tick
  <2> QED
    BY <1>1, <1>3, <2>1 DEF CallersInv, ExecutingRuns, ControlOK, Created
<1> QED
  BY <1>3, <1>4, <1>5, <1>6 DEF PlacesOK

\* main() and the scheduling loop.
LEMMA MainSchedule ==
    ASSUME CallersInv, Main \/ os_schedule
    PROVE  /\ SameCallers
           /\ ExecutingRuns'
           /\ PlacesOK'
           /\ \A t \in Created : task_list'[t] = task_list[t]
           /\ \A t \in Created' : task_list'[t].state = "WAITING_SEM" => t \in Created
<1>1. ListOK(task_list, nTasks) /\ ControlOK
  BY InvParts DEF CallersInv, SemInv
<1>2. CASE /\ UNCHANGED <<task_list, nTasks>>
           /\ \/ UNCHANGED running_tid
              \/ running_tid' = NO_TID
              \/ task_list[running_tid'].state = "READY"
  BY <1>2 DEF SameCallers, Waiters, LetThrough, CallersInv, ExecutingRuns, PlacesOK, Created
<1>3. CASE os_start
  BY <1>2, <1>3 DEF os_start
<1>4. CASE os_schedule
  BY <1>2, <1>4 DEF os_schedule, NothingFound, Dispatch, Sleep,
     SchedulePastTaskList, os_on_assert, Picked, next_ready_task,
     highest_prio_ready_task, ReadyTasks
<1>5. ASSUME NEW prio \in Prio, TaskCreate(prio), ~MayCreate(prio)
      PROVE  UNCHANGED <<task_list, nTasks, running_tid>>
  BY <1>5 DEF TaskCreate, os_on_assert
<1>6. ASSUME NEW prio \in Prio, TaskCreate(prio), MayCreate(prio)
      PROVE  /\ SameCallers
             /\ ExecutingRuns'
             /\ PlacesOK'
             /\ \A t \in Created : task_list'[t] = task_list[t]
             /\ \A t \in Created' : task_list'[t].state = "WAITING_SEM" => t \in Created
  <2> DEFINE r == CreatedTCB(task_list[nTasks], prio)
  <2>1. nTasks \in Tid /\ nTasks \in Nat
    BY <1>1, <1>6, TidFacts DEF MayCreate, ControlOK
  <2>2. /\ task_list' = [task_list EXCEPT ![nTasks] = r]
        /\ nTasks' = nTasks + 1 /\ running_tid' = running_tid
    BY <1>6 DEF TaskCreate, os_task_create
  <2>3. task_list[nTasks] \in TCB /\ prio \in 0 .. 255
    BY <1>1, <2>1, KernelAssumption DEF ListOK
  <2>4. /\ r.state = "READY" /\ r.savedState = "READY"
        /\ r.internal_state = "TOP"
    BY <2>3 DEF CreatedTCB, Cleared, TCB
  <2> HIDE DEF r
  <2>5. \A t \in Created : /\ t \in Tid /\ t # nTasks
                           /\ task_list'[t] = task_list[t]
    BY <1>1, <2>1, <2>2, TidFacts DEF Created, ListOK
  <2>6. Created' = Created \cup {nTasks} /\ task_list'[nTasks] = r
    <3>1. task_list'[nTasks] = r
      BY <1>1, <2>1, <2>2 DEF ListOK
    <3>2. \A t \in Tid : t < nTasks + 1 <=> t < nTasks \/ t = nTasks
      BY <2>1, TidFacts
    <3>3. \A t \in Tid : t \in Created' <=> t \in Created \cup {nTasks}
      BY <2>2, <3>2 DEF Created
    <3>4. Created' \subseteq Tid /\ Created \cup {nTasks} \subseteq Tid
      BY <2>1 DEF Created
    <3> QED
      BY <3>1, <3>3, <3>4
  <2>7. PlaceOK(r) /\ ~Passes(r)
    BY <2>4 DEF PlaceOK, Passes
  <2>8. LetThrough' = LetThrough
    BY <2>5, <2>6, <2>7 DEF LetThrough, Passes
  <2>9. \A s \in Sem : Waiters(s)' = Waiters(s)
    <3>1. \A s \in Sem : Waiters(s) = {t \in Created : /\ task_list[t].state = "WAITING_SEM"
                                                       /\ task_list[t].semaphore = s}
      BY DEF Waiters, SemWaiters, Created
    <3>2. \A s \in Sem : Waiters(s)' = {t \in Created' : /\ task_list'[t].state = "WAITING_SEM"
                                                         /\ task_list'[t].semaphore = s}
      BY DEF Waiters, SemWaiters, Created
    <3> QED
      BY <2>4, <2>5, <2>6, <3>1, <3>2
  <2>10. ExecutingRuns'
    BY <1>1, <2>2, <2>5 DEF CallersInv, ExecutingRuns, ControlOK
  <2>11. PlacesOK'
    BY <2>5, <2>6, <2>7 DEF CallersInv, PlacesOK
  <2>12. \A t \in Created' : task_list'[t].state = "WAITING_SEM" => t \in Created
    BY <2>4, <2>6
  <2> QED
    BY <2>5, <2>8, <2>9, <2>10, <2>11, <2>12 DEF SameCallers
<1> QED
  BY <1>2, <1>3, <1>4, <1>5, <1>6 DEF Main

-----------------------------------------------------------------------------
(* Steps of the semaphores *)

\* os_task_release_waiting_task finds one waiter, if there is one: with round
\* robin the one with the longest time, with fixed priorities the one of highest
\* priority, unless that is 255.
LEMMA FoundOne ==
    ASSUME NEW tl, NEW n, ListOK(tl, n), NEW s, SemWaiters(tl, n, s) # {},
           ROUND_ROBIN \/ 255 \notin Prio
    PROVE  \E w \in SemWaiters(tl, n, s) :
              /\ FoundTask(tl, n, s) = {w}
              /\ ROUND_ROBIN =>
                   \A u \in SemWaiters(tl, n, s) : tl[u].time <= tl[w].time
<1> DEFINE W == SemWaiters(tl, n, s)
<1>1. \A t \in W : /\ t \in Nat /\ t < N_TASKS /\ t \in Tid
                   /\ tl[t].time \in Nat /\ tl[t].time < TIME_MOD
                   /\ tl[t].prio \in Prio /\ tl[t].prio \in Nat
                   /\ tl[t].prio <= 255
  <2>1. \A t \in Tid : tl[t].time \in 0 .. TIME_MOD - 1 /\ tl[t].prio \in 0 .. 255
    BY DEF ListOK, TCB, Time
  <2>2. \A t \in Tid : tl[t].time \in Nat /\ tl[t].time < TIME_MOD
    BY <2>1, TaskAssumption
  <2>3. \A t \in W : t \in Tid /\ t < n
    BY DEF SemWaiters
  <2>4. \A t \in W : tl[t].prio \in Prio
    BY <2>3 DEF ListOK
  <2> HIDE DEF W
  <2>5. \A p \in 0 .. 255 : p \in Nat /\ p <= 255
    OBVIOUS
  <2>6. \A t \in W : t \in Nat /\ t < N_TASKS
    BY <2>3, TidFacts
  <2>7. \A t \in W : tl[t].prio \in Nat /\ tl[t].prio <= 255
    BY <2>1, <2>3, <2>5
  <2> QED
    BY <2>2, <2>3, <2>4, <2>6, <2>7
<1>2. N_TASKS \in Nat /\ TIME_MOD \in Nat
  BY TaskAssumption
<1>3. CASE ~ROUND_ROBIN
  <2> DEFINE P == {tl[t].prio : t \in W}
  <2>1. P \in SUBSET Nat /\ P # {}
    BY <1>1
  <2>2. PICK p \in P : \A x \in P : p <= x
    <3> HIDE DEF P
    <3> QED BY <2>1, LeastNat
  <2>3. PICK w \in W : p = tl[w].prio
    OBVIOUS
  <2>4. tl[w].prio < 255 /\ \A u \in W : tl[w].prio <= tl[u].prio
    BY <1>1, <1>3, <2>2, <2>3
  <2>5. \A t, u \in W : tl[t].prio = tl[u].prio => t = u
    BY DEF ListOK, SemWaiters
  <2>6. \A t \in W : (\A u \in W : tl[t].prio <= tl[u].prio) => t = w
    BY <1>1, <2>4, <2>5
  <2>7. FoundTask(tl, n, s) = {w}
    BY <1>3, <2>4, <2>6 DEF FoundTask
  <2> QED
    BY <1>3, <2>7
<1>4. CASE ROUND_ROBIN /\ \A t \in W : tl[t].time = 0
  <2>1. W \in SUBSET Nat /\ W # {} /\ \A t \in W : t <= N_TASKS
    BY <1>1, <1>2
  <2>4. PICK w \in W : \A u \in W : u <= w
    <3> HIDE DEF W
    <3> QED BY <1>2, <2>1, GreatestNat
  <2>5. \A t \in W : (\A u \in W : u <= t) => t = w
    BY <1>1, <2>4
  <2>6. FoundTask(tl, n, s) = {w}
    BY <1>4, <2>4, <2>5 DEF FoundTask
  <2> QED
    BY <1>4, <2>6
<1>5. CASE ROUND_ROBIN /\ ~(\A t \in W : tl[t].time = 0)
  <2> DEFINE P == {tl[t].time : t \in W}
  <2>1. P \in SUBSET Nat /\ P # {} /\ \A x \in P : x <= TIME_MOD
    BY <1>1, <1>2
  <2>2. PICK p \in P : \A x \in P : x <= p
    <3> HIDE DEF P
    <3> QED BY <1>2, <2>1, GreatestNat
  <2>3. PICK m \in W : p = tl[m].time
    OBVIOUS
  <2>4. \A u \in W : tl[u].time <= tl[m].time
    BY <2>2, <2>3
  <2> DEFINE L == {t \in W : tl[t].time = tl[m].time}
  <2>5. L \in SUBSET Nat /\ L # {}
    BY <1>1
  <2>6. PICK w \in L : \A x \in L : w <= x
    <3> HIDE DEF L
    <3> QED BY <2>5, LeastNat
  <2>7. \A u \in W : \/ tl[u].time < tl[w].time
                     \/ tl[u].time = tl[w].time /\ w <= u
    BY <1>1, <2>4, <2>6
  <2>8. \A t \in W : (\A u \in W : \/ tl[u].time < tl[t].time
                                   \/ tl[u].time = tl[t].time /\ t <= u)
                       => t = w
    BY <1>1, <2>7
  <2> HIDE DEF P, L
  <2>9. FoundTask(tl, n, s) = {w}
    <3>1. FoundTask(tl, n, s)
            = {t \in W : \A u \in W : \/ tl[u].time < tl[t].time
                                      \/ tl[u].time = tl[t].time /\ t <= u}
      BY <1>5 DEF FoundTask
    <3> QED
      BY <2>6, <2>7, <2>8, <3>1 DEF L
  <2> QED
    BY <1>1, <2>4, <2>6, <2>9 DEF L
<1> QED
  BY <1>3, <1>4, <1>5

\* A call that changes one value and no task.
LEMMA ValueCallers ==
    ASSUME CallersInv, NEW s \in Live, NEW v,
           semList' = [semList EXCEPT ![s].value = v],
           Continue(task_list), UNCHANGED nSemaphores
    PROVE  /\ SameCallers /\ ExecutingRuns' /\ UnmadeEmpty' /\ PlacesOK'
           /\ [r \in Sem |-> semList'[r].value]
                = [[r \in Sem |-> semList[r].value] EXCEPT ![s] = v]
           /\ [r \in Sem |-> semList'[r].maxValue]
                = [r \in Sem |-> semList[r].maxValue]
<1>1. UNCHANGED <<task_list, nTasks, running_tid>>
  BY DEF Continue
<1>2. semList \in [Sem -> Sem_t] /\ s \in Sem
  BY DEF CallersInv, SemInv, Live
<1>3. /\ \A r \in Sem \ {s} : semList'[r] = semList[r]
      /\ semList'[s].value = v
      /\ semList'[s].maxValue = semList[s].maxValue
  BY <1>2 DEF Sem_t
<1>4. UnmadeEmpty'
  BY <1>3 DEF CallersInv, UnmadeEmpty, Live
<1> QED
  BY <1>1, <1>2, <1>3, <1>4 DEF SameCallers, Waiters, LetThrough, CallersInv,
     ExecutingRuns, PlacesOK, Created

\* sem_wait that finds a token.
LEMMA TakeRefines ==
    ASSUME CallersInv, NEW t \in Tid, NEW s \in Sem, sem_wait(t, s),
           os_sem_larger_than_zero(s),
           last' = IF running_tid' = t THEN TakeOf(s) ELSE None
    PROVE  /\ ExecutingRuns' /\ UnmadeEmpty' /\ PlacesOK'
           /\ SameCallers
           /\ Abstract!Next
<1>1. /\ s \in Live /\ Executing(t)
      /\ semList' = [semList EXCEPT ![s].value = semList[s].value - 1]
      /\ Continue(task_list) /\ UNCHANGED nSemaphores
  BY DEF sem_wait, os_sem_larger_than_zero, os_sem_decrement
<1>2. last' = TakeOf(s)
  BY <1>1 DEF Executing, Continue
<1>3. /\ SameCallers /\ ExecutingRuns' /\ UnmadeEmpty' /\ PlacesOK'
      /\ [r \in Sem |-> semList'[r].value]
           = [[r \in Sem |-> semList[r].value] EXCEPT ![s] = semList[s].value - 1]
      /\ [r \in Sem |-> semList'[r].maxValue]
           = [r \in Sem |-> semList[r].maxValue]
  BY <1>1, ValueCallers
<1>4. Abstract!Take(s)
  BY <1>2, <1>3 DEF os_sem_larger_than_zero, SameCallers, TakeOf,
     Abstract!Take, Abstract!TakeOf
<1> QED
  BY <1>3, <1>4 DEF Abstract!Next

\* sem_wait that does not.
LEMMA BlockRefines ==
    ASSUME CallersInv, NEW t \in Tid, NEW s \in Sem, sem_wait(t, s),
           ~os_sem_larger_than_zero(s),
           last' = IF running_tid' = t THEN TakeOf(s) ELSE None
    PROVE  /\ ExecutingRuns' /\ UnmadeEmpty' /\ PlacesOK'
           /\ \A u \in Tid \ {t} : task_list'[u] = task_list[u]
           /\ task_list'[t].time = 0
           /\ task_list'[t].state = "WAITING_SEM"
           /\ Abstract!Next
<1> DEFINE r == [WaitingSem(task_list[t], s) EXCEPT !.internal_state = "WAIT_SEM"]
<1>1. ListOK(task_list, nTasks)
  BY InvParts DEF CallersInv, SemInv
<1>2. /\ s \in Live /\ Executing(t)
      /\ task_list' = [task_list EXCEPT ![t] = r]
      /\ nTasks' = nTasks /\ running_tid' = NO_TID
      /\ UNCHANGED semVars
  BY <1>1 DEF sem_wait, OS_YIELD, os_task_internal_state_set,
     task_wait_sem_set, ListOK, semVars
<1>3. /\ t \in Created /\ task_list[t] \in TCB /\ PlaceOK(task_list[t])
      /\ task_list[t].state \in {"READY", "KILLED"}
  BY <1>2, RunningFacts
<1>4. /\ r.state = "WAITING_SEM" /\ r.semaphore = s /\ r.time = 0
      /\ r.internal_state = "WAIT_SEM" /\ r.savedState = task_list[t].savedState
  BY <1>3 DEF WaitingSem, TCB
<1> HIDE DEF r
<1>5. /\ \A u \in Tid \ {t} : task_list'[u] = task_list[u]
      /\ task_list'[t] = r
  BY <1>1, <1>2 DEF ListOK
<1>6. PlaceOK(r) /\ ~Passes(r)
  BY <1>3, <1>4 DEF PlaceOK, Passes
<1>7. ExecutingRuns' /\ UnmadeEmpty' /\ PlacesOK'
  BY <1>2, <1>5, <1>6 DEF CallersInv, ExecutingRuns, UnmadeEmpty, Live, semVars,
     PlacesOK, Created
<1>8. \A x \in Sem : Waiters(x)' = IF x = s THEN Waiters(x) \cup {t} ELSE Waiters(x)
  BY <1>2, <1>3, <1>4, <1>5 DEF Waiters, SemWaiters, Created
<1>9. \A x \in Sem : t \notin Waiters(x)
  BY <1>3 DEF Waiters, SemWaiters
<1>10. LetThrough' = LetThrough \ {t}
  BY <1>2, <1>3, <1>5, <1>6 DEF LetThrough, Passes, Created
<1>11. semList[s].value = 0
  <2>1. semList[s].value \in 0 .. 255
    BY DEF CallersInv, SemInv, Sem_t
  <2> QED
    BY <2>1 DEF os_sem_larger_than_zero
<1>12. last' = None
  BY <1>2 DEF Executing
<1>13. [x \in Sem |-> Waiters(x)']
         = [[x \in Sem |-> Waiters(x)] EXCEPT ![s] = @ \cup {t}]
  <2>1. [x \in Sem |-> Waiters(x)']
          = [x \in Sem |-> IF x = s THEN Waiters(x) \cup {t} ELSE Waiters(x)]
    BY <1>8
  <2> QED
    BY <2>1
<1>14. Abstract!Block(t, s)
  BY <1>2, <1>9, <1>10, <1>11, <1>12, <1>13
  DEF semVars, None, Abstract!Block, Abstract!None
<1> QED
  BY <1>4, <1>5, <1>7, <1>14 DEF Abstract!Next

\* A signal that finds waiters goes to the one FoundTask found, whether the
\* signaller yields (sem_signal) or not (sem_ISR_signal).
LEMMA HandOverRefines ==
    ASSUME CallersInv, NEW s \in Live, UNCHANGED semVars,
           Waiters(s) # {}, ROUND_ROBIN \/ 255 \notin Prio,
           LET tl == os_task_release_waiting_task(task_list, nTasks, s)
           IN  \/ Continue(tl)
               \/ \E t \in Tid : Executing(t) /\ OS_YIELD(t, tl, "SIGNAL_SEM"),
           last' = SignalOf(s)
    PROVE  /\ ExecutingRuns' /\ UnmadeEmpty' /\ PlacesOK'
           /\ \A u \in Created :
                task_list'[u].state = "WAITING_SEM" =>
                    /\ task_list[u].state = "WAITING_SEM"
                    /\ task_list'[u].time = task_list[u].time
           /\ \A u \in Created :
                /\ task_list[u].state = "WAITING_SEM"
                /\ task_list'[u].state = "READY"
                => /\ u \in Waiters(s)
                   /\ ROUND_ROBIN =>
                        \A v \in Waiters(s) : task_list[v].time <= task_list[u].time
           /\ Abstract!Next
<1> DEFINE tl == os_task_release_waiting_task(task_list, nTasks, s)
<1>1. ListOK(task_list, nTasks) /\ ControlOK
  BY InvParts DEF CallersInv, SemInv
<1>2. PICK w \in Waiters(s) :
        /\ FoundTask(task_list, nTasks, s) = {w}
        /\ ROUND_ROBIN =>
             \A v \in Waiters(s) : task_list[v].time <= task_list[w].time
  BY <1>1, FoundOne DEF Waiters
<1>3. /\ w \in Created /\ w \in Tid
      /\ task_list[w].state = "WAITING_SEM" /\ task_list[w].semaphore = s
      /\ task_list[w] \in TCB /\ PlaceOK(task_list[w])
  BY <1>1, <1>2 DEF Waiters, SemWaiters, Created, ListOK, CallersInv, PlacesOK
<1> DEFINE r == [task_list[w] EXCEPT !.state = "READY"]
<1>4. \A u \in Tid : tl[u] = IF u = w THEN r ELSE task_list[u]
  BY <1>2 DEF os_task_release_waiting_task
<1>5. PlaceOK(r) /\ Passes(r) /\ r.state = "READY"
  BY <1>3 DEF TCB, PlaceOK, Passes
<1>6. tl \in [Tid -> TCB]
  BY <1>1, ReleaseOK DEF ListOK
<1> HIDE DEF tl, r
\* Block y, if it is a task's, is that of the signaller, who yields.
<1>7. PICK y \in Tid \cup {NO_TID} :
        /\ nTasks' = nTasks
        /\ \A u \in Tid \ {y} : task_list'[u] = tl[u]
        /\ y = NO_TID => running_tid' = running_tid
        /\ y # NO_TID => /\ Executing(y)
                         /\ running_tid' = NO_TID
                         /\ task_list' = [tl EXCEPT ![y] =
                              [tl[y] EXCEPT !.internal_state = "SIGNAL_SEM"]]
  <2>1. CASE Continue(tl)
    <3>1. NO_TID \notin Tid
      BY TidFacts
    <3> QED
      BY <2>1, <3>1 DEF Continue
  <2>2. ASSUME NEW t \in Tid, Executing(t), OS_YIELD(t, tl, "SIGNAL_SEM")
        PROVE  /\ nTasks' = nTasks
               /\ \A u \in Tid \ {t} : task_list'[u] = tl[u]
               /\ t = NO_TID => running_tid' = running_tid
               /\ t # NO_TID => /\ Executing(t)
                                /\ running_tid' = NO_TID
                                /\ task_list' = [tl EXCEPT ![t] =
                                     [tl[t] EXCEPT !.internal_state = "SIGNAL_SEM"]]
    BY <1>6, <2>2 DEF OS_YIELD, os_task_internal_state_set, Executing
  <2> QED
    BY <2>1, <2>2 DEF tl
<1>8. y # NO_TID =>
        /\ y \in Created /\ y # w
        /\ task_list[y].state \in {"READY", "KILLED"}
        /\ task_list'[y] = [task_list[y] EXCEPT !.internal_state = "SIGNAL_SEM"]
        /\ task_list[y] \in TCB /\ PlaceOK(task_list[y])
  <2> SUFFICES ASSUME y # NO_TID
               PROVE  /\ y \in Created /\ y # w
                      /\ task_list[y].state \in {"READY", "KILLED"}
                      /\ task_list'[y] = [task_list[y] EXCEPT !.internal_state = "SIGNAL_SEM"]
                      /\ task_list[y] \in TCB /\ PlaceOK(task_list[y])
    OBVIOUS
  <2>1. y \in Tid
    BY <1>7
  <2>2. /\ y \in Created /\ task_list[y] \in TCB /\ PlaceOK(task_list[y])
        /\ task_list[y].state \in {"READY", "KILLED"}
    BY <1>7, <2>1, RunningFacts
  <2>3. y # w
    BY <1>3, <2>2
  <2>4. task_list'[y] = [tl[y] EXCEPT !.internal_state = "SIGNAL_SEM"]
    BY <1>6, <1>7, <2>1
  <2> QED
    BY <1>4, <2>1, <2>2, <2>3, <2>4
<1>9. Created' = Created
  BY <1>7 DEF Created
<1>10. /\ w # y
       /\ task_list'[w] = r
       /\ \A u \in Tid \ {y, w} : task_list'[u] = task_list[u]
  BY <1>3, <1>4, <1>7, <1>8, TidFacts
<1>11. y # NO_TID =>
        /\ task_list'[y].state = task_list[y].state
        /\ task_list'[y].internal_state = "SIGNAL_SEM"
        /\ PlaceOK(task_list'[y]) /\ ~Passes(task_list'[y])
  BY <1>8 DEF TCB, PlaceOK, Passes
<1>12. \A u \in Created : u \in Tid /\ u # NO_TID
  BY TidFacts DEF Created
<1>13. PlacesOK'
  BY <1>5, <1>9, <1>10, <1>11, <1>12 DEF CallersInv, PlacesOK
<1>14. ExecutingRuns'
  BY <1>1, <1>5, <1>7, <1>10, <1>12 DEF CallersInv, ExecutingRuns, ControlOK
<1>15. UnmadeEmpty'
  BY DEF CallersInv, UnmadeEmpty, Live, semVars
<1>16. \A x \in Sem : Waiters(x)' = Waiters(x) \ {w}
  <2>1. \A x \in Sem : /\ Waiters(x) = {u \in Created : /\ task_list[u].state = "WAITING_SEM"
                                                         /\ task_list[u].semaphore = x}
                       /\ Waiters(x)' = {u \in Created : /\ task_list'[u].state = "WAITING_SEM"
                                                          /\ task_list'[u].semaphore = x}
    BY <1>9 DEF Waiters, SemWaiters, Created
  <2>2. ASSUME NEW u \in Created
        PROVE  /\ u # w /\ task_list[u].state = "WAITING_SEM" => task_list'[u] = task_list[u]
               /\ task_list'[u].state = "WAITING_SEM"
                    => u # w /\ task_list[u].state = "WAITING_SEM"
    BY <1>5, <1>8, <1>10, <1>11, <1>12
  <2> QED
    BY <2>1, <2>2
<1>17. LetThrough' = (LetThrough \ {y}) \cup {w}
  <2>1. /\ LetThrough = {u \in Created : Passes(task_list[u])}
        /\ LetThrough' = {u \in Created : Passes(task_list'[u])}
    BY <1>9 DEF LetThrough, Passes
  <2>2. \A u \in Created : Passes(task_list'[u])
           <=> u = w \/ (u # y /\ Passes(task_list[u]))
    BY <1>5, <1>10, <1>11, <1>12
  <2> QED
    BY <1>3, <2>1, <2>2
<1>18. \E u \in Tid : LetThrough' = (LetThrough \ {u}) \cup {w}
  <2>1. CASE y = NO_TID
    <3>1. LetThrough' = (LetThrough \ {w}) \cup {w}
      BY <1>12, <1>17, <2>1 DEF LetThrough
    <3> QED
      BY <1>3, <3>1
  <2>2. CASE y # NO_TID
    BY <1>17, <2>2
  <2> QED
    BY <2>1, <2>2
<1>19. [x \in Sem |-> Waiters(x)']
         = [[x \in Sem |-> Waiters(x)] EXCEPT ![s] = @ \ {w}]
  <2>1. \A x \in Sem \ {s} : Waiters(x) \ {w} = Waiters(x)
    BY <1>3 DEF Waiters, SemWaiters
  <2>2. [x \in Sem |-> Waiters(x)'] = [x \in Sem |-> Waiters(x) \ {w}]
    BY <1>16
  <2>3. s \in Sem
    BY DEF Live
  <2> QED
    BY <2>1, <2>2, <2>3
<1>20. Abstract!Grant(w, s)
  BY <1>2, <1>18, <1>19 DEF Live, semVars, SignalOf, Abstract!Grant, Abstract!SignalOf
<1>21. Abstract!Next
  BY <1>3, <1>20 DEF Live, Abstract!Next
<1>22. ASSUME NEW u \in Created
       PROVE  /\ task_list'[u].state = "WAITING_SEM" =>
                    /\ task_list[u].state = "WAITING_SEM"
                    /\ task_list'[u].time = task_list[u].time
              /\ /\ task_list[u].state = "WAITING_SEM"
                 /\ task_list'[u].state = "READY"
                 => u = w
  BY <1>5, <1>8, <1>10, <1>11, <1>12
<1> QED
  BY <1>2, <1>13, <1>14, <1>15, <1>21, <1>22

\* A signal without waiters is kept, unless the semaphore is full.
LEMMA KeptRefines ==
    ASSUME CallersInv, NEW s \in Live, Waiters(s) = {},
           semList' = os_sem_increment(s),
           Continue(task_list), UNCHANGED nSemaphores,
           last' = SignalOf(s)
    PROVE  /\ SameCallers /\ ExecutingRuns' /\ UnmadeEmpty' /\ PlacesOK'
           /\ Abstract!Next
<1> DEFINE v == IF semList[s].value < semList[s].maxValue
                THEN semList[s].value + 1 ELSE semList[s].value
<1>1. semList' = [semList EXCEPT ![s].value = v] /\ s \in Sem
  BY DEF os_sem_increment, Live
<1> HIDE DEF v
<1>2. /\ SameCallers /\ ExecutingRuns' /\ UnmadeEmpty' /\ PlacesOK'
      /\ [r \in Sem |-> semList'[r].value]
           = [[r \in Sem |-> semList[r].value] EXCEPT ![s] = v]
      /\ [r \in Sem |-> semList'[r].maxValue]
           = [r \in Sem |-> semList[r].maxValue]
  BY <1>1, ValueCallers
<1>3. Abstract!Signal(s)
  BY <1>1, <1>2 DEF v, SameCallers, SignalOf, Abstract!Signal, Abstract!SignalOf
<1> QED
  BY <1>1, <1>2, <1>3 DEF Abstract!Next

\* sem_counting_create gives a semaphore that nobody has used its tokens, or
\* halts.
LEMMA CreateRefines ==
    ASSUME CallersInv, NEW max \in SemMax, NEW initial \in SemInitial,
           SemCreate(max, initial), last' = None
    PROVE  /\ SameCallers /\ ExecutingRuns' /\ UnmadeEmpty' /\ PlacesOK'
           /\ Abstract!Next
<1>1. CASE nSemaphores < N_TOTAL_SEMAPHORES
  <2> DEFINE new == [maxValue |-> max, value |-> initial]
  <2>0. PICK x \in Sem : x = nSemaphores
    BY <1>1, SemFacts DEF CallersInv, SemInv
  <2>1. /\ semList' = [semList EXCEPT ![x] = new]
        /\ nSemaphores' = nSemaphores + 1
        /\ UNCHANGED kernelVars
    BY <1>1, <2>0 DEF SemCreate
  <2>2. x \in Sem /\ x \notin Live /\ \A s \in Live : s \in Live'
    <3>1. nSemaphores \in Nat
      BY SemFacts DEF CallersInv, SemInv
    <3> QED
      BY <1>1, <2>0, <2>1, <3>1, SemFacts DEF Live
  <2>3. semList \in [Sem -> Sem_t] /\ semList[x] = [maxValue |-> 0, value |-> 0]
    BY <2>2 DEF CallersInv, SemInv, UnmadeEmpty
  <2>4. UNCHANGED <<task_list, nTasks, running_tid>>
    BY <2>1 DEF kernelVars
  <2>5. SameCallers /\ ExecutingRuns' /\ PlacesOK'
    BY <2>4 DEF SameCallers, Waiters, LetThrough, CallersInv, ExecutingRuns,
       PlacesOK, Created
  <2>6. x \in Live'
    BY <2>0, <2>1, <2>2, SemFacts DEF Live
  <2>7. UnmadeEmpty'
    BY <2>1, <2>2, <2>3, <2>6 DEF CallersInv, UnmadeEmpty
  <2>8. Waiters(x) = {}
    BY <2>2 DEF CallersInv, SemInv, WaitersLive, Waiters, SemWaiters, Created
  <2>9. max \in Nat /\ initial \in Nat
    BY SemAssumption
  <2>10. /\ [s \in Sem |-> semList'[s].value]
              = [[s \in Sem |-> semList[s].value] EXCEPT ![x] = initial]
         /\ [s \in Sem |-> semList'[s].maxValue]
              = [[s \in Sem |-> semList[s].maxValue] EXCEPT ![x] = max]
    <3>1. /\ semList'[x].value = initial /\ semList'[x].maxValue = max
          /\ \A s \in Sem \ {x} : semList'[s] = semList[s]
      BY <2>1, <2>2, <2>3
    <3> QED
      BY <2>2, <3>1
  <2>11. Abstract!Create(x)
    <3>1. /\ [s \in Sem |-> Waiters(s)][x] = {}
          /\ [s \in Sem |-> semList[s].value][x] = 0
          /\ [s \in Sem |-> semList[s].maxValue][x] = 0
      BY <2>3, <2>8
    <3>2. /\ [s \in Sem |-> semList'[s].value][x] = initial
          /\ [s \in Sem |-> semList'[s].maxValue][x] = max
      BY <2>1, <2>2, <2>3
    <3>3. /\ [s \in Sem |-> Waiters(s)'] = [s \in Sem |-> Waiters(s)]
          /\ LetThrough' = LetThrough
      BY <2>5 DEF SameCallers
    <3>4. last' = Abstract!None
      BY DEF None, Abstract!None
    <3> QED
      BY <2>9, <2>10, <3>1, <3>2, <3>3, <3>4 DEF Abstract!Create
  <2> QED
    BY <2>2, <2>5, <2>7, <2>11 DEF Abstract!Next
<1>2. CASE ~(nSemaphores < N_TOTAL_SEMAPHORES)
  <2>1. os_on_assert /\ UNCHANGED semVars
    BY <1>2 DEF SemCreate
  <2>2. SameCallers /\ ExecutingRuns' /\ UnmadeEmpty' /\ PlacesOK'
    BY <2>1 DEF os_on_assert, semVars, SameCallers, Waiters, LetThrough,
       CallersInv, ExecutingRuns, UnmadeEmpty, Live, PlacesOK, Created
  <2> QED
    BY <2>1, <2>2, SameElsewhere
<1> QED
  BY <1>1, <1>2

-----------------------------------------------------------------------------
\* Who waits after a step that is no tick waited before, as long, or begins.
TimesKept ==
    \A t \in Created' : task_list'[t].state = "WAITING_SEM" =>
        /\ t \in Created
        /\ task_list'[t].time = IF task_list[t].state = "WAITING_SEM"
                                THEN task_list[t].time ELSE 0

\* Who ends a wait in a step had waited longest.
ReleasesLongest ==
    \A t \in Created :
        /\ task_list[t].state = "WAITING_SEM"
        /\ task_list'[t].state = "READY"
        /\ ROUND_ROBIN
        => \A u \in Waiters(task_list[t].semaphore) :
              task_list[u].time <= task_list[t].time

\* The step that leaves the task list alone.
LEMMA SameListTimes ==
    ASSUME CallersInv, UNCHANGED <<task_list, nTasks>>
    PROVE  TimesKept /\ ReleasesLongest
BY DEF TimesKept, ReleasesLongest, Created

\* The step that changes one block.
LEMMA OneBlockPlaces ==
    ASSUME CallersInv, NEW u \in Tid, OneBlock(u)
    PROVE  PlacesOK' /\ TimesKept /\ ReleasesLongest
<1>1. /\ u \in Created /\ Created' = Created /\ Keeps(task_list'[u], task_list[u])
      /\ \A v \in Created \ {u} : task_list'[v] = task_list[v]
  BY DEF OneBlock, Created
<1> QED
  BY <1>1 DEF CallersInv, PlacesOK, TimesKept, ReleasesLongest, Keeps

\* The calls of waiting and signalling.
LEMMA WaitStepRefines ==
    ASSUME CallersInv, NEW t \in Tid, NEW s \in Sem, sem_wait(t, s),
           last' = IF running_tid' = t THEN TakeOf(s) ELSE None
    PROVE  /\ ExecutingRuns' /\ UnmadeEmpty' /\ PlacesOK'
           /\ TimesKept /\ ReleasesLongest
           /\ Abstract!Next
<1>1. CASE os_sem_larger_than_zero(s)
  <2>1. UNCHANGED <<task_list, nTasks>>
    BY <1>1 DEF sem_wait, Continue
  <2> QED
    BY <1>1, <2>1, TakeRefines, SameListTimes
<1>2. CASE ~os_sem_larger_than_zero(s)
  <2>1. /\ ExecutingRuns' /\ UnmadeEmpty' /\ PlacesOK'
        /\ \A u \in Tid \ {t} : task_list'[u] = task_list[u]
        /\ task_list'[t].time = 0
        /\ task_list'[t].state = "WAITING_SEM"
        /\ Abstract!Next
    BY <1>2, BlockRefines
  <2>2. Executing(t) /\ nTasks' = nTasks
    BY <1>2 DEF sem_wait, OS_YIELD
  <2>3. task_list[t].state # "WAITING_SEM"
    BY <2>2, RunningFacts
  <2>4. Created' = Created /\ Created \subseteq Tid
    BY <2>2 DEF Created
  <2> QED
    BY <2>1, <2>3, <2>4 DEF TimesKept, ReleasesLongest
<1> QED
  BY <1>1, <1>2

\* A signal gives its token to a waiter, the longest under round robin, or to
\* the semaphore.
LEMMA SignalStepRefines ==
    ASSUME CallersInv, NEW s \in Sem, ROUND_ROBIN \/ 255 \notin Prio,
           sem_ISR_signal(s) \/ \E t \in Tid : sem_signal(t, s),
           last' = SignalOf(s)
    PROVE  /\ ExecutingRuns' /\ UnmadeEmpty' /\ PlacesOK'
           /\ TimesKept /\ ReleasesLongest
           /\ Abstract!Next
<1>1. s \in Live
  BY DEF sem_ISR_signal, sem_signal
<1>2. CASE Waiters(s) # {}
  <2> DEFINE tl == os_task_release_waiting_task(task_list, nTasks, s)
  <2>1. UNCHANGED semVars
    BY <1>2 DEF sem_ISR_signal, sem_signal, semVars, Waiters,
       os_task_waiting_this_semaphore
  <2>2. \/ Continue(tl)
        \/ \E t \in Tid : Executing(t) /\ OS_YIELD(t, tl, "SIGNAL_SEM")
    BY <1>2 DEF sem_ISR_signal, sem_signal, Waiters, os_task_waiting_this_semaphore
  <2>3. Created' = Created
    BY <2>2 DEF Continue, OS_YIELD, Created
  <2>4. /\ ExecutingRuns' /\ UnmadeEmpty' /\ PlacesOK'
        /\ \A u \in Created :
             task_list'[u].state = "WAITING_SEM" =>
                 /\ task_list[u].state = "WAITING_SEM"
                 /\ task_list'[u].time = task_list[u].time
        /\ \A u \in Created :
             /\ task_list[u].state = "WAITING_SEM"
             /\ task_list'[u].state = "READY"
             => /\ u \in Waiters(s)
                /\ ROUND_ROBIN =>
                     \A v \in Waiters(s) : task_list[v].time <= task_list[u].time
        /\ Abstract!Next
    BY <1>1, <1>2, <2>1, <2>2, HandOverRefines
  <2>5. \A u \in Waiters(s) : task_list[u].semaphore = s
    BY DEF Waiters, SemWaiters
  <2> HIDE DEF tl
  <2> QED
    BY <2>3, <2>4, <2>5 DEF TimesKept, ReleasesLongest
<1>3. CASE Waiters(s) = {}
  <2>1. /\ semList' = os_sem_increment(s) /\ Continue(task_list)
        /\ UNCHANGED nSemaphores
    BY <1>3 DEF sem_ISR_signal, sem_signal, Waiters, os_task_waiting_this_semaphore
  <2>2. UNCHANGED <<task_list, nTasks>>
    BY <2>1 DEF Continue
  <2> QED
    BY <1>1, <1>3, <2>1, <2>2, KeptRefines, SameListTimes
<1> QED
  BY <1>2, <1>3

\* The steps that are of no semaphore, other than ticks.
LEMMA ElsewhereRefines ==
    ASSUME CallersInv, UNCHANGED semVars, last' = None,
           Main \/ os_schedule \/ \E t \in Tid : TaskStep(t)
    PROVE  /\ ExecutingRuns' /\ UnmadeEmpty' /\ PlacesOK'
           /\ TimesKept /\ ReleasesLongest
           /\ Abstract!Next
<1>1. UnmadeEmpty'
  BY DEF CallersInv, UnmadeEmpty, Live, semVars
<1>2. CASE Main \/ os_schedule
  <2>1. /\ SameCallers /\ ExecutingRuns' /\ PlacesOK'
        /\ \A t \in Created : task_list'[t] = task_list[t]
        /\ \A t \in Created' : task_list'[t].state = "WAITING_SEM" => t \in Created
    BY <1>2, MainSchedule
  <2>2. TimesKept /\ ReleasesLongest
    BY <2>1 DEF TimesKept, ReleasesLongest
  <2> QED
    BY <1>1, <2>1, <2>2, SameElsewhere
<1>3. ASSUME NEW t \in Tid, TaskStep(t)
      PROVE  /\ ExecutingRuns' /\ PlacesOK'
             /\ TimesKept /\ ReleasesLongest
             /\ Abstract!Next
  <2>1. /\ ExecutingRuns'
        /\ UNCHANGED <<task_list, nTasks>> \/ \E u \in Tid : OneBlock(u)
    BY <1>3, TaskStepOne
  <2>2. CASE UNCHANGED <<task_list, nTasks>>
    <3>1. SameCallers /\ PlacesOK'
      BY <2>2 DEF SameCallers, Waiters, LetThrough, CallersInv, PlacesOK, Created
    <3> QED
      BY <2>1, <2>2, <3>1, SameElsewhere, SameListTimes
  <2>3. ASSUME NEW u \in Tid, OneBlock(u)
        PROVE  PlacesOK' /\ TimesKept /\ ReleasesLongest /\ Abstract!Next
    BY <2>3, OneBlockPlaces, OneBlockRefines
  <2> QED
    BY <2>1, <2>2, <2>3
<1> QED
  BY <1>1, <1>2, <1>3

-----------------------------------------------------------------------------
(* The refinement *)

\* os_init makes the abstract semaphores without tokens and waiters.
LEMMA CallersInitInv == ClientsInit => CallersInv /\ Abstract!Init
<1> SUFFICES ASSUME ClientsInit PROVE CallersInv /\ Abstract!Init
  OBVIOUS
<1>1. SemInit /\ last = None
  BY DEF ClientsInit
<1>2. SemInv
  BY <1>1, SemInitInv
<1>3. /\ nTasks = 0 /\ running_tid = NO_TID
      /\ semList = [s \in Sem |-> [maxValue |-> 0, value |-> 0]]
  BY <1>1 DEF SemInit, os_init, os_sem_init
<1>4. \A t \in Tid : ~(t < 0)
  BY TidFacts
<1>5. Created = {} /\ LetThrough = {} /\ \A s \in Sem : Waiters(s) = {}
  BY <1>3, <1>4 DEF Created, LetThrough, Waiters, SemWaiters
<1>6. ExecutingRuns /\ UnmadeEmpty /\ PlacesOK
  BY <1>3, <1>5 DEF ExecutingRuns, UnmadeEmpty, Live, PlacesOK
<1>7. /\ [s \in Sem |-> semList[s].value] = [s \in Sem |-> 0]
      /\ [s \in Sem |-> semList[s].maxValue] = [s \in Sem |-> 0]
      /\ [s \in Sem |-> Waiters(s)] = [s \in Sem |-> {}]
  BY <1>3, <1>5
<1> QED
  BY <1>1, <1>2, <1>5, <1>6, <1>7 DEF CallersInv, None, Abstract!Init, Abstract!None

\* A step is one that is no tick, a tick that finds nobody's bound reached, or
\* changes nothing.
LEMMA CallersStep ==
    ASSUME CallersInv, [ClientsNext]_clientVars, ROUND_ROBIN \/ 255 \notin Prio
    PROVE  /\ CallersInv'
           /\ [Abstract!Next]_(Abstract!vars)
           /\ ReleasesLongest
           /\ \/ TimesKept /\ Waited(0)
              \/ /\ Clock
                 /\ \A t \in Tid : waited[t] < MAX_WAITED
                 /\ Waited(1)
              \/ UNCHANGED clientVars
<1>1. [SemNext]_osVars
  <2>1. ClientsNext => SemNext
    BY DEF ClientsNext, SemNext, SemStep, Undisturbed
  <2> QED
    BY <2>1 DEF clientVars
<1>2. SemInv'
  BY <1>1, SemStepInv DEF CallersInv
<1>3. ASSUME NEW t \in Tid, NEW s \in Sem, sem_wait(t, s),
             last' = IF running_tid' = t THEN TakeOf(s) ELSE None
      PROVE  /\ ExecutingRuns' /\ UnmadeEmpty' /\ PlacesOK'
             /\ Abstract!Next /\ ReleasesLongest /\ TimesKept
  BY <1>3, WaitStepRefines
<1>4. ASSUME NEW s \in Sem, sem_ISR_signal(s) \/ \E t \in Tid : sem_signal(t, s),
             last' = SignalOf(s)
      PROVE  /\ ExecutingRuns' /\ UnmadeEmpty' /\ PlacesOK'
             /\ Abstract!Next /\ ReleasesLongest /\ TimesKept
  BY <1>4, SignalStepRefines
<1>5. ASSUME Clock, last' = None, UNCHANGED semVars
      PROVE  /\ ExecutingRuns' /\ UnmadeEmpty' /\ PlacesOK'
             /\ Abstract!Next /\ ReleasesLongest
  <2>1. UnmadeEmpty'
    BY <1>5 DEF CallersInv, UnmadeEmpty, Live, semVars
  <2>2. SameCallers /\ ExecutingRuns' /\ PlacesOK' /\ ReleasesLongest
    BY <1>5, ClockRefines DEF ReleasesLongest
  <2> QED
    BY <1>5, <2>1, <2>2, SameElsewhere
<1>6. ASSUME NEW max \in SemMax, NEW initial \in SemInitial,
             SemCreate(max, initial), last' = None
      PROVE  /\ ExecutingRuns' /\ UnmadeEmpty' /\ PlacesOK'
             /\ Abstract!Next /\ ReleasesLongest /\ TimesKept
  <2>1. UNCHANGED <<task_list, nTasks>>
    BY <1>6 DEF SemCreate, os_on_assert, kernelVars
  <2> QED
    BY <1>6, <2>1, CreateRefines, SameListTimes
<1>7. ASSUME Main \/ os_schedule \/ \E t \in Tid : TaskStep(t),
             UNCHANGED semVars, last' = None
      PROVE  /\ ExecutingRuns' /\ UnmadeEmpty' /\ PlacesOK'
             /\ Abstract!Next /\ ReleasesLongest /\ TimesKept
  BY <1>7, ElsewhereRefines
<1>8. CASE UNCHANGED clientVars
  <2>1. /\ UNCHANGED <<task_list, nTasks, running_tid>>
        /\ UNCHANGED <<semList, nSemaphores, last>>
    BY <1>8 DEF clientVars, osVars, kernelVars, semVars
  <2>2. /\ ExecutingRuns' /\ UnmadeEmpty' /\ PlacesOK'
        /\ UNCHANGED Abstract!vars
    BY <2>1 DEF CallersInv, ExecutingRuns, UnmadeEmpty, Live, PlacesOK, Created,
       Abstract!vars, Waiters, LetThrough
  <2>3. ReleasesLongest
    BY <2>1, SameListTimes
  <2> QED
    BY <1>2, <1>8, <2>2, <2>3 DEF CallersInv
<1>9. CASE ClientsNext
  BY <1>2, <1>3, <1>4, <1>5, <1>6, <1>7, <1>9 DEF ClientsNext, CallersInv
<1> QED
  BY <1>8, <1>9

\* The invariant of the refinement holds of every behaviour.
LEMMA CallersInvariant ==
    ASSUME ROUND_ROBIN \/ 255 \notin Prio
    PROVE  ClientsSpec => []CallersInv
<1>1. ClientsInit => CallersInv
  BY CallersInitInv
<1>2. CallersInv /\ [ClientsNext]_clientVars => CallersInv'
  BY CallersStep
<1> QED
  BY <1>1, <1>2, PTL DEF ClientsSpec

\* sem_wait, sem_signal and sem_ISR_signal implement the abstract semaphores, for
\* every number of tasks and semaphores, every bound and both schedulers, unless
\* a task of fixed priority 255 waits: os_task_release_waiting_task would find
\* nobody and drop the signal.
THEOREM SemRefinement ==
    ASSUME ROUND_ROBIN \/ 255 \notin Prio
    PROVE  ClientsSpec => SemaphoreSpec
<1>1. ClientsInit => Abstract!Init
  BY CallersInitInv
<1>2. CallersInv /\ [ClientsNext]_clientVars => [Abstract!Next]_(Abstract!vars)
  BY CallersStep
<1> QED
  BY <1>1, <1>2, CallersInvariant, PTL DEF ClientsSpec, SemaphoreSpec, Abstract!Spec

\* waited is the time the control blocks count, as long as that does not wrap.
WaitedOK ==
    /\ waited \in [Tid -> 0 .. MAX_WAITED]
    /\ \A t \in Created : waited[t] = IF task_list[t].state = "WAITING_SEM"
                                      THEN task_list[t].time ELSE 0

\* task_tick counts waiting time in the tcb as the observer does, while it
\* does not wrap (os_task.c:596).
LEMMA WaitedStep ==
    ASSUME MAX_WAITED < TIME_MOD, ROUND_ROBIN \/ 255 \notin Prio,
           CallersInv, WaitedOK, [ClientsNext]_clientVars
    PROVE  WaitedOK'
<1> DEFINE waits(t) == task_list'[t].state = "WAITING_SEM"
<1>1. MAX_WAITED \in Nat /\ TIME_MOD \in Nat
  BY ClientsAssumption, TaskAssumption
<1>2. \A t \in Tid : waited[t] \in 0 .. MAX_WAITED
  BY DEF WaitedOK
<1>3. CASE TimesKept /\ Waited(0)
  <2>1. \A t \in Tid : waited'[t] = IF waits(t) THEN waited[t] ELSE 0
    BY <1>1, <1>2, <1>3 DEF Waited
  <2>2. waited' = [t \in Tid |-> IF waits(t) THEN waited[t] + 0 ELSE 0]
    BY <1>3 DEF Waited
  <2>3. \A t \in Created' : t \in Tid
    BY DEF Created
  <2>4. \A t \in Created' : waits(t) =>
          /\ t \in Created
          /\ task_list'[t].time = IF task_list[t].state = "WAITING_SEM"
                                  THEN task_list[t].time ELSE 0
    BY <1>3 DEF TimesKept
  <2> HIDE DEF waits
  <2>5. waited' \in [Tid -> 0 .. MAX_WAITED]
    BY <1>1, <1>2, <2>1, <2>2
  <2>6. \A t \in Created' : waited'[t] = IF waits(t) THEN task_list'[t].time ELSE 0
    BY <2>1, <2>3, <2>4 DEF WaitedOK
  <2> QED
    BY <2>5, <2>6 DEF WaitedOK, waits
<1>4. CASE /\ Clock
           /\ \A t \in Tid : waited[t] < MAX_WAITED
           /\ Waited(1)
  <2>1. waited' = [t \in Tid |-> IF waits(t) THEN waited[t] + 1 ELSE 0]
    BY <1>4 DEF Waited
  <2>2. \A t \in Created : waits(t) =>
          /\ task_list[t].state = "WAITING_SEM"
          /\ task_list'[t].time = (task_list[t].time + 1) % TIME_MOD
    BY <1>4, ClockRefines
  <2>3. \A t \in Created' : t \in Tid /\ t \in Created
    BY <1>4 DEF Clock, os_tick, os_sub_nTick, Tick, Created
  <2> HIDE DEF waits
  <2>4. waited' \in [Tid -> 0 .. MAX_WAITED]
    BY <1>1, <1>2, <1>4, <2>1
  <2>5. \A x \in Nat : x + 1 < TIME_MOD => (x + 1) % TIME_MOD = x + 1
    BY <1>1
  <2>6. ASSUME NEW t \in Created', waits(t)
        PROVE  waited'[t] = task_list'[t].time
    <3>1. t \in Tid /\ t \in Created
      BY <2>3, <2>6
    <3>2. waited'[t] = waited[t] + 1 /\ waited[t] < MAX_WAITED /\ waited[t] \in Nat
      BY <1>1, <1>2, <1>4, <2>1, <2>6, <3>1
    <3>3. /\ waited[t] = task_list[t].time
          /\ task_list'[t].time = (task_list[t].time + 1) % TIME_MOD
      BY <2>2, <2>6, <3>1 DEF WaitedOK
    <3>4. waited[t] + 1 < TIME_MOD
      BY <1>1, <3>2
    <3> QED
      BY <2>5, <3>2, <3>3, <3>4
  <2>7. \A t \in Created' : waited'[t] = IF waits(t) THEN task_list'[t].time ELSE 0
    BY <2>1, <2>3, <2>6
  <2> QED
    BY <2>4, <2>7 DEF WaitedOK, waits
<1>5. CASE UNCHANGED clientVars
  BY <1>5 DEF clientVars, osVars, kernelVars, WaitedOK, Created
<1> QED
  BY <1>3, <1>4, <1>5, CallersStep

\* Round robin, for every number of tasks, semaphores and clocks: a signal goes
\* to a waiter that no other has waited longer than, as long as nobody waits so
\* long that the uint32_t tcb.time wraps.
THEOREM LongestFirst ==
    ASSUME ROUND_ROBIN, MAX_WAITED < TIME_MOD
    PROVE  ClientsSpec => LongestWaiterFirst
<1> DEFINE Inv == CallersInv /\ WaitedOK
           Longest == \A t \in Created :
                         /\ task_list[t].state = "WAITING_SEM"
                         /\ task_list'[t].state = "READY"
                         => \A u \in Waiters(task_list[t].semaphore) :
                               waited[u] <= waited[t]
<1>1. ClientsInit => Inv
  <2> SUFFICES ASSUME ClientsInit PROVE Inv
    OBVIOUS
  <2>1. waited = [t \in Tid |-> 0] /\ nTasks = 0
    BY DEF ClientsInit, SemInit, os_init
  <2>2. \A t \in Tid : ~(t < 0)
    BY TidFacts
  <2>3. 0 \in 0 .. MAX_WAITED
    BY ClientsAssumption
  <2>4. WaitedOK
    BY <2>1, <2>2, <2>3 DEF WaitedOK, Created
  <2> QED
    BY <2>4, CallersInitInv
<1>2. Inv /\ [ClientsNext]_clientVars => Inv'
  BY CallersStep, WaitedStep
<1>3. Inv /\ [ClientsNext]_clientVars => [Longest]_clientVars
  <2> SUFFICES ASSUME Inv, [ClientsNext]_clientVars PROVE Longest
    OBVIOUS
  <2>1. ReleasesLongest
    BY CallersStep
  <2>2. \A t \in Created : task_list[t].state = "WAITING_SEM"
                              => waited[t] = task_list[t].time
    BY DEF WaitedOK
  <2>3. \A s, u : u \in Waiters(s) => u \in Created /\ task_list[u].state = "WAITING_SEM"
    BY DEF Waiters, SemWaiters, Created
  <2> QED
    BY <2>1, <2>2, <2>3 DEF ReleasesLongest
<1>4. Longest <=> \A t \in Created :
                     /\ task_list[t].state = "WAITING_SEM"
                     /\ task_list'[t].state = "READY"
                     => \A u \in Waiters(task_list[t].semaphore) :
                           waited[u] <= waited[t]
  OBVIOUS
<1> HIDE DEF Inv, Longest
<1>5. ClientsSpec => [][Longest]_clientVars
  BY <1>1, <1>2, <1>3, PTL DEF ClientsSpec
<1> QED
  BY <1>4, <1>5, PTL DEF LongestWaiterFirst
=============================================================================
