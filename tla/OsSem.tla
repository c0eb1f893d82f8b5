------------------------------- MODULE OsSem -------------------------------
(***************************************************************************)
(* Semaphores (os_sem.c, os_sem.h) with the kernel and the tasks.  A       *)
(* semaphore has no queue: its waiters are the tasks in WAITING_SEM whose  *)
(* tcb names it, and a signal hands its token directly to one of them.     *)
(* The macro sem_wait is written with os_task_wait_sem_set; the function   *)
(* os_task.c has under that purpose is task_wait_sem_set.                  *)
(*                                                                         *)
(* Ticks and ISR signals come between calls (Undisturbed).  Inside the     *)
(* macros they are OsSemIsr; inside os_task_suspend they are left out.     *)
(***************************************************************************)
EXTENDS OsKernel

CONSTANTS
    N_TOTAL_SEMAPHORES,  \* capacity of semList
    SemMax, SemInitial   \* arguments given to sem_counting_create

\* nSemaphores is a uint8_t: beyond 255 it would wrap (os_defines.h lets
\* N_SEMAPHORES + N_QUEUES reach 508).
ASSUME SemAssumption ==
    /\ N_TOTAL_SEMAPHORES \in 0 .. 255
    /\ SemMax \subseteq 0 .. 255
    /\ SemInitial \subseteq 0 .. 255

VARIABLES semList, nSemaphores

semVars == <<semList, nSemaphores>>
osVars  == <<kernelVars, semVars>>

Sem     == 0 .. N_TOTAL_SEMAPHORES - 1
Live    == {s \in Sem : s < nSemaphores}
Sem_t   == [maxValue : 0 .. 255, value : 0 .. 255]

SemTypeOK ==
    /\ TypeOK
    /\ semList \in [Sem -> Sem_t]
    /\ nSemaphores \in 0 .. N_TOTAL_SEMAPHORES

\* semList is static: zero until a semaphore is created in it.
os_sem_init ==
    /\ semList = [s \in Sem |-> [maxValue |-> 0, value |-> 0]]
    /\ nSemaphores = 0

SemInit == os_init /\ os_sem_init

-----------------------------------------------------------------------------
os_sem_larger_than_zero(s) == semList[s].value > 0

os_sem_decrement(s) ==
    [semList EXCEPT ![s].value = IF @ > 0 THEN @ - 1 ELSE @]

os_sem_increment(s) ==
    [semList EXCEPT ![s].value = IF @ < semList[s].maxValue THEN @ + 1 ELSE @]

Waiters(s) == SemWaiters(task_list, nTasks, s)

\* Mutant of SemCreate: room is checked with <=.
SemCreate_NoRoom(max, initial) ==
    /\ MainThread
    /\ IF nSemaphores <= N_TOTAL_SEMAPHORES
       THEN /\ semList' = [semList EXCEPT ![nSemaphores] =
                              [maxValue |-> max, value |-> initial]]
            /\ nSemaphores' = nSemaphores + 1
            /\ UNCHANGED kernelVars
       ELSE os_on_assert /\ UNCHANGED semVars

\* sem_counting_create; sem_bin_create(initial) is the case max = 1.  Neither
\* looks at running, nor whether initial <= max.
SemCreate(max, initial) ==
    /\ MainThread
    /\ IF nSemaphores < N_TOTAL_SEMAPHORES
       THEN /\ semList' = [semList EXCEPT ![nSemaphores] =
                              [maxValue |-> max, value |-> initial]]
            /\ nSemaphores' = nSemaphores + 1
            /\ UNCHANGED kernelVars
       ELSE os_on_assert /\ UNCHANGED semVars

\* OS_WAIT_SEM
sem_wait(t, s) ==
    /\ Executing(t)
    /\ s \in Live
    /\ IF os_sem_larger_than_zero(s)
       THEN semList' = os_sem_decrement(s) /\ Continue(task_list)
       ELSE /\ OS_YIELD(t, task_wait_sem_set(task_list, t, s), "WAIT_SEM")
            /\ UNCHANGED semList
    /\ UNCHANGED nSemaphores

\* Mutant of sem_signal: the token that releases a waiter is counted too.
sem_signal_Twice(t, s) ==
    /\ Executing(t)
    /\ s \in Live
    /\ semList' = os_sem_increment(s)
    /\ IF os_task_waiting_this_semaphore(task_list, nTasks, s)
       THEN OS_YIELD(t, os_task_release_waiting_task(task_list, nTasks, s),
                     "SIGNAL_SEM")
       ELSE Continue(task_list)
    /\ UNCHANGED nSemaphores

\* OS_SIGNAL_SEM: yields only after releasing.
sem_signal(t, s) ==
    /\ Executing(t)
    /\ s \in Live
    /\ IF os_task_waiting_this_semaphore(task_list, nTasks, s)
       THEN /\ OS_YIELD(t, os_task_release_waiting_task(task_list, nTasks, s),
                        "SIGNAL_SEM")
            /\ UNCHANGED semList
       ELSE semList' = os_sem_increment(s) /\ Continue(task_list)
    /\ UNCHANGED nSemaphores

\* OS_SIGNAL_SEM_NO_SCHEDULE, from an ISR or from a task that goes on.
sem_ISR_signal(s) ==
    /\ s \in Live
    /\ IF os_task_waiting_this_semaphore(task_list, nTasks, s)
       THEN /\ Continue(os_task_release_waiting_task(task_list, nTasks, s))
            /\ UNCHANGED semList
       ELSE semList' = os_sem_increment(s) /\ Continue(task_list)
    /\ UNCHANGED nSemaphores

-----------------------------------------------------------------------------
SemStep ==
    \/ \E max \in SemMax, initial \in SemInitial : SemCreate(max, initial)
    \/ \E t \in Tid, s \in Sem : sem_wait(t, s)
    \/ \E t \in Tid, s \in Sem : sem_signal(t, s)
    \/ \E s \in Sem : sem_ISR_signal(s)

SemNext == SemStep \/ (Undisturbed /\ UNCHANGED semVars)

SemSpec == SemInit /\ [][SemNext]_osVars

-----------------------------------------------------------------------------
\* No task waits at a semaphore that has a token: the check of sem_wait, the
\* hand-over of sem_signal and the reset of a suspended waiter together never
\* leave a waiter behind a positive value, where no signal would be due.
NoIdleToken == \A s \in Live : semList[s].value > 0 => Waiters(s) = {}
=============================================================================
