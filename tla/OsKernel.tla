------------------------------ MODULE OsKernel ------------------------------
(***************************************************************************)
(* The kernel (os_kernel.c) with the task component: creating and starting,*)
(* the scheduling loop, the clock ticks, and the task macros that need     *)
(* neither a semaphore nor an event (task_wait, task_wait_id, task_suspend,*)
(* task_resume, os_task_kill, task_close).                                 *)
(*                                                                         *)
(* Three parties take steps: main() before os_start, the scheduling loop   *)
(* and the task it runs (one thread, tasks are coroutines that return at   *)
(* OS_YIELD), and the clock, an ISR or a thread, which may tick between    *)
(* any two kernel calls.  A kernel call is one step; the tick that comes   *)
(* inside one matters to os_task_suspend, which stores what it has read    *)
(* before (INTERRUPTS).  What a task does between calls is any sequence of *)
(* calls: the tasks are the environment.                                   *)
(***************************************************************************)
EXTENDS OsTask

CONSTANTS
    Prio,        \* priorities main() gives to its tasks
    WaitTicks,   \* ticks a task asks task_wait for
    Clocks,      \* clock ids in use; 0 is the master clock
    NTicks,      \* step sizes of os_sub_nTick
    Managed,     \* tasks that tasks suspend, resume and kill
    SELF_KILL,   \* may a task call os_task_kill on itself and go on?
    TICK_LIMIT,  \* argument of os_start; 0 runs forever
    INTERRUPTS   \* TRUE: os_start, a tick may come inside os_task_suspend;
                 \* FALSE: os_start_locking, or the interrupt is masked there

ASSUME KernelAssumption ==
    /\ Prio \subseteq 0 .. 255
    /\ WaitTicks \subseteq Time
    /\ Clocks \subseteq ClockId
    /\ NTicks \subseteq Nat
    /\ Managed \subseteq Tid
    /\ SELF_KILL \in BOOLEAN
    /\ TICK_LIMIT \in Nat
    /\ INTERRUPTS \in BOOLEAN

VARIABLES
    task_list, nTasks, last_running_task,  \* os_task.c
    running, running_tid,                  \* os_kernel.c
    loops,    \* i of the os_start loop, used when TICK_LIMIT # 0
    halted    \* main thread caught in the while(1) of os_on_assert

kernelVars == <<task_list, nTasks, last_running_task, running, running_tid,
                loops, halted>>

Created == {t \in Tid : t < nTasks}

TypeOK ==
    /\ task_list \in [Tid -> TCB]
    /\ nTasks \in 0 .. N_TASKS
    /\ last_running_task \in Tid \cup {0, NO_TID}
    /\ running \in {0, 1}
    /\ running_tid \in Created \cup {NO_TID}
    /\ loops \in 0 .. TICK_LIMIT + 1
    /\ halted \in BOOLEAN

os_init ==
    /\ task_list = os_task_init
    /\ nTasks = 0
    /\ last_running_task = 0
    /\ running = 0
    /\ running_tid = NO_TID
    /\ loops = 0
    /\ halted = FALSE

-----------------------------------------------------------------------------
(* main() *)

os_on_assert ==
    /\ halted' = TRUE
    /\ UNCHANGED <<task_list, nTasks, last_running_task, running, running_tid,
                   loops>>

\* main() before os_start, or the task that runs: who can call a function that
\* is not a task macro.
MainThread == ~halted /\ (running = 0 \/ running_tid # NO_TID)

\* Mutant of MayCreate: the loop over the tasks stops before task 0.
MayCreate_NotFirst(prio) ==
    /\ running = 0
    /\ nTasks < N_TASKS
    /\ \A t \in Created \ {0} : task_list[t].prio # prio

\* The three asserts: not running, room in task_list, no task of this prio.
MayCreate(prio) ==
    /\ running = 0
    /\ nTasks < N_TASKS
    /\ \A t \in Created : task_list[t].prio # prio

TaskCreate(prio) ==
    /\ MainThread
    /\ IF MayCreate(prio)
       THEN /\ task_list' = os_task_create(task_list, nTasks, prio)
            /\ nTasks' = nTasks + 1
            /\ UNCHANGED <<last_running_task, running, running_tid, loops,
                           halted>>
       ELSE os_on_assert

os_start ==
    /\ ~halted
    /\ running = 0
    /\ running' = 1
    /\ UNCHANGED <<task_list, nTasks, last_running_task, running_tid, loops,
                   halted>>

-----------------------------------------------------------------------------
(* The scheduling loop *)

\* The loop of os_start is about to call os_schedule.
Scheduling ==
    /\ ~halted
    /\ running = 1
    /\ running_tid = NO_TID
    /\ loops <= TICK_LIMIT

CountLoop == loops' = IF TICK_LIMIT # 0 THEN loops + 1 ELSE loops

\* The tasks os_schedule may pick.
Picked == IF ROUND_ROBIN
          THEN next_ready_task(task_list, nTasks, last_running_task)
          ELSE highest_prio_ready_task(task_list, nTasks)

\* os_schedule finds t and task_run calls its procedure.
Dispatch(t) ==
    /\ Scheduling
    /\ t \in Picked
    /\ running_tid' = t
    /\ last_running_task' = IF ROUND_ROBIN THEN t ELSE last_running_task
    /\ CountLoop
    /\ UNCHANGED <<task_list, nTasks, running, halted>>

\* os_cbkSleep is called.
Sleep ==
    /\ last_running_task' = IF ROUND_ROBIN THEN NO_TID ELSE last_running_task
    /\ CountLoop
    /\ UNCHANGED <<task_list, nTasks, running, running_tid, halted>>

\* Round robin without a task: next_ready_task reads past task_list until its
\* uint8_t count wraps.  It finds nothing (Sleep) or takes garbage for a READY
\* task, and task_run asserts tid < nTasks.
SchedulePastTaskList == ROUND_ROBIN /\ nTasks = 0 /\ os_on_assert

\* os_schedule finds no task.
NothingFound ==
    /\ Scheduling
    /\ Picked = {}
    /\ Sleep \/ SchedulePastTaskList

os_schedule == (\E t \in Tid : Dispatch(t)) \/ NothingFound

-----------------------------------------------------------------------------
(* The clocks *)

Tick(id, size) ==
    /\ task_list' = task_tick(task_list, nTasks, id, size)
    /\ UNCHANGED <<nTasks, last_running_task, running, running_tid, loops,
                   halted>>

os_tick == Tick(0, 1)

\* os_sub_tick(id) is os_sub_nTick(id, 1).
os_sub_nTick(id, size) == id # 0 /\ Tick(id, size)

-----------------------------------------------------------------------------
(* Calls of the task that runs *)

Executing(t) == ~halted /\ running_tid = t /\ t # NO_TID

\* A call that changes task_list to tl and lets the task go on.
Continue(tl) ==
    /\ task_list' = tl
    /\ UNCHANGED <<nTasks, last_running_task, running, running_tid, loops,
                   halted>>

\* Mutant of OS_YIELD: os_free_tid is not called.
OS_YIELD_KeepsTid(t, tl, point) ==
    /\ task_list' = os_task_internal_state_set(tl, t, point)
    /\ UNCHANGED <<nTasks, last_running_task, running, running_tid, loops,
                   halted>>

\* OS_YIELD: remember where, free the tid, return to the loop.
OS_YIELD(t, tl, point) ==
    /\ task_list' = os_task_internal_state_set(tl, t, point)
    /\ running_tid' = NO_TID
    /\ UNCHANGED <<nTasks, last_running_task, running, loops, halted>>

\* OS_WAIT_TICKS: task_wait(ticks) is the case id = 0.
task_wait_id(t, id, ticks) ==
    /\ Executing(t)
    /\ IF ticks = 0
       THEN os_on_assert
       ELSE OS_YIELD(t, os_task_wait_time_set(task_list, t, id, ticks),
                     "WAIT_TICKS")

\* OS_SUSPEND_TASK
task_suspend(t, u) ==
    /\ Executing(t)
    /\ u \in Created \cap Managed
    /\ IF u = t
       THEN OS_YIELD(t, os_task_suspend(task_list, u), "SUSPEND_TASK")
       ELSE Continue(os_task_suspend(task_list, u))

\* OS_SUSPEND_TASK of another task, interrupted by a tick.  The state of the task
\* that calls it is READY, which a tick does not touch: no case of its own.
task_suspend_ticked(t, u, id, size) ==
    /\ INTERRUPTS
    /\ Executing(t)
    /\ u \in (Created \cap Managed) \ {t}
    /\ Continue(os_task_suspend_ticked(task_list, nTasks, u, id, size))

\* OS_RESUME_TASK: resuming oneself only yields.
task_resume(t, u) ==
    /\ Executing(t)
    /\ u \in Created \cap Managed
    /\ IF u = t
       THEN OS_YIELD(t, os_task_resume(task_list, u), "RESUME_TASK")
       ELSE Continue(os_task_resume(task_list, u))

\* os_task_kill is a plain function: a task that kills itself goes on until it
\* yields.
TaskKill(t, u) ==
    /\ Executing(t)
    /\ u \in Created \cap Managed
    /\ u = t => SELF_KILL
    /\ Continue(os_task_kill(task_list, u))

\* OS_END (task_close): the procedure is done, internal_state is not written.
task_close(t) ==
    /\ Executing(t)
    /\ task_list' = os_task_kill(task_list, t)
    /\ running_tid' = NO_TID
    /\ UNCHANGED <<nTasks, last_running_task, running, loops, halted>>

-----------------------------------------------------------------------------
Main == os_start \/ \E prio \in Prio : TaskCreate(prio)

Clock == \/ os_tick
         \/ \E id \in Clocks, size \in NTicks : os_sub_nTick(id, size)

\* Calls that give the processor back.
TaskYield(t) ==
    \/ \E id \in Clocks, ticks \in WaitTicks : task_wait_id(t, id, ticks)
    \/ task_suspend(t, t)
    \/ task_resume(t, t)
    \/ task_close(t)

\* Calls after which the task goes on.
TaskCall(t) ==
    \/ \E u \in Tid \ {t} : task_suspend(t, u)
    \/ \E u \in Tid \ {t} : task_resume(t, u)
    \/ \E u \in Tid : TaskKill(t, u)

TaskStep(t) == TaskYield(t) \/ TaskCall(t)

\* What a tick can be: of the master clock, or of a sub clock by some step.
TickKinds == {<<0, 1>>} \cup ((Clocks \ {0}) \X NTicks)

Interrupted ==
    \E t, u \in Tid, k \in TickKinds : task_suspend_ticked(t, u, k[1], k[2])

\* Ticks only between calls.
Undisturbed ==
    \/ Main
    \/ os_schedule
    \/ Clock
    \/ \E t \in Tid : TaskStep(t)

KernelNext == Undisturbed \/ Interrupted

KernelSpec == os_init /\ [][KernelNext]_kernelVars

\* main() gets to os_start, os_start loops forever, every task sooner or later
\* makes a blocking call (README "All tasks have to make at least one blocking
\* call"), and every clock keeps ticking.
Fairness ==
    /\ WF_kernelVars(os_start)
    /\ WF_kernelVars(os_schedule)
    /\ WF_kernelVars(\E t \in Tid : TaskYield(t))
    /\ WF_kernelVars(os_tick)
    /\ \A id \in Clocks : WF_kernelVars(\E size \in NTicks : os_sub_nTick(id, size))

-----------------------------------------------------------------------------
(* Properties *)

\* The assert loop of os_task_create keeps priorities distinct, which both
\* searches by priority rely on to end with one task.
UniquePrio ==
    \A t, u \in Created : t # u => task_list[t].prio # task_list[u].prio

\* While any task is READY the scheduling loop does not put the processor to
\* sleep (os_schedule; README "the highest priority task among all execution
\* ready tasks").  A priority of 255 breaks it.
ReadyIsDispatchable == ReadyTasks(task_list, nTasks) # {} => Picked # {}

\* The task that executes is READY for as long as it keeps the processor: no
\* tick, suspension or kill by anybody takes the state away under it, so the
\* next call that writes state overwrites nothing but READY.
ExecutingIsReady ==
    running_tid # NO_TID => task_list[running_tid].state = "READY"

\* Suspending and resuming in any order, with ticks between the calls and inside
\* os_task_suspend, leaves no task stuck: none is saved as suspended, killed or
\* waiting for a token.
TasksWellFormed == \A t \in Created : WellFormed(task_list[t])

\* "A killed task, cannot be resumed" (os_task.c): no step of anybody, whatever
\* is pending for the task, brings it back.
KilledIsFinal ==
    [][\A t \in Created :
        task_list[t].state = "KILLED" => task_list'[t].state = "KILLED"]_kernelVars

\* Suspension freezes a task (os_task_suspend, os_task_resume): ticks and the
\* calls of others change nothing its resumption depends on, and it leaves
\* SUSPENDED only to the state it was suspended in, or killed.
SuspendedIsFrozen ==
    [][\A t \in Created : task_list[t].state = "SUSPENDED" =>
        /\ [task_list'[t] EXCEPT !.state = "SUSPENDED"] = task_list[t]
        /\ task_list'[t].state
             \in {"SUSPENDED", "KILLED", task_list[t].savedState}]_kernelVars

\* A task that waits for time does not wait forever: the ticks of its clock end
\* the wait, or another task suspends or kills it first.
WaitEnds ==
    \A t \in Tid : (task_list[t].state = "WAITING_TIME")
                     ~> (task_list[t].state # "WAITING_TIME")

\* Round robin starves nobody: a task that is READY and stays READY gets the
\* processor, whatever the priorities (README "ROUND_ROBIN").
ReadyRuns ==
    \A t \in Tid : (running = 1 /\ task_list[t].state = "READY")
                     ~> \/ running_tid = t
                        \/ task_list[t].state # "READY"
                        \/ halted
=============================================================================
