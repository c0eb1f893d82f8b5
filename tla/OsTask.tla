------------------------------- MODULE OsTask -------------------------------
(***************************************************************************)
(* The task component of cocoOS (os_task.c): the task control block and    *)
(* the functions that read and write task_list.  A function that only      *)
(* changes task_list is an operator from the list before the call to the   *)
(* list after it; the searches (scheduler pick, task released by a         *)
(* semaphore) are the SET of the tasks the loop can end with, which has at *)
(* most one element as long as priorities are unique.                      *)
(*                                                                         *)
(* tl is task_list, n is nTasks: entries n .. N_TASKS-1 still hold what    *)
(* os_task_init wrote.                                                     *)
(***************************************************************************)
EXTENDS Integers, FiniteSets

CONSTANTS
    N_TASKS,        \* capacity of task_list (user_os_config.h)
    ROUND_ROBIN,    \* TRUE: round robin; FALSE: fixed priorities
    N_TOTAL_EVENTS, \* N_EVENTS + N_QUEUES, the number of event ids
    TIME_MOD        \* size of the uint32_t tcb.time: 2^32 in the code

NO_TID == 255
NO_SEM == 255

\* Limits of os_defines.h, and an event wait list (one bit per event id) that
\* has a bit for every event: EVENT_QUEUE_SIZE = N \div 9 + 1 bytes.
ASSUME TaskAssumption ==
    /\ N_TASKS \in Nat /\ N_TASKS < NO_TID
    /\ ROUND_ROBIN \in BOOLEAN
    /\ N_TOTAL_EVENTS \in Nat
    /\ N_TOTAL_EVENTS <= 8 * ((N_TOTAL_EVENTS \div 9) + 1)
    /\ TIME_MOD \in Nat /\ TIME_MOD > 1

Tid     == 0 .. N_TASKS - 1
Bits    == 0 .. 8 * ((N_TOTAL_EVENTS \div 9) + 1) - 1
Time    == 0 .. TIME_MOD - 1
ClockId == 0 .. 255

\* TaskState_t without RUNNING, which no code ever assigns.
TaskState == {"SUSPENDED", "WAITING_SEM", "WAITING_TIME", "WAITING_EVENT",
              "WAITING_EVENT_TIMEOUT", "READY", "KILLED"}

TimedState == {"WAITING_TIME", "WAITING_EVENT_TIMEOUT"}

\* internal_state is the __LINE__ of the OS_YIELD the task returns to; here it
\* is the macro that yielded.  TOP is 0, NONE the 0xff of os_task_init.
YieldPoint == {"NONE", "TOP", "WAIT_TICKS", "SUSPEND_TASK", "RESUME_TASK",
               "WAIT_SEM", "SIGNAL_SEM", "WAIT_EVENT", "WAIT_MULTIPLE",
               "SIGNAL_EVENT"}

TCB == [state           : TaskState,
        savedState      : TaskState,
        internal_state  : YieldPoint,
        time            : Time,
        clockId         : ClockId,
        prio            : 0 .. 255,
        semaphore       : Nat,
        waitSingleEvent : BOOLEAN,
        eventQueue      : SUBSET Bits]

\* A created task is never saved in a state that resuming would make it stay in
\* (suspended, killed) or go back to waiting for a token in.
WellFormed(tcb) == tcb.savedState \notin {"SUSPENDED", "KILLED", "WAITING_SEM"}

InitialTCB ==
    [state |-> "SUSPENDED", savedState |-> "SUSPENDED",
     internal_state |-> "NONE", time |-> 0, clockId |-> 255, prio |-> 0,
     semaphore |-> NO_SEM, waitSingleEvent |-> FALSE, eventQueue |-> Bits]

os_task_init == [t \in Tid |-> InitialTCB]

-----------------------------------------------------------------------------
(* One control block *)

\* os_task_clear_wait_queue
Cleared(tcb) == [tcb EXCEPT !.waitSingleEvent = FALSE, !.eventQueue = {}]

\* The control block os_task_create leaves; clockId keeps its old value.
CreatedTCB(tcb, prio) ==
    Cleared([tcb EXCEPT !.prio = prio, !.state = "READY",
                        !.savedState = "READY", !.semaphore = 0,
                        !.internal_state = "TOP", !.time = 0])

\* Mutants of Suspended: one case of os_task_suspend forgotten.
Suspended_Twice(tcb) ==
    IF tcb.state = "KILLED"
    THEN tcb ELSE [tcb EXCEPT !.savedState = tcb.state, !.state = "SUSPENDED"]

Suspended_Killed(tcb) ==
    IF tcb.state = "SUSPENDED"
    THEN tcb ELSE [tcb EXCEPT !.savedState = "READY", !.state = "SUSPENDED"]

Suspended_KeepsPlace(tcb) ==
    IF tcb.state \in {"KILLED", "SUSPENDED"}
    THEN tcb ELSE [tcb EXCEPT !.savedState = "READY", !.state = "SUSPENDED"]

\* The stores of os_task_suspend after it has read state.  A waiter of a semaphore
\* is reset: it restarts from the top when resumed.
SuspendedFrom(tcb, state) ==
    CASE state = "WAITING_SEM" ->
            [tcb EXCEPT !.savedState = "READY", !.internal_state = "TOP",
                        !.state = "SUSPENDED"]
      [] state \in {"KILLED", "SUSPENDED"} -> tcb
      [] OTHER ->
            [tcb EXCEPT !.savedState = state, !.state = "SUSPENDED"]

\* os_task_suspend undisturbed.
Suspended(tcb) == SuspendedFrom(tcb, tcb.state)

\* Mutant of Resumed: the saved state is not restored.
Resumed_Ready(tcb) ==
    IF tcb.state = "SUSPENDED" THEN [tcb EXCEPT !.state = "READY"] ELSE tcb

Resumed(tcb) ==
    IF tcb.state = "SUSPENDED" THEN [tcb EXCEPT !.state = tcb.savedState]
                               ELSE tcb

WaitingTime(tcb, id, time) ==
    [tcb EXCEPT !.clockId = id, !.time = time, !.state = "WAITING_TIME"]

\* Mutant of WaitingEvent: the timeout runs on the clock of the last wait.
WaitingEvent_LastClock(tcb, event, single, timeout) ==
    LET listed == [tcb EXCEPT !.eventQueue = @ \cup {event},
                              !.waitSingleEvent = single]
    IN  IF timeout # 0
        THEN [listed EXCEPT !.time = timeout, !.state = "WAITING_EVENT_TIMEOUT"]
        ELSE [listed EXCEPT !.state = "WAITING_EVENT"]

\* A timeout always runs on the master clock.
WaitingEvent(tcb, event, single, timeout) ==
    LET listed == [tcb EXCEPT !.eventQueue = @ \cup {event},
                              !.waitSingleEvent = single]
    IN  IF timeout # 0
        THEN [WaitingTime(listed, 0, timeout)
                EXCEPT !.state = "WAITING_EVENT_TIMEOUT"]
        ELSE [listed EXCEPT !.state = "WAITING_EVENT"]

WaitingSem(tcb, sem) ==
    [tcb EXCEPT !.time = 0, !.state = "WAITING_SEM", !.semaphore = sem]

\* Mutants of Ticked: comparing time with = or < instead of <=, decrementing
\* without comparing first (the difference wraps), not looking at clockId.
Ticked_BelowZero(tcb, id, size) ==
    IF tcb.state \in TimedState /\ tcb.clockId = id
    THEN IF tcb.time = size
         THEN [tcb EXCEPT !.time = 0, !.state = "READY"]
         ELSE [tcb EXCEPT !.time = @ - size]
    ELSE tcb

Ticked_Wraps(tcb, id, size) ==
    IF tcb.state \in TimedState /\ tcb.clockId = id
    THEN IF tcb.time = size
         THEN [tcb EXCEPT !.time = 0, !.state = "READY"]
         ELSE [tcb EXCEPT !.time = (@ - size) % TIME_MOD]
    ELSE tcb

Ticked_OneLate(tcb, id, size) ==
    IF tcb.state \in TimedState /\ tcb.clockId = id
    THEN IF tcb.time < size
         THEN [tcb EXCEPT !.time = 0, !.state = "READY"]
         ELSE [tcb EXCEPT !.time = @ - size]
    ELSE tcb

Ticked_AnyClock(tcb, id, size) ==
    IF tcb.state \in TimedState
    THEN IF tcb.time <= size
         THEN [tcb EXCEPT !.time = 0, !.state = "READY"]
         ELSE [tcb EXCEPT !.time = @ - size]
    ELSE tcb

\* Mutants of Ticked: a timeout that does not clear the wait list, or leaves the
\* time it was compared with.
Ticked_KeepsList(tcb, id, size) ==
    CASE tcb.state \in TimedState /\ tcb.clockId = id ->
            IF tcb.time <= size THEN [tcb EXCEPT !.time = 0, !.state = "READY"]
                                ELSE [tcb EXCEPT !.time = @ - size]
      [] tcb.state = "WAITING_SEM" ->
            [tcb EXCEPT !.time = (@ + 1) % TIME_MOD]
      [] OTHER -> tcb

Ticked_KeepsTime(tcb, id, size) ==
    IF tcb.state \in TimedState /\ tcb.clockId = id
    THEN IF tcb.time <= size THEN [Cleared(tcb) EXCEPT !.state = "READY"]
                             ELSE [tcb EXCEPT !.time = @ - size]
    ELSE tcb

\* What task_tick does to one created task on a tick of clock id by size.  The
\* waiting time of a semaphore waiter counts the ticks of ANY clock.
Ticked(tcb, id, size) ==
    CASE tcb.state \in TimedState /\ tcb.clockId = id /\ tcb.time > size ->
            [tcb EXCEPT !.time = tcb.time - size]
      [] tcb.state = "WAITING_TIME" /\ tcb.clockId = id /\ tcb.time <= size ->
            [tcb EXCEPT !.time = 0, !.state = "READY"]
      [] /\ tcb.state = "WAITING_EVENT_TIMEOUT"
         /\ tcb.clockId = id
         /\ tcb.time <= size ->
            [Cleared(tcb) EXCEPT !.time = 0, !.state = "READY"]
      [] tcb.state = "WAITING_SEM" ->
            [tcb EXCEPT !.time = (tcb.time + 1) % TIME_MOD]
      [] OTHER -> tcb

\* Mutants of Signaled: only single events end a wait, or any event does.
Signaled_SingleOnly(tcb, event) ==
    IF /\ tcb.state \in {"WAITING_EVENT", "WAITING_EVENT_TIMEOUT"}
       /\ event \in tcb.eventQueue
    THEN IF tcb.waitSingleEvent
         THEN [Cleared(tcb) EXCEPT !.state = "READY"]
         ELSE [tcb EXCEPT !.eventQueue = @ \ {event}]
    ELSE tcb

Signaled_Any(tcb, event) ==
    IF /\ tcb.state \in {"WAITING_EVENT", "WAITING_EVENT_TIMEOUT"}
       /\ event \in tcb.eventQueue
    THEN [Cleared(tcb) EXCEPT !.state = "READY"]
    ELSE tcb

\* What os_task_signal_event does to one created task.
Signaled(tcb, event) ==
    IF /\ tcb.state \in {"WAITING_EVENT", "WAITING_EVENT_TIMEOUT"}
       /\ event \in tcb.eventQueue
    THEN IF tcb.waitSingleEvent \/ tcb.eventQueue \ {event} = {}
         THEN [Cleared(tcb) EXCEPT !.state = "READY"]
         ELSE [tcb EXCEPT !.eventQueue = @ \ {event}]
    ELSE tcb

-----------------------------------------------------------------------------
(* Functions on the task list *)

os_task_create(tl, n, prio) == [tl EXCEPT ![n] = CreatedTCB(tl[n], prio)]

os_task_kill(tl, t) == [tl EXCEPT ![t] = [tl[t] EXCEPT !.state = "KILLED"]]

os_task_suspend(tl, t) == [tl EXCEPT ![t] = Suspended(tl[t])]

os_task_resume(tl, t) == [tl EXCEPT ![t] = Resumed(tl[t])]

\* The os_assert(time > 0) is in the callers' guards.
os_task_wait_time_set(tl, t, id, time) ==
    [tl EXCEPT ![t] = WaitingTime(tl[t], id, time)]

os_task_wait_event(tl, t, event, single, timeout) ==
    [tl EXCEPT ![t] = WaitingEvent(tl[t], event, single, timeout)]

task_wait_sem_set(tl, t, sem) == [tl EXCEPT ![t] = WaitingSem(tl[t], sem)]

os_task_internal_state_set(tl, t, point) ==
    [tl EXCEPT ![t] = [tl[t] EXCEPT !.internal_state = point]]

task_tick(tl, n, id, size) ==
    [t \in Tid |-> IF t < n THEN Ticked(tl[t], id, size) ELSE tl[t]]

\* os_task_suspend with a tick between its read of state and its stores.  One tick
\* is enough: an earlier one that does not end the wait of t might as well come
\* before the read, and one after its end does not touch t.
os_task_suspend_ticked(tl, n, t, id, size) ==
    [task_tick(tl, n, id, size) EXCEPT ![t] = SuspendedFrom(@, tl[t].state)]

os_task_signal_event(tl, n, event) ==
    [t \in Tid |-> IF t < n THEN Signaled(tl[t], event) ELSE tl[t]]

-----------------------------------------------------------------------------
(* Searches *)

ReadyTasks(tl, n) == {t \in Tid : t < n /\ tl[t].state = "READY"}

\* Mutant of highest_prio_ready_task: the search starts from the priority of
\* the first task.
highest_prio_ready_task_FromFirst(tl, n) ==
    {t \in ReadyTasks(tl, n) :
        /\ tl[t].prio < tl[0].prio
        /\ \A u \in ReadyTasks(tl, n) : tl[t].prio <= tl[u].prio}

\* The loop starts from highest_prio = 255 and asks for a strictly smaller
\* prio, so a task of prio 255 is never found.
highest_prio_ready_task(tl, n) ==
    {t \in ReadyTasks(tl, n) :
        /\ tl[t].prio < 255
        /\ \A u \in ReadyTasks(tl, n) : tl[t].prio <= tl[u].prio}

\* Mutants of ScanStart: always from the first task, or from the last one run.
ScanStart_First(n, last) == 0

ScanStart_Last(n, last) == IF last = NO_TID \/ last >= n THEN 0 ELSE last

\* Where the round robin scan starts, and how many steps it takes to reach t.
ScanStart(n, last) == IF last = NO_TID \/ last + 1 >= n THEN 0 ELSE last + 1

ScanSteps(n, start, t) == IF t >= start THEN t - start ELSE t - start + n

\* Mutant of next_ready_task: the scan does not wrap around.
next_ready_task_NoWrap(tl, n, last) ==
    {t \in ReadyTasks(tl, n) :
        /\ t >= ScanStart(n, last)
        /\ \A u \in ReadyTasks(tl, n) : u < t => u < ScanStart(n, last)}

next_ready_task(tl, n, last) ==
    {t \in ReadyTasks(tl, n) :
        \A u \in ReadyTasks(tl, n) :
            ScanSteps(n, ScanStart(n, last), t)
                <= ScanSteps(n, ScanStart(n, last), u)}

SemWaiters(tl, n, sem) ==
    {t \in Tid : t < n /\ tl[t].state = "WAITING_SEM" /\ tl[t].semaphore = sem}

os_task_waiting_this_semaphore(tl, n, sem) == SemWaiters(tl, n, sem) # {}

\* Mutants of FoundTask: a waiter of any semaphore, the shortest time.
FoundTask_AnySem(tl, n, sem) ==
    LET W == {t \in Tid : t < n /\ tl[t].state = "WAITING_SEM"}
    IN  {t \in W : \A u \in W : tl[t].prio <= tl[u].prio}

FoundTask_Shortest(tl, n, sem) ==
    LET W == SemWaiters(tl, n, sem)
    IN  {t \in W : \A u \in W : \/ tl[t].time < tl[u].time
                                \/ tl[t].time = tl[u].time /\ t <= u}

\* foundTask of os_task_release_waiting_task.  Priorities: smallest prio, below
\* 255.  Round robin: longest time, the first of equals; when every waiter's
\* time is 0, the last waiter.
FoundTask(tl, n, sem) ==
    LET W == SemWaiters(tl, n, sem)
    IN  IF ~ROUND_ROBIN
        THEN {t \in W : /\ tl[t].prio < 255
                        /\ \A u \in W : tl[t].prio <= tl[u].prio}
        ELSE IF \A t \in W : tl[t].time = 0
        THEN {t \in W : \A u \in W : u <= t}
        ELSE {t \in W : \A u \in W : \/ tl[u].time < tl[t].time
                                     \/ tl[u].time = tl[t].time /\ t <= u}

\* Mutant of os_task_release_waiting_task: every waiter is released.
os_task_release_waiting_task_All(tl, n, sem) ==
    [t \in Tid |-> IF t \in SemWaiters(tl, n, sem)
                   THEN [tl[t] EXCEPT !.state = "READY"] ELSE tl[t]]

os_task_release_waiting_task(tl, n, sem) ==
    [t \in Tid |-> IF t \in FoundTask(tl, n, sem)
                   THEN [tl[t] EXCEPT !.state = "READY"] ELSE tl[t]]
=============================================================================
