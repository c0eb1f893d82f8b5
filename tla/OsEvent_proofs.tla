--------------------------- MODULE OsEvent_proofs ---------------------------
(***************************************************************************)
(* Theorems about the events, for every number of tasks, events and        *)
(* timeouts: types, and that a task has events in its list exactly while   *)
(* it waits for some.                                                      *)
(***************************************************************************)
EXTENDS OsEvent, OsKernel_proofs

\* ListIsWait of one control block.
Waits(tcb) ==
    (IF tcb.state = "SUSPENDED" THEN tcb.savedState ELSE tcb.state)
        \in {"WAITING_EVENT", "WAITING_EVENT_TIMEOUT"}

Listed(tcb) == tcb.state # "KILLED" => (Waits(tcb) <=> tcb.eventQueue # {})

\* The inductive invariant.  The task that executes has an empty list even if
\* it has killed itself: whatever it waits for next starts from there.
EventVarsOK ==
    /\ signaledByTid \in [Event -> Tid \cup {0, NO_TID, ISR_TID}]
    /\ nEvents \in 0 .. N_TOTAL_EVENTS
    /\ lastSignaledEvent \in Event \cup {NO_EVENT}

AllListed == \A t \in Tid : t < nTasks => Listed(task_list[t])

ExecutingHearsNothing ==
    running_tid # NO_TID => task_list[running_tid].eventQueue = {}

EventInv ==
    /\ KernelInv
    /\ EventVarsOK
    /\ AllListed
    /\ ExecutingHearsNothing

\* The ids event_create gives are among those a list has bits for.
LEMMA EventFacts ==
    /\ N_TOTAL_EVENTS \in Nat
    /\ \A e \in Nat : e < N_TOTAL_EVENTS => e \in Event
    /\ LiveEv \subseteq Event
    /\ Event \subseteq Bits
<1>1. N_TOTAL_EVENTS \in Nat /\ N_TOTAL_EVENTS \div 9 \in Nat
  BY TaskAssumption
<1>2. N_TOTAL_EVENTS <= 8 * ((N_TOTAL_EVENTS \div 9) + 1)
  BY TaskAssumption
<1> QED
  BY <1>1, <1>2 DEF Event, LiveEv, Bits

-----------------------------------------------------------------------------
(* One control block *)

\* os_task_wait_event
LEMMA WaitingEventFacts ==
    ASSUME NEW tcb \in TCB, NEW e \in Bits, NEW single \in BOOLEAN,
           NEW timeout \in Time
    PROVE  /\ WaitingEvent(tcb, e, single, timeout) \in TCB
           /\ WaitingEvent(tcb, e, single, timeout).prio = tcb.prio
           /\ Sound(tcb)
                => Sound(WaitingEvent(tcb, e, single, timeout))
           /\ Listed(WaitingEvent(tcb, e, single, timeout))
<1> DEFINE q == [tcb EXCEPT !.eventQueue = tcb.eventQueue \cup {e},
                            !.waitSingleEvent = single]
<1>1. /\ q \in TCB /\ q.prio = tcb.prio /\ q.savedState = tcb.savedState
      /\ q.eventQueue # {}
  BY DEF TCB
<1>2. /\ timeout \in Int /\ (timeout # 0 => timeout > 0)
      /\ 0 \in ClockId
  BY TaskAssumption DEF Time, ClockId
<1>3. WaitingEvent(tcb, e, single, timeout) =
        IF timeout # 0
        THEN [q EXCEPT !.clockId = 0, !.time = timeout,
                       !.state = "WAITING_EVENT_TIMEOUT"]
        ELSE [q EXCEPT !.state = "WAITING_EVENT"]
  BY <1>1 DEF WaitingEvent, WaitingTime, TCB
<1> HIDE DEF q
<1>4. CASE timeout # 0
  <2> DEFINE r == [q EXCEPT !.clockId = 0, !.time = timeout,
                            !.state = "WAITING_EVENT_TIMEOUT"]
  <2>1. /\ r \in TCB /\ r.prio = q.prio /\ r.savedState = q.savedState
        /\ r.eventQueue = q.eventQueue /\ r.time = timeout
        /\ r.state = "WAITING_EVENT_TIMEOUT"
    BY <1>1, <1>2 DEF TCB, TaskState
  <2> HIDE DEF r
  <2>2. WaitingEvent(tcb, e, single, timeout) = r
    BY <1>3, <1>4 DEF r
  <2> QED
    BY <1>1, <1>2, <1>4, <2>1, <2>2 DEF Sound, WellFormed, HasTimeLeft, Listed, Waits
<1>5. CASE timeout = 0
  BY <1>1, <1>2, <1>3, <1>5
  DEF TCB, TaskState, Sound, WellFormed, HasTimeLeft, TimedState, Listed, Waits
<1> QED
  BY <1>4, <1>5

\* os_wait_multiple
LEMMA WaitingMultipleFacts ==
    ASSUME NEW tcb \in TCB, NEW all \in BOOLEAN, NEW E \in SUBSET Bits, E # {}
    PROVE  /\ WaitingMultiple(tcb, all, E) \in TCB
           /\ WaitingMultiple(tcb, all, E).prio = tcb.prio
           /\ Sound(tcb) => Sound(WaitingMultiple(tcb, all, E))
           /\ Listed(WaitingMultiple(tcb, all, E))
BY DEF WaitingMultiple, TCB, TaskState, Sound, WellFormed, HasTimeLeft, TimedState, Listed, Waits

\* os_task_signal_event: the only change of state is from waiting to READY, and
\* with it goes the list.
LEMMA SignaledFacts ==
    ASSUME NEW tcb \in TCB, NEW e
    PROVE  /\ Signaled(tcb, e) \in TCB
           /\ Signaled(tcb, e).prio = tcb.prio
           /\ \/ Signaled(tcb, e).state = tcb.state
              \/ tcb.state \in {"WAITING_EVENT", "WAITING_EVENT_TIMEOUT"}
           /\ Signaled(tcb, e).eventQueue \subseteq tcb.eventQueue
           /\ Sound(tcb) => Sound(Signaled(tcb, e))
           /\ Listed(tcb) => Listed(Signaled(tcb, e))
<1> DEFINE c == Cleared(tcb)
           woken == [c EXCEPT !.state = "READY"]
           less == [tcb EXCEPT !.eventQueue = tcb.eventQueue \ {e}]
<1>1. /\ c \in TCB /\ c.prio = tcb.prio /\ c.savedState = tcb.savedState
      /\ c.eventQueue = {}
  BY DEF Cleared, TCB
<1>2. /\ woken \in TCB /\ woken.prio = tcb.prio /\ woken.state = "READY"
      /\ woken.eventQueue = {} /\ woken.savedState = tcb.savedState
  <2> HIDE DEF c
  <2> QED BY <1>1 DEF TCB, TaskState
<1>3. /\ less \in TCB /\ less.prio = tcb.prio /\ less.state = tcb.state
      /\ less.eventQueue = tcb.eventQueue \ {e}
      /\ less.savedState = tcb.savedState /\ less.time = tcb.time
  BY DEF TCB
<1>4. \/ Signaled(tcb, e) = tcb
      \/ /\ tcb.state \in {"WAITING_EVENT", "WAITING_EVENT_TIMEOUT"}
         /\ \/ Signaled(tcb, e) = woken
            \/ Signaled(tcb, e) = less /\ tcb.eventQueue \ {e} # {}
  BY <1>3 DEF Signaled, TCB
<1> HIDE DEF woken, less
<1>5. CASE Signaled(tcb, e) = tcb
  BY <1>5
<1>6. CASE /\ tcb.state \in {"WAITING_EVENT", "WAITING_EVENT_TIMEOUT"}
           /\ Signaled(tcb, e) = woken
  BY <1>2, <1>6 DEF Sound, WellFormed, HasTimeLeft, TimedState, Listed, Waits
<1>7. CASE /\ tcb.state \in {"WAITING_EVENT", "WAITING_EVENT_TIMEOUT"}
           /\ Signaled(tcb, e) = less /\ tcb.eventQueue \ {e} # {}
  BY <1>3, <1>7 DEF Sound, WellFormed, HasTimeLeft, TimedState, Listed, Waits
<1> QED
  BY <1>4, <1>5, <1>6, <1>7

\* task_tick: a timeout takes the list with it.
LEMMA TickedListed ==
    ASSUME NEW tcb \in TCB, NEW id, NEW size \in Nat, Listed(tcb)
    PROVE  /\ Listed(Ticked(tcb, id, size))
           /\ Ticked(tcb, id, size).eventQueue \subseteq tcb.eventQueue
<1> DEFINE c == Cleared(tcb)
           r == Ticked(tcb, id, size)
<1>1. c \in TCB /\ c.eventQueue = {}
  BY DEF Cleared, TCB
<1>2. tcb.time \in Int
  BY TaskAssumption DEF TCB, Time
<1>3. \/ r = tcb
      \/ tcb.state \in TimedState /\ r = [tcb EXCEPT !.time = tcb.time - size]
      \/ tcb.state = "WAITING_TIME" /\ r = [tcb EXCEPT !.time = 0, !.state = "READY"]
      \/ r = [c EXCEPT !.time = 0, !.state = "READY"]
      \/ /\ tcb.state = "WAITING_SEM"
         /\ r = [tcb EXCEPT !.time = (tcb.time + 1) % TIME_MOD]
  BY <1>2 DEF Ticked, TimedState
<1> HIDE DEF c, r
<1>4. \/ r = tcb
      \/ /\ r.state = tcb.state /\ r.eventQueue = tcb.eventQueue
         /\ r.savedState = tcb.savedState
      \/ /\ tcb.state = "WAITING_TIME" /\ r.state = "READY"
         /\ r.eventQueue = tcb.eventQueue
      \/ r.state = "READY" /\ r.eventQueue = {}
  BY <1>1, <1>3 DEF TCB
<1> QED
  BY <1>4 DEF r, Listed, Waits

\* The macros of the kernel.
LEMMA KernelCallsListed ==
    ASSUME NEW tcb \in TCB
    PROVE  /\ Listed(tcb) => Listed(Suspended(tcb))
           /\ Listed(tcb) /\ Sound(tcb) => Listed(Resumed(tcb))
           /\ Listed([tcb EXCEPT !.state = "KILLED"])
           /\ \A id, time : tcb.eventQueue = {} => Listed(WaitingTime(tcb, id, time))
           /\ \A prio : Listed(CreatedTCB(tcb, prio))
           /\ \A p : Listed(tcb) => Listed([tcb EXCEPT !.internal_state = p])
<1>1. Listed(tcb) => Listed(Suspended(tcb))
  <2>1. CASE tcb.state = "WAITING_SEM"
    BY <2>1 DEF Suspended, SuspendedFrom, TCB, Listed, Waits
  <2>2. CASE tcb.state \in {"KILLED", "SUSPENDED"}
    BY <2>2 DEF Suspended, SuspendedFrom
  <2>3. CASE tcb.state \notin {"KILLED", "SUSPENDED", "WAITING_SEM"}
    BY <2>3 DEF Suspended, SuspendedFrom, TCB, Listed, Waits
  <2> QED
    BY <2>1, <2>2, <2>3
<1>2. Listed(tcb) /\ Sound(tcb) => Listed(Resumed(tcb))
  BY DEF Resumed, TCB, Sound, WellFormed, HasTimeLeft, Listed, Waits
<1>3. Listed([tcb EXCEPT !.state = "KILLED"])
  BY DEF TCB, Listed
<1>4. \A id, time : tcb.eventQueue = {} => Listed(WaitingTime(tcb, id, time))
  BY DEF WaitingTime, TCB, Listed, Waits
<1>5. \A prio : Listed(CreatedTCB(tcb, prio))
  BY DEF CreatedTCB, Cleared, TCB, Listed, Waits
<1>6. \A p : Listed(tcb) => Listed([tcb EXCEPT !.internal_state = p])
  BY DEF TCB, Listed, Waits
<1> QED
  BY <1>1, <1>2, <1>3, <1>4, <1>5, <1>6

-----------------------------------------------------------------------------
(* Lists of tasks *)

\* OS_YIELD after writing block r of t.
LEMMA YieldListed ==
    ASSUME EventInv, NEW t \in Tid, NEW r \in TCB, Listed(r),
           NEW point, OS_YIELD(t, [task_list EXCEPT ![t] = r], point)
    PROVE  AllListed' /\ ExecutingHearsNothing'
<1> DEFINE q == [r EXCEPT !.internal_state = point]
<1>1. Listed(q)
  BY KernelCallsListed
<1>2. /\ task_list' = [task_list EXCEPT ![t] = q]
      /\ nTasks' = nTasks /\ running_tid' = NO_TID
  BY DEF OS_YIELD, os_task_internal_state_set, EventInv, KernelInv, TypeOK
<1> HIDE DEF q
<1> QED
  BY <1>1, <1>2 DEF EventInv, KernelInv, TypeOK, AllListed, ExecutingHearsNothing

\* A call that leaves block r of u, another task or with an empty list.
LEMMA ContinueListed ==
    ASSUME EventInv, NEW u \in Tid, NEW r \in TCB, u < nTasks => Listed(r),
           r.eventQueue \subseteq task_list[u].eventQueue,
           Continue([task_list EXCEPT ![u] = r])
    PROVE  AllListed' /\ ExecutingHearsNothing'
BY DEF EventInv, KernelInv, TypeOK, AllListed, ExecutingHearsNothing, Continue

\* os_task_signal_event on the list.
LEMMA SignalOK ==
    ASSUME EventInv, NEW e
    PROVE  LET tl == os_task_signal_event(task_list, nTasks, e) IN
           /\ ListOK(tl, nTasks)
           /\ \A t \in Tid :
                 /\ t < nTasks => Listed(tl[t])
                 /\ tl[t].eventQueue \subseteq task_list[t].eventQueue
                 /\ task_list[t].state \in {"READY", "KILLED"}
                      => tl[t].state = task_list[t].state
<1> DEFINE tl == os_task_signal_event(task_list, nTasks, e)
<1>1. ListOK(task_list, nTasks)
  BY InvParts DEF EventInv
<1>2. task_list \in [Tid -> TCB]
  BY <1>1 DEF ListOK
<1>3. \A t \in Tid :
        tl[t] = IF t < nTasks THEN Signaled(task_list[t], e) ELSE task_list[t]
  BY DEF os_task_signal_event
<1>4. \A t \in Tid :
        /\ Signaled(task_list[t], e) \in TCB
        /\ Signaled(task_list[t], e).prio = task_list[t].prio
        /\ \/ Signaled(task_list[t], e).state = task_list[t].state
           \/ task_list[t].state \in {"WAITING_EVENT", "WAITING_EVENT_TIMEOUT"}
        /\ Signaled(task_list[t], e).eventQueue \subseteq task_list[t].eventQueue
        /\ Sound(task_list[t]) => Sound(Signaled(task_list[t], e))
        /\ Listed(task_list[t]) => Listed(Signaled(task_list[t], e))
  BY <1>2, SignaledFacts
<1>5. tl \in [Tid -> TCB]
  BY <1>2, <1>4 DEF os_task_signal_event
<1> HIDE DEF tl
<1>6. ListOK(tl, nTasks)
  BY <1>1, <1>3, <1>4, <1>5 DEF ListOK
<1> QED
  BY <1>3, <1>4, <1>6 DEF tl, EventInv, AllListed

-----------------------------------------------------------------------------
\* os_init, without tasks and events.
LEMMA EventInitInv == EventInit => EventInv
<1> SUFFICES ASSUME EventInit PROVE EventInv
  OBVIOUS
<1>1. KernelInv
  BY InitInv DEF EventInit
<1>2. EventVarsOK
  BY EventFacts DEF EventInit, os_event_init, EventVarsOK
<1>3. \A t \in Tid : ~(t < 0)
  BY TidFacts
<1> QED
  BY <1>1, <1>2, <1>3
  DEF EventInit, os_init, EventInv, AllListed, ExecutingHearsNothing

-----------------------------------------------------------------------------
(* Steps of the kernel *)

KernelGoal == AllListed' /\ ExecutingHearsNothing'

\* The macros of the kernel: none of them starts a wait for events, and a
\* task that is suspended, resumed or killed keeps the list its state asks for.
LEMMA TaskStepListed ==
    ASSUME EventInv, NEW t \in Tid, TaskStep(t)
    PROVE  KernelGoal
<1>1. ListOK(task_list, nTasks) /\ ControlOK
  BY InvParts DEF EventInv
<1>2. \A u \in Tid : task_list[u] \in TCB
  BY <1>1 DEF ListOK
<1>3. \A u \in Tid : u < nTasks => Listed(task_list[u]) /\ Sound(task_list[u])
  BY <1>1 DEF ListOK, EventInv, AllListed
<1>4. Executing(t) /\ t < nTasks /\ task_list[t].eventQueue = {}
  <2>1. Executing(t)
    BY DEF TaskStep, TaskYield, TaskCall, task_wait_id, task_suspend,
       task_resume, TaskKill, task_close, Executing
  <2> QED
    BY <1>1, <2>1 DEF Executing, ControlOK, Created, EventInv,
       ExecutingHearsNothing
<1>5. ASSUME NEW id \in Clocks, NEW ticks \in WaitTicks,
             task_wait_id(t, id, ticks)
      PROVE  KernelGoal
  <2> DEFINE r == WaitingTime(task_list[t], id, ticks)
  <2>1. CASE ticks = 0
    BY <1>5, <2>1 DEF task_wait_id, os_on_assert, KernelGoal, EventInv,
       AllListed, ExecutingHearsNothing
  <2>2. CASE ticks # 0
    <3>1. r \in TCB /\ Listed(r)
      BY <1>2, <1>4, WaitingTimeFacts, KernelCallsListed, KernelAssumption
    <3>2. OS_YIELD(t, [task_list EXCEPT ![t] = r], "WAIT_TICKS")
      BY <1>5, <2>2 DEF task_wait_id, os_task_wait_time_set
    <3> QED
      BY <3>1, <3>2, YieldListed DEF KernelGoal
  <2> QED
    BY <2>1, <2>2
<1>6. ASSUME NEW u \in Tid, task_suspend(t, u) PROVE KernelGoal
  <2> DEFINE r == Suspended(task_list[u])
  <2>1. u < nTasks
    BY <1>6 DEF task_suspend, Created
  <2>2. r \in TCB /\ Listed(r)
    BY <1>2, <1>3, <2>1, SuspendedFacts, KernelCallsListed
  <2>3. r.eventQueue = task_list[u].eventQueue
    BY <1>2 DEF Suspended, SuspendedFrom, TCB
  <2>4. CASE u = t
    <3>1. OS_YIELD(t, [task_list EXCEPT ![t] = r], "SUSPEND_TASK")
      BY <1>6, <2>4 DEF task_suspend, os_task_suspend
    <3> QED
      BY <2>2, <2>4, <3>1, YieldListed DEF KernelGoal
  <2>5. CASE u # t
    <3>1. Continue([task_list EXCEPT ![u] = r])
      BY <1>6, <2>5 DEF task_suspend, os_task_suspend
    <3> QED
      BY <2>2, <2>3, <3>1, ContinueListed DEF KernelGoal
  <2> QED
    BY <2>4, <2>5
<1>7. ASSUME NEW u \in Tid, task_resume(t, u) PROVE KernelGoal
  <2> DEFINE r == Resumed(task_list[u])
  <2>1. u < nTasks
    BY <1>7 DEF task_resume, Created
  <2>2. r \in TCB /\ Listed(r)
    BY <1>2, <1>3, <2>1, ResumedFacts, KernelCallsListed
  <2>3. r.eventQueue = task_list[u].eventQueue
    BY <1>2 DEF Resumed, TCB
  <2>4. CASE u = t
    <3>1. OS_YIELD(t, [task_list EXCEPT ![t] = r], "RESUME_TASK")
      BY <1>7, <2>4 DEF task_resume, os_task_resume
    <3> QED
      BY <2>2, <2>4, <3>1, YieldListed DEF KernelGoal
  <2>5. CASE u # t
    <3>1. Continue([task_list EXCEPT ![u] = r])
      BY <1>7, <2>5 DEF task_resume, os_task_resume
    <3> QED
      BY <2>2, <2>3, <3>1, ContinueListed DEF KernelGoal
  <2> QED
    BY <2>4, <2>5
<1>8. ASSUME NEW u \in Tid, TaskKill(t, u) PROVE KernelGoal
  <2> DEFINE r == [task_list[u] EXCEPT !.state = "KILLED"]
  <2>1. r \in TCB /\ Listed(r) /\ r.eventQueue = task_list[u].eventQueue
    BY <1>2, KilledFacts, KernelCallsListed DEF TCB
  <2>2. Continue([task_list EXCEPT ![u] = r])
    BY <1>8 DEF TaskKill, os_task_kill
  <2> QED
    BY <2>1, <2>2, ContinueListed DEF KernelGoal
<1>9. CASE task_close(t)
  <2> DEFINE r == [task_list[t] EXCEPT !.state = "KILLED"]
  <2>1. Listed(r)
    BY <1>2, KernelCallsListed
  <2>2. /\ task_list' = [task_list EXCEPT ![t] = r]
        /\ nTasks' = nTasks /\ running_tid' = NO_TID
    BY <1>9 DEF task_close, os_task_kill
  <2> HIDE DEF r
  <2> QED
    BY <1>1, <1>3, <2>1, <2>2
    DEF ListOK, KernelGoal, AllListed, ExecutingHearsNothing
<1> QED
  BY <1>5, <1>6, <1>7, <1>8, <1>9 DEF TaskStep, TaskYield, TaskCall

\* Every step of the kernel, ticks that end a wait with a timeout included.
LEMMA KernelStepListed ==
    ASSUME EventInv, [Undisturbed]_kernelVars
    PROVE  KernelGoal
<1>1. ListOK(task_list, nTasks) /\ ControlOK
  BY InvParts DEF EventInv
<1>2. CASE Main
  <2>1. CASE os_start
    BY <2>1 DEF os_start, KernelGoal, EventInv, AllListed, ExecutingHearsNothing
  <2>2. ASSUME NEW prio \in Prio, TaskCreate(prio), MayCreate(prio)
        PROVE  KernelGoal
    <3> DEFINE r == CreatedTCB(task_list[nTasks], prio)
    <3>1. nTasks \in Tid
      BY <1>1, <2>2, TidFacts DEF MayCreate, ControlOK
    <3>2. task_list[nTasks] \in TCB
      BY <1>1, <3>1 DEF ListOK
    <3>3. Listed(r)
      BY <3>2, KernelCallsListed
    <3>4. /\ task_list' = [task_list EXCEPT ![nTasks] = r]
          /\ nTasks' = nTasks + 1 /\ running_tid' = running_tid
      BY <2>2 DEF TaskCreate, os_task_create
    <3>5. \A t \in Tid : t < nTasks + 1 => t < nTasks \/ t = nTasks
      BY <3>1, TidFacts
    <3>6. running_tid # NO_TID => running_tid \in Tid /\ running_tid # nTasks
      BY <1>1, <3>1, TidFacts DEF ControlOK, Created
    <3> HIDE DEF r
    <3>7. \A t \in Tid : t # nTasks => task_list'[t] = task_list[t]
      BY <1>1, <3>4 DEF ListOK
    <3>8. task_list'[nTasks] = r
      BY <1>1, <3>1, <3>4 DEF ListOK
    <3> QED
      BY <3>3, <3>4, <3>5, <3>6, <3>7, <3>8
      DEF KernelGoal, EventInv, AllListed, ExecutingHearsNothing
  <2>3. ASSUME NEW prio \in Prio, TaskCreate(prio), ~MayCreate(prio)
        PROVE  KernelGoal
    BY <2>3 DEF TaskCreate, os_on_assert, KernelGoal, EventInv, AllListed,
       ExecutingHearsNothing
  <2> QED
    BY <1>2, <2>1, <2>2, <2>3 DEF Main
<1>3. CASE os_schedule
  <2>1. ASSUME NEW t \in Tid, Dispatch(t) PROVE KernelGoal
    <3>1. t < nTasks /\ task_list[t].state = "READY"
      BY <2>1 DEF Dispatch, Picked, next_ready_task, highest_prio_ready_task,
         ReadyTasks
    <3>2. task_list[t].eventQueue = {}
      BY <3>1 DEF EventInv, AllListed, Listed, Waits
    <3> QED
      BY <2>1, <3>2 DEF Dispatch, KernelGoal, EventInv, AllListed,
         ExecutingHearsNothing
  <2>2. CASE NothingFound
    BY <2>2 DEF NothingFound, Sleep, SchedulePastTaskList, os_on_assert,
       KernelGoal, EventInv, AllListed, ExecutingHearsNothing
  <2> QED
    BY <1>3, <2>1, <2>2 DEF os_schedule
<1>4. CASE Clock
  <2>1. PICK id \in ClockId, size \in Nat : Tick(id, size)
    BY <1>4, KernelAssumption DEF Clock, os_tick, os_sub_nTick, ClockId
  <2>2. \A t \in Tid : t < nTasks =>
          /\ task_list'[t] = Ticked(task_list[t], id, size)
          /\ Listed(Ticked(task_list[t], id, size))
          /\ Ticked(task_list[t], id, size).eventQueue
               \subseteq task_list[t].eventQueue
    BY <1>1, <2>1, TickedListed DEF Tick, task_tick, ListOK, EventInv, AllListed
  <2>3. running_tid # NO_TID => running_tid \in Tid /\ running_tid < nTasks
    BY <1>1 DEF ControlOK, Created
  <2> QED
    BY <2>1, <2>2, <2>3
    DEF Tick, KernelGoal, EventInv, AllListed, ExecutingHearsNothing
<1>5. ASSUME NEW t \in Tid, TaskStep(t) PROVE KernelGoal
  BY <1>5, TaskStepListed
<1>6. CASE UNCHANGED kernelVars
  BY <1>6 DEF kernelVars, KernelGoal, EventInv, AllListed, ExecutingHearsNothing
<1> QED
  BY <1>2, <1>3, <1>4, <1>5, <1>6 DEF Undisturbed

-----------------------------------------------------------------------------
(* Steps of the events *)

\* A macro of task t that leaves block r, yields and writes the event variables.
LEMMA EventYieldOK ==
    ASSUME EventInv, NEW t \in Tid, Executing(t), NEW r \in TCB,
           r.prio = task_list[t].prio, Sound(task_list[t]) => Sound(r),
           Listed(r), NEW point \in YieldPoint,
           OS_YIELD(t, [task_list EXCEPT ![t] = r], point), EventVarsOK'
    PROVE  EventInv'
<1>1. KernelInv'
  BY YieldStepOK DEF EventInv, StepOK
<1> QED
  BY <1>1, YieldListed DEF EventInv

\* event_create
LEMMA CreateEventOK == ASSUME EventInv, event_create PROVE EventInv'
<1>1. ControlOK /\ EventVarsOK
  BY InvParts DEF EventInv
<1>2. UNCHANGED <<task_list, nTasks, running_tid>> /\ ControlOK'
  BY <1>1 DEF event_create, os_on_assert, kernelVars, ControlOK, Created
<1>3. KernelInv'
  BY <1>2, SameListOK DEF EventInv, StepOK
<1>4. EventVarsOK'
  BY <1>1, EventFacts DEF event_create, eventVars, EventVarsOK
<1> QED
  BY <1>2, <1>3, <1>4 DEF EventInv, AllListed, ExecutingHearsNothing

\* event_wait_timeout
LEMMA WaitEventOK ==
    ASSUME EventInv, NEW t \in Tid, NEW e \in Event,
           NEW timeout \in Timeouts \cup {0}, event_wait_timeout(t, e, timeout)
    PROVE  EventInv'
<1>1. ListOK(task_list, nTasks) /\ ControlOK /\ EventVarsOK
  BY InvParts DEF EventInv
<1>2. Executing(t) /\ task_list[t] \in TCB /\ "WAIT_EVENT" \in YieldPoint
  BY <1>1 DEF event_wait_timeout, ListOK, YieldPoint
<1>3. EventVarsOK'
  BY <1>1 DEF event_wait_timeout, EventVarsOK
<1>4. CASE e \in LiveEv
  <2> DEFINE r == WaitingEvent(task_list[t], e, TRUE, timeout)
  <2>1. e \in Bits /\ timeout \in Time
    BY EventFacts, EventAssumption, TaskAssumption DEF Time
  <2>2. /\ r \in TCB /\ r.prio = task_list[t].prio /\ Listed(r)
        /\ Sound(task_list[t]) => Sound(r)
    BY <1>2, <2>1, WaitingEventFacts
  <2>3. OS_YIELD(t, [task_list EXCEPT ![t] = r], "WAIT_EVENT")
    BY <1>4 DEF event_wait_timeout, os_task_wait_event
  <2> HIDE DEF r
  <2> QED
    BY <1>2, <1>3, <2>2, <2>3, EventYieldOK
<1>5. CASE e \notin LiveEv
  <2>1. OS_YIELD(t, [task_list EXCEPT ![t] = task_list[t]], "WAIT_EVENT")
    <3>1. task_list = [task_list EXCEPT ![t] = task_list[t]]
      BY <1>1 DEF ListOK
    <3> QED
      BY <1>5, <3>1 DEF event_wait_timeout
  <2>2. Listed(task_list[t])
    <3>1. t < nTasks
      BY <1>1, <1>2 DEF Executing, ControlOK, Created
    <3> QED
      BY <3>1 DEF EventInv, AllListed
  <2> QED
    BY <1>2, <1>3, <2>1, <2>2, EventYieldOK
<1> QED
  BY <1>4, <1>5

\* event_wait_multiple
LEMMA WaitMultipleOK ==
    ASSUME EventInv, NEW t \in Tid, NEW all \in BOOLEAN,
           NEW E \in (SUBSET LiveEv) \ {{}}, event_wait_multiple(t, all, E)
    PROVE  EventInv'
<1>1. ListOK(task_list, nTasks) /\ EventVarsOK
  BY InvParts DEF EventInv
<1>2. /\ Executing(t) /\ task_list[t] \in TCB /\ "WAIT_MULTIPLE" \in YieldPoint
      /\ E \in SUBSET Bits /\ E # {}
  BY <1>1, EventFacts DEF event_wait_multiple, ListOK, YieldPoint
<1> DEFINE r == WaitingMultiple(task_list[t], all, E)
<1>3. /\ r \in TCB /\ r.prio = task_list[t].prio /\ Listed(r)
      /\ Sound(task_list[t]) => Sound(r)
  BY <1>2, WaitingMultipleFacts
<1>4. OS_YIELD(t, [task_list EXCEPT ![t] = r], "WAIT_MULTIPLE")
  BY DEF event_wait_multiple
<1> HIDE DEF r
<1>5. EventVarsOK'
  BY <1>1 DEF event_wait_multiple, eventVars, EventVarsOK
<1> QED
  BY <1>2, <1>3, <1>4, <1>5, EventYieldOK

\* event_signal, in two writes of the list, and event_ISR_signal.
LEMMA SignalStepOK ==
    ASSUME EventInv, NEW e,
           LET tl == os_task_signal_event(task_list, nTasks, e)
           IN  \/ Continue(tl)
               \/ \E t \in Tid : Executing(t) /\ OS_YIELD(t, tl, "SIGNAL_EVENT"),
           EventVarsOK'
    PROVE  EventInv'
<1> DEFINE tl == os_task_signal_event(task_list, nTasks, e)
<1>1. ControlOK
  BY InvParts DEF EventInv
<1>2. /\ ListOK(tl, nTasks)
      /\ \A t \in Tid :
            /\ t < nTasks => Listed(tl[t])
            /\ tl[t].eventQueue \subseteq task_list[t].eventQueue
            /\ task_list[t].state \in {"READY", "KILLED"}
                 => tl[t].state = task_list[t].state
  BY SignalOK
<1> HIDE DEF tl
<1>3. CASE Continue(tl)
  <2>1. task_list' = tl /\ nTasks' = nTasks /\ running_tid' = running_tid
    BY <1>3 DEF Continue
  <2>2. ControlOK'
    BY <1>1, <1>3 DEF Continue, ControlOK, Created
  <2>3. ~SELF_KILL => ExecutingIsReady' /\ KilledStays
    BY <1>1, <1>2, <2>1
    DEF EventInv, KernelInv, ExecutingIsReady, KilledStays, ControlOK, Created
  <2>4. KernelInv'
    BY <1>2, <2>1, <2>2, <2>3, InvPartsNext DEF StepOK
  <2>5. AllListed' /\ ExecutingHearsNothing'
    BY <1>1, <1>2, <2>1
    DEF EventInv, AllListed, ExecutingHearsNothing, ControlOK, Created
  <2> QED
    BY <2>4, <2>5 DEF EventInv
<1>4. ASSUME NEW t \in Tid, Executing(t), OS_YIELD(t, tl, "SIGNAL_EVENT")
      PROVE  EventInv'
  <2> DEFINE q == [tl[t] EXCEPT !.internal_state = "SIGNAL_EVENT"]
  <2>1. tl[t] \in TCB /\ "SIGNAL_EVENT" \in YieldPoint
    BY <1>2 DEF ListOK, YieldPoint
  <2>2. /\ q \in TCB /\ q.prio = tl[t].prio /\ q.state = tl[t].state
        /\ Sound(tl[t]) => Sound(q)
        /\ Listed(tl[t]) => Listed(q)
    BY <2>1, YieldedFacts, KernelCallsListed
  <2>3. /\ task_list' = [tl EXCEPT ![t] = q]
        /\ nTasks' = nTasks /\ running_tid' = NO_TID
    BY <1>4 DEF OS_YIELD, os_task_internal_state_set
  <2> HIDE DEF q
  <2>4. ListOK(task_list', nTasks')
    BY <1>2, <2>2, <2>3, UpdateOK DEF ListOK
  <2>5. ControlOK'
    BY <1>1, <1>4, <2>3 DEF OS_YIELD, ControlOK, Created
  <2>6. \A u \in Tid : task_list'[u].state = tl[u].state
    BY <1>2, <2>2, <2>3 DEF ListOK
  <2>7. ~SELF_KILL => ExecutingIsReady' /\ KilledStays
    BY <1>2, <2>3, <2>6 DEF ExecutingIsReady, KilledStays, Created
  <2>8. KernelInv'
    BY <2>4, <2>5, <2>7, InvPartsNext DEF StepOK
  <2>9. AllListed' /\ ExecutingHearsNothing'
    BY <1>2, <2>2, <2>3 DEF ListOK, AllListed, ExecutingHearsNothing
  <2> QED
    BY <2>8, <2>9, <1>1 DEF EventInv
<1> QED
  BY <1>3, <1>4 DEF tl

\* Every step of kernel and events.
LEMMA EventStepInv == EventInv /\ [EventNext]_evVars => EventInv'
<1> SUFFICES ASSUME EventInv, [EventNext]_evVars PROVE EventInv'
  OBVIOUS
<1>1. EventVarsOK
  BY DEF EventInv
<1>2. CASE event_create
  BY <1>2, CreateEventOK
<1>3. ASSUME NEW t \in Tid, NEW e \in Event, NEW timeout \in Timeouts \cup {0},
             event_wait_timeout(t, e, timeout)
      PROVE  EventInv'
  BY <1>3, WaitEventOK
<1>4. ASSUME NEW t \in Tid, NEW all \in BOOLEAN, NEW E \in (SUBSET LiveEv) \ {{}},
             event_wait_multiple(t, all, E)
      PROVE  EventInv'
  BY <1>4, WaitMultipleOK
<1>5. ASSUME NEW t \in Tid, NEW e \in Event, event_signal(t, e)
      PROVE  EventInv'
  <2>1. EventVarsOK'
    BY <1>1, <1>5 DEF event_signal, EventVarsOK
  <2> QED
    BY <1>5, <2>1, SignalStepOK DEF event_signal
<1>6. ASSUME NEW e \in Event, event_ISR_signal(e) PROVE EventInv'
  <2>1. EventVarsOK'
    BY <1>1, <1>6 DEF event_ISR_signal, EventVarsOK
  <2> QED
    BY <1>6, <2>1, SignalStepOK DEF event_ISR_signal
<1>7. CASE [Undisturbed]_kernelVars /\ UNCHANGED eventVars
  <2>1. KernelInv'
    BY <1>7, StepInv DEF EventInv, StepOK, KernelNext
  <2>2. KernelGoal
    BY <1>7, KernelStepListed
  <2>3. EventVarsOK'
    BY <1>1, <1>7 DEF eventVars, EventVarsOK
  <2> QED
    BY <2>1, <2>2, <2>3 DEF EventInv, KernelGoal
<1> QED
  BY <1>2, <1>3, <1>4, <1>5, <1>6, <1>7 DEF EventNext, EventStep, evVars

\* The invariant of kernel and events, for any number of tasks and events and
\* any timeouts, with or without self-kills.
THEOREM EventInvariant == EventSpec => []EventInv
<1>1. EventInit => EventInv
  BY EventInitInv
<1>2. EventInv /\ [EventNext]_evVars => EventInv'
  BY EventStepInv
<1> QED
  BY <1>1, <1>2, PTL DEF EventSpec

\* The types of the events and of the control blocks they are waited for in:
\* event_create stops in its assert, and no event is without a bit.
THEOREM EventType == EventSpec => []EventTypeOK
<1>1. EventInv => EventTypeOK
  BY DEF EventInv, EventVarsOK, KernelInv, EventTypeOK
<1> QED
  BY <1>1, EventInvariant, PTL

\* A task has events in its list exactly while it waits for some: no signal,
\* timeout, suspension or resumption leaves a bit behind or a waiter without one.
THEOREM ListMeansWait == EventSpec => []ListIsWait
<1>1. EventInv => ListIsWait
  BY DEF EventInv, AllListed, Listed, Waits, ListIsWait, WaitsForEvent, StateOf,
     Created
<1> QED
  BY <1>1, EventInvariant, PTL
=============================================================================
