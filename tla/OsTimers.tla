------------------------------ MODULE OsTimers ------------------------------
(***************************************************************************)
(* The kernel with an outside observer of time: now[c] is the number of    *)
(* ticks clock c has made, due[t] the reading of its clock at which the    *)
(* wait of task t is to end.  The tcb counts down time tick by tick and    *)
(* shares that field between waits; the observer only adds.  A suspended   *)
(* task does not see the ticks, so its due time moves on with the clock.   *)
(***************************************************************************)
EXTENDS OsKernel

CONSTANT MAX_NOW   \* bound: no clock ticks beyond this reading

ASSUME TimersAssumption == MAX_NOW \in Nat

\* The master clock is always there.
AllClocks == Clocks \cup {0}

VARIABLES now, due

timerVars == <<kernelVars, now, due>>

TimersInit ==
    /\ os_init
    /\ now = [c \in AllClocks |-> 0]
    /\ due = [t \in Tid |-> 0]

Frozen(t, c) == /\ t \in Created
                /\ task_list[t].state = "SUSPENDED"
                /\ task_list[t].savedState \in TimedState
                /\ task_list[t].clockId = c

\* The clock interrupt is enabled by os_start.
Advance(c, size) ==
    /\ running = 1
    /\ now[c] + size <= MAX_NOW
    /\ now' = [now EXCEPT ![c] = @ + size]
    /\ due' = [t \in Tid |-> IF Frozen(t, c) THEN due[t] + size ELSE due[t]]

TimersNext ==
    \/ os_tick /\ Advance(0, 1)
    \/ \E c \in Clocks, size \in NTicks : os_sub_nTick(c, size) /\ Advance(c, size)
    \/ \E t, u \in Tid, k \in TickKinds :
          task_suspend_ticked(t, u, k[1], k[2]) /\ Advance(k[1], k[2])
    \/ \E t \in Tid, c \in Clocks, ticks \in WaitTicks :
          /\ task_wait_id(t, c, ticks)
          /\ due' = IF halted' THEN due ELSE [due EXCEPT ![t] = now[c] + ticks]
          /\ UNCHANGED now
    \/ /\ \/ Main
          \/ os_schedule
          \/ \E t \in Tid : \/ TaskCall(t)
                            \/ task_suspend(t, t)
                            \/ task_resume(t, t)
                            \/ task_close(t)
       /\ UNCHANGED <<now, due>>

TimersSpec == TimersInit /\ [][TimersNext]_timerVars

-----------------------------------------------------------------------------
(* What holds of a wait, whatever happens to the task during it. *)

\* Clock of task t, in use by a wait.
ClockOf(t) == task_list[t].clockId

\* What the observer says is left.
TimeLeft(t) == IF now[ClockOf(t)] < due[t] THEN due[t] - now[ClockOf(t)] ELSE 0

\* No tick is lost and none is counted twice (task_tick against the stores of
\* os_task_wait_time_set, os_task_suspend and os_task_resume): the time left in
\* the tcb is what the observer says is left, also while suspended.
TimeIsExact ==
    \A t \in Created :
        \/ task_list[t].state = "WAITING_TIME"
        \/ /\ task_list[t].state = "SUSPENDED"
           /\ task_list[t].savedState = "WAITING_TIME"
        => task_list[t].time = TimeLeft(t)

\* A task does not go on behind its task_wait before the ticks it asked for have
\* passed: READY at that point of its procedure means the due time has come.
NotEarly ==
    \A t \in Created :
        /\ task_list[t].state = "READY"
        /\ task_list[t].internal_state = "WAIT_TICKS"
        => now[ClockOf(t)] >= due[t]

\* Nor later than the tick that reaches it (task_tick): a tick of its clock that
\* finds or makes the due time come makes the task READY.  The one tick that does
\* not is a tick inside the os_task_suspend of this very task, so that the wait
\* that is then saved ends on the next tick after its resumption: one late.
NotLate ==
    [][\A t \in Created :
        /\ task_list[t].state = "WAITING_TIME"
        /\ now'[ClockOf(t)] > now[ClockOf(t)]
        /\ now'[ClockOf(t)] >= due[t]
        => \/ task_list'[t].state = "READY"
           \/ INTERRUPTS /\ task_list'[t].state = "SUSPENDED"]_timerVars
=============================================================================
