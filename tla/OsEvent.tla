------------------------------ MODULE OsEvent ------------------------------
(***************************************************************************)
(* Events (os_event.c, os_event.h) with the kernel and the tasks.  An      *)
(* event has no state of its own but who signalled it; a waiting task has  *)
(* the events it misses as bits of its tcb.  A signal that finds nobody    *)
(* waiting is forgotten.                                                   *)
(*                                                                         *)
(* Ticks and ISR signals come between calls (Undisturbed).  One that comes *)
(* inside os_task_suspend is left out: it may clear the events of a waiter *)
(* that is then saved as waiting.                                          *)
(***************************************************************************)
EXTENDS OsKernel

CONSTANT Timeouts   \* arguments given to event_wait_timeout

NO_EVENT == 255
ISR_TID  == 254

ASSUME EventAssumption ==
    /\ N_TOTAL_EVENTS <= 255
    /\ Timeouts \subseteq Time

VARIABLES signaledByTid, nEvents, lastSignaledEvent

eventVars == <<signaledByTid, nEvents, lastSignaledEvent>>
evVars    == <<kernelVars, eventVars>>

Event  == 0 .. N_TOTAL_EVENTS - 1
LiveEv == {e \in Event : e < nEvents}

EventTypeOK ==
    /\ TypeOK
    /\ signaledByTid \in [Event -> Tid \cup {0, NO_TID, ISR_TID}]
    /\ nEvents \in 0 .. N_TOTAL_EVENTS
    /\ lastSignaledEvent \in Event \cup {NO_EVENT}

\* eventList is static: zero until an event is created in it.
os_event_init ==
    /\ signaledByTid = [e \in Event |-> 0]
    /\ nEvents = 0
    /\ lastSignaledEvent = NO_EVENT

EventInit == os_init /\ os_event_init

-----------------------------------------------------------------------------
\* Mutant of event_create: off by one in the assert.
event_create_NoRoom ==
    /\ MainThread
    /\ IF nEvents <= N_TOTAL_EVENTS
       THEN /\ signaledByTid' = [signaledByTid EXCEPT ![nEvents] = NO_TID]
            /\ nEvents' = nEvents + 1
            /\ UNCHANGED <<kernelVars, lastSignaledEvent>>
       ELSE os_on_assert /\ UNCHANGED eventVars

event_create ==
    /\ MainThread
    /\ IF nEvents < N_TOTAL_EVENTS
       THEN /\ signaledByTid' = [signaledByTid EXCEPT ![nEvents] = NO_TID]
            /\ nEvents' = nEvents + 1
            /\ UNCHANGED <<kernelVars, lastSignaledEvent>>
       ELSE os_on_assert /\ UNCHANGED eventVars

\* OS_WAIT_SINGLE_EVENT.  An event that does not exist is not waited for, but
\* the task yields all the same.
event_wait_timeout(t, e, timeout) ==
    /\ Executing(t)
    /\ IF e \in LiveEv
       THEN /\ OS_YIELD(t, os_task_wait_event(task_list, t, e, TRUE, timeout),
                        "WAIT_EVENT")
            /\ signaledByTid' = [signaledByTid EXCEPT ![e] = NO_TID]
       ELSE OS_YIELD(t, task_list, "WAIT_EVENT") /\ UNCHANGED signaledByTid
    /\ UNCHANGED <<nEvents, lastSignaledEvent>>

event_wait(t, e) == event_wait_timeout(t, e, 0)

\* What os_wait_multiple makes of the control block: an empty list, then one
\* os_task_wait_event per event.
WaitingMultiple(tcb, waitForAll, E) ==
    [tcb EXCEPT !.eventQueue = E, !.waitSingleEvent = ~waitForAll,
                !.state = "WAITING_EVENT"]

\* OS_WAIT_MULTIPLE_EVENTS.  The assert about NO_EVENT holds: the macro adds it,
\* and E has no more events than there are.
event_wait_multiple(t, waitForAll, E) ==
    /\ Executing(t)
    /\ OS_YIELD(t, [task_list EXCEPT ![t] =
                       WaitingMultiple(task_list[t], waitForAll, E)],
                "WAIT_MULTIPLE")
    /\ UNCHANGED eventVars

\* OS_SIGNAL_EVENT
event_signal(t, e) ==
    /\ Executing(t)
    /\ e \in LiveEv
    /\ OS_YIELD(t, os_task_signal_event(task_list, nTasks, e), "SIGNAL_EVENT")
    /\ lastSignaledEvent' = e
    /\ signaledByTid' = [signaledByTid EXCEPT ![e] = t]
    /\ UNCHANGED nEvents

\* OS_INT_SIGNAL_EVENT
event_ISR_signal(e) ==
    /\ e \in LiveEv
    /\ Continue(os_task_signal_event(task_list, nTasks, e))
    /\ lastSignaledEvent' = e
    /\ signaledByTid' = [signaledByTid EXCEPT ![e] = ISR_TID]
    /\ UNCHANGED nEvents

-----------------------------------------------------------------------------
EventStep ==
    \/ event_create
    \/ \E t \in Tid, e \in Event, timeout \in Timeouts \cup {0} :
          event_wait_timeout(t, e, timeout)
    \/ \E t \in Tid, waitForAll \in BOOLEAN, E \in (SUBSET LiveEv) \ {{}} :
          event_wait_multiple(t, waitForAll, E)
    \/ \E t \in Tid, e \in Event : event_signal(t, e)
    \/ \E e \in Event : event_ISR_signal(e)

EventNext == EventStep \/ (Undisturbed /\ UNCHANGED eventVars)

EventSpec == EventInit /\ [][EventNext]_evVars

-----------------------------------------------------------------------------
\* The state a task is in, or will be in when it is resumed.
StateOf(t) == IF task_list[t].state = "SUSPENDED"
              THEN task_list[t].savedState ELSE task_list[t].state

WaitsForEvent(t) == StateOf(t) \in {"WAITING_EVENT", "WAITING_EVENT_TIMEOUT"}

\* A task has bits in its list exactly while it waits for events, also across
\* suspensions, timeouts and signals: a bit left behind would make a later
\* event_wait_multiple wait for an event it was not asked for, and an empty list
\* would make the task wait for ever (os_task_signal_event, task_tick).
ListIsWait ==
    \A t \in Created : task_list[t].state # "KILLED" =>
        (WaitsForEvent(t) <=> task_list[t].eventQueue # {})
=============================================================================
