------------------------------ MODULE EventBits ------------------------------
(***************************************************************************)
(* The events a task waits for as the code keeps them: EventQueue_t, a     *)
(* list of EVENT_QUEUE_SIZE bytes with one bit per event id (os_event.h,   *)
(* os_task.c).  OsTask has the set of events instead; here is the list,    *)
(* with the memory of the tcb behind it, and missed, the set of events     *)
(* that the current wait is still to hear.                                 *)
(***************************************************************************)
EXTENDS Integers

CONSTANT N_TOTAL_EVENTS   \* 1 .. 254

VARIABLES
    eventList,        \* the bytes from eventQueue on, each a set of bits
    waitSingleEvent,
    state,            \* READY, or one of the two states that wait for events
    missed

bitsVars == <<eventList, waitSingleEvent, state, missed>>

waiting == state # "READY"

Event == 0 .. N_TOTAL_EVENTS - 1
Bit   == 0 .. 7

EVENT_QUEUE_SIZE == N_TOTAL_EVENTS \div 9 + 1

\* eventListIndex and shift.
Index(e) == e \div 8
Shift(e) == e % 8

\* The bytes of the list, and those the id of an event may lead to.
Listed == 0 .. EVENT_QUEUE_SIZE - 1
Byte   == Listed \cup {Index(e) : e \in Event}

EventsOf(list) == {e \in Event : Shift(e) \in list[Index(e)]}

\* os_task_clear_wait_queue on the list.
ClearedList(list) == [i \in Byte |-> IF i \in Listed THEN {} ELSE list[i]]

\* os_task_wait_queue_empty
EmptyList(list) == \A i \in Listed : list[i] = {}

SetBit(list, e)   == [list EXCEPT ![Index(e)] = @ \cup {Shift(e)}]
ClearBit(list, e) == [list EXCEPT ![Index(e)] = @ \ {Shift(e)}]

\* The bits of all events of E.
SetBits(list, E) ==
    [i \in Byte |-> list[i] \cup {b \in Bit : 8 * i + b \in E}]

-----------------------------------------------------------------------------
\* The list os_task_create leaves; behind it the tcb is zero or padding.
BitsInit ==
    /\ eventList = [i \in Byte |-> {}]
    /\ waitSingleEvent = FALSE
    /\ state = "READY"
    /\ missed = {}

\* os_wait_event: the list is added to.
WaitsFor(e, timeout) ==
    /\ ~waiting
    /\ eventList' = SetBit(eventList, e)
    /\ waitSingleEvent' = TRUE
    /\ state' = IF timeout THEN "WAITING_EVENT_TIMEOUT" ELSE "WAITING_EVENT"
    /\ missed' = {e}

\* os_wait_multiple: the list is cleared first.
WaitsForMultiple(waitForAll, E) ==
    /\ ~waiting
    /\ eventList' = SetBits(ClearedList(eventList), E)
    /\ waitSingleEvent' = ~waitForAll
    /\ state' = "WAITING_EVENT"
    /\ missed' = E

\* os_task_signal_event finds the task waiting for e.
Wakes(e) ==
    /\ waiting
    /\ Shift(e) \in eventList[Index(e)]
    /\ LET list == ClearBit(eventList, e)
       IN  IF waitSingleEvent \/ EmptyList(list)
           THEN /\ eventList' = ClearedList(list)
                /\ waitSingleEvent' = FALSE
                /\ state' = "READY"
           ELSE eventList' = list /\ UNCHANGED <<waitSingleEvent, state>>

\* os_task_signal_event.  What the task misses does not depend on the list.
Signals(e) ==
    /\ \/ Wakes(e)
       \/ /\ ~(waiting /\ Shift(e) \in eventList[Index(e)])
          /\ UNCHANGED <<eventList, waitSingleEvent, state>>
    /\ missed' = IF waitSingleEvent /\ e \in missed THEN {} ELSE missed \ {e}

\* task_tick ends a wait with a timeout.
TimesOut ==
    /\ state = "WAITING_EVENT_TIMEOUT"
    /\ eventList' = ClearedList(eventList)
    /\ waitSingleEvent' = FALSE
    /\ state' = "READY"
    /\ missed' = {}

BitsNext ==
    \/ \E e \in Event, timeout \in BOOLEAN : WaitsFor(e, timeout)
    \/ \E e \in Event : Signals(e)
    \/ \E waitForAll \in BOOLEAN, E \in (SUBSET Event) \ {{}} :
          WaitsForMultiple(waitForAll, E)
    \/ TimesOut

BitsSpec == BitsInit /\ [][BitsNext]_bitsVars

-----------------------------------------------------------------------------
\* The bits are the events the wait still misses, and the task waits exactly
\* while there are any, through single waits, waits for any and for all, signals
\* and timeouts ("to have enough bits to represent the total N_TOTAL_EVENTS",
\* os_event.h).
BitsAreMissed == EventsOf(eventList) = missed /\ (waiting <=> missed # {})
=============================================================================
