--------------------------- MODULE OsEventClients ---------------------------
(***************************************************************************)
(* The events as their waiters see them: OsEvent with a record per task of *)
(* what it last asked for and what happened since.  The record is written  *)
(* from the calls and signals alone; the code keeps only the bits that     *)
(* are still missing.                                                      *)
(***************************************************************************)
EXTENDS OsEvent

VARIABLE wish

clientVars == <<evVars, wish>>

\* all: wait for all or for any of events; limited: with a timeout; heard: those
\* of events signalled while it waited; expired: the timeout came.
NoWish == [all |-> FALSE, events |-> {}, limited |-> FALSE,
           heard |-> {}, expired |-> FALSE]

ClientsInit == EventInit /\ wish = [t \in Tid |-> NoWish]

Asks(t, all, E, timeout) ==
    wish' = [wish EXCEPT ![t] = [NoWish EXCEPT !.all = all, !.events = E,
                                               !.limited = timeout # 0]]

\* Waiting and not suspended: a suspended task does not hear signals.
Listens(t) == /\ t \in Created
              /\ task_list[t].state \in {"WAITING_EVENT", "WAITING_EVENT_TIMEOUT"}

\* The wish of a task, forgotten once it has yielded elsewhere.
Wish(t) == IF task_list'[t].internal_state \in {"WAIT_EVENT", "WAIT_MULTIPLE"}
           THEN wish[t] ELSE NoWish

Hear(e) ==
    wish' = [t \in Tid |->
        IF Listens(t) THEN [wish[t] EXCEPT !.heard = @ \cup ({e} \cap wish[t].events)]
                      ELSE Wish(t)]

Expire ==
    wish' = [t \in Tid |->
        IF /\ task_list[t].state = "WAITING_EVENT_TIMEOUT"
           /\ task_list'[t].state = "READY"
        THEN [wish[t] EXCEPT !.expired = TRUE] ELSE wish[t]]

ClientsNext ==
    \/ \E t \in Tid, e \in Event, timeout \in Timeouts \cup {0} :
          /\ event_wait_timeout(t, e, timeout)
          /\ Asks(t, FALSE, {e} \cap LiveEv, timeout)
    \/ \E t \in Tid, waitForAll \in BOOLEAN, E \in (SUBSET LiveEv) \ {{}} :
          /\ event_wait_multiple(t, waitForAll, E)
          /\ Asks(t, waitForAll, E, 0)
    \/ \E e \in Event :
          /\ event_ISR_signal(e) \/ \E t \in Tid : event_signal(t, e)
          /\ Hear(e)
    \/ Clock /\ Expire /\ UNCHANGED eventVars
    \/ /\ \/ event_create
          \/ /\ Main \/ os_schedule \/ \E t \in Tid : TaskStep(t)
             /\ UNCHANGED eventVars
       /\ wish' = [t \in Tid |-> Wish(t)]

ClientsSpec == ClientsInit /\ [][ClientsNext]_clientVars

-----------------------------------------------------------------------------
Satisfied(w) == IF w.all THEN w.events \subseteq w.heard
                ELSE w.events = {} \/ w.events \cap w.heard # {}

\* Behind an event wait, not having yielded since.
BehindWait(t) == /\ t \in Created
                 /\ task_list[t].internal_state \in {"WAIT_EVENT", "WAIT_MULTIPLE"}
                 /\ StateOf(t) = "READY"

\* No signal to a waiting task is lost: it does not wait on when it has heard
\* what it asked for, any or all, in any order and with others waiting for the
\* same events (os_task_signal_event).
SignalsWake ==
    \A t \in Created :
        task_list[t].state # "KILLED" /\ WaitsForEvent(t) => ~Satisfied(wish[t])

\* Nor does anything else end the wait: wait-all has heard all, and only a wait
\* that was given a timeout expires.
WakesForAReason ==
    \A t \in Created : BehindWait(t) =>
        Satisfied(wish[t]) \/ (wish[t].expired /\ wish[t].limited)

\* "we know if this is due to a timeout (value == 0) or actual event (value !=
\* 0)" (event_get_timeout): time, which ticks, waits and suspensions share,
\* tells behind event_wait_timeout why the wait ended.
TimeoutIsTold ==
    \A t \in Created : BehindWait(t) /\ wish[t].limited /\ wish[t].events # {} =>
        (task_list[t].time = 0 <=> wish[t].expired)
=============================================================================
