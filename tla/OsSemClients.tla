---------------------------- MODULE OsSemClients ----------------------------
(***************************************************************************)
(* The semaphores as their callers see them: OsSem with two histories,     *)
(* last, what the last step was to its caller, and waited[t], the ticks of *)
(* any clock since t began to wait (a count that does not wrap, unlike the *)
(* uint32_t tcb.time).                                                     *)
(***************************************************************************)
EXTENDS OsSem

CONSTANT MAX_WAITED   \* bound: no tick beyond this many during a wait

ASSUME ClientsAssumption == MAX_WAITED \in Nat

VARIABLES last, waited

clientVars == <<osVars, last, waited>>

None        == [call |-> "none", sem |-> 0]
SignalOf(s) == [call |-> "signal", sem |-> s]
TakeOf(s)   == [call |-> "take", sem |-> s]

ClientsInit == SemInit /\ last = None /\ waited = [t \in Tid |-> 0]

Waited(ticks) ==
    waited' = [t \in Tid |-> IF task_list'[t].state = "WAITING_SEM"
                             THEN waited[t] + ticks ELSE 0]

\* sem_wait took a token when its caller goes on.
ClientsNext ==
    \/ \E t \in Tid, s \in Sem :
          /\ sem_wait(t, s)
          /\ last' = IF running_tid' = t THEN TakeOf(s) ELSE None
          /\ Waited(0)
    \/ \E s \in Sem :
          /\ sem_ISR_signal(s) \/ \E t \in Tid : sem_signal(t, s)
          /\ last' = SignalOf(s)
          /\ Waited(0)
    \/ /\ Clock
       /\ \A t \in Tid : waited[t] < MAX_WAITED
       /\ last' = None
       /\ Waited(1)
       /\ UNCHANGED semVars
    \/ /\ \/ \E max \in SemMax, initial \in SemInitial : SemCreate(max, initial)
          \/ /\ Main \/ os_schedule \/ \E t \in Tid : TaskStep(t)
             /\ UNCHANGED semVars
       /\ last' = None
       /\ Waited(0)

ClientsSpec == ClientsInit /\ [][ClientsNext]_clientVars

-----------------------------------------------------------------------------
(* Refinement of the abstract semaphores: a task is let through a wait that *)
(* blocked when it can run again from there.                                *)

LetThrough ==
    {t \in Created :
        /\ task_list[t].internal_state = "WAIT_SEM"
        /\ \/ task_list[t].state = "READY"
           \/ /\ task_list[t].state = "SUSPENDED"
              /\ task_list[t].savedState = "READY"}

Abstract == INSTANCE Semaphore WITH
    Task <- Tid,
    value <- [s \in Sem |-> semList[s].value],
    limit <- [s \in Sem |-> semList[s].maxValue],
    blocked <- [s \in Sem |-> Waiters(s)],
    released <- LetThrough

\* sem_wait, sem_signal and sem_ISR_signal, with tasks that are suspended,
\* resumed, killed and rescheduled around them, implement the abstract
\* semaphores: no signal is lost or given twice, nobody passes without one.
SemaphoreSpec == Abstract!Spec

\* Round robin: a signal goes to a waiter that no other has waited longer than
\* ("the task which has been waiting on a semaphore the longest",
\* os_task_release_waiting_task), as far as the clocks can tell.
LongestWaiterFirst ==
    [][\A t \in Created :
        /\ task_list[t].state = "WAITING_SEM"
        /\ task_list'[t].state = "READY"
        => \A u \in Waiters(task_list[t].semaphore) :
              waited[u] <= waited[t]]_clientVars
=============================================================================
