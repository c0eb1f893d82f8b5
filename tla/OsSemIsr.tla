------------------------------ MODULE OsSemIsr ------------------------------
(***************************************************************************)
(* The semaphores of OsSem with the macros sem_wait and sem_signal taken   *)
(* apart: an ISR may signal between any two of their accesses to value,    *)
(* state and semaphore, since nothing masks interrupts.  sem_ISR_signal is *)
(* one step, as in the ISR that calls it.  Only one task is inside a macro *)
(* at a time.  credit[s] counts what the callers of s are owed: tokens at  *)
(* creation and signals, less the tasks that went on behind sem_wait(s).   *)
(***************************************************************************)
EXTENDS OsSem

\* Bound: no signal beyond it.  No more than any member of SemMax, so that no
\* signal meets a full semaphore.
CONSTANT MAX_CREDIT

VARIABLES
    pc,      \* where in a macro the task that runs is, and what it has read
    credit

isrVars == <<osVars, pc, credit>>

Idle == [at |-> "IDLE"]
At(place, s) == [at |-> place, sem |-> s]
Holding(place, s, v) == [at |-> place, sem |-> s, value |-> v]

Goto(place) == pc' = place /\ UNCHANGED nSemaphores

SemIsrInit == SemInit /\ pc = Idle /\ credit = [s \in Sem |-> 0]

-----------------------------------------------------------------------------
(* sem_wait *)

\* os_sem_larger_than_zero
WaitReads(t, s) ==
    /\ Executing(t) /\ pc = Idle /\ s \in Live
    /\ Goto(At(IF os_sem_larger_than_zero(s) THEN "DECREMENT" ELSE "SET_STATE", s))
    /\ UNCHANGED <<kernelVars, semList, credit>>

\* os_sem_decrement reads value, which an ISR can only have made larger.
DecrementReads ==
    /\ pc.at = "DECREMENT"
    /\ Goto(Holding("TAKE", pc.sem, semList[pc.sem].value))
    /\ UNCHANGED <<kernelVars, semList, credit>>

Take ==
    /\ pc.at = "TAKE"
    /\ semList' = [semList EXCEPT ![pc.sem].value = pc.value - 1]
    /\ credit' = [credit EXCEPT ![pc.sem] = @ - 1]
    /\ Goto(Idle)
    /\ UNCHANGED kernelVars

\* task_wait_sem_set stores state, then semaphore.
SetState ==
    /\ pc.at = "SET_STATE"
    /\ Continue([task_list EXCEPT
          ![running_tid] = WaitingSem(@, task_list[running_tid].semaphore)])
    /\ Goto(At("SET_SEM", pc.sem))
    /\ UNCHANGED <<semList, credit>>

SetSem ==
    /\ pc.at = "SET_SEM"
    /\ Continue([task_list EXCEPT ![running_tid].semaphore = pc.sem])
    /\ Goto(At("WAIT_SEM", pc.sem))
    /\ UNCHANGED <<semList, credit>>

-----------------------------------------------------------------------------
(* sem_signal *)

\* os_task_waiting_this_semaphore
SignalReads(t, s) ==
    /\ Executing(t) /\ pc = Idle /\ s \in Live
    /\ credit[s] < MAX_CREDIT
    /\ credit' = [credit EXCEPT ![s] = @ + 1]
    /\ Goto(At(IF Waiters(s) # {} THEN "RELEASE" ELSE "INCREMENT", s))
    /\ UNCHANGED <<kernelVars, semList>>

IncrementReads ==
    /\ pc.at = "INCREMENT"
    /\ Goto(IF semList[pc.sem].value < semList[pc.sem].maxValue
            THEN Holding("GIVE", pc.sem, semList[pc.sem].value) ELSE Idle)
    /\ UNCHANGED <<kernelVars, semList, credit>>

Give ==
    /\ pc.at = "GIVE"
    /\ semList' = [semList EXCEPT ![pc.sem].value = pc.value + 1]
    /\ Goto(Idle)
    /\ UNCHANGED <<kernelVars, credit>>

\* Releases nobody if an ISR has released the last waiter meanwhile.
Release ==
    /\ pc.at = "RELEASE"
    /\ Continue(os_task_release_waiting_task(task_list, nTasks, pc.sem))
    /\ Goto(At("SIGNAL_SEM", pc.sem))
    /\ UNCHANGED <<semList, credit>>

\* The OS_YIELD of either macro.
MacroYields ==
    /\ pc.at \in {"WAIT_SEM", "SIGNAL_SEM"}
    /\ OS_YIELD(running_tid, task_list, pc.at)
    /\ Goto(Idle)
    /\ UNCHANGED <<semList, credit>>

-----------------------------------------------------------------------------
\* A step of an ISR, at any point of a macro.
Interrupt ==
    \/ \E s \in Sem :
          /\ sem_ISR_signal(s)
          /\ credit[s] < MAX_CREDIT
          /\ credit' = [credit EXCEPT ![s] = @ + 1]
          /\ UNCHANGED pc
    \/ Clock /\ UNCHANGED <<semVars, pc, credit>>

\* A task that waited and was released goes on behind its sem_wait.
Through(s) ==
    {t \in Created : /\ task_list[t].state = "READY"
                     /\ task_list[t].internal_state = "WAIT_SEM"
                     /\ task_list[t].semaphore = s}

Dispatched ==
    /\ os_schedule
    /\ credit' = [s \in Sem |-> IF running_tid' \in Through(s)
                                THEN credit[s] - 1 ELSE credit[s]]
    /\ UNCHANGED <<semVars, pc>>

SemIsrCreate(max, initial) ==
    /\ pc = Idle
    /\ SemCreate(max, initial)
    /\ credit' = [s \in Sem |-> semList'[s].value - semList[s].value + credit[s]]
    /\ UNCHANGED pc

SemIsrNext ==
    \/ \E max \in SemMax, initial \in SemInitial : SemIsrCreate(max, initial)
    \/ pc = Idle /\ (Main \/ \E t \in Tid : TaskYield(t))
         /\ UNCHANGED <<semVars, pc, credit>>
    \/ \E t \in Tid, s \in Sem : WaitReads(t, s) \/ SignalReads(t, s)
    \/ DecrementReads \/ Take \/ SetState \/ SetSem
    \/ IncrementReads \/ Give \/ Release \/ MacroYields
    \/ Dispatched
    \/ Interrupt

SemIsrSpec == SemIsrInit /\ [][SemIsrNext]_isrVars

-----------------------------------------------------------------------------
\* Whenever the loop is about to schedule, every token that is owed is in a value
\* or with a task that was let through, and none is idle while a task waits for it
\* (OS_WAIT_SEM, OS_SIGNAL_SEM and task_wait_sem_set under ISR signals).
TokensAccounted ==
    running_tid = NO_TID =>
        /\ NoIdleToken
        /\ \A s \in Live :
              credit[s] = semList[s].value + Cardinality(Through(s))
=============================================================================
