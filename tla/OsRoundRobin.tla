---------------------------- MODULE OsRoundRobin ----------------------------
(***************************************************************************)
(* How unfair can the round robin scan of next_ready_task be?  The kernel  *)
(* with a history: bypassed[t] is how often os_schedule has picked another *)
(* task since t became READY or was last picked.                           *)
(***************************************************************************)
EXTENDS OsKernel

VARIABLE bypassed

rrVars == <<kernelVars, bypassed>>

RRInit == os_init /\ bypassed = [t \in Tid |-> 0]

\* Picking u passes over the other READY tasks; a task that is not READY has
\* nothing to be passed over for.
Pass(u) ==
    bypassed' = [t \in Tid |->
        IF t # u /\ t \in ReadyTasks(task_list, nTasks)
        THEN bypassed[t] + 1 ELSE 0]

Keep ==
    bypassed' = [t \in Tid |->
        IF t \in ReadyTasks(task_list', nTasks') THEN bypassed[t] ELSE 0]

RRNext ==
    \/ \E u \in Tid : Dispatch(u) /\ Pass(u)
    \/ /\ \/ NothingFound
          \/ Main
          \/ Clock
          \/ \E t \in Tid : TaskStep(t)
          \/ Interrupted
       /\ Keep

RRSpec == RRInit /\ [][RRNext]_rrVars

FairRRSpec == RRSpec /\ Fairness

-----------------------------------------------------------------------------
\* Between two moments at which a READY task gets the processor, or since it
\* became READY, every other task has been picked at most once, whatever is
\* created, suspended, resumed, woken or killed in between (next_ready_task).
BoundedBypass == \A t \in Created : bypassed[t] <= nTasks - 1

\* Why: being passed over moves the scan closer to t by at least one step.
ScanComesCloser ==
    \A t \in ReadyTasks(task_list, nTasks) :
        bypassed[t] + ScanSteps(nTasks, ScanStart(nTasks, last_running_task), t)
            <= nTasks - 1
=============================================================================
