------------------------------- MODULE OsMsg -------------------------------
(***************************************************************************)
(* Message passing between tasks: the macros msg_post, msg_post_in,        *)
(* msg_post_every, msg_receive and their async forms (os_msgqueue.h,       *)
(* os_kernel.h) over the queues, their change events, the tasks and the    *)
(* master clock.                                                           *)
(*                                                                         *)
(* A macro tries, and if it must wait it waits for the change event of the *)
(* queue and tries again when it runs: two kernel calls, with a tick       *)
(* between them under os_start but not under os_start_locking.  The change *)
(* event is signalled by every post and receive, and by the tick when a    *)
(* delay ends; it has no memory.                                           *)
(***************************************************************************)
EXTENDS OsEvent, OsMsgQueue

CONSTANTS
    N_QUEUES,   \* capacity of msgQList
    PoolSizes,  \* pool sizes given to os_task_create; 0 for no queue
    Delays,     \* delays given to msg_post_in; 0 is msg_post
    Periods,    \* periods given to msg_post_every
    LOCKING     \* TRUE: os_start_locking; FALSE: os_start

NO_QUEUE == 255

ASSUME MsgAssumption ==
    /\ N_QUEUES \in 0 .. N_TOTAL_EVENTS
    /\ PoolSizes \subseteq (0 .. 255) \ {1}
    /\ Signal # {}
    /\ DELAY_MAX \in Nat
    /\ Delays \subseteq 0 .. DELAY_MAX
    /\ Periods \subseteq 1 .. DELAY_MAX
    /\ LOCKING \in BOOLEAN

VARIABLES
    msgQList,  \* [q, taskId, change] of each queue
    nQueues,
    msgQ,      \* tcb.msgQ: the queue of each task
    macro      \* the message macro each task is inside of

msgVars == <<msgQList, nQueues, msgQ, macro>>
allVars == <<evVars, msgVars>>

Queue  == 0 .. N_QUEUES - 1
LiveQ  == {i \in Queue : i < nQueues}

\* <<delay, period>> of msg_post, msg_post_in and msg_post_every.
Posts == {<<delay, 0>> : delay \in Delays} \cup {<<period, period>> : period \in Periods}

\* Not in a macro; inside one that posts or receives, about to try or to wait.
Outside == [call |-> "NONE", at |-> "NONE"]
Receiving(at) == [call |-> "RECEIVE", at |-> at]
Posting(at, u, s, p) ==
    [call |-> "POST", at |-> at, to |-> u, signal |-> s, post |-> p]

Macro ==
    {Outside} \cup {Receiving(at) : at \in {"TRY", "WAIT"}}
      \cup {Posting(at, u, s, p) : at \in {"TRY", "WAIT"}, u \in Tid,
                                   s \in Signal, p \in Posts}

EmptyList == [list |-> <<>>, head |-> 0, tail |-> 0, size |-> 0]

MsgTypeOK ==
    /\ EventTypeOK
    /\ nQueues \in 0 .. N_QUEUES
    /\ \A i \in Queue :
          /\ msgQList[i].taskId \in Tid \cup {0}
          /\ msgQList[i].change \in Event \cup {0}
          /\ i < nQueues => msgQList[i].q \in OSQueue_t(msgQList[i].q.size)
    /\ msgQ \in [Tid -> Queue \cup {NO_QUEUE}]
    /\ macro \in [Tid -> Macro]

os_msgQ_init ==
    /\ msgQList = [i \in Queue |-> [q |-> EmptyList, taskId |-> 0, change |-> 0]]
    /\ nQueues = 0
    /\ msgQ = [t \in Tid |-> NO_QUEUE]
    /\ macro = [t \in Tid |-> Outside]

MsgInit == EventInit /\ os_msgQ_init

-----------------------------------------------------------------------------
(* main() *)

\* os_msgQ_create with the event_create it makes, and its two asserts.
HasRoom == nQueues < N_QUEUES /\ nEvents < N_TOTAL_EVENTS

\* Message pools are static in the code's own examples: zero at first.
os_msgQ_create(poolSize) ==
    LET m == [signal |-> CHOOSE s \in Signal : TRUE, delay |-> 0, reload |-> 0]
    IN  /\ msgQList' = [msgQList EXCEPT ![nQueues] =
              [q |-> CreatedQueue(poolSize, m), taskId |-> nTasks,
               change |-> nEvents]]
        /\ msgQ' = [msgQ EXCEPT ![nTasks] = nQueues]
        /\ nQueues' = nQueues + 1
        /\ signaledByTid' = [signaledByTid EXCEPT ![nEvents] = NO_TID]
        /\ nEvents' = nEvents + 1
        /\ UNCHANGED <<lastSignaledEvent, macro>>

\* No task is inside a message macro.
Outsider == running_tid # NO_TID => macro[running_tid] = Outside

\* os_task_create with a message pool of poolSize messages.
MsgTaskCreate(prio, poolSize) ==
    /\ Outsider
    /\ IF poolSize = 0 \/ ~MayCreate(prio)
       THEN TaskCreate(prio) /\ UNCHANGED <<eventVars, msgVars>>
       ELSE IF HasRoom
       THEN TaskCreate(prio) /\ os_msgQ_create(poolSize)
       ELSE MainThread /\ os_on_assert /\ UNCHANGED <<eventVars, msgVars>>

-----------------------------------------------------------------------------
(* The master clock *)

\* The tick finds no task running if the scheduling loop holds the lock.
MayTick == LOCKING => running_tid = NO_TID

ExpiringTasks ==
    {t \in Created : msgQ[t] # NO_QUEUE /\ Expires(msgQList[msgQ[t]].q)}

ChangeOf(t) == msgQList[msgQ[t]].change

\* Mutant of TickedTasks: the change event is not signalled.
TickedTasks_Silent == task_tick(task_list, nTasks, 0, 1)

\* The task list after task_tick has been through the first i tasks: each one is
\* ticked, then its queue, which signals the change event in between.
TickedTasks ==
    LET after[i \in 0 .. N_TASKS] ==
          IF i = 0 THEN task_list
          ELSE LET t  == i - 1
                   tl == IF t \in Created
                         THEN [after[t] EXCEPT ![t] = Ticked(@, 0, 1)]
                         ELSE after[t]
               IN  IF t \in ExpiringTasks
                   THEN os_task_signal_event(tl, nTasks, ChangeOf(t)) ELSE tl
    IN  after[N_TASKS]

msg_tick ==
    /\ MayTick
    /\ task_list' = TickedTasks
    /\ msgQList' = [i \in Queue |->
          IF \E t \in Created : msgQ[t] = i
          THEN [msgQList[i] EXCEPT !.q = os_msgQ_tick(@)] ELSE msgQList[i]]
    /\ signaledByTid' = [e \in Event |->
          IF \E t \in ExpiringTasks : ChangeOf(t) = e THEN ISR_TID
                                                      ELSE signaledByTid[e]]
    /\ lastSignaledEvent' =
          IF ExpiringTasks = {} THEN lastSignaledEvent
          ELSE ChangeOf(CHOOSE t \in ExpiringTasks :
                            \A u \in ExpiringTasks : u <= t)
    /\ UNCHANGED <<nTasks, last_running_task, running, running_tid, loops,
                   halted, nEvents, nQueues, msgQ, macro>>

-----------------------------------------------------------------------------
(* The macros *)

\* os_msgQ_find: the first queue of task u, if it has one.
os_msgQ_find(u) ==
    IF \E i \in LiveQ : msgQList[i].taskId = u
    THEN CHOOSE i \in LiveQ :
            /\ msgQList[i].taskId = u
            /\ \A j \in LiveQ : msgQList[j].taskId = u => i <= j
    ELSE NO_QUEUE

\* Mutant of Succeeds: only the poster or reader that changed the queue knows.
Succeeds_Silent(t, i, r) ==
    /\ msgQList' = [msgQList EXCEPT ![i].q = r]
    /\ macro' = [macro EXCEPT ![t] = Outside]
    /\ UNCHANGED <<kernelVars, eventVars, nQueues, msgQ>>

\* The queue is r now, its change event is signalled and the task goes on.
Succeeds(t, i, r) ==
    LET e == msgQList[i].change
    IN  /\ msgQList' = [msgQList EXCEPT ![i].q = r]
        /\ macro' = [macro EXCEPT ![t] = Outside]
        /\ Continue(os_task_signal_event(task_list, nTasks, e))
        /\ lastSignaledEvent' = e
        /\ signaledByTid' = [signaledByTid EXCEPT ![e] = t]
        /\ UNCHANGED <<nEvents, nQueues, msgQ>>

\* Nothing has changed but where the task is in its procedure.
Goes(t, m) ==
    /\ macro' = [macro EXCEPT ![t] = m]
    /\ UNCHANGED <<evVars, msgQList, nQueues, msgQ>>

\* os_msg_post in the loop of OS_MSG_Q_POST.
TryPost(t, u, s, p, async) ==
    LET i == os_msgQ_find(u)
    IN  CASE i = NO_QUEUE -> Goes(t, Outside)
          [] i # NO_QUEUE /\ ~Full(msgQList[i].q) ->
                Succeeds(t, i, os_msg_post(msgQList[i].q, s, p[1], p[2]))
          [] i # NO_QUEUE /\ Full(msgQList[i].q) ->
                Goes(t, IF async THEN Outside ELSE Posting("WAIT", u, s, p))

\* os_msg_receive in the loop of OS_MSG_Q_RECEIVE: task_id is the caller's own
\* ("id of the current task").
TryReceive(t, async) ==
    LET i == os_msgQ_find(t)
    IN  CASE i = NO_QUEUE -> Goes(t, Outside)
          [] i # NO_QUEUE /\ ~MsgQAllDelayed(msgQList[i].q) ->
                Succeeds(t, i, os_msg_receive(msgQList[i].q))
          [] i # NO_QUEUE /\ MsgQAllDelayed(msgQList[i].q) ->
                Goes(t, IF async THEN Outside ELSE Receiving("WAIT"))

MSG_Q_POST(t, u, s, p, async) ==
    /\ Executing(t)
    /\ macro[t] = Outside
    /\ TryPost(t, u, s, p, async)

MSG_Q_RECEIVE(t, async) ==
    /\ Executing(t)
    /\ macro[t] = Outside
    /\ TryReceive(t, async)

\* The task runs again behind the event_wait of its macro: msg_result still says
\* FULL or EMPTY, so it tries again.
Retry(t) ==
    /\ Executing(t)
    /\ macro[t].at = "TRY"
    /\ IF macro[t].call = "RECEIVE" THEN TryReceive(t, FALSE)
       ELSE TryPost(t, macro[t].to, macro[t].signal, macro[t].post, FALSE)

ChangeEvent(t) ==
    msgQList[os_msgQ_find(IF macro[t].call = "RECEIVE" THEN t ELSE macro[t].to)]
        .change

\* The event_wait of the macro.
AwaitChange(t) ==
    /\ Executing(t)
    /\ macro[t].at = "WAIT"
    /\ event_wait(t, ChangeEvent(t))
    /\ macro' = [macro EXCEPT ![t].at = "TRY"]
    /\ UNCHANGED <<msgQList, nQueues, msgQ>>

-----------------------------------------------------------------------------
\* An event that is not the change event of a queue.
AppEvent == {e \in LiveEv : \A i \in LiveQ : msgQList[i].change # e}

MsgMain ==
    \/ os_start /\ UNCHANGED <<eventVars, msgVars>>
    \/ running = 0 /\ event_create /\ UNCHANGED msgVars
    \/ \E prio \in Prio, poolSize \in PoolSizes : MsgTaskCreate(prio, poolSize)

\* Calls outside of a message macro; only those of app events are made here.
AppCall(t) ==
    \E e \in AppEvent :
        \/ event_signal(t, e)
        \/ \E timeout \in Timeouts : event_wait_timeout(t, e, timeout)

MsgTaskStep(t) ==
    /\ macro[t] = Outside
    /\ (TaskStep(t) /\ UNCHANGED eventVars) \/ AppCall(t)
    /\ UNCHANGED msgVars

MsgStart(t) ==
    \E async \in BOOLEAN :
        \/ MSG_Q_RECEIVE(t, async)
        \/ \E u \in Created, s \in Signal, p \in Posts :
              MSG_Q_POST(t, u, s, p, async)

\* What a task sooner or later does once it has the processor: it yields, or goes
\* on in its macro.
MsgProgress(t) ==
    \/ MsgTaskStep(t) /\ running_tid' = NO_TID
    \/ Retry(t)
    \/ AwaitChange(t)

MsgSchedule == os_schedule /\ UNCHANGED <<eventVars, msgVars>>

MsgNext ==
    \/ MsgMain
    \/ MsgSchedule
    \/ msg_tick
    \/ \E t \in Tid : MsgTaskStep(t) \/ MsgStart(t) \/ Retry(t) \/ AwaitChange(t)

MsgSpec == MsgInit /\ [][MsgNext]_allVars

\* As Fairness in OsKernel: the loop schedules, and the task that runs goes on in
\* its macro or gives the processor back.  The tick needs the lock that the loop
\* takes again and again, so it is strongly fair.
FairMsgSpec ==
    /\ MsgSpec
    /\ WF_allVars(os_start /\ UNCHANGED <<eventVars, msgVars>>)
    /\ WF_allVars(MsgSchedule)
    /\ WF_allVars(\E t \in Tid : MsgProgress(t))
    /\ SF_allVars(msg_tick)

-----------------------------------------------------------------------------
HasDue(t) == /\ os_msgQ_find(t) # NO_QUEUE
             /\ ~MsgQAllDelayed(msgQList[os_msgQ_find(t)].q)

WaitsIn(t, call) == macro[t].call = call /\ task_list[t].state = "WAITING_EVENT"

\* No wake-up of a reader is lost: it does not wait while its queue holds a message
\* that is due, whoever posted it, took others or let its delay end, and in
\* whichever order (OS_MSG_Q_RECEIVE, os_msgQ_tick).
ReaderMissesNothing ==
    \A t \in Created : WaitsIn(t, "RECEIVE") => ~HasDue(t)

\* Nor of a poster: it waits only while the queue is full (OS_MSG_Q_POST).
PosterMissesNothing ==
    \A t \in Created : WaitsIn(t, "POST") =>
        Full(msgQList[os_msgQ_find(macro[t].to)].q)

\* A task inside a synchronous receive with a message that is due gets it: the
\* wake-up, the schedule and the second try all come.
DueIsReceived ==
    \A t \in Tid : (macro[t].call = "RECEIVE" /\ HasDue(t)
                       /\ task_list[t].state \notin {"SUSPENDED", "KILLED"})
        ~> \/ macro[t].call # "RECEIVE"
           \/ task_list[t].state \in {"SUSPENDED", "KILLED"}
           \/ halted

\* A wait with a timeout does not last for ever, whether the event comes or the
\* clock runs out (event_wait_timeout), with messages and their ticks in between.
TimeoutEnds ==
    \A t \in Tid : (task_list[t].state = "WAITING_EVENT_TIMEOUT")
        ~> (task_list[t].state # "WAITING_EVENT_TIMEOUT" \/ halted)
=============================================================================
