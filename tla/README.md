# cocoOS in TLA+

cocoOS is a cooperative kernel for small processors: tasks are coroutines on
one stack, a loop picks the next one, and everything else (semaphores, events,
message queues, clocks) works by changing the `state` field of task control
blocks. This directory holds a model of it, written from the C sources under
`src/os/`, the TLC runs that check it on small instances, and proofs of its safety
properties, and of two refinements, for every number of tasks, semaphores, events and
queues.

## The system

| part | state | operations | meets the others through |
|---|---|---|---|
| tasks (`os_task.c`) | `task_list[N_TASKS]` of control blocks, `nTasks`, `last_running_task` | create, kill, suspend, resume, wait for time / event / semaphore, tick, signal event, the searches | every other part calls it; the tick ISR writes the same blocks |
| kernel (`os_kernel.c`, `os_reentry.h`, `os_kernel.h`) | `running`, `running_tid` | `os_init`, `os_start`, `os_schedule`, `os_tick`, `os_sub_tick`, `os_sub_nTick`, the macros `OS_BEGIN/END/YIELD/WAIT_TICKS` | runs tasks, which return to it at `OS_YIELD` |
| semaphores (`os_sem.c`, `os_sem.h`) | `semList` (value, maximum), `nSemaphores` | create, wait, signal, signal from an ISR | no queue of its own: waiters are the tasks in `WAITING_SEM` |
| events (`os_event.c`, `os_event.h`) | `eventList[].signaledByTid`, `nEvents`, `lastSignaledEvent`; a bit list in each tcb | create, wait (single, timeout, any, all), signal (task, ISR) | `os_task_wait_event`, `os_task_signal_event` |
| message queues (`os_msgqueue.c`, `os_msgqueue.h`) | per queue a ring buffer, its owner and its change event; the locals of a macro in the tcb | post (now, later, periodic), receive, tick | waits for and signals the change event; `os_task_create` makes the queue, `task_tick` ticks it |
| asserts (`os_assert.c`) | none | `os_on_assert`: loops for ever | every part |

### What is hard about it

* Everything is shared: a tick (an ISR, or a thread in the x86 platform) may
  come between any two kernel calls, and under `os_start` inside one, and changes the
  blocks the calls change.
* A task has one `state`, one `savedState` and one `time` for all purposes.
  Suspend, resume, kill, timeouts and signals arrive in any order.
* Fairness and priority rest on loops over small unsigned integers with
  sentinel values (255).
* A semaphore wait, a signal or an event wait is a macro of several calls, and a
  post or receive of a message is a loop of tries around an event wait. Events
  have no memory: a signal that comes before the wait is gone.
* The ring of a message queue is rotated by its reader while the tick counts down
  the delays in it.

What makes each part correct:

* kernel: a READY task is found; the executing task stays READY; round robin
  starves nobody; a killed task stays dead; a wait ends on the right tick.
* tasks: priorities unique; nothing saved from which a task cannot go on;
  suspension freezes.
* semaphores: no signal lost or doubled; nobody passes without a token; no
  token idle while somebody waits; the right waiter first.
* events: no signal to a waiting task lost; wait-all waits for all; a timeout
  and a signal end a wait once; the wait list has a bit for every event.
* message queues: first in first out among due messages, delays counted right,
  nothing lost or duplicated, no reader or writer left waiting beside its message
  or room.

## Modules

| module | what it models |
|---|---|
| `OsTask` | the control block, and every function of `os_task.c` on the list, as operators from list to list; the searches as the set of tasks they can end with |
| `OsKernel` | main, the scheduling loop, the clocks and the task macros of the kernel as actions over the list |
| `OsTimers` | `OsKernel` with an observer that counts ticks and due times |
| `OsRoundRobin` | `OsKernel` with a count of how often a READY task is passed over |
| `OsEvent` | `OsKernel` with the events: create, wait (one, timeout, any, all), signals of tasks and ISRs |
| `OsEventClients` | `OsEvent` with a record per task of what it asked for and heard since |
| `OsSem` | `OsKernel` with the semaphores |
| `Semaphore` | abstract semaphores: values, waiters, who was let through |
| `OsSemClients` | `OsSem` with what callers see, and the mapping to `Semaphore` |
| `OsSemIsr` | `OsSem` with the macros of tasks split into their accesses, an ISR that signals between any two, and an account of the tokens owed |
| `EventBits` | the wait list of a tcb as bytes and bits, against the set of events a wait still misses |
| `OsMsgQueue` | the ring buffer: post, receive, tick as operators from queue to queue |
| `MsgQueue` | abstract message queue: due messages in order, timed messages |
| `OsMsgRing` | one ring between posters, the steps of its reader and a tick that may interrupt them, and the mapping to `MsgQueue` |
| `OsMsgClock` | `OsMsgRing` with an observer that counts the ticks left to every message |
| `OsMsg` | `OsEvent` and `OsMsgQueue` composed: queues of tasks, the message macros and their change events, the tick through tasks and queues, with or without the lock of `os_start_locking` |
| `OsKernel_proofs`, `OsObservers_proofs`, `OsSem_proofs`, `OsEvent_proofs`, `EventBits_proofs`, `OsMsgQueue_proofs`, `OsMsgRing_proofs`, `OsMsg_proofs` | theorems; `OsObservers_proofs` has those about `OsTimers`, `OsRoundRobin` and `OsEventClients`, `OsMsgRing_proofs` those about `OsMsgClock` too |

Each detailed layer extends the one it calls: `OsTask` < `OsKernel` < `OsEvent` <
`OsMsg` and `OsKernel` < `OsSem` < `OsSemIsr`. The observers (`OsTimers`,
`OsRoundRobin`, `OsEventClients`, `OsSemClients`, `OsMsgClock`) add history variables only.

### State and actions

`task_list`, `nTasks`, `last_running_task`, `running`, `running_tid`, `semList`,
`nSemaphores`, `signaledByTid`, `nEvents` and `lastSignaledEvent` are the C variables. `loops` is the counter of the `os_start`
loop and `halted` says that the main thread is in the `while (1)` of
`os_on_assert`. A control block keeps the fields `state`, `savedState`,
`internal_state`, `time`, `clockId`, `prio`, `semaphore`, `waitSingleEvent` and
`eventQueue`. `internal_state`, a line number in C, is the macro that yielded.
`tid` is the index. `data` and `taskproc` are not modelled.

One call of the kernel by a task is one action, with all the calls it makes:
`task_wait_id` is `OS_WAIT_TICKS`, that is `os_task_wait_time_set` and the
`OS_YIELD` behind it. Tasks call whatever they want whenever they run, so the
tasks of a model are the most general program. `os_schedule` is `Dispatch`, or
`Sleep` when nothing is found. Under round robin without a single task the scan
of the code leaves `task_list`; `SchedulePastTaskList` is what it may find there.
A failed assert is `os_on_assert` in the same step.

Ticks are steps of their own, at any point between calls. Under `os_start` nothing is
masked, and a tick may also come inside a call. To `os_task_suspend` that matters: it
reads `state`, and stores `savedState` and `SUSPENDED` after the tick may have ended the
wait. `task_suspend_ticked`, enabled by `INTERRUPTS`, is the suspension of another task
with a tick between read and stores. One tick is enough: a tick that does not end the
wait might as well come before the read, and after the one that does the task is READY
and no tick touches it. The task that suspends itself is READY all along. The task is
then saved as waiting with no time left, and after its resumption waits for one tick
more, although the doc says "When the wait time has expired, the task is ready to
execute again" (`os_kernel.h:65-66`). `NotLate` names this exception. `OsTimers` and
`OsRoundRobin` have these steps; `OsSem` and `OsEvent` are built on `Undisturbed`, the
kernel without them (see "Not modelled").

`msgQList` and `nQueues` are the C variables and `msgQ[t]` is the tcb field.
`macro[t]` stands for what a message macro keeps in the tcb across its yield
(`msgResult`, `msgChangeEvent`) and for the place in its loop: a synchronous macro
tries (`MSG_Q_POST`, `MSG_Q_RECEIVE`), then, in a step of its own, waits for the
change event (`AwaitChange`), and tries again when it is dispatched (`Retry`). A try
with the signal behind it is one step: what is signalled has no effect until the task
yields. Under `LOCKING` the tick finds no task running.

In `OsMsgRing` the loop of `os_msg_receive` is taken apart: `CopyOut`, `PutBack`,
`ReceiveEnd`, with `tail` written last as in the code. Under `INTERRUPTS` the tick comes
between any two of these steps, with `os_start_locking` it cannot. A tick that
interrupts the reader runs from the old `tail` to `head`: it misses the message in the
reader's hands and, in a full ring with one message put back, every message. `MsgQueue`
allows it to miss some (`MISSES`), and only it.

In `OsSemIsr` the macro of the task that runs has a program counter `pc`, with the
value it has read. A read-modify-write of `value` is two steps, and the stores of
`state` and `semaphore` are two.

## Runs

| run | shows |
|---|---|
| `MCTimers` | fixed priorities, 3 tasks, 2 clocks: types, unique priorities, a READY task is always found, the executing task is READY, no task is saved in a state that resuming cannot end, killed is final, suspended is frozen; time left is exact, waits end neither early nor, but for a tick inside the suspension of the waiter, late; `task_wait(0)` halts |
| `MCRoundRobin` | round robin, 3 tasks, one of priority 255, a sub clock whose steps overshoot: a READY task is always found, passed over at most `nTasks` - 1 times (and why), and gets the processor; every wait for time ends |
| `MCSemPrio` | two binary semaphores, 3 tasks, ISR signals: types, no idle token, refinement of `Semaphore` |
| `MCSemRR` | round robin, one counting semaphore: the longest waiter first, refinement of `Semaphore` |
| `MCEvents` | 2 tasks, 2 events, ISR signals, timeouts: types, the wait list and the wait agree, no signal to a waiter is lost, no wait ends without a reason, `time` tells why |
| `MCMsgQueue` | a ring of 4 with delayed and periodic messages and an interrupting tick: refinement of `MsgQueue`, where such a tick may miss messages; a message that is due never goes back in the queue |
| `MCMsg` | 2 tasks with queues under `os_start_locking`: nobody waits beside a due message or beside room; a due message is received; a wait with a timeout ends |
| `MCMsgLostWake` | finding: with `os_start` a tick between a reader's try and its wait signals nobody, and the reader waits beside its message |
| `MCMsgTicks` | finding: with `os_start` a tick that interrupts `os_msg_receive` does not count the message in the reader's hands, which is then late by the master clock |
| `MCEventBits` | finding: with 17 events the list has two bytes, and the bit of event 16 survives the end of its wait |
| `MCSemIsr` | finding: an ISR signal inside a semaphore macro leaves a task waiting beside a token |
| `MCSelfKill` | finding: a task that kills itself and then waits is alive again, the doc says killed is final |

What the findings mean. `MCMsgLostWake`: the reader is woken by the next post to its
queue, so a message may be late by any time, and one posted last is never
received. `MCMsgTicks`: a delay or period may be longer by a tick for every tick that
comes inside a receive, although the docs relate both to the master clock
(`os_kernel.h:595-597`, `659-661`, `README.md:77`). The queue that `MCMsgQueue` checks
against allows that, and so says nothing of delays under such ticks: what it
promises is that nothing is lost, doubled, passed over, early or counted twice.
`OnMasterClock` is also violated with `INTERRUPTS` FALSE, by a reader that comes late for a
periodic message: the next period starts when the message is received
(`os_msgqueue.c:181`). Without interrupts delays alone are on time (`DelaysKept`).
`MCEventBits`: behind the list lie padding bytes or the data pointer of the
tcb, depending on the target; a stale bit makes the task wake for an event it no longer
waits for. `MCSemIsr`: the shortest trace has the signal between the read of the value
and the store of `WAITING_SEM`. The property is also violated by a signal between the stores of
`state` and `semaphore`, which releases the task for a signal of the semaphore it
last waited for and so lets it pass without a token, and, with `MAX_CREDIT` 2, by one
in the middle of `++value`, which loses a token. All three need an ISR that signals;
without one, `MCSemPrio` and `MCSemRR` show the macros right.

Three more disagreements with the docs have no run. A task of priority 255, which
`os_task.c:89` allows ("on a scale 0-255"), is never picked under fixed priorities: the
search starts with 255 and wants less (`os_task.c:287`). `ReadyIsDispatchable` fails
as soon as 255 is in `Prio` of such a run. The runs leave it out, and the theorems
`ReadyIsPicked` and `SemRefinement` have it as a hypothesis.
`event_last_signaled_get` ("to find out which event was signaled", `os_event.h:127-128`)
and `event_signaling_taskId_get` ("Id of task that signaled the event", "NO_TID if a timeout
occurred", `os_event.h:100-102`) read globals that any signal or wait before the
waiter runs overwrites. They change no state and are not modelled.

### Bounds

* `N_TASKS` 2 or 3: three tasks are the executing one, the one acted on and one
  that competes. The properties relate at most two tasks and the executing one.
  The theorems carry the main ones to any number.
* `TIME_MOD` stands for 2^32 and no wait in the runs comes near it. The waiting time
  of a semaphore waiter, which is incremented without a test, does wrap in the
  code ("Make sure this handles overflow properly", `os_task.c:595`): after 2^32
  ticks `LongestWaiterFirst` fails. `MAX_WAITED` below `TIME_MOD` keeps that out.
* `WaitTicks` and `NTicks` have a wait shorter than, equal to and longer than the
  steps of the clocks.
* `MAX_NOW` ends the observer's clocks of `OsTimers`. A wait of 3 ticks can be
  suspended, resumed and ended within 4, and is overshot by steps of 2 of the sub clock.
* `MAX_WAITED` bounds the ticks counted in one semaphore wait; 2 orders waiters
  by 0, 1 and 2 ticks. In `MCSemPrio` it is 0: waiting time plays
  no part in priority mode.
* `Managed` is who may be suspended, resumed and killed: two of three
  in `MCTimers` and `MCRoundRobin`, and one, of any priority, in
  the semaphore and event runs, which is enough to withdraw a waiter. None in the
  message runs: a suspended reader misses its change event, as a
  suspended waiter of any event misses a signal, and `ReaderMissesNothing` does not hold
  of it when it is resumed.
* Two events are the least for wait-all to differ from wait-any, in both orders;
  `Timeouts` has a timeout that takes more than one tick.
* `INTERRUPTS` is TRUE in `MCTimers`, `MCRoundRobin`, `MCMsgQueue` and `MCMsgTicks`. In the
  other runs the kernel steps that it adds play no part.
* `MCMsgTicks` has two messages and a delay of 2, the least that a missed tick tells
  apart; a message that is late counts no further than `DELAY_MAX`.
* `MCMsgQueue` has three usable slots and three signals, with delays of 0 to 2 ticks:
  two messages that are not due rotate around one that is, and the ring wraps.
* `MCMsg` has queues of one usable slot, which posts and receives fill and empty in
  turn, so that posters and readers wait for each other, delays of 0 and 1, and an application
  event (with a timeout) when at most one queue is created. Periods and deeper
  queues are left to `MCMsgQueue`, sub clocks (which do not touch messages) to
  the kernel runs.
* `MAX_CREDIT` bounds the tokens signalled in `OsSemIsr`, below every maximum,
  so that no signal is dropped at a full semaphore.
* 17 events in `MCEventBits` are the fewest that the list has no room for.
* `SELF_KILL` is FALSE wherever the code's own doc is not the question: a task
  that kills itself and goes on breaks `KilledIsFinal` (the run `MCSelfKill`).
* Runs over `OsTimers` and `OsSemClients` may stop: their clocks are bounded, and
  in some all tasks can be dead or waiting without a clock. In `MCMsg` a failed assert
  keeps the lock, and nothing ever happens again.

### Fairness

`Fairness` in `OsKernel` is weak fairness of `os_start` (main gets there), of
`os_schedule` (the loop of `os_start` has no exit with `tick_limit` 0), of the
blocking calls of the executing task (README: "All tasks have to make at least
one blocking call"), of `os_tick` and of each sub clock. Nothing is assumed of
suspend, resume, kill or semaphores. `ReadyRuns` needs the first three and
`WaitEnds` the clocks.
`FairMsgSpec` (`MCMsg`) has the same for `os_start`, the schedule and what a running
task sooner or later does: it yields, or goes on in its macro. The tick competes for the
lock with a loop that takes and gives it back for ever, so it is enabled
again and again and not always: strong fairness, what a mutex that starves no thread gives.

## Proofs

All theorems are about the specifications the runs check, with the `ASSUME`s
of the modules (limits of `os_defines.h`, the widths of the C types) as their only
assumptions, plus those stated in the theorem.

* `OsKernel_proofs`: what each operation makes of one control block, and that both
  searches find a task (the least of a nonempty set of naturals). `KernelInv` is
  inductive. It has the types, unique priorities,
  `TasksWellFormed` (what is saved can be resumed), that without `INTERRUPTS` a wait, also
  a saved one, has time left (`HasTimeLeft`, which a tick inside `os_task_suspend` breaks), that
  priorities are among those given to `os_task_create`, and, without self-kills,
  `ExecutingIsReady`. `KilledIsFinal` needs it because a blocking call stores a
  waiting state without looking: only the READY task executes. `ReadyIsDispatchable`
  needs the types, and that 255 is not among the priorities. `SuspendedIsFrozen` needs
  `ExecutingRuns`, the executing task is READY or KILLED and so never suspended, and
  holds with and without self-kills.
* `OsObservers_proofs`, timers: `TimerInv` says of every task that the time left in its tcb is the
  observer's due time less the reading of its clock, during a wait and while suspended in
  one, and that behind a wait the due time has passed, also for a task suspended when
  READY: without the suspended cases a resumption would break it. No task of the
  kernel alone waits for an event, so no timeout can end behind a `task_wait`. Both hold
  with ticks inside `os_task_suspend`: the time left is then 0 and so is the observer's.
* `OsObservers_proofs`, round robin (hypothesis `ROUND_ROBIN`): `RRInv` adds that picks so
  far plus steps of the scan left
  are below `nTasks`. Each pick of another task moves the scan at least one step.
* `OsObservers_proofs`, events: `ClientInv` adds to `EventInv` that the list of a waiting
  task is what its wish still misses (`WishOK`), which makes `SignalsWake` and
  `WakesForAReason` inductive, and that a wait for time never ends behind an event wait.
  `ExecutingRuns` is needed because
  `event_wait` overwrites the state of its caller without looking. The theorems hold
  with and without self-kills. `TimeTellsTimeout` has the hypothesis `~INTERRUPTS`: a wait
  with no time left would look like a timeout, and `KernelInv` has `HasTimeLeft` only then.
* `OsSem_proofs`: `SemInv` adds that waiters wait at semaphores that exist (a new
  semaphore may start with tokens) and that no kernel step adds a waiter:
  resuming cannot, since `TasksWellFormed` says that nobody is saved as one.
  For the refinement of `Semaphore`, `CallersInv` adds `ExecutingRuns`, that semaphores
  not yet created are empty, and that a wait for time is never behind
  `OS_WAIT_SEM`: the mapping takes a READY task behind that macro for one let through, so
  no other call may put one there. Each step is then shown to be a step of `Semaphore`
  or one its callers do not see. With fixed priorities nobody may have 255: the signal would
  see the waiter, not find it, and lose the token.
  `LongestFirst` adds that the observer's count of a wait is the time in the tcb
  (`WaitedOK`), which is so until 2^32 ticks have been counted: `MAX_WAITED` below `TIME_MOD`
  is its hypothesis.
* `OsEvent_proofs`: `EventInv` adds `ListIsWait` and that the executing task has an
  empty list, which holds even of a task that has killed itself. It follows from
  `ListIsWait` when the task is picked (it is READY then), and a wait only adds to the
  list, so it has to start from an empty one.
* `EventBits_proofs`: for every number of events for which the list has a byte for
  every id, the bits are the events still missed (`BitsSuffice`). This is the condition that
  `TaskAssumption` in `OsTask` makes, and what entitles `OsTask` to a set of events.
  `BitsInv` adds that no bit above the last event is set, which would keep a wait for
  all events from ever ending.
* `OsMsgQueue_proofs`: what post, receive and tick make of a ring, for every pool size:
  indices stay inside, slots between tail and head are distinct, and the slots in that
  order are a sequence to which a post appends (`StoredPut`), whose first the loop takes
  (`StoredNext`) and which a tick keeps in place (`StoredTick`).
* `OsMsgRing_proofs`: `RingInv` is inductive: the types, that no signal is twice in the
  ring (the model posts only signals that are not in it, to tell messages apart), that something
  is due while the reader is in its loop, so that `tail` never runs into `head`, and that
  there is a free slot to put back what it holds. The ring is then seen as the sequence `Contents`, of which
  the abstract state is the due messages in order (`DueIn`) and the set of the others
  (`TimedIn`): a copy or a put back is a stutter, a tick counts the set of
  those messages it reached, each once, and embeds the due ones before it in those after it
  (`Within`). `RotationFair` is about places in `Contents`. Hence `RingRefinement`, `Spec => MsgQueueSpec`, with
  no hypothesis but the pool sizes of `RingAssumption`; `MISSES` is `INTERRUPTS`, so with
  `os_start_locking` the abstract queue is the one whose ticks miss nothing. `DelaysKept`
  (hypothesis `~INTERRUPTS`) compares with the master clock: `DelaysOnTime`, which is `OnMasterClock` for
  the messages that are not periodic, is inductive with `RingInv`.
* `OsMsg_proofs`: `MsgInv` composes `EventInv` with the queues: a queue belongs to one
  task and its change event to one queue, nobody else waits for or signals that event,
  and whoever is in a macro and not suspendable has found its queue full, or
  without a due message, since the last change (`MustWait`). `UnmanagedAreWoken` says it of every
  task that may not be suspended, whatever is done to the others; the two properties
  of `MCMsg` are the case that none may be (hypothesis `Managed = {}`), as a reader
  suspended in its wait misses the change event. For readers the hypothesis `LOCKING` excludes the finding
  `MCMsgLostWake`; posters need none, no tick takes a message out.

No proof needs induction over data. That the recursive functions of the model (the turns of
`os_msg_receive`, the loop of `task_tick` over the tasks) exist, that the loop of
the receive meets a first message that is due, and that the due messages can be listed in order, is
shown by the least number for which it fails. `DueIn` takes the due messages by
their places, since the prover cannot expand `SelectSeq`.

Only model-checked: liveness (`ReadyRuns`, `WaitEnds`, `DueIsReceived`, `TimeoutEnds`), which is
beyond the prover. Every other property of a passing run is a theorem. Of the properties that the
runs with findings violate, `BitsAreMissed`, `KilledIsFinal`, `ReaderMissesNothing` and, for delays,
`OnMasterClock` are theorems under hypotheses that exclude the violation;
`TokensAccounted` (`OsSemIsr`) is not.

## Not modelled

* A signal or a timeout in the middle of an `os_task_suspend` that suspends a waiter of an
  event or semaphore: `OsSem`, `OsEvent` and `OsMsg` take the call as one step. In the code
  an event waiter is then saved as waiting with an empty list, and after it is resumed no
  signal ends its wait, only a timeout; a semaphore waiter that was let
  through is reset, and its token is lost. What the event and semaphore runs and
  theorems say of suspended tasks holds where the interrupt is masked around the call.
* A tick in the middle of the searches of `os_schedule` or of a release, which may read some
  blocks before it and some after, of `os_task_signal_event`, or of another
  tick of a sub clock.
* An ISR in the middle of an event macro: the README of the code documents the race
  and `event_wait_ex` as its remedy. In the middle of a signal of a message macro.
* A tick in the middle of the bytewise copy of a message, which may tear its delay:
  messages are copied whole.
* `tick_limit` counts schedules, whatever its name says; in the runs it is 0.
* A pool of one message: its ring has no slot to use, and the loops over it never end.
* Message signals are told apart and nothing else of their payload.
* Signals of events that were never created, an event named twice in one
  `event_wait_multiple`, and its assert: the macro adds `NO_EVENT`, so with distinct
  events the assert holds. Call backs of `event_wait_ex` and `msg_receive_ex` are empty.
* That with `N_QUEUES` above 0 `os_msgqueue.c` does not compile as it stands (it
  includes neither `os_assert.h` nor `os_kernel.h`) and that `msg_receive_async` gives its macro
  three of four arguments: both are modelled as meant.
* A task procedure without `task_open` and `task_close`, or one that returns without
  yielding: outside the rules of the README.
* Ports, mocks and tests.

## Plan

Done: kernel, timers, round robin, semaphores, events, the list of bits, semaphore macros
under interrupts, message queues and macros. Left, in this order:

1. Proofs: that `os_msg_receive` in one step (`OsMsgQueue`, used by `OsMsg`) is what the steps of
   `OsMsgRing` do undisturbed, so that `OsMsg` inherits the refinement of `MsgQueue`; tokens of `OsSemIsr`
   without the ISR.
2. Client modules: mutual exclusion by a binary semaphore; a suspended holder that is
   reset; two semaphores held in order.
3. `event_wait`, `os_task_suspend` of waiters of events and semaphores, and the scheduling loop
   split into their accesses, as `OsSemIsr` is.
