-------------------------- MODULE OsObservers_proofs --------------------------
(***************************************************************************)
(* Theorems about what observers of the kernel and of the events record,   *)
(* each for every number of tasks.                                         *)
(*                                                                         *)
(* OsTimers: for every set of clocks, any waits and step sizes and any     *)
(* suspensions in between, a wait lasts exactly the ticks it was asked to  *)
(* last.                                                                   *)
(* OsRoundRobin: how often round robin passes over a READY task.           *)
(* OsEventClients: for every number of events and any timeouts, no signal  *)
(* to a waiter is lost, no wait ends without a reason, and time tells      *)
(* whether it expired.                                                     *)
(***************************************************************************)
EXTENDS OsTimers, OsRoundRobin, OsEventClients, OsEvent_proofs

-----------------------------------------------------------------------------
(* OsTimers *)

\* The task is in a wait for time, or will be again when resumed.
InWait(tcb) ==
    \/ tcb.state = "WAITING_TIME"
    \/ tcb.state = "SUSPENDED" /\ tcb.savedState = "WAITING_TIME"

\* Its last yield was a wait for time, and it goes on behind it, or will when
\* resumed.
Returned(tcb) ==
    /\ tcb.internal_state = "WAIT_TICKS"
    /\ \/ tcb.state = "READY"
       \/ tcb.state = "SUSPENDED" /\ tcb.savedState = "READY"

\* What is left until d at the reading n.
Left(d, n) == IF n < d THEN d - n ELSE 0

\* What holds of one control block when the clocks read nw and the last wait of
\* the task is to end at d.  No task waits for anything but time.
BlockOK(tcb, nw, d) ==
    /\ tcb.state \in {"READY", "KILLED", "SUSPENDED", "WAITING_TIME"}
    /\ tcb.savedState \in {"READY", "WAITING_TIME"}
    /\ InWait(tcb) => /\ tcb.clockId \in AllClocks
                      /\ tcb.time = Left(d, nw[tcb.clockId])
    /\ Returned(tcb) => /\ tcb.clockId \in AllClocks
                        /\ nw[tcb.clockId] >= d

BlocksOK == \A t \in Created : BlockOK(task_list[t], now, due[t])

\* The inductive invariant.
TimerInv ==
    /\ KernelInv
    /\ now \in [AllClocks -> Nat]
    /\ due \in [Tid -> Nat]
    /\ BlocksOK

\* The clock ids the observer follows fit the uint8_t of the tcb.
LEMMA ClockFacts ==
    /\ 0 \in AllClocks
    /\ \A c \in Clocks : c \in AllClocks
    /\ \A c \in AllClocks : c \in ClockId
BY KernelAssumption DEF AllClocks, ClockId

-----------------------------------------------------------------------------
(* One control block *)

\* os_task_create
LEMMA CreatedTimes ==
    ASSUME NEW tcb \in TCB, NEW prio, NEW nw, NEW d
    PROVE  BlockOK(CreatedTCB(tcb, prio), nw, d)
<1> DEFINE r == [tcb EXCEPT !.prio = prio, !.state = "READY",
                            !.savedState = "READY", !.semaphore = 0,
                            !.internal_state = "TOP", !.time = 0]
<1>1. /\ r.state = "READY" /\ r.savedState = "READY"
      /\ r.internal_state = "TOP"
      /\ Cleared(r).state = r.state
      /\ Cleared(r).savedState = r.savedState
      /\ Cleared(r).internal_state = r.internal_state
  BY DEF TCB, Cleared
<1>2. CreatedTCB(tcb, prio) = Cleared(r)
  BY DEF CreatedTCB
<1> HIDE DEF r
<1> QED
  BY <1>1, <1>2 DEF BlockOK, InWait, Returned

\* os_task_suspend: the wait goes on in the saved state, the time stays.
LEMMA SuspendedTimes ==
    ASSUME NEW tcb \in TCB, NEW nw, NEW d, BlockOK(tcb, nw, d)
    PROVE  BlockOK(Suspended(tcb), nw, d)
<1>1. CASE tcb.state \in {"KILLED", "SUSPENDED"}
  BY <1>1 DEF Suspended, SuspendedFrom
<1>2. CASE tcb.state \in {"READY", "WAITING_TIME"}
  <2>1. Suspended(tcb)
          = [tcb EXCEPT !.savedState = tcb.state, !.state = "SUSPENDED"]
    BY <1>2 DEF Suspended, SuspendedFrom
  <2> QED
    BY <1>2, <2>1 DEF BlockOK, InWait, Returned, TCB
<1> QED
  BY <1>1, <1>2 DEF BlockOK

\* os_task_resume: the state the task comes back to is the saved one.
LEMMA ResumedTimes ==
    ASSUME NEW tcb \in TCB, NEW nw, NEW d, BlockOK(tcb, nw, d)
    PROVE  BlockOK(Resumed(tcb), nw, d)
BY DEF Resumed, BlockOK, InWait, Returned, TCB

\* os_task_kill: a killed task is in no wait, nor behind one.
LEMMA KilledTimes ==
    ASSUME NEW tcb \in TCB, NEW nw, NEW d, BlockOK(tcb, nw, d)
    PROVE  BlockOK([tcb EXCEPT !.state = "KILLED"], nw, d)
BY DEF BlockOK, InWait, Returned, TCB

\* os_task_internal_state_set of every macro but task_wait.
LEMMA YieldedTimes ==
    ASSUME NEW tcb \in TCB, NEW nw, NEW d, BlockOK(tcb, nw, d),
           NEW point \in YieldPoint, point # "WAIT_TICKS"
    PROVE  BlockOK([tcb EXCEPT !.internal_state = point], nw, d)
BY DEF BlockOK, InWait, Returned, TCB

\* task_wait: the time asked for is what the clock has to go.
LEMMA WaitingTimes ==
    ASSUME NEW tcb \in TCB, NEW nw \in [AllClocks -> Nat], NEW d,
           BlockOK(tcb, nw, d), NEW id \in AllClocks, NEW ticks \in Time,
           NEW e, e = nw[id] + ticks
    PROVE  BlockOK([WaitingTime(tcb, id, ticks)
                      EXCEPT !.internal_state = "WAIT_TICKS"], nw, e)
<1> DEFINE r == [WaitingTime(tcb, id, ticks)
                   EXCEPT !.internal_state = "WAIT_TICKS"]
<1>1. /\ r.state = "WAITING_TIME" /\ r.savedState = tcb.savedState
      /\ r.clockId = id /\ r.time = ticks
  BY DEF WaitingTime, TCB
<1>2. ticks \in Int /\ nw[id] \in Int
  BY TaskAssumption DEF Time
<1>3. ticks = Left(e, nw[id])
  BY <1>2, TaskAssumption DEF Left, Time
<1> HIDE DEF r
<1>4. BlockOK(r, nw, e)
  BY <1>1, <1>3 DEF BlockOK, InWait, Returned
<1> QED
  BY <1>4 DEF r

\* Clock id has gone on by size, and with it the due time of a suspended wait.
Advanced(mw, nw, id, size) ==
    /\ mw[id] = nw[id] + size
    /\ \A c \in AllClocks \ {id} : mw[c] = nw[c]

MovedOn(e, d, tcb, id, size) ==
    e = IF InWait(tcb) /\ tcb.state = "SUSPENDED" /\ tcb.clockId = id
        THEN d + size ELSE d

\* task_tick: what a running wait loses its clock gains, a suspended one is
\* moved on by the observer.
LEMMA TickedTimes ==
    ASSUME NEW tcb \in TCB, NEW nw \in [AllClocks -> Nat], NEW d \in Nat,
           BlockOK(tcb, nw, d), NEW id \in AllClocks, NEW size \in Nat,
           NEW mw, Advanced(mw, nw, id, size), NEW e \in Nat,
           MovedOn(e, d, tcb, id, size)
    PROVE  /\ BlockOK(Ticked(tcb, id, size), mw, e)
           /\ tcb.state # "WAITING_TIME" => Ticked(tcb, id, size) = tcb
           /\ tcb.state = "WAITING_TIME" =>
                \/ Ticked(tcb, id, size).state = "WAITING_TIME"
                \/ /\ Ticked(tcb, id, size).time = 0
                   /\ Ticked(tcb, id, size).clockId = id
                   /\ nw[id] + size >= e
<1> DEFINE r  == Ticked(tcb, id, size)
<1>1. /\ mw[id] = nw[id] + size /\ nw[id] \in Nat
      /\ \A c \in AllClocks : mw[c] \in Nat /\ nw[c] \in Nat /\ mw[c] >= nw[c]
      /\ \A c \in AllClocks \ {id} : mw[c] = nw[c]
      /\ e = IF InWait(tcb) /\ tcb.state = "SUSPENDED" /\ tcb.clockId = id
             THEN d + size ELSE d
  BY DEF Advanced, MovedOn
<1>2. tcb.time \in Int
  BY DEF TCB, Time
<1>3. CASE tcb.state = "WAITING_TIME" /\ tcb.clockId = id /\ tcb.time > size
  <2>1. r = [tcb EXCEPT !.time = tcb.time - size]
    BY <1>2, <1>3 DEF Ticked, TimedState
  <2>2. /\ r.state = "WAITING_TIME" /\ r.savedState = tcb.savedState
        /\ r.clockId = id /\ r.time = tcb.time - size
    BY <1>3, <2>1 DEF TCB
  <2>3. e = d /\ tcb.time = Left(d, nw[id])
    BY <1>1, <1>3 DEF BlockOK, InWait
  <2>4. r.time = Left(e, mw[id])
    BY <1>1, <1>2, <1>3, <2>2, <2>3 DEF Left
  <2> HIDE DEF r
  <2>5. BlockOK(r, mw, e)
    BY <2>2, <2>4 DEF BlockOK, InWait, Returned
  <2> QED
    BY <1>3, <2>2, <2>5 DEF r
<1>4. CASE tcb.state = "WAITING_TIME" /\ tcb.clockId = id /\ ~(tcb.time > size)
  <2>1. r = [tcb EXCEPT !.time = 0, !.state = "READY"]
    BY <1>2, <1>4 DEF Ticked, TimedState
  <2>2. /\ r.state = "READY" /\ r.savedState = tcb.savedState
        /\ r.clockId = id /\ r.time = 0
    BY <1>4, <2>1 DEF TCB
  <2>3. e = d /\ tcb.time = Left(d, nw[id])
    BY <1>1, <1>4 DEF BlockOK, InWait
  <2>4. mw[id] >= e
    BY <1>1, <1>2, <1>4, <2>3 DEF Left
  <2> HIDE DEF r
  <2>5. BlockOK(r, mw, e)
    BY <2>2, <2>4 DEF BlockOK, InWait, Returned
  <2>6. nw[id] + size >= e
    BY <1>1, <2>4
  <2> QED
    BY <1>4, <2>2, <2>5, <2>6 DEF r
<1>5. CASE ~(tcb.state = "WAITING_TIME" /\ tcb.clockId = id)
  <2>1. r = tcb
    BY <1>5 DEF Ticked, TimedState, BlockOK
  <2>2. InWait(tcb) => tcb.time = Left(e, mw[tcb.clockId])
    <3>1. CASE InWait(tcb) /\ tcb.state = "SUSPENDED" /\ tcb.clockId = id
      BY <1>1, <1>2, <3>1 DEF BlockOK, Left
    <3>2. CASE InWait(tcb) /\ ~(tcb.state = "SUSPENDED" /\ tcb.clockId = id)
      BY <1>1, <1>5, <3>2 DEF BlockOK, InWait, Left
    <3> QED
      BY <3>1, <3>2
  <2>3. Returned(tcb) => mw[tcb.clockId] >= e
    <3>1. Returned(tcb) => e = d
      BY <1>1 DEF Returned, InWait
    <3> QED
      BY <1>1, <3>1 DEF BlockOK
  <2> HIDE DEF r
  <2>4. BlockOK(tcb, mw, e)
    BY <2>2, <2>3 DEF BlockOK
  <2> QED
    BY <2>1, <2>4 DEF r
<1> QED
  BY <1>3, <1>4, <1>5

\* os_task_suspend with a tick inside: a wait that the tick ends is saved all the
\* same, with nothing left.
LEMMA SuspendTickedTimes ==
    ASSUME NEW tcb \in TCB, NEW nw \in [AllClocks -> Nat], NEW d \in Nat,
           BlockOK(tcb, nw, d), NEW id \in AllClocks, NEW size \in Nat,
           NEW mw, Advanced(mw, nw, id, size), NEW e \in Nat,
           MovedOn(e, d, tcb, id, size)
    PROVE  BlockOK(SuspendedFrom(Ticked(tcb, id, size), tcb.state), mw, e)
<1> DEFINE q  == Ticked(tcb, id, size)
<1>1. /\ BlockOK(q, mw, e)
      /\ tcb.state # "WAITING_TIME" => q = tcb
      /\ tcb.state = "WAITING_TIME" =>
           \/ q.state = "WAITING_TIME"
           \/ q.time = 0 /\ q.clockId = id /\ nw[id] + size >= e
  BY TickedTimes
<1>2. q \in TCB
  BY ClockFacts, TickedFacts
<1>3. mw[id] = nw[id] + size /\ mw[id] \in Nat
  BY DEF Advanced
<1> HIDE DEF q
<1>4. CASE tcb.state \in {"KILLED", "SUSPENDED"}
  BY <1>1, <1>4 DEF SuspendedFrom, q
<1>5. CASE tcb.state \in {"READY", "WAITING_TIME"}
  <2> DEFINE r == [q EXCEPT !.savedState = tcb.state, !.state = "SUSPENDED"]
  <2>1. SuspendedFrom(q, tcb.state) = r
    BY <1>5 DEF SuspendedFrom
  <2>2. /\ r.state = "SUSPENDED" /\ r.savedState = tcb.state
        /\ r.clockId = q.clockId /\ r.time = q.time
        /\ r.internal_state = q.internal_state
    BY <1>2 DEF TCB
  <2> HIDE DEF r
  <2>3. ASSUME tcb.state = "READY" PROVE BlockOK(r, mw, e)
    <3>1. q.state = "READY" /\ (Returned(r) => Returned(q)) /\ ~InWait(r)
      BY <1>1, <2>2, <2>3 DEF InWait, Returned
    <3>2. Returned(q) => q.clockId \in AllClocks /\ mw[q.clockId] >= e
      BY <1>1 DEF BlockOK
    <3>3. Returned(r) => r.clockId \in AllClocks /\ mw[r.clockId] >= e
      BY <2>2, <3>1, <3>2
    <3> QED
      BY <2>2, <2>3, <3>1, <3>3 DEF BlockOK
  <2>4. ASSUME tcb.state = "WAITING_TIME" PROVE BlockOK(r, mw, e)
    <3>1. q.clockId \in AllClocks /\ q.time = Left(e, mw[q.clockId])
      <4>1. CASE q.state = "WAITING_TIME"
        BY <1>1, <4>1 DEF BlockOK, InWait
      <4>2. CASE q.time = 0 /\ q.clockId = id /\ nw[id] + size >= e
        BY <1>3, <4>2 DEF Left
      <4> QED
        BY <1>1, <2>4, <4>1, <4>2
    <3>2. ~Returned(r)
      BY <2>2, <2>4 DEF Returned
    <3>3. r.clockId \in AllClocks /\ r.time = Left(e, mw[r.clockId])
      BY <2>2, <3>1
    <3> QED
      BY <2>2, <2>4, <3>2, <3>3 DEF BlockOK
  <2> QED
    BY <1>5, <2>1, <2>3, <2>4 DEF q
<1> QED
  BY <1>4, <1>5 DEF BlockOK

-----------------------------------------------------------------------------
(* One step *)

\* os_init, before any wait.
LEMMA TimersInitInv == TimersInit => TimerInv
<1> SUFFICES ASSUME TimersInit PROVE TimerInv
  OBVIOUS
<1>1. KernelInv
  BY InitInv DEF TimersInit
<1>2. Created = {}
  BY TidFacts DEF TimersInit, os_init, Created
<1> QED
  BY <1>1, <1>2 DEF TimersInit, TimerInv, BlocksOK

\* Every step is one of the kernel: the observer forbids none but ticks past
\* its bound.
LEMMA TimersStepKernel ==
    ASSUME TimerInv, [TimersNext]_timerVars
    PROVE  [KernelNext]_kernelVars /\ KernelInv'
<1>1. [KernelNext]_kernelVars
  <2>1. CASE \/ os_tick /\ Advance(0, 1)
             \/ \E c \in Clocks, size \in NTicks :
                  os_sub_nTick(c, size) /\ Advance(c, size)
    BY <2>1 DEF KernelNext, Undisturbed, Clock
  <2>2. CASE \E t \in Tid, c \in Clocks, ticks \in WaitTicks :
               task_wait_id(t, c, ticks)
    BY <2>2 DEF KernelNext, Undisturbed, TaskStep, TaskYield
  <2>5. CASE \E t, u \in Tid, k \in TickKinds : task_suspend_ticked(t, u, k[1], k[2])
    BY <2>5 DEF KernelNext, Interrupted
  <2>3. CASE \/ Main
             \/ os_schedule
             \/ \E t \in Tid : \/ TaskCall(t)
                               \/ task_suspend(t, t)
                               \/ task_resume(t, t)
                               \/ task_close(t)
    BY <2>3 DEF KernelNext, Undisturbed, TaskStep, TaskYield
  <2>4. CASE UNCHANGED timerVars
    BY <2>4 DEF timerVars
  <2> QED
    BY <2>1, <2>2, <2>3, <2>4, <2>5 DEF TimersNext
<1> QED
  BY <1>1, StepInv DEF TimerInv, StepOK

\* A step on which no clock ticks and no wait starts.
LEMMA SameTimes ==
    ASSUME TimerInv, UNCHANGED <<nTasks, now, due>>,
           \A u \in Created : BlockOK(task_list'[u], now, due[u])
    PROVE  BlocksOK'
BY DEF BlocksOK, Created

\* What a tick leaves of a control block, inside an os_task_suspend of it or not.
Ticks(r, tcb, id, size) ==
    \/ r = Ticked(tcb, id, size)
    \/ INTERRUPTS /\ r = SuspendedFrom(Ticked(tcb, id, size), tcb.state)

\* A step on which clock id ticks.
ClockStep(id, size) ==
    /\ \A t \in Created : Ticks(task_list'[t], task_list[t], id, size)
    /\ nTasks' = nTasks
    /\ Advance(id, size)

\* The steps on which a clock advances.
LEMMA TickSteps ==
    ASSUME \/ os_tick /\ Advance(0, 1)
           \/ \E c \in Clocks, size \in NTicks :
                os_sub_nTick(c, size) /\ Advance(c, size)
           \/ \E t, u \in Tid, k \in TickKinds :
                task_suspend_ticked(t, u, k[1], k[2]) /\ Advance(k[1], k[2])
    PROVE  \E id \in AllClocks, size \in Nat : ClockStep(id, size)
<1>1. ASSUME NEW id \in AllClocks, NEW size \in Nat, Tick(id, size), Advance(id, size)
      PROVE  ClockStep(id, size)
  BY <1>1 DEF Tick, task_tick, ClockStep, Ticks, Created
<1>2. ASSUME NEW t \in Tid, NEW u \in Tid, NEW k \in TickKinds,
             task_suspend_ticked(t, u, k[1], k[2]), Advance(k[1], k[2])
      PROVE  \E id \in AllClocks, size \in Nat : ClockStep(id, size)
  <2>1. /\ <<0, 1>>[1] \in AllClocks /\ <<0, 1>>[2] \in Nat
        /\ \A j \in (Clocks \ {0}) \X NTicks : j[1] \in Clocks /\ j[2] \in NTicks
    BY ClockFacts
  <2>2. k[1] \in AllClocks /\ k[2] \in Nat
    BY <2>1, ClockFacts, KernelAssumption DEF TickKinds
  <2>3. PICK id \in AllClocks, size \in Nat : id = k[1] /\ size = k[2]
    BY <2>2
  <2>4. /\ INTERRUPTS /\ nTasks' = nTasks
        /\ task_list' = os_task_suspend_ticked(task_list, nTasks, u, id, size)
        /\ Advance(id, size)
    BY <1>2, <2>3 DEF task_suspend_ticked, Continue
  <2>5. \A v \in Created : Ticks(task_list'[v], task_list[v], id, size)
    BY <2>4 DEF os_task_suspend_ticked, task_tick, Ticks, Created
  <2> QED
    BY <2>4, <2>5 DEF ClockStep
<1>3. CASE os_tick /\ Advance(0, 1)
  BY <1>1, <1>3, ClockFacts DEF os_tick
<1>4. ASSUME NEW c \in Clocks, NEW size \in NTicks,
             os_sub_nTick(c, size), Advance(c, size)
      PROVE  \E id \in AllClocks, n \in Nat : ClockStep(id, n)
  BY <1>1, <1>4, ClockFacts, KernelAssumption DEF os_sub_nTick
<1> QED
  BY <1>2, <1>3, <1>4

\* A tick of clock id.
LEMMA AdvanceTimes ==
    ASSUME TimerInv, NEW id \in AllClocks, NEW size \in Nat,
           ClockStep(id, size)
    PROVE  /\ now' \in [AllClocks -> Nat]
           /\ due' \in [Tid -> Nat]
           /\ BlocksOK'
<1>1. id \in ClockId
  BY ClockFacts
<1>2. now' = [now EXCEPT ![id] = @ + size] /\ now \in [AllClocks -> Nat]
  BY DEF ClockStep, Advance, TimerInv
<1>3. now' \in [AllClocks -> Nat] /\ Advanced(now', now, id, size)
  BY <1>2 DEF Advanced
<1>4. due' \in [Tid -> Nat]
  BY DEF ClockStep, Advance, TimerInv
<1>5. ASSUME NEW t \in Tid, t < nTasks
      PROVE  BlockOK(task_list'[t], now', due'[t])
  <2>1. t \in Created /\ task_list[t] \in TCB
    BY <1>5 DEF Created, TimerInv, KernelInv, TypeOK
  <2>2. BlockOK(task_list[t], now, due[t])
    BY <2>1 DEF TimerInv, BlocksOK
  <2>3. \/ task_list'[t] = Ticked(task_list[t], id, size)
        \/ task_list'[t] = SuspendedFrom(Ticked(task_list[t], id, size),
                                         task_list[t].state)
    BY <2>1 DEF ClockStep, Ticks
  <2>4. Frozen(t, id) <=> /\ InWait(task_list[t])
                          /\ task_list[t].state = "SUSPENDED"
                          /\ task_list[t].clockId = id
    BY <2>1, <2>2 DEF Frozen, InWait, BlockOK, TimedState
  <2>5. /\ due'[t] = IF Frozen(t, id) THEN due[t] + size ELSE due[t]
        /\ due[t] \in Nat
    BY DEF ClockStep, Advance, TimerInv
  <2>6. due'[t] \in Nat
    BY <1>4
  <2>7. MovedOn(due'[t], due[t], task_list[t], id, size)
    BY <2>4, <2>5 DEF MovedOn
  <2> QED
    <3>1. BlockOK(Ticked(task_list[t], id, size), now', due'[t])
      BY <1>2, <1>3, <2>1, <2>2, <2>5, <2>6, <2>7, TickedTimes
    <3>2. BlockOK(SuspendedFrom(Ticked(task_list[t], id, size), task_list[t].state),
                  now', due'[t])
      BY <1>2, <1>3, <2>1, <2>2, <2>5, <2>6, <2>7, SuspendTickedTimes
    <3> QED
      BY <2>3, <3>1, <3>2
<1>6. nTasks' = nTasks
  BY DEF ClockStep
<1> QED
  BY <1>3, <1>4, <1>5, <1>6 DEF BlocksOK, Created

\* task_wait and task_wait_id of the task that runs.
LEMMA WaitTimes ==
    ASSUME TimerInv, NEW t \in Tid, NEW id \in Clocks, NEW ticks \in WaitTicks,
           task_wait_id(t, id, ticks),
           due' = IF halted' THEN due ELSE [due EXCEPT ![t] = now[id] + ticks],
           UNCHANGED now
    PROVE  /\ due' \in [Tid -> Nat]
           /\ BlocksOK'
<1>1. /\ task_list \in [Tid -> TCB]
      /\ now \in [AllClocks -> Nat]
      /\ due \in [Tid -> Nat]
      /\ ticks \in Time /\ ticks \in Nat
      /\ id \in AllClocks /\ id \in ClockId
  BY KernelAssumption, TaskAssumption, ClockFacts DEF TimerInv, KernelInv, TypeOK, Time
<1>2. CASE ticks = 0
  <2>1. due' = due /\ UNCHANGED <<task_list, nTasks>>
    BY <1>2 DEF task_wait_id, os_on_assert
  <2> QED
    BY <1>1, <2>1 DEF TimerInv, BlocksOK, Created
<1>3. CASE ticks # 0
  <2> DEFINE r == [WaitingTime(task_list[t], id, ticks)
                     EXCEPT !.internal_state = "WAIT_TICKS"]
             e == now[id] + ticks
  <2>1. /\ task_list' = os_task_internal_state_set(
                          os_task_wait_time_set(task_list, t, id, ticks),
                          t, "WAIT_TICKS")
        /\ nTasks' = nTasks
        /\ ~halted'
    BY <1>3 DEF task_wait_id, OS_YIELD, Executing
  <2>2. task_list' = [task_list EXCEPT ![t] = r]
    BY <1>1, <2>1 DEF os_task_internal_state_set, os_task_wait_time_set
  <2>3. due' = [due EXCEPT ![t] = e] /\ e \in Nat
    BY <1>1, <2>1
  <2>4. t \in Created => BlockOK(r, now, e)
    BY <1>1, WaitingTimes DEF TimerInv, BlocksOK
  <2> HIDE DEF r, e
  <2>5. ASSUME NEW u \in Created PROVE BlockOK(task_list'[u], now', due'[u])
    <3>1. u \in Tid
      BY DEF Created
    <3>2. CASE u = t
      <4>1. task_list'[u] = r /\ due'[u] = e
        BY <1>1, <2>2, <2>3, <3>2
      <4> QED
        BY <2>4, <3>2, <4>1
    <3>3. CASE u # t
      <4>1. task_list'[u] = task_list[u] /\ due'[u] = due[u]
        BY <1>1, <2>2, <2>3, <3>1, <3>3
      <4> QED
        BY <4>1 DEF TimerInv, BlocksOK
    <3> QED
      BY <3>2, <3>3
  <2> QED
    BY <1>1, <2>1, <2>3, <2>5 DEF BlocksOK, Created
<1> QED
  BY <1>2, <1>3

\* A step that replaces block u by one that keeps its times.
LEMMA ReplaceTimes ==
    ASSUME TimerInv, UNCHANGED <<nTasks, now, due>>, NEW u \in Tid, NEW r,
           task_list' = [task_list EXCEPT ![u] = r],
           u \in Created => BlockOK(r, now, due[u])
    PROVE  BlocksOK'
<1>1. task_list \in [Tid -> TCB]
  BY DEF TimerInv, KernelInv, TypeOK
<1>2. ASSUME NEW v \in Created PROVE BlockOK(task_list'[v], now, due[v])
  <2>1. CASE v = u
    BY <1>1, <2>1
  <2>2. CASE v # u
    <3>1. task_list'[v] = task_list[v]
      BY <2>2, <1>1 DEF Created
    <3> QED
      BY <3>1 DEF TimerInv, BlocksOK
  <2> QED
    BY <2>1, <2>2
<1> QED
  BY <1>2, SameTimes

\* What the calls make of block u: suspended, resumed or killed, with a new
\* place or not.
LEMMA CallTimes ==
    ASSUME TimerInv, NEW u \in Created, NEW point \in YieldPoint,
           point # "WAIT_TICKS",
           NEW r \in {Suspended(task_list[u]), Resumed(task_list[u]),
                      [task_list[u] EXCEPT !.state = "KILLED"]}
    PROVE  /\ BlockOK(r, now, due[u])
           /\ BlockOK([r EXCEPT !.internal_state = point], now, due[u])
<1>1. task_list[u] \in TCB /\ BlockOK(task_list[u], now, due[u])
  BY DEF TimerInv, BlocksOK, KernelInv, TypeOK, Created
<1>2. r \in TCB
  BY <1>1, SuspendedFacts, ResumedFacts, KilledFacts
<1>3. BlockOK(r, now, due[u])
  BY <1>1, SuspendedTimes, ResumedTimes, KilledTimes
<1> QED
  BY <1>2, <1>3, YieldedTimes

\* os_task_create and os_start.
LEMMA MainTimes ==
    ASSUME TimerInv, Main, UNCHANGED <<now, due>> PROVE BlocksOK'
<1>1. task_list \in [Tid -> TCB] /\ nTasks \in Nat
  BY TaskAssumption DEF TimerInv, KernelInv, TypeOK
<1>2. CASE UNCHANGED <<task_list, nTasks>>
  BY <1>2, SameTimes DEF TimerInv, BlocksOK
<1>3. ASSUME NEW prio \in Prio, MayCreate(prio), TaskCreate(prio)
      PROVE  BlocksOK'
  <2>1. /\ task_list' = [task_list EXCEPT ![nTasks]
                           = CreatedTCB(task_list[nTasks], prio)]
        /\ nTasks' = nTasks + 1
    BY <1>3 DEF TaskCreate, os_task_create
  <2>2. nTasks \in Tid
    BY <1>1, <1>3, TidFacts DEF MayCreate
  <2>3. BlockOK(task_list'[nTasks], now, due[nTasks])
    BY <1>1, <2>1, <2>2, CreatedTimes
  <2>4. ASSUME NEW v \in Tid, v < nTasks'
        PROVE  BlockOK(task_list'[v], now, due[v])
    <3>1. CASE v = nTasks
      BY <2>3, <3>1
    <3>2. CASE v # nTasks
      <4>1. v < nTasks
        BY <1>1, <2>1, <2>4, <3>2, TidFacts
      <4>2. task_list'[v] = task_list[v]
        BY <1>1, <2>1, <3>2
      <4> QED
        BY <4>1, <4>2 DEF TimerInv, BlocksOK, Created
    <3> QED
      BY <3>1, <3>2
  <2> QED
    BY <2>4 DEF BlocksOK, Created
<1> QED
  BY <1>2, <1>3 DEF Main, os_start, TaskCreate, os_on_assert

\* The calls of the task that runs, other than waits.
LEMMA CallsTimes ==
    ASSUME TimerInv, NEW t \in Tid, UNCHANGED <<now, due>>,
           \/ TaskCall(t)
           \/ task_suspend(t, t)
           \/ task_resume(t, t)
           \/ task_close(t)
    PROVE  BlocksOK'
<1>1. task_list \in [Tid -> TCB]
  BY DEF TimerInv, KernelInv, TypeOK
<1>2. "SUSPEND_TASK" \in YieldPoint /\ "RESUME_TASK" \in YieldPoint
  BY DEF YieldPoint
<1>3. ASSUME NEW u \in Tid, task_suspend(t, u) PROVE BlocksOK'
  <2> DEFINE r == Suspended(task_list[u])
             q == [r EXCEPT !.internal_state = "SUSPEND_TASK"]
  <2>1. /\ UNCHANGED nTasks
        /\ \/ task_list' = [task_list EXCEPT ![u] = r]
           \/ task_list' = [task_list EXCEPT ![u] = q]
    BY <1>1, <1>3 DEF task_suspend, OS_YIELD, Continue, os_task_suspend,
       os_task_internal_state_set
  <2>2. u \in Created => BlockOK(r, now, due[u]) /\ BlockOK(q, now, due[u])
    BY <1>2, CallTimes
  <2> HIDE DEF r, q
  <2> QED
    BY <2>1, <2>2, ReplaceTimes
<1>4. ASSUME NEW u \in Tid, task_resume(t, u) PROVE BlocksOK'
  <2> DEFINE r == Resumed(task_list[u])
             q == [r EXCEPT !.internal_state = "RESUME_TASK"]
  <2>1. /\ UNCHANGED nTasks
        /\ \/ task_list' = [task_list EXCEPT ![u] = r]
           \/ task_list' = [task_list EXCEPT ![u] = q]
    BY <1>1, <1>4 DEF task_resume, OS_YIELD, Continue, os_task_resume,
       os_task_internal_state_set
  <2>2. u \in Created => BlockOK(r, now, due[u]) /\ BlockOK(q, now, due[u])
    BY <1>2, CallTimes
  <2> HIDE DEF r, q
  <2> QED
    BY <2>1, <2>2, ReplaceTimes
<1>5. ASSUME NEW u \in Tid, TaskKill(t, u) \/ (u = t /\ task_close(t))
      PROVE  BlocksOK'
  <2> DEFINE r == [task_list[u] EXCEPT !.state = "KILLED"]
  <2>1. UNCHANGED nTasks /\ task_list' = [task_list EXCEPT ![u] = r]
    BY <1>5 DEF TaskKill, task_close, Continue, os_task_kill
  <2>2. u \in Created => BlockOK(r, now, due[u])
    BY <1>2, CallTimes
  <2> HIDE DEF r
  <2> QED
    BY <2>1, <2>2, ReplaceTimes
<1> QED
  BY <1>3, <1>4, <1>5 DEF TaskCall

\* Every step keeps the invariant.
LEMMA TimersStepInv == TimerInv /\ [TimersNext]_timerVars => TimerInv'
<1> SUFFICES ASSUME TimerInv, [TimersNext]_timerVars PROVE TimerInv'
  OBVIOUS
<1>1. KernelInv'
  BY TimersStepKernel
<1>2. ASSUME UNCHANGED <<now, due>>, BlocksOK' PROVE TimerInv'
  BY <1>1, <1>2 DEF TimerInv
<1>3. CASE \/ os_tick /\ Advance(0, 1)
           \/ \E c \in Clocks, size \in NTicks :
                os_sub_nTick(c, size) /\ Advance(c, size)
           \/ \E t, u \in Tid, k \in TickKinds :
                task_suspend_ticked(t, u, k[1], k[2]) /\ Advance(k[1], k[2])
  <2>1. PICK c \in AllClocks, size \in Nat : ClockStep(c, size)
    BY <1>3, TickSteps
  <2> QED
    BY <1>1, <2>1, AdvanceTimes DEF TimerInv
<1>4. ASSUME NEW t \in Tid, NEW c \in Clocks, NEW ticks \in WaitTicks,
             task_wait_id(t, c, ticks),
             due' = IF halted' THEN due ELSE [due EXCEPT ![t] = now[c] + ticks],
             UNCHANGED now
      PROVE  TimerInv'
  <2>1. due' \in [Tid -> Nat] /\ BlocksOK'
    BY <1>4, WaitTimes
  <2> QED
    BY <1>1, <1>4, <2>1 DEF TimerInv
<1>5. CASE Main /\ UNCHANGED <<now, due>>
  BY <1>2, <1>5, MainTimes
<1>6. CASE os_schedule /\ UNCHANGED <<now, due>>
  <2>1. UNCHANGED <<task_list, nTasks>>
    BY <1>6 DEF os_schedule, Dispatch, NothingFound, Sleep,
       SchedulePastTaskList, os_on_assert
  <2> QED
    BY <1>2, <1>6, <2>1, SameTimes DEF TimerInv, BlocksOK
<1>7. ASSUME NEW t \in Tid, UNCHANGED <<now, due>>,
             \/ TaskCall(t)
             \/ task_suspend(t, t)
             \/ task_resume(t, t)
             \/ task_close(t)
      PROVE  TimerInv'
  BY <1>2, <1>7, CallsTimes
<1>8. CASE UNCHANGED timerVars
  BY <1>2, <1>8, SameTimes DEF timerVars, kernelVars, TimerInv, BlocksOK
<1> QED
  BY <1>3, <1>4, <1>5, <1>6, <1>7, <1>8 DEF TimersNext

\* The invariant of every behaviour, for any number of tasks and clocks.
THEOREM TimersInvariant == TimersSpec => []TimerInv
<1> QED
  BY TimersInitInv, TimersStepInv, PTL DEF TimersSpec

\* No tick is lost and none is counted twice (task_tick against the stores of
\* os_task_wait_time_set, os_task_suspend and os_task_resume).
THEOREM NoTickLost == TimersSpec => []TimeIsExact
<1>1. TimerInv => TimeIsExact
  BY DEF TimerInv, BlocksOK, BlockOK, InWait, TimeIsExact, TimeLeft, Left, ClockOf
<1> QED
  BY <1>1, TimersInvariant, PTL

\* No task goes on behind its task_wait too soon, suspended or not.
THEOREM NoWaitCutShort == TimersSpec => []NotEarly
<1>1. TimerInv => NotEarly
  BY DEF TimerInv, BlocksOK, BlockOK, Returned, NotEarly, ClockOf
<1> QED
  BY <1>1, TimersInvariant, PTL

\* No wait outlasts the tick that reaches its due time (task_tick), and none that
\* has outlasted it, saved by an os_task_suspend with that tick inside, outlasts
\* the next.
THEOREM NoWaitOverrun == TimersSpec => NotLate
<1>1. ASSUME TimerInv, [TimersNext]_timerVars, NEW t \in Created,
             task_list[t].state = "WAITING_TIME",
             now'[ClockOf(t)] > now[ClockOf(t)],
             now'[ClockOf(t)] >= due[t]
      PROVE  \/ task_list'[t].state = "READY"
             \/ INTERRUPTS /\ task_list'[t].state = "SUSPENDED"
  <2> DEFINE c == task_list[t].clockId
  <2>1. /\ task_list[t] \in TCB /\ t \in Tid
        /\ c \in AllClocks
        /\ task_list[t].time = Left(due[t], now[c])
    BY <1>1 DEF TimerInv, KernelInv, TypeOK, BlocksOK, BlockOK, InWait, Created
  <2>2. now[c] \in Nat /\ due[t] \in Nat /\ task_list[t].time \in Int
    BY <1>1, <2>1 DEF TimerInv, TCB, Time
  <2>3. now'[c] # now[c]
    BY <1>1, <2>1, <2>2 DEF ClockOf
  <2> HIDE DEF c
  <2>4. PICK id \in AllClocks, size \in Nat : ClockStep(id, size)
    <3>1. now' # now
      BY <2>3
    <3> QED
      BY <1>1, <3>1, TickSteps DEF TimersNext, timerVars
  <2>5. now' = [now EXCEPT ![id] = @ + size] /\ now \in [AllClocks -> Nat]
    BY <1>1, <2>4 DEF ClockStep, Advance, TimerInv
  <2>6. c = id /\ now'[c] = now[c] + size
    BY <2>1, <2>3, <2>5
  <2>7. ~(task_list[t].time > size) /\ task_list[t].time <= size
    BY <1>1, <2>1, <2>2, <2>6 DEF ClockOf, c, Left
  <2> DEFINE q == Ticked(task_list[t], id, size)
  <2>8. q = [task_list[t] EXCEPT !.time = 0, !.state = "READY"]
    BY <1>1, <2>6, <2>7 DEF Ticked, TimedState, c
  <2>9. q.state = "READY" /\ q \in TCB
    BY <2>1, <2>4, <2>8, ClockFacts, TickedFacts DEF TCB
  <2>10. Ticks(task_list'[t], task_list[t], id, size)
    BY <1>1, <2>4 DEF ClockStep
  <2>11. SuspendedFrom(q, "WAITING_TIME").state = "SUSPENDED"
    <3> HIDE DEF q
    <3> QED
      BY <2>9, SuspendedFromFacts DEF TaskState
  <2> QED
    BY <1>1, <2>9, <2>10, <2>11 DEF Ticks
<1>2. TimerInv /\ [TimersNext]_timerVars =>
        [\A t \in Created :
          /\ task_list[t].state = "WAITING_TIME"
          /\ now'[ClockOf(t)] > now[ClockOf(t)]
          /\ now'[ClockOf(t)] >= due[t]
          => \/ task_list'[t].state = "READY"
             \/ INTERRUPTS /\ task_list'[t].state = "SUSPENDED"]_timerVars
  BY <1>1
<1> QED
  BY <1>2, TimersInvariant, PTL DEF TimersSpec, NotLate

-----------------------------------------------------------------------------
(* OsRoundRobin *)

\* The scan reaches every task in fewer steps than there are tasks.
LEMMA ScanRange ==
    ASSUME NEW n \in Nat, NEW last \in Nat, NEW t \in Nat, t < n
    PROVE  /\ ScanSteps(n, ScanStart(n, last), t) \in Nat
           /\ ScanSteps(n, ScanStart(n, last), t) <= n - 1
BY DEF ScanSteps, ScanStart

\* If the scan reaches u no later than t, the next scan, which starts behind u,
\* reaches t at least one step earlier than this one.
LEMMA ScanAdvances ==
    ASSUME NEW n \in Nat, NEW last \in Nat, NEW t \in Nat, NEW u \in Nat,
           t < n, u < n, t # u, u # NO_TID,
           ScanSteps(n, ScanStart(n, last), u)
             <= ScanSteps(n, ScanStart(n, last), t)
    PROVE  ScanSteps(n, ScanStart(n, u), t) + 1
             <= ScanSteps(n, ScanStart(n, last), t)
BY DEF ScanSteps, ScanStart

\* The inductive invariant: a READY task has been passed over no more often
\* than the scan has come closer to it.
RRInv ==
    /\ KernelInv
    /\ bypassed \in [Tid -> Nat]
    /\ \A t \in Tid : t \notin ReadyTasks(task_list, nTasks) => bypassed[t] = 0
    /\ running = 0 => \A t \in Tid : bypassed[t] = 0
    /\ running = 0 => running_tid = NO_TID
    /\ ScanComesCloser

\* os_init, before any task is passed over.
LEMMA RRInitInv == RRInit => RRInv
<1> SUFFICES ASSUME RRInit PROVE RRInv
  OBVIOUS
<1>1. KernelInv
  BY InitInv DEF RRInit
<1>2. \A t \in Tid : ~(t < 0)
  BY TidFacts
<1>3. ReadyTasks(task_list, nTasks) = {}
  BY <1>2 DEF RRInit, os_init, ReadyTasks
<1> QED
  BY <1>1, <1>3 DEF RRInv, RRInit, os_init, ScanComesCloser

\* Every step of RRNext is a step of the kernel.
LEMMA RRStepIsKernelStep == RRNext => KernelNext
BY DEF RRNext, KernelNext, Undisturbed, os_schedule

\* os_schedule picks u: the tasks it passes over get closer to their turn.
LEMMA PassOK ==
    ASSUME ROUND_ROBIN, RRInv, KernelInv', NEW u \in Tid, Dispatch(u), Pass(u)
    PROVE  RRInv'
<1> DEFINE R == ReadyTasks(task_list, nTasks)
           S(t) == ScanSteps(nTasks, ScanStart(nTasks, last_running_task), t)
           T(t) == ScanSteps(nTasks, ScanStart(nTasks, u), t)
<1>1. /\ UNCHANGED <<task_list, nTasks, running>>
      /\ running = 1
      /\ last_running_task' = u
  BY DEF Dispatch, Scheduling
<1>2. u \in R /\ \A t \in R : S(u) <= S(t)
  BY DEF Dispatch, Picked, next_ready_task
<1>3. nTasks \in Nat /\ last_running_task \in Nat
  BY TidFacts DEF RRInv, KernelInv, TypeOK, NO_TID
<1>4. \A t \in R : t \in Nat /\ t < nTasks /\ t \in Tid
  BY TidFacts DEF ReadyTasks
<1>5. /\ bypassed \in [Tid -> Nat]
      /\ bypassed' = [t \in Tid |->
            IF t # u /\ t \in R THEN bypassed[t] + 1 ELSE 0]
      /\ bypassed' \in [Tid -> Nat]
  BY DEF RRInv, Pass
<1>6. \A t \in R : bypassed[t] + S(t) <= nTasks - 1
  BY DEF RRInv, ScanComesCloser
<1>7. ASSUME NEW t \in R PROVE bypassed'[t] + T(t) <= nTasks - 1
  <2>1. CASE t = u
    BY <1>3, <1>4, <1>5, <2>1, ScanRange
  <2>2. CASE t # u
    <3>1. T(t) + 1 <= S(t)
      BY <1>2, <1>3, <1>4, <2>2, TidFacts, ScanAdvances
    <3>2. T(t) \in Nat /\ S(t) \in Nat
      BY <1>2, <1>3, <1>4, ScanRange
    <3>3. bypassed'[t] = bypassed[t] + 1 /\ bypassed[t] \in Nat
      BY <1>4, <1>5, <2>2
    <3> HIDE DEF S, T
    <3> QED
      BY <1>3, <1>6, <3>1, <3>2, <3>3
  <2> QED
    BY <2>1, <2>2
<1>8. ScanComesCloser'
  BY <1>1, <1>7 DEF ScanComesCloser, ReadyTasks
<1> QED
  BY <1>1, <1>5, <1>8 DEF RRInv, ReadyTasks

\* The other steps that neither create a task nor schedule.
LEMMA KeepOK ==
    ASSUME RRInv, KernelInv', Keep, UNCHANGED <<nTasks, last_running_task>>,
           running' = 0 => running = 0 /\ running_tid' = NO_TID
    PROVE  RRInv'
<1> DEFINE S(t) == ScanSteps(nTasks, ScanStart(nTasks, last_running_task), t)
<1>1. nTasks \in Nat /\ last_running_task \in Nat
  BY TidFacts DEF RRInv, KernelInv, TypeOK, NO_TID
<1>2. /\ bypassed \in [Tid -> Nat]
      /\ \A t \in Tid : t \notin ReadyTasks(task_list, nTasks) => bypassed[t] = 0
      /\ bypassed' = [t \in Tid |->
            IF t \in ReadyTasks(task_list', nTasks) THEN bypassed[t] ELSE 0]
      /\ bypassed' \in [Tid -> Nat]
  BY DEF RRInv, Keep
<1>3. ASSUME NEW t \in ReadyTasks(task_list', nTasks)
      PROVE  bypassed'[t] + S(t) <= nTasks - 1
  <2>1. t \in Tid /\ t \in Nat /\ t < nTasks
    BY TidFacts DEF ReadyTasks
  <2>2. S(t) \in Nat /\ S(t) <= nTasks - 1
    BY <1>1, <2>1, ScanRange
  <2>3. bypassed'[t] = bypassed[t] /\ bypassed[t] \in Nat
    BY <1>2, <2>1
  <2>4. CASE t \in ReadyTasks(task_list, nTasks)
    BY <2>3, <2>4 DEF RRInv, ScanComesCloser
  <2>5. CASE t \notin ReadyTasks(task_list, nTasks)
    <3>1. bypassed'[t] = 0
      BY <1>2, <2>1, <2>3, <2>5
    <3> HIDE DEF S
    <3> QED
      BY <1>1, <2>2, <3>1
  <2> QED
    BY <2>4, <2>5
<1>4. ScanComesCloser'
  BY <1>3 DEF ScanComesCloser
<1> QED
  BY <1>2, <1>4 DEF RRInv

\* The steps from a state in which nobody has been passed over.
LEMMA FreshOK ==
    ASSUME RRInv, KernelInv', Keep, \A t \in Tid : bypassed[t] = 0,
           running' = 0 => running_tid' = NO_TID
    PROVE  RRInv'
<1> DEFINE S(t) == ScanSteps(nTasks', ScanStart(nTasks', last_running_task'), t)
<1>1. nTasks' \in Nat /\ last_running_task' \in Nat
  BY TidFacts DEF KernelInv, TypeOK, NO_TID
<1>2. bypassed' \in [Tid -> Nat] /\ \A t \in Tid : bypassed'[t] = 0
  BY DEF RRInv, Keep
<1>3. ASSUME NEW t \in ReadyTasks(task_list', nTasks')
      PROVE  bypassed'[t] + S(t) <= nTasks' - 1
  <2>1. t \in Tid /\ t \in Nat /\ t < nTasks'
    BY TidFacts DEF ReadyTasks
  <2>2. S(t) \in Nat /\ S(t) <= nTasks' - 1
    BY <1>1, <2>1, ScanRange
  <2>3. bypassed'[t] = 0
    BY <1>2, <2>1
  <2> HIDE DEF S
  <2> QED
    BY <1>1, <2>2, <2>3
<1>4. ScanComesCloser'
  BY <1>3 DEF ScanComesCloser
<1> QED
  BY <1>2, <1>4 DEF RRInv

\* main() creates a task only while nothing has run.
LEMMA RRMainOK == ASSUME RRInv, KernelInv', Main, Keep PROVE RRInv'
<1>1. CASE os_start
  <2>1. running' = 1 /\ UNCHANGED <<nTasks, last_running_task>>
    BY <1>1 DEF os_start
  <2> QED
    BY <2>1, KeepOK
<1>2. ASSUME NEW prio \in Prio, TaskCreate(prio), MayCreate(prio)
      PROVE  RRInv'
  <2>1. running = 0 /\ running_tid' = running_tid
    BY <1>2 DEF TaskCreate, MayCreate
  <2>2. running_tid = NO_TID /\ \A t \in Tid : bypassed[t] = 0
    BY <2>1 DEF RRInv
  <2> QED
    BY <2>1, <2>2, FreshOK
<1>3. ASSUME NEW prio \in Prio, TaskCreate(prio), ~MayCreate(prio)
      PROVE  RRInv'
  <2>1. UNCHANGED <<nTasks, last_running_task, running, running_tid>>
    BY <1>3 DEF TaskCreate, os_on_assert
  <2>2. running = 0 => running_tid = NO_TID
    BY DEF RRInv
  <2> QED
    BY <2>1, <2>2, KeepOK
<1> QED
  BY <1>1, <1>2, <1>3 DEF Main

\* The loop goes to sleep only if there is nobody to pass over.
LEMMA RRNothingOK ==
    ASSUME ROUND_ROBIN, RRInv, KernelInv', NothingFound, Keep
    PROVE  RRInv'
<1>1. nTasks \in Nat /\ last_running_task \in Nat
  BY TidFacts DEF RRInv, KernelInv, TypeOK, NO_TID
<1>2. Picked = {} /\ running' = 1
  BY DEF NothingFound, Scheduling, Sleep, SchedulePastTaskList, os_on_assert
<1>3. ReadyTasks(task_list, nTasks) = {}
  BY <1>1, <1>2, RoundRobinSearchFinds DEF Picked
<1>4. \A t \in Tid : bypassed[t] = 0
  BY <1>3 DEF RRInv
<1> QED
  BY <1>2, <1>4, FreshOK

\* Ticks and calls of tasks leave the scan where it is.
LEMMA RRElseOK ==
    ASSUME RRInv, KernelInv', Keep,
           Clock \/ (\E t \in Tid : TaskStep(t)) \/ Interrupted
    PROVE  RRInv'
<1>1. running = 0 => running_tid = NO_TID
  BY DEF RRInv
<1>2. CASE Clock
  <2>1. UNCHANGED <<nTasks, last_running_task, running, running_tid>>
    BY <1>2 DEF Clock, os_tick, os_sub_nTick, Tick
  <2> QED
    BY <1>1, <2>1, KeepOK
<1>3. ASSUME NEW t \in Tid, TaskStep(t) PROVE RRInv'
  <2>1. UNCHANGED <<nTasks, last_running_task, running>>
    BY <1>3 DEF TaskStep, TaskYield, TaskCall, task_wait_id, task_suspend,
       task_resume, TaskKill, task_close, OS_YIELD, Continue, os_on_assert
  <2>2. running_tid # NO_TID
    BY <1>3 DEF TaskStep, TaskYield, TaskCall, task_wait_id, task_suspend,
       task_resume, TaskKill, task_close, Executing
  <2> QED
    BY <1>1, <2>1, <2>2, KeepOK
<1>4. CASE Interrupted
  <2>1. UNCHANGED <<nTasks, last_running_task, running, running_tid>>
    BY <1>4 DEF Interrupted, task_suspend_ticked, Continue
  <2> QED
    BY <1>1, <2>1, KeepOK
<1> QED
  BY <1>2, <1>3, <1>4

\* Every step: a pick moves the scan of next_ready_task on, a new task or one
\* that wakes starts with nothing counted.
LEMMA RRStepInv ==
    ASSUME ROUND_ROBIN
    PROVE  RRInv /\ [RRNext]_rrVars => RRInv'
<1> SUFFICES ASSUME RRInv, [RRNext]_rrVars PROVE RRInv'
  OBVIOUS
<1>1. KernelInv'
  <2>1. [KernelNext]_kernelVars
    BY RRStepIsKernelStep DEF rrVars
  <2> QED
    BY <2>1, StepInv DEF RRInv, StepOK
<1>2. CASE UNCHANGED rrVars
  BY <1>1, <1>2
  DEF rrVars, kernelVars, RRInv, ScanComesCloser, ReadyTasks
<1>3. CASE RRNext
  <2>1. ASSUME NEW u \in Tid, Dispatch(u), Pass(u) PROVE RRInv'
    BY <1>1, <2>1, PassOK
  <2> QED
    BY <1>1, <1>3, <2>1, RRMainOK, RRNothingOK, RRElseOK DEF RRNext
<1> QED
  BY <1>2, <1>3

\* The inductive invariant holds of every behaviour under round robin
\* (next_ready_task).
THEOREM RoundRobinInvariant ==
    ASSUME ROUND_ROBIN
    PROVE  RRSpec => []RRInv
<1>1. RRInit => RRInv
  BY RRInitInv
<1>2. RRInv /\ [RRNext]_rrVars => RRInv'
  BY RRStepInv
<1> QED
  BY <1>1, <1>2, PTL DEF RRSpec

\* Each time next_ready_task picks another task, a READY task gets at least one
\* step closer to its turn.
THEOREM ScanCloser ==
    ASSUME ROUND_ROBIN
    PROVE  RRSpec => []ScanComesCloser
<1>1. RRInv => ScanComesCloser
  BY DEF RRInv
<1> QED
  BY <1>1, RoundRobinInvariant, PTL

\* A READY task sees at most nTasks - 1 picks of other tasks before its own, for
\* any number of tasks and whatever happens to the others.
THEOREM BypassBounded ==
    ASSUME ROUND_ROBIN
    PROVE  RRSpec => []BoundedBypass
<1>1. ASSUME RRInv PROVE BoundedBypass
  <2>1. nTasks \in Nat /\ last_running_task \in Nat
    BY <1>1, TidFacts DEF RRInv, KernelInv, TypeOK, NO_TID
  <2> DEFINE S(t) == ScanSteps(nTasks, ScanStart(nTasks, last_running_task), t)
  <2>2. ASSUME NEW t \in Created PROVE bypassed[t] <= nTasks - 1
    <3>1. t \in Tid /\ t \in Nat /\ t < nTasks
      BY TidFacts DEF Created
    <3>2. S(t) \in Nat /\ bypassed[t] \in Nat
      BY <1>1, <2>1, <3>1, ScanRange DEF RRInv
    <3>3. CASE t \in ReadyTasks(task_list, nTasks)
      <4>1. bypassed[t] + S(t) <= nTasks - 1
        BY <1>1, <3>3 DEF RRInv, ScanComesCloser
      <4> HIDE DEF S
      <4> QED
        BY <2>1, <3>2, <4>1
    <3>4. CASE t \notin ReadyTasks(task_list, nTasks)
      <4>1. bypassed[t] = 0
        BY <1>1, <3>1, <3>4 DEF RRInv
      <4> QED
        BY <2>1, <3>1, <4>1
    <3> QED
      BY <3>3, <3>4
  <2> QED
    BY <2>2 DEF BoundedBypass
<1>2. RRInv => BoundedBypass
  BY <1>1
<1> QED
  BY <1>2, RoundRobinInvariant, PTL

-----------------------------------------------------------------------------
(* OsEventClients *)

AwaitPoint == {"WAIT_EVENT", "WAIT_MULTIPLE"}

StateIn(tcb) == IF tcb.state = "SUSPENDED" THEN tcb.savedState ELSE tcb.state

Wishes == [all : BOOLEAN, events : SUBSET Event, limited : BOOLEAN,
           heard : SUBSET Event, expired : BOOLEAN]

\* A task that waits for events, and its wish: its list is what it still misses.
Awaits(tcb, w) ==
    /\ tcb.internal_state \in AwaitPoint
    /\ tcb.waitSingleEvent # w.all
    /\ tcb.eventQueue = w.events \ w.heard
    /\ w.all = TRUE \/ w.heard = {}
    /\ w.expired = FALSE
    /\ w.limited = (StateIn(tcb) = "WAITING_EVENT_TIMEOUT")

\* A task that is READY behind an event wait, and its wish.
Ended(tcb, w) ==
    /\ Satisfied(w) \/ (w.expired = TRUE /\ w.limited = TRUE)
    /\ ~INTERRUPTS /\ w.limited = TRUE /\ w.events # {}
         => (tcb.time = 0 <=> w.expired = TRUE)

\* The relation of a control block and the wish of its task.  A wait for time
\* must not end as if it were one for events.
WishOK(tcb, w) ==
    /\ Waits(tcb) => Awaits(tcb, w)
    /\ StateIn(tcb) = "READY" /\ tcb.internal_state \in AwaitPoint => Ended(tcb, w)
    /\ StateIn(tcb) = "WAITING_TIME" => tcb.internal_state \notin AwaitPoint

\* The inductive invariant.
ClientInv ==
    /\ EventInv
    /\ ExecutingRuns
    /\ wish \in [Tid -> Wishes]
    /\ \A t \in Tid : t < nTasks => WishOK(task_list[t], wish[t])

-----------------------------------------------------------------------------
(* One control block *)

\* Behind another macro than a wait for events any wish will do.
LEMMA ForgottenOK ==
    ASSUME NEW tcb, NEW w, WishOK(tcb, w), tcb.internal_state \notin AwaitPoint
    PROVE  \A v : WishOK(tcb, v)
BY DEF WishOK, Awaits

\* A macro of the kernel that yields.
LEMMA YieldedWish ==
    ASSUME NEW r \in TCB, Listed(r), r.eventQueue = {}, NEW point,
           point \notin AwaitPoint
    PROVE  \A w : WishOK([r EXCEPT !.internal_state = point], w)
<1> DEFINE q == [r EXCEPT !.internal_state = point]
<1>1. /\ q.internal_state = point /\ q.state = r.state
      /\ q.savedState = r.savedState
  BY DEF TCB
<1>2. ~Waits(q)
  <2>1. ~Waits(r)
    BY DEF Listed, Waits
  <2> QED
    BY <1>1, <2>1 DEF Waits
<1> HIDE DEF q
<1>3. \A w : WishOK(q, w)
  BY <1>1, <1>2 DEF WishOK
<1> QED
  BY <1>3 DEF q

\* Suspending, resuming, killing and creating a task.
LEMMA ManagedWish ==
    ASSUME NEW tcb \in TCB, NEW w, WishOK(tcb, w)
    PROVE  /\ WishOK(Suspended(tcb), w)
           /\ Sound(tcb) => WishOK(Resumed(tcb), w)
<1>1. WishOK(Suspended(tcb), w)
  <2> DEFINE r == Suspended(tcb)
  <2>1. CASE tcb.state = "WAITING_SEM"
    <3>1. r.state = "SUSPENDED" /\ r.savedState = "READY" /\ r.internal_state = "TOP"
      BY <2>1 DEF Suspended, SuspendedFrom, TCB
    <3> HIDE DEF r
    <3>2. WishOK(r, w)
      BY <3>1 DEF WishOK, Waits, StateIn, AwaitPoint
    <3> QED
      BY <3>2 DEF r
  <2>2. CASE tcb.state \in {"KILLED", "SUSPENDED"}
    BY <2>2 DEF Suspended, SuspendedFrom
  <2>3. CASE tcb.state \notin {"KILLED", "SUSPENDED", "WAITING_SEM"}
    <3>1. /\ r.state = "SUSPENDED" /\ r.savedState = tcb.state
          /\ r.internal_state = tcb.internal_state /\ r.time = tcb.time
          /\ r.eventQueue = tcb.eventQueue
          /\ r.waitSingleEvent = tcb.waitSingleEvent
      BY <2>3 DEF Suspended, SuspendedFrom, TCB
    <3>2. StateIn(r) = StateIn(tcb) /\ (Waits(r) <=> Waits(tcb))
      BY <2>3, <3>1 DEF StateIn, Waits
    <3> HIDE DEF r
    <3>3. WishOK(r, w)
      BY <3>1, <3>2 DEF WishOK, Awaits, Ended
    <3> QED
      BY <3>3 DEF r
  <2> QED
    BY <2>1, <2>2, <2>3
<1>2. ASSUME Sound(tcb) PROVE WishOK(Resumed(tcb), w)
  <2> DEFINE r == Resumed(tcb)
  <2>1. CASE tcb.state = "SUSPENDED"
    <3>1. /\ r.state = tcb.savedState /\ r.state # "SUSPENDED"
          /\ r.internal_state = tcb.internal_state /\ r.time = tcb.time
          /\ r.eventQueue = tcb.eventQueue
          /\ r.waitSingleEvent = tcb.waitSingleEvent
      BY <1>2, <2>1 DEF Resumed, TCB, Sound, WellFormed, HasTimeLeft
    <3>2. StateIn(r) = StateIn(tcb) /\ (Waits(r) <=> Waits(tcb))
      BY <2>1, <3>1 DEF StateIn, Waits
    <3> HIDE DEF r
    <3>3. WishOK(r, w)
      BY <3>1, <3>2 DEF WishOK, Awaits, Ended
    <3> QED
      BY <3>3 DEF r
  <2>2. CASE tcb.state # "SUSPENDED"
    BY <2>2 DEF Resumed
  <2> QED
    BY <2>1, <2>2
<1> QED
  BY <1>1, <1>2

\* os_task_create and os_task_kill leave nothing a wish is about.
LEMMA NewOrKilledWish ==
    ASSUME NEW tcb \in TCB
    PROVE  \A w : /\ WishOK([tcb EXCEPT !.state = "KILLED"], w)
                  /\ \A prio : WishOK(CreatedTCB(tcb, prio), w)
<1>1. \A w : WishOK([tcb EXCEPT !.state = "KILLED"], w)
  BY DEF TCB, WishOK, Waits, StateIn
<1>2. ASSUME NEW prio PROVE \A w : WishOK(CreatedTCB(tcb, prio), w)
  <2> DEFINE r == CreatedTCB(tcb, prio)
  <2>1. r.state = "READY" /\ r.internal_state = "TOP"
    BY DEF CreatedTCB, Cleared, TCB
  <2> HIDE DEF r
  <2>2. \A w : WishOK(r, w)
    BY <2>1 DEF WishOK, Waits, StateIn, AwaitPoint
  <2> QED
    BY <2>2 DEF r
<1> QED
  BY <1>1, <1>2

\* The wish Asks writes, for one task.
Asked(all, E, timeout) ==
    [NoWish EXCEPT !.all = all, !.events = E, !.limited = timeout # 0]

\* event_wait_timeout on an event that exists: the list starts from empty.
LEMMA WaitingWish ==
    ASSUME NEW tcb \in TCB, tcb.eventQueue = {}, NEW e \in Event,
           NEW timeout \in Time
    PROVE  LET r == WaitingEvent(tcb, e, TRUE, timeout)
           IN  WishOK([r EXCEPT !.internal_state = "WAIT_EVENT"],
                      Asked(FALSE, {e}, timeout))
<1> DEFINE r == WaitingEvent(tcb, e, TRUE, timeout)
           q == [r EXCEPT !.internal_state = "WAIT_EVENT"]
           w == Asked(FALSE, {e}, timeout)
<1>1. r \in TCB
  BY EventFacts, WaitingEventFacts
<1>2. /\ r.state = IF timeout # 0 THEN "WAITING_EVENT_TIMEOUT" ELSE "WAITING_EVENT"
      /\ r.eventQueue = {e} /\ r.waitSingleEvent = TRUE
  BY DEF WaitingEvent, WaitingTime, TCB
<1> HIDE DEF r
<1>3. /\ q.state = r.state /\ q.eventQueue = r.eventQueue
      /\ q.waitSingleEvent = r.waitSingleEvent /\ q.internal_state = "WAIT_EVENT"
  BY <1>1 DEF TCB
<1>4. /\ w.all = FALSE /\ w.events = {e} /\ w.limited = (timeout # 0)
      /\ w.heard = {} /\ w.expired = FALSE
  BY DEF Asked, NoWish
<1> HIDE DEF q, w
<1>5. WishOK(q, w)
  BY <1>2, <1>3, <1>4 DEF WishOK, Awaits, StateIn, AwaitPoint
<1> QED
  BY <1>5 DEF q, w, r

\* On one that does not exist the task yields, and waits for nothing.
LEMMA NothingAsked ==
    ASSUME NEW tcb \in TCB, tcb.state \in {"READY", "KILLED"}, NEW timeout \in Time
    PROVE  WishOK([tcb EXCEPT !.internal_state = "WAIT_EVENT"],
                  Asked(FALSE, {}, timeout))
<1> DEFINE q == [tcb EXCEPT !.internal_state = "WAIT_EVENT"]
           w == Asked(FALSE, {}, timeout)
<1>1. q.state = tcb.state
  BY DEF TCB
<1>2. w.all = FALSE /\ w.events = {}
  BY DEF Asked, NoWish
<1> HIDE DEF q, w
<1>3. WishOK(q, w)
  BY <1>1, <1>2 DEF WishOK, Waits, Ended, Satisfied, StateIn
<1> QED
  BY <1>3 DEF q, w

\* event_wait_multiple
LEMMA WaitingMultipleWish ==
    ASSUME NEW tcb \in TCB, NEW all \in BOOLEAN, NEW E \in SUBSET Event
    PROVE  LET r == WaitingMultiple(tcb, all, E)
           IN  WishOK([r EXCEPT !.internal_state = "WAIT_MULTIPLE"],
                      Asked(all, E, 0))
<1> DEFINE r == WaitingMultiple(tcb, all, E)
           q == [r EXCEPT !.internal_state = "WAIT_MULTIPLE"]
           w == Asked(all, E, 0)
<1>1. /\ q.state = "WAITING_EVENT" /\ q.eventQueue = E
      /\ q.waitSingleEvent = ~all /\ q.internal_state = "WAIT_MULTIPLE"
  BY DEF WaitingMultiple, TCB
<1>2. /\ w.all = all /\ w.events = E /\ w.limited = FALSE
      /\ w.heard = {} /\ w.expired = FALSE
  BY DEF Asked, NoWish
<1> HIDE DEF q, w
<1>3. q.waitSingleEvent # w.all
  BY <1>1, <1>2
<1>4. WishOK(q, w)
  BY <1>1, <1>2, <1>3 DEF WishOK, Awaits, StateIn, AwaitPoint
<1> QED
  BY <1>4 DEF q, w

\* os_task_signal_event: a wait goes on exactly while it is not satisfied.
Heard(w, e) == [w EXCEPT !.heard = w.heard \cup ({e} \cap w.events)]

Hears(tcb) == tcb.state \in {"WAITING_EVENT", "WAITING_EVENT_TIMEOUT"}

\* os_task_signal_event: the list loses what the wish has heard, and the wait
\* ends when the wish is satisfied.
LEMMA SignaledWish ==
    ASSUME NEW tcb \in TCB, NEW w \in Wishes, NEW e \in Event, WishOK(tcb, w),
           Sound(tcb)
    PROVE  /\ Hears(tcb) => WishOK(Signaled(tcb, e), Heard(w, e))
           /\ ~Hears(tcb) => Signaled(tcb, e) = tcb
           /\ Heard(w, e) \in Wishes
<1> DEFINE r == Signaled(tcb, e)
           v == Heard(w, e)
           c == Cleared(tcb)
<1>1. /\ v \in Wishes /\ v.all = w.all /\ v.events = w.events
      /\ v.limited = w.limited /\ v.expired = w.expired
      /\ v.heard = w.heard \cup ({e} \cap w.events)
  BY DEF Heard, Wishes
<1>2. ~Hears(tcb) => Signaled(tcb, e) = tcb
  BY DEF Hears, Signaled
<1>3. ASSUME Hears(tcb) PROVE WishOK(r, v)
  <2>1. /\ Awaits(tcb, w) /\ Waits(tcb) /\ StateIn(tcb) = tcb.state
        /\ tcb.waitSingleEvent \in BOOLEAN /\ w.all \in BOOLEAN
        /\ tcb.internal_state \in AwaitPoint
    BY <1>3 DEF Hears, Waits, WishOK, StateIn, TCB, Wishes, Awaits
  <2>2. CASE e \notin tcb.eventQueue
    <3>1. r = tcb /\ v.heard = w.heard
      BY <1>1, <2>1, <2>2 DEF Signaled, Awaits
    <3> HIDE DEF r, v
    <3>2. Awaits(tcb, v)
      BY <1>1, <2>1, <3>1 DEF Awaits
    <3>3. StateIn(tcb) \notin {"READY", "WAITING_TIME"}
      BY <1>3, <2>1 DEF Hears
    <3> QED
      BY <3>1, <3>2, <3>3 DEF WishOK
  <2>3. CASE /\ e \in tcb.eventQueue
             /\ tcb.waitSingleEvent \/ tcb.eventQueue \ {e} = {}
    <3>1. /\ c \in TCB /\ c.time = tcb.time
          /\ c.internal_state = tcb.internal_state
      BY DEF Cleared, TCB
    <3>2. r = [c EXCEPT !.state = "READY"]
      BY <1>3, <2>3 DEF Hears, Signaled
    <3> HIDE DEF c
    <3>3. r.state = "READY" /\ r.time = tcb.time
      BY <3>1, <3>2 DEF TCB
    <3> HIDE DEF r, v
    <3>4. Satisfied(v)
      <4>1. CASE w.all = TRUE
        <5>1. tcb.eventQueue \ {e} = {}
          BY <2>1, <2>3, <4>1 DEF Awaits
        <5> QED
          BY <1>1, <2>1, <4>1, <5>1 DEF Satisfied, Awaits
      <4>2. CASE w.all = FALSE
        BY <1>1, <2>1, <2>3, <4>2 DEF Satisfied, Awaits
      <4> QED
        BY <2>1, <4>1, <4>2
    <3>5. ~INTERRUPTS /\ v.limited = TRUE => tcb.time # 0
      <4>1. v.limited = TRUE => tcb.state = "WAITING_EVENT_TIMEOUT"
        BY <1>1, <2>1 DEF Awaits
      <4> QED
        BY <4>1 DEF Sound, WellFormed, HasTimeLeft, TimedState
    <3>6. v.expired = FALSE
      BY <1>1, <2>1 DEF Awaits
    <3>7. StateIn(r) = "READY" /\ ~Waits(r)
      BY <3>3 DEF StateIn, Waits
    <3> QED
      BY <3>3, <3>4, <3>5, <3>6, <3>7 DEF WishOK, Ended
  <2>4. CASE /\ e \in tcb.eventQueue
             /\ ~(tcb.waitSingleEvent \/ tcb.eventQueue \ {e} = {})
    <3>1. r = [tcb EXCEPT !.eventQueue = tcb.eventQueue \ {e}]
      BY <1>3, <2>4 DEF Hears, Signaled
    <3>2. /\ r.state = tcb.state /\ r.eventQueue = tcb.eventQueue \ {e}
          /\ r.internal_state = tcb.internal_state
          /\ r.waitSingleEvent = tcb.waitSingleEvent
      BY <3>1 DEF TCB
    <3> HIDE DEF r, v
    <3>3. w.all = TRUE /\ r.waitSingleEvent # v.all
      BY <1>1, <2>1, <2>4, <3>2 DEF Awaits
    <3>4. r.eventQueue = v.events \ v.heard
      BY <1>1, <2>1, <3>2 DEF Awaits
    <3>5. StateIn(r) = StateIn(tcb)
      BY <1>3, <3>2 DEF Hears, StateIn
    <3>6. Awaits(r, v)
      BY <1>1, <2>1, <3>2, <3>3, <3>4, <3>5 DEF Awaits
    <3>7. StateIn(r) \notin {"READY", "WAITING_TIME"}
      BY <1>3, <2>1, <3>5 DEF Hears
    <3> QED
      BY <3>6, <3>7 DEF WishOK
  <2> QED
    BY <2>2, <2>3, <2>4
<1> QED
  BY <1>1, <1>2, <1>3

\* task_tick: a wait with a timeout that ends here has expired.
Expired(tcb, r, w) ==
    IF tcb.state = "WAITING_EVENT_TIMEOUT" /\ r.state = "READY"
    THEN [w EXCEPT !.expired = TRUE] ELSE w

\* task_tick: a timeout that ends the wait is recorded in the wish.
LEMMA TickedWish ==
    ASSUME NEW tcb \in TCB, NEW w \in Wishes, WishOK(tcb, w), NEW id,
           NEW size \in Nat
    PROVE  LET r == Ticked(tcb, id, size)
           IN  WishOK(r, Expired(tcb, r, w)) /\ Expired(tcb, r, w) \in Wishes
<1> DEFINE c == Cleared(tcb)
           r == Ticked(tcb, id, size)
           v == Expired(tcb, r, w)
<1>1. /\ c \in TCB /\ c.internal_state = tcb.internal_state
      /\ [w EXCEPT !.expired = TRUE] \in Wishes
      /\ [w EXCEPT !.expired = TRUE].expired = TRUE
      /\ [w EXCEPT !.expired = TRUE].limited = w.limited
  BY DEF Cleared, TCB, Wishes
<1>2. \/ r = tcb
      \/ tcb.state \in TimedState /\ r = [tcb EXCEPT !.time = tcb.time - size]
      \/ tcb.state = "WAITING_TIME" /\ r = [tcb EXCEPT !.time = 0, !.state = "READY"]
      \/ /\ tcb.state = "WAITING_EVENT_TIMEOUT"
         /\ r = [c EXCEPT !.time = 0, !.state = "READY"]
      \/ /\ tcb.state = "WAITING_SEM"
         /\ r = [tcb EXCEPT !.time = (tcb.time + 1) % TIME_MOD]
  BY DEF Ticked, TimedState
<1> HIDE DEF c, r
<1>3. CASE r = tcb
  <2>1. v = w
    BY <1>3 DEF Expired
  <2> QED
    BY <1>3, <2>1 DEF r
<1>4. CASE /\ tcb.state \in TimedState \cup {"WAITING_SEM"}
           /\ \/ r = [tcb EXCEPT !.time = tcb.time - size]
              \/ r = [tcb EXCEPT !.time = (tcb.time + 1) % TIME_MOD]
  <2>1. /\ r.state = tcb.state /\ r.eventQueue = tcb.eventQueue
        /\ r.savedState = tcb.savedState
        /\ r.internal_state = tcb.internal_state
        /\ r.waitSingleEvent = tcb.waitSingleEvent
    BY <1>4 DEF TCB
  <2>2. v = w
    BY <1>4, <2>1 DEF Expired, TimedState
  <2>3. StateIn(r) = StateIn(tcb) /\ StateIn(r) # "READY" /\ (Waits(r) <=> Waits(tcb))
    BY <1>4, <2>1 DEF StateIn, Waits, TimedState
  <2> HIDE DEF v
  <2>4. WishOK(r, v)
    BY <2>1, <2>2, <2>3 DEF WishOK, Awaits
  <2> QED
    BY <2>2, <2>4 DEF r, v
<1>5. CASE tcb.state = "WAITING_TIME" /\ r = [tcb EXCEPT !.time = 0, !.state = "READY"]
  <2>1. r.state = "READY" /\ r.internal_state = tcb.internal_state
    BY <1>5 DEF TCB
  <2>2. v = w
    BY <1>5 DEF Expired
  <2>3. tcb.internal_state \notin AwaitPoint
    BY <1>5 DEF WishOK, StateIn
  <2> HIDE DEF v
  <2>4. WishOK(r, v)
    BY <2>1, <2>3 DEF WishOK, StateIn, Waits
  <2> QED
    BY <2>2, <2>4 DEF r, v
<1>6. CASE /\ tcb.state = "WAITING_EVENT_TIMEOUT"
           /\ r = [c EXCEPT !.time = 0, !.state = "READY"]
  <2>1. r.state = "READY" /\ r.time = 0
    BY <1>1, <1>6 DEF TCB
  <2>2. v = [w EXCEPT !.expired = TRUE]
    BY <1>6, <2>1 DEF Expired
  <2>3. w.limited = TRUE
    BY <1>6 DEF WishOK, Waits, Awaits, StateIn
  <2> HIDE DEF v
  <2>4. WishOK(r, v)
    BY <1>1, <2>1, <2>2, <2>3 DEF WishOK, StateIn, Waits, Ended
  <2> QED
    BY <1>1, <2>2, <2>4 DEF r, v
<1> QED
  BY <1>2, <1>3, <1>4, <1>5, <1>6

-----------------------------------------------------------------------------
(* Lists of tasks *)

\* The control blocks of one step suit the wishes before it, or forgotten ones.
KeepsWishes ==
    /\ ExecutingRuns'
    /\ \A t \in Tid : t < nTasks' => WishOK(task_list'[t], wish[t])

\* OS_YIELD of a macro of the kernel after writing block r of t.
LEMMA YieldKeeps ==
    ASSUME ClientInv, NEW t \in Tid, NEW r \in TCB, Listed(r), r.eventQueue = {},
           NEW point, point \notin AwaitPoint,
           OS_YIELD(t, [task_list EXCEPT ![t] = r], point)
    PROVE  KeepsWishes
<1> DEFINE q == [r EXCEPT !.internal_state = point]
<1>1. WishOK(q, wish[t])
  BY YieldedWish
<1>2. /\ task_list' = [task_list EXCEPT ![t] = q]
      /\ nTasks' = nTasks /\ running_tid' = NO_TID
  BY DEF OS_YIELD, os_task_internal_state_set, ClientInv, EventInv, KernelInv, TypeOK
<1> HIDE DEF q
<1> QED
  BY <1>1, <1>2 DEF ClientInv, EventInv, KernelInv, TypeOK, KeepsWishes,
     ExecutingRuns

\* A call after which the task goes on and that changes one block.
LEMMA ContinueKeeps ==
    ASSUME ClientInv, NEW u \in Tid, NEW r, u < nTasks => WishOK(r, wish[u]),
           u # running_tid \/ r.state = "KILLED",
           Continue([task_list EXCEPT ![u] = r])
    PROVE  KeepsWishes
BY DEF ClientInv, EventInv, KernelInv, TypeOK, KeepsWishes, ExecutingRuns, Continue

\* Steps that leave the task list alone.
LEMMA SameKeeps ==
    ASSUME ClientInv, task_list' = task_list, nTasks' = nTasks,
           running_tid' \in {running_tid, NO_TID}
    PROVE  KeepsWishes
BY DEF ClientInv, KeepsWishes, ExecutingRuns

-----------------------------------------------------------------------------
(* Steps *)

\* What the proofs about one step take from the invariant.
LEMMA ClientFacts ==
    ASSUME ClientInv
    PROVE  /\ ListOK(task_list, nTasks) /\ ControlOK
           /\ \A u \in Tid : task_list[u] \in TCB /\ wish[u] \in Wishes
           /\ \A u \in Tid : u < nTasks =>
                 /\ Listed(task_list[u]) /\ Sound(task_list[u])
                 /\ WishOK(task_list[u], wish[u])
           /\ \A u : Executing(u) =>
                 u \in Tid /\ u < nTasks /\ task_list[u].eventQueue = {}
<1>1. ListOK(task_list, nTasks) /\ ControlOK
  BY InvParts DEF ClientInv, EventInv
<1>2. \A u \in Tid : task_list[u] \in TCB /\ wish[u] \in Wishes
  BY <1>1 DEF ListOK, ClientInv
<1>3. \A u \in Tid : u < nTasks =>
        /\ Listed(task_list[u]) /\ Sound(task_list[u])
        /\ WishOK(task_list[u], wish[u])
  BY <1>1 DEF ListOK, ClientInv, EventInv, AllListed
<1>4. \A u : Executing(u) =>
        u \in Tid /\ u < nTasks /\ task_list[u].eventQueue = {}
  BY <1>1 DEF Executing, ControlOK, Created, ClientInv, EventInv,
     ExecutingHearsNothing
<1> QED
  BY <1>1, <1>2, <1>3, <1>4

\* The calls of the kernel: none of them ends a wait for events or starts one.
LEMMA TaskStepKeeps ==
    ASSUME ClientInv, NEW t \in Tid, TaskStep(t)
    PROVE  KeepsWishes
<1>1. Executing(t)
  BY DEF TaskStep, TaskYield, TaskCall, task_wait_id, task_suspend, task_resume,
     TaskKill, task_close, Executing
<1>2. /\ t < nTasks /\ task_list[t] \in TCB /\ Listed(task_list[t])
      /\ Sound(task_list[t]) /\ task_list[t].eventQueue = {}
  BY <1>1, ClientFacts
<1>3. ASSUME NEW id \in Clocks, NEW ticks \in WaitTicks,
             task_wait_id(t, id, ticks)
      PROVE  KeepsWishes
  <2> DEFINE r == WaitingTime(task_list[t], id, ticks)
  <2>1. CASE ticks = 0
    BY <1>3, <2>1, SameKeeps DEF task_wait_id, os_on_assert
  <2>2. CASE ticks # 0
    <3>1. r \in TCB /\ Listed(r)
      BY <1>2, WaitingTimeFacts, KernelCallsListed, KernelAssumption
    <3>2. r.eventQueue = {} /\ "WAIT_TICKS" \notin AwaitPoint
      BY <1>2 DEF WaitingTime, TCB, AwaitPoint
    <3>3. OS_YIELD(t, [task_list EXCEPT ![t] = r], "WAIT_TICKS")
      BY <1>3, <2>2 DEF task_wait_id, os_task_wait_time_set
    <3> HIDE DEF r
    <3> QED
      BY <3>1, <3>2, <3>3, YieldKeeps
  <2> QED
    BY <2>1, <2>2
<1>4. ASSUME NEW u \in Tid, task_suspend(t, u) PROVE KeepsWishes
  <2> DEFINE r == Suspended(task_list[u])
  <2>1. u < nTasks
    BY <1>4 DEF task_suspend, Created
  <2>2. r \in TCB /\ Listed(r) /\ WishOK(r, wish[u])
    BY <2>1, ClientFacts, SuspendedFacts, KernelCallsListed, ManagedWish
  <2>3. CASE u = t
    <3>1. r.eventQueue = {} /\ "SUSPEND_TASK" \notin AwaitPoint
      BY <1>2, <2>3 DEF Suspended, SuspendedFrom, TCB, AwaitPoint
    <3>2. OS_YIELD(t, [task_list EXCEPT ![t] = r], "SUSPEND_TASK")
      BY <1>4, <2>3 DEF task_suspend, os_task_suspend
    <3> HIDE DEF r
    <3> QED
      BY <2>2, <3>1, <3>2, YieldKeeps
  <2>4. CASE u # t
    <3>1. Continue([task_list EXCEPT ![u] = r])
      BY <1>4, <2>4 DEF task_suspend, os_task_suspend
    <3> HIDE DEF r
    <3> QED
      BY <1>1, <2>2, <2>4, <3>1, ContinueKeeps DEF Executing
  <2> QED
    BY <2>3, <2>4
<1>5. ASSUME NEW u \in Tid, task_resume(t, u) PROVE KeepsWishes
  <2> DEFINE r == Resumed(task_list[u])
  <2>1. u < nTasks
    BY <1>5 DEF task_resume, Created
  <2>2. r \in TCB /\ Listed(r) /\ WishOK(r, wish[u])
    BY <2>1, ClientFacts, ResumedFacts, KernelCallsListed, ManagedWish
  <2>3. CASE u = t
    <3>1. r.eventQueue = {} /\ "RESUME_TASK" \notin AwaitPoint
      BY <1>2, <2>3 DEF Resumed, TCB, AwaitPoint
    <3>2. OS_YIELD(t, [task_list EXCEPT ![t] = r], "RESUME_TASK")
      BY <1>5, <2>3 DEF task_resume, os_task_resume
    <3> HIDE DEF r
    <3> QED
      BY <2>2, <3>1, <3>2, YieldKeeps
  <2>4. CASE u # t
    <3>1. Continue([task_list EXCEPT ![u] = r])
      BY <1>5, <2>4 DEF task_resume, os_task_resume
    <3> HIDE DEF r
    <3> QED
      BY <1>1, <2>2, <2>4, <3>1, ContinueKeeps DEF Executing
  <2> QED
    BY <2>3, <2>4
<1>6. ASSUME NEW u \in Tid, TaskKill(t, u) PROVE KeepsWishes
  <2> DEFINE r == [task_list[u] EXCEPT !.state = "KILLED"]
  <2>1. WishOK(r, wish[u]) /\ r.state = "KILLED"
    BY ClientFacts, NewOrKilledWish, KilledFacts
  <2>2. Continue([task_list EXCEPT ![u] = r])
    BY <1>6 DEF TaskKill, os_task_kill
  <2> HIDE DEF r
  <2> QED
    BY <2>1, <2>2, ContinueKeeps
<1>7. CASE task_close(t)
  <2> DEFINE r == [task_list[t] EXCEPT !.state = "KILLED"]
  <2>1. WishOK(r, wish[t])
    BY <1>2, NewOrKilledWish
  <2>2. /\ task_list' = [task_list EXCEPT ![t] = r]
        /\ nTasks' = nTasks /\ running_tid' = NO_TID
    BY <1>7 DEF task_close, os_task_kill
  <2> HIDE DEF r
  <2> QED
    BY <2>1, <2>2, ClientFacts DEF ListOK, KeepsWishes, ExecutingRuns
<1> QED
  BY <1>3, <1>4, <1>5, <1>6, <1>7 DEF TaskStep, TaskYield, TaskCall

\* main() and the scheduling loop.
LEMMA LoopKeeps ==
    ASSUME ClientInv, Main \/ os_schedule \/ event_create
    PROVE  KeepsWishes
<1>1. ListOK(task_list, nTasks) /\ ControlOK
  BY ClientFacts
<1>2. CASE os_schedule
  <2>1. ASSUME NEW t \in Tid, Dispatch(t) PROVE KeepsWishes
    <3>1. task_list[t].state = "READY"
      BY <2>1 DEF Dispatch, Picked, next_ready_task, highest_prio_ready_task,
         ReadyTasks
    <3> QED
      BY <2>1, <3>1 DEF Dispatch, ClientInv, KeepsWishes, ExecutingRuns
  <2>2. CASE NothingFound
    BY <2>2, SameKeeps DEF NothingFound, Sleep, SchedulePastTaskList, os_on_assert
  <2> QED
    BY <1>2, <2>1, <2>2 DEF os_schedule
<1>3. CASE event_create
  BY <1>3, SameKeeps DEF event_create, os_on_assert, kernelVars
<1>4. CASE os_start
  BY <1>4, SameKeeps DEF os_start
<1>5. ASSUME NEW prio \in Prio, TaskCreate(prio) PROVE KeepsWishes
  <2>1. CASE ~MayCreate(prio)
    BY <1>5, <2>1, SameKeeps DEF TaskCreate, os_on_assert
  <2>2. CASE MayCreate(prio)
    <3> DEFINE r == CreatedTCB(task_list[nTasks], prio)
    <3>1. nTasks \in Tid
      BY <1>1, <2>2, TidFacts DEF MayCreate, ControlOK
    <3>2. task_list[nTasks] \in TCB
      BY <1>1, <3>1 DEF ListOK
    <3>3. WishOK(r, wish[nTasks])
      BY <3>2, NewOrKilledWish
    <3>4. /\ task_list' = [task_list EXCEPT ![nTasks] = r]
          /\ nTasks' = nTasks + 1 /\ running_tid' = running_tid
      BY <1>5, <2>2 DEF TaskCreate, os_task_create
    <3>5. \A t \in Tid : t < nTasks + 1 => t < nTasks \/ t = nTasks
      BY <3>1, TidFacts
    <3>6. running_tid # NO_TID => running_tid \in Tid /\ running_tid # nTasks
      BY <1>1, <3>1, TidFacts DEF ControlOK, Created
    <3> HIDE DEF r
    <3>7. \A t \in Tid : t # nTasks => task_list'[t] = task_list[t]
      BY <1>1, <3>4 DEF ListOK
    <3>8. task_list'[nTasks] = r
      BY <1>1, <3>1, <3>4 DEF ListOK
    <3> QED
      BY <3>3, <3>4, <3>5, <3>6, <3>7, <3>8
      DEF ClientInv, KeepsWishes, ExecutingRuns
  <2> QED
    BY <2>1, <2>2
<1> QED
  BY <1>2, <1>3, <1>4, <1>5 DEF Main

\* A step of the code that ClientsNext makes is one of OsEvent.
LEMMA ClientsStep == [ClientsNext]_clientVars => [EventNext]_evVars
<1> SUFFICES ASSUME [ClientsNext]_clientVars PROVE [EventNext]_evVars
  OBVIOUS
<1>1. CASE UNCHANGED clientVars
  BY <1>1 DEF clientVars
<1>2. CASE ClientsNext
  BY <1>2 DEF ClientsNext, EventNext, EventStep, Undisturbed
<1> QED
  BY <1>1, <1>2

\* The wishes are forgotten behind other macros.
LEMMA ForgetOK ==
    ASSUME ClientInv, EventInv', KeepsWishes, wish' = [t \in Tid |-> Wish(t)]
    PROVE  ClientInv'
<1>1. \A t \in Tid : wish'[t] = wish[t] \/
        (wish'[t] = NoWish /\ task_list'[t].internal_state \notin AwaitPoint)
  BY DEF Wish, AwaitPoint
<1>2. NoWish \in Wishes
  BY DEF NoWish, Wishes
<1>3. wish' \in [Tid -> Wishes]
  BY <1>1, <1>2 DEF ClientInv
<1>4. \A t \in Tid : t < nTasks' => WishOK(task_list'[t], wish'[t])
  BY <1>1, ForgottenOK DEF KeepsWishes
<1> QED
  BY <1>3, <1>4 DEF KeepsWishes, ClientInv

\* event_wait_timeout and event_wait_multiple: task t leaves block r with a new
\* wish.
LEMMA AskOK ==
    ASSUME ClientInv, EventInv', NEW t \in Tid, NEW r, NEW point, NEW w \in Wishes,
           WishOK([r EXCEPT !.internal_state = point], w),
           OS_YIELD(t, [task_list EXCEPT ![t] = r], point),
           wish' = [wish EXCEPT ![t] = w]
    PROVE  ClientInv'
<1> DEFINE q == [r EXCEPT !.internal_state = point]
<1>1. /\ task_list' = [task_list EXCEPT ![t] = q]
      /\ nTasks' = nTasks /\ running_tid' = NO_TID
  BY DEF OS_YIELD, os_task_internal_state_set, ClientInv, EventInv, KernelInv, TypeOK
<1> HIDE DEF q
<1>2. WishOK(q, w)
  BY DEF q
<1>3. wish' \in [Tid -> Wishes]
  BY DEF ClientInv
<1>4. \A u \in Tid : u < nTasks' => WishOK(task_list'[u], wish'[u])
  BY <1>1, <1>2 DEF ClientInv, EventInv, KernelInv, TypeOK
<1> QED
  BY <1>1, <1>3, <1>4 DEF ClientInv, ExecutingRuns

\* event_wait and event_wait_timeout: the list is what the new wish misses.
LEMMA WaitAsksOK ==
    ASSUME ClientInv, EventInv', NEW t \in Tid, NEW e \in Event,
           NEW timeout \in Timeouts \cup {0}, event_wait_timeout(t, e, timeout),
           Asks(t, FALSE, {e} \cap LiveEv, timeout)
    PROVE  ClientInv'
<1>1. Executing(t)
  BY DEF event_wait_timeout
<1>2. /\ t < nTasks /\ task_list[t] \in TCB /\ Listed(task_list[t])
      /\ task_list[t].eventQueue = {} /\ task_list[t].state \in {"READY", "KILLED"}
  BY <1>1, ClientFacts DEF ClientInv, ExecutingRuns, Executing
<1>3. timeout \in Time
  BY EventAssumption, TaskAssumption DEF Time
<1>4. CASE e \in LiveEv
  <2> DEFINE r == WaitingEvent(task_list[t], e, TRUE, timeout)
             w == Asked(FALSE, {e}, timeout)
  <2>1. OS_YIELD(t, [task_list EXCEPT ![t] = r], "WAIT_EVENT")
    BY <1>4 DEF event_wait_timeout, os_task_wait_event
  <2>2. WishOK([r EXCEPT !.internal_state = "WAIT_EVENT"], w)
    BY <1>2, <1>3, WaitingWish
  <2>3. w \in Wishes
    BY DEF Asked, NoWish, Wishes
  <2>4. wish' = [wish EXCEPT ![t] = w]
    <3>1. {e} \cap LiveEv = {e}
      BY <1>4
    <3> QED
      BY <3>1 DEF Asks, Asked
  <2> HIDE DEF r, w
  <2> QED
    BY <2>1, <2>2, <2>3, <2>4, AskOK
<1>5. CASE e \notin LiveEv
  <2> DEFINE w == Asked(FALSE, {}, timeout)
  <2>1. OS_YIELD(t, [task_list EXCEPT ![t] = task_list[t]], "WAIT_EVENT")
    <3>1. task_list = [task_list EXCEPT ![t] = task_list[t]]
      BY ClientFacts DEF ListOK
    <3> QED
      BY <1>5, <3>1 DEF event_wait_timeout
  <2>2. WishOK([task_list[t] EXCEPT !.internal_state = "WAIT_EVENT"], w)
    BY <1>2, <1>3, NothingAsked
  <2>3. w \in Wishes
    BY DEF Asked, NoWish, Wishes
  <2>4. wish' = [wish EXCEPT ![t] = w]
    <3>1. {e} \cap LiveEv = {}
      BY <1>5
    <3> QED
      BY <3>1 DEF Asks, Asked
  <2> HIDE DEF w
  <2> QED
    BY <2>1, <2>2, <2>3, <2>4, AskOK
<1> QED
  BY <1>4, <1>5

\* event_wait_multiple: the list is the events it was given.
LEMMA WaitMultipleAsksOK ==
    ASSUME ClientInv, EventInv', NEW t \in Tid, NEW all \in BOOLEAN,
           NEW E \in (SUBSET LiveEv) \ {{}}, event_wait_multiple(t, all, E),
           Asks(t, all, E, 0)
    PROVE  ClientInv'
<1> DEFINE r == WaitingMultiple(task_list[t], all, E)
           w == Asked(all, E, 0)
<1>1. task_list[t] \in TCB /\ E \in SUBSET Event
  BY ClientFacts, EventFacts
<1>2. OS_YIELD(t, [task_list EXCEPT ![t] = r], "WAIT_MULTIPLE")
  BY DEF event_wait_multiple
<1>3. WishOK([r EXCEPT !.internal_state = "WAIT_MULTIPLE"], w)
  BY <1>1, WaitingMultipleWish
<1>4. w \in Wishes
  BY <1>1 DEF Asked, NoWish, Wishes
<1>5. wish' = [wish EXCEPT ![t] = w]
  BY DEF Asks, Asked
<1> HIDE DEF r, w
<1> QED
  BY <1>2, <1>3, <1>4, <1>5, AskOK

\* What Hear does to one wish.
LEMMA HearFacts ==
    ASSUME ClientInv, NEW e \in Event, Hear(e)
    PROVE  /\ wish' \in [Tid -> Wishes]
           /\ \A u \in Tid : u < nTasks =>
                 \/ /\ Hears(task_list[u])
                    /\ wish'[u] = Heard(wish[u], e)
                 \/ /\ ~Hears(task_list[u])
                    /\ \/ wish'[u] = wish[u]
                       \/ task_list'[u].internal_state \notin AwaitPoint
<1>1. \A u \in Tid : Heard(wish[u], e) \in Wishes /\ wish[u] \in Wishes
  <2>1. \A u \in Tid : wish[u] \in Wishes
    BY DEF ClientInv
  <2> QED
    BY <2>1 DEF Heard, Wishes
<1>2. NoWish \in Wishes
  BY DEF NoWish, Wishes
<1>3. wish' = [u \in Tid |-> IF Listens(u) THEN Heard(wish[u], e) ELSE Wish(u)]
  BY DEF Hear, Heard
<1>4. \A u \in Tid : Wish(u) = wish[u] \/
        (Wish(u) = NoWish /\ task_list'[u].internal_state \notin AwaitPoint)
  BY DEF Wish, AwaitPoint
<1>5. \A u \in Tid : u < nTasks => (Listens(u) <=> Hears(task_list[u]))
  BY DEF Listens, Hears, Created
<1> QED
  BY <1>1, <1>2, <1>3, <1>4, <1>5

\* event_signal and event_ISR_signal
LEMMA SignalHeardOK ==
    ASSUME ClientInv, EventInv', NEW e \in Event, Hear(e),
           LET tl == os_task_signal_event(task_list, nTasks, e)
           IN  \/ Continue(tl)
               \/ \E t \in Tid : Executing(t) /\ OS_YIELD(t, tl, "SIGNAL_EVENT")
    PROVE  ClientInv'
<1> DEFINE tl == os_task_signal_event(task_list, nTasks, e)
<1>1. /\ tl \in [Tid -> TCB]
      /\ \A u \in Tid : u < nTasks => tl[u] = Signaled(task_list[u], e)
      /\ \A u \in Tid : task_list[u].state \in {"READY", "KILLED"}
                          => tl[u].state = task_list[u].state
  BY SignalOK DEF ClientInv, ListOK, os_task_signal_event
<1> HIDE DEF tl
<1>2. ASSUME NEW u \in Tid, u < nTasks, task_list'[u] = tl[u]
      PROVE  WishOK(task_list'[u], wish'[u])
  <2>1. task_list[u] \in TCB /\ wish[u] \in Wishes
        /\ Sound(task_list[u]) /\ WishOK(task_list[u], wish[u])
    BY <1>2, ClientFacts
  <2>2. CASE Hears(task_list[u])
    <3>1. wish'[u] = Heard(wish[u], e)
      BY <1>2, <2>2, HearFacts
    <3>2. WishOK(Signaled(task_list[u], e), Heard(wish[u], e))
      BY <2>1, <2>2, SignaledWish
    <3> QED
      BY <1>1, <1>2, <3>1, <3>2
  <2>3. CASE ~Hears(task_list[u])
    <3>1. task_list'[u] = task_list[u]
      BY <1>1, <1>2, <2>1, <2>3, SignaledWish
    <3>2. \/ wish'[u] = wish[u]
          \/ task_list'[u].internal_state \notin AwaitPoint
      BY <1>2, <2>3, HearFacts
    <3> QED
      BY <2>1, <3>1, <3>2, ForgottenOK
  <2> QED
    BY <2>2, <2>3
<1>3. CASE Continue(tl)
  <2>1. task_list' = tl /\ nTasks' = nTasks /\ running_tid' = running_tid
    BY <1>3 DEF Continue
  <2>2. \A u \in Tid : u < nTasks' => WishOK(task_list'[u], wish'[u])
    BY <1>2, <2>1
  <2>3. ExecutingRuns'
    BY <1>1, <2>1, ClientFacts DEF ClientInv, ExecutingRuns, ControlOK, Created
  <2> QED
    BY <2>2, <2>3, HearFacts DEF ClientInv
<1>4. ASSUME NEW t \in Tid, Executing(t), OS_YIELD(t, tl, "SIGNAL_EVENT")
      PROVE  ClientInv'
  <2> DEFINE q == [task_list[t] EXCEPT !.internal_state = "SIGNAL_EVENT"]
  <2>1. /\ t < nTasks /\ task_list[t] \in TCB /\ Listed(task_list[t])
        /\ task_list[t].eventQueue = {}
        /\ task_list[t].state \in {"READY", "KILLED"}
    BY <1>4, ClientFacts DEF ClientInv, ExecutingRuns, Executing
  <2>2. tl[t] = task_list[t]
    BY <1>1, <2>1 DEF Signaled
  <2>3. /\ task_list' = [tl EXCEPT ![t] = q]
        /\ nTasks' = nTasks /\ running_tid' = NO_TID
    BY <1>4, <2>2 DEF OS_YIELD, os_task_internal_state_set
  <2>4. WishOK(q, wish'[t])
    <3>1. "SIGNAL_EVENT" \notin AwaitPoint
      BY DEF AwaitPoint
    <3> QED
      BY <2>1, <3>1, YieldedWish
  <2> HIDE DEF q
  <2>5. task_list'[t] = q /\ \A u \in Tid : u # t => task_list'[u] = tl[u]
    BY <1>1, <2>3
  <2>6. \A u \in Tid : u < nTasks' => WishOK(task_list'[u], wish'[u])
    BY <1>2, <2>3, <2>4, <2>5
  <2> QED
    BY <2>3, <2>6, HearFacts DEF ClientInv, ExecutingRuns
<1> QED
  BY <1>3, <1>4 DEF tl

\* A tick of any clock.
LEMMA ClockExpiresOK ==
    ASSUME ClientInv, EventInv', Clock, Expire
    PROVE  ClientInv'
<1>1. ListOK(task_list, nTasks) /\ ControlOK
  BY ClientFacts
<1>2. PICK id \in ClockId, size \in Nat : Tick(id, size)
  BY KernelAssumption DEF Clock, os_tick, os_sub_nTick, ClockId
<1>3. /\ nTasks' = nTasks /\ running_tid' = running_tid
      /\ \A u \in Tid : task_list'[u] = IF u < nTasks
                                       THEN Ticked(task_list[u], id, size)
                                       ELSE task_list[u]
      /\ \A u \in Tid : task_list[u].state \in {"READY", "KILLED"}
                          => task_list'[u].state = task_list[u].state
  BY <1>1, <1>2, TickOK DEF Tick, task_tick
<1>4. \A u \in Tid : wish'[u] = Expired(task_list[u], task_list'[u], wish[u])
  BY DEF Expire, Expired
<1>5. \A u \in Tid : u < nTasks => WishOK(task_list'[u], wish'[u])
  BY <1>3, <1>4, ClientFacts, TickedWish
<1>6. wish' \in [Tid -> Wishes]
  <2>1. \A u \in Tid : wish'[u] \in Wishes
    <3>1. \A u \in Tid : wish[u] \in Wishes
      BY ClientFacts
    <3>2. \A w \in Wishes : [w EXCEPT !.expired = TRUE] \in Wishes
      BY DEF Wishes
    <3> QED
      BY <1>4, <3>1, <3>2 DEF Expired
  <2> QED
    BY <2>1 DEF Expire
<1>7. ExecutingRuns'
  BY <1>1, <1>3 DEF ClientInv, ExecutingRuns, ControlOK, Created
<1> QED
  BY <1>3, <1>5, <1>6, <1>7 DEF ClientInv

-----------------------------------------------------------------------------
\* os_init, before anybody has a wish.
LEMMA ClientInitInv == ClientsInit => ClientInv
<1> SUFFICES ASSUME ClientsInit PROVE ClientInv
  OBVIOUS
<1>1. EventInv
  BY EventInitInv DEF ClientsInit
<1>2. NoWish \in Wishes
  BY DEF NoWish, Wishes
<1>3. \A t \in Tid : ~(t < 0)
  BY TidFacts
<1>4. nTasks = 0 /\ running_tid = NO_TID
  BY DEF ClientsInit, EventInit, os_init
<1> QED
  BY <1>1, <1>2, <1>3, <1>4 DEF ClientsInit, ClientInv, ExecutingRuns

\* Every call, signal and tick.
LEMMA ClientStepInv == ClientInv /\ [ClientsNext]_clientVars => ClientInv'
<1> SUFFICES ASSUME ClientInv, [ClientsNext]_clientVars PROVE ClientInv'
  OBVIOUS
<1>1. EventInv'
  BY ClientsStep, EventStepInv DEF ClientInv
<1>2. ASSUME NEW t \in Tid, NEW e \in Event, NEW timeout \in Timeouts \cup {0},
             event_wait_timeout(t, e, timeout),
             Asks(t, FALSE, {e} \cap LiveEv, timeout)
      PROVE  ClientInv'
  BY <1>1, <1>2, WaitAsksOK
<1>3. ASSUME NEW t \in Tid, NEW all \in BOOLEAN,
             NEW E \in (SUBSET LiveEv) \ {{}}, event_wait_multiple(t, all, E),
             Asks(t, all, E, 0)
      PROVE  ClientInv'
  BY <1>1, <1>3, WaitMultipleAsksOK
<1>4. ASSUME NEW e \in Event, Hear(e),
             event_ISR_signal(e) \/ \E t \in Tid : event_signal(t, e)
      PROVE  ClientInv'
  BY <1>1, <1>4, SignalHeardOK DEF event_ISR_signal, event_signal
<1>5. CASE Clock /\ Expire
  BY <1>1, <1>5, ClockExpiresOK
<1>6. CASE /\ event_create \/ Main \/ os_schedule \/ \E t \in Tid : TaskStep(t)
           /\ wish' = [t \in Tid |-> Wish(t)]
  <2>1. KeepsWishes
    BY <1>6, LoopKeeps, TaskStepKeeps
  <2> QED
    BY <1>1, <1>6, <2>1, ForgetOK
<1>7. CASE UNCHANGED clientVars
  BY <1>1, <1>7 DEF clientVars, evVars, kernelVars, ClientInv, ExecutingRuns
<1> QED
  BY <1>2, <1>3, <1>4, <1>5, <1>6, <1>7 DEF ClientsNext

\* The invariant of events and their waiters, for any number of tasks and events,
\* any timeouts and any calls of tasks and ISRs.
THEOREM ClientInvariant == ClientsSpec => []ClientInv
<1>1. ClientsInit => ClientInv
  BY ClientInitInv
<1>2. ClientInv /\ [ClientsNext]_clientVars => ClientInv'
  BY ClientStepInv
<1> QED
  BY <1>1, <1>2, PTL DEF ClientsSpec

\* No signal to a waiting task is lost (os_task_signal_event): a task does not
\* wait on once it has heard what it asked for.
THEOREM NoSignalLost == ClientsSpec => []SignalsWake
<1>1. ASSUME ClientInv, NEW t \in Created, WaitsForEvent(t)
      PROVE  ~Satisfied(wish[t])
  <2>1. t \in Tid /\ t < nTasks
    BY DEF Created
  <2>2. /\ Waits(task_list[t]) /\ Awaits(task_list[t], wish[t])
        /\ wish[t] \in Wishes
    BY <1>1, <2>1, ClientFacts DEF WaitsForEvent, StateOf, Waits, WishOK
  <2>3. task_list[t].eventQueue # {}
    BY <1>1, <2>1, <2>2, ClientFacts DEF Listed, Waits
  <2> QED
    BY <2>2, <2>3 DEF Awaits, Satisfied, Wishes
<1>2. ClientInv => SignalsWake
  BY <1>1 DEF SignalsWake
<1> QED
  BY <1>2, ClientInvariant, PTL

\* Nothing but its events or its timeout ends a wait (os_task_signal_event,
\* task_tick): no suspension, resumption or wait of somebody else does.
THEOREM NoFalseWake == ClientsSpec => []WakesForAReason
<1>1. ASSUME ClientInv, NEW t \in Created, BehindWait(t)
      PROVE  Satisfied(wish[t]) \/ (wish[t].expired /\ wish[t].limited)
  <2>1. t \in Tid /\ t < nTasks
    BY DEF Created
  <2>2. Ended(task_list[t], wish[t])
    BY <1>1, <2>1, ClientFacts DEF BehindWait, StateOf, StateIn, AwaitPoint, WishOK
  <2> QED
    BY <2>2 DEF Ended
<1>2. ClientInv => WakesForAReason
  BY <1>1 DEF WakesForAReason
<1> QED
  BY <1>2, ClientInvariant, PTL

\* event_get_timeout tells why a wait with a timeout ended, as long as no tick
\* comes inside os_task_suspend: one that did could save a wait with no time left.
THEOREM TimeTellsTimeout ==
    ASSUME ~INTERRUPTS
    PROVE  ClientsSpec => []TimeoutIsTold
<1>1. ASSUME ClientInv, NEW t \in Created, BehindWait(t), wish[t].limited,
             wish[t].events # {}
      PROVE  task_list[t].time = 0 <=> wish[t].expired
  <2>1. t \in Tid /\ t < nTasks
    BY DEF Created
  <2>2. Ended(task_list[t], wish[t]) /\ wish[t] \in Wishes
    BY <1>1, <2>1, ClientFacts DEF BehindWait, StateOf, StateIn, AwaitPoint, WishOK
  <2>3. wish[t].limited \in BOOLEAN /\ wish[t].expired \in BOOLEAN
    BY <2>2 DEF Wishes
  <2> QED
    BY <1>1, <2>2, <2>3 DEF Ended
<1>2. ClientInv => TimeoutIsTold
  BY <1>1 DEF TimeoutIsTold
<1> QED
  BY <1>2, ClientInvariant, PTL
=============================================================================
