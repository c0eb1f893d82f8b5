---------------------------- MODULE OsMsg_proofs ----------------------------
(***************************************************************************)
(* Theorems about message passing between tasks, for every number of tasks *)
(* and queues, every size of a queue and any messages, delays and periods: *)
(* types, and that no wake-up of a poster or of a reader is lost.          *)
(***************************************************************************)
EXTENDS OsMsg, OsEvent_proofs, OsMsgQueue_proofs

-----------------------------------------------------------------------------
(* os_msg_receive *)

\* The k-th turn of the loop, after r was made by the turns before.
Turn(q, r, k) == Inspected(r, r.list[SlotFrom(q, q.tail, k)])

IsTurns(q, f, n) ==
    f = [k \in 0 .. n |-> IF k = 0 THEN q ELSE Turn(q, f[k - 1], k)]

\* The loop is defined: there is a list of its turns, of any length.
LEMMA TurnsExist ==
    ASSUME NEW q, NEW n \in Nat
    PROVE  \E f : IsTurns(q, f, n)
<1> DEFINE T == {m \in Nat : ~ \E f : IsTurns(q, f, m)}
<1> SUFFICES T = {}
  OBVIOUS
<1> SUFFICES ASSUME T # {} PROVE FALSE
  OBVIOUS
<1>1. PICK m \in T : \A y \in T : m <= y
  <2>1. T \in SUBSET Nat /\ T # {}
    OBVIOUS
  <2> HIDE DEF T
  <2> QED BY <2>1, LeastNat
<1>2. m # 0
  <2>1. IsTurns(q, [k \in 0 .. 0 |-> q], 0)
    BY DEF IsTurns
  <2> QED
    BY <2>1
<1>3. m \in Nat /\ m - 1 \in Nat
  BY <1>2
<1>4. PICK f : IsTurns(q, f, m - 1)
  BY <1>1, <1>3
<1> DEFINE g == [k \in 0 .. m |-> IF k <= m - 1 THEN f[k] ELSE Turn(q, f[m - 1], m)]
<1>5. \A k \in 0 .. m : k <= m - 1 \/ k = m
  BY <1>3
<1>6. \A k \in 0 .. m : g[k] = IF k = 0 THEN q ELSE Turn(q, g[k - 1], k)
  <2> TAKE k \in 0 .. m
  <2>1. CASE k = 0
    BY <1>3, <1>4, <2>1 DEF IsTurns
  <2>2. CASE k # 0 /\ k <= m - 1
    <3>1. k \in 0 .. m - 1 /\ k - 1 \in 0 .. m - 1 /\ k - 1 \in 0 .. m
      BY <1>3, <2>2
    <3>2. f[k] = Turn(q, f[k - 1], k)
      BY <1>4, <2>2, <3>1 DEF IsTurns
    <3>3. g[k] = f[k] /\ g[k - 1] = f[k - 1]
      BY <1>3, <2>2, <3>1
    <3> QED
      BY <2>2, <3>2, <3>3
  <2>3. CASE k = m
    <3>1. m - 1 \in 0 .. m /\ m - 1 <= m - 1 /\ ~(m <= m - 1)
      BY <1>3
    <3>2. g[m - 1] = f[m - 1]
      BY <3>1
    <3>3. g[m] = Turn(q, f[m - 1], m)
      BY <1>3, <3>1
    <3> QED
      BY <1>2, <2>3, <3>2, <3>3
  <2> QED
    BY <1>5, <2>1, <2>2, <2>3
<1> HIDE DEF g
<1>7. IsTurns(q, g, m)
  <2>1. g = [k \in 0 .. m |-> g[k]]
    BY DEF g
  <2>2. [k \in 0 .. m |-> g[k]]
          = [k \in 0 .. m |-> IF k = 0 THEN q ELSE Turn(q, g[k - 1], k)]
    BY <1>6
  <2> QED
    BY <2>1, <2>2 DEF IsTurns
<1> QED
  BY <1>1, <1>7

\* What Turns is.
LEMMA TurnsFacts ==
    ASSUME NEW q, q.size - 1 \in Nat
    PROVE  IsTurns(q, Turns(q), q.size - 1)
<1>1. PICK f : IsTurns(q, f, q.size - 1)
  BY TurnsExist
<1>2. Turns(q) = CHOOSE g : IsTurns(q, g, q.size - 1)
  BY DEF Turns, IsTurns, Turn
<1> QED
  BY <1>1, <1>2

\* Every turn leaves a queue.
LEMMA TurnsType ==
    ASSUME NEW size \in PoolSize, NEW q \in OSQueue_t(size)
    PROVE  \A k \in 0 .. size - 1 : Turns(q)[k] \in OSQueue_t(size)
<1> DEFINE f == Turns(q)
           T == {k \in 0 .. size - 1 : f[k] \notin OSQueue_t(size)}
<1>1. /\ q.size = size /\ size \in Nat /\ size > 1 /\ q.tail \in Nat
      /\ size - 1 \in Nat
  <2>1. q.size = size /\ size \in Nat /\ size > 1 /\ q.tail \in Nat
    BY RingFacts
  <2> QED
    BY <2>1
<1>2. f = [k \in 0 .. size - 1 |-> IF k = 0 THEN q ELSE Turn(q, f[k - 1], k)]
  BY <1>1, TurnsFacts DEF IsTurns
<1> HIDE DEF f
<1> SUFFICES T = {}
  BY DEF f
<1> SUFFICES ASSUME T # {} PROVE FALSE
  OBVIOUS
<1>3. PICK m \in T : \A y \in T : m <= y
  <2>1. T \in SUBSET Nat /\ T # {}
    BY <1>1
  <2> HIDE DEF T
  <2> QED BY <2>1, LeastNat
<1>4. m # 0
  BY <1>1, <1>2
<1>5. m - 1 \in 0 .. size - 1 /\ m \in Nat /\ ~(m <= m - 1)
  BY <1>1, <1>4
<1>6. f[m - 1] \in OSQueue_t(size)
  BY <1>3, <1>5
<1>7. f[m] = Turn(q, f[m - 1], m)
  BY <1>1, <1>2, <1>4
<1> DEFINE r == f[m - 1]
<1>8. SlotFrom(q, q.tail, m) \in 0 .. size - 1
  BY <1>1, <1>5, RingFacts
<1>9. r.list[SlotFrom(q, q.tail, m)] \in Msg_t
  BY <1>6, <1>8 DEF OSQueue_t
<1>10. DELAY_MAX \in Nat
  BY MsgAssumption
<1> HIDE DEF r
<1>11. Turn(q, r, m) \in OSQueue_t(size)
  BY <1>6, <1>9, <1>10, InspectedType DEF Turn, r
<1> QED
  BY <1>3, <1>7, <1>11 DEF r

\* os_msg_receive, of a queue with a message that is due.
LEMMA ReceiveType ==
    ASSUME NEW size \in PoolSize, NEW q \in OSQueue_t(size), ~MsgQAllDelayed(q)
    PROVE  os_msg_receive(q) \in OSQueue_t(size)
<1> DEFINE due(k) == q.list[SlotFrom(q, q.tail, k)].delay = 0
           T == {k \in 1 .. Count(q) : due(k)}
<1>1. Count(q) \in 0 .. size - 1 /\ size \in Nat /\ q.tail \in Nat
  BY RingFacts, PendingFacts
<1>2. ASSUME NEW k \in 1 .. Count(q)
      PROVE  /\ SlotFrom(q, q.tail, k) \in 0 .. size - 1
             /\ q.list[SlotFrom(q, q.tail, k)].delay \in Nat
  <2>1. k \in Nat
    OBVIOUS
  <2>2. SlotFrom(q, q.tail, k) \in 0 .. size - 1
    BY <1>1, <2>1, RingFacts
  <2>3. q.list[SlotFrom(q, q.tail, k)] \in Msg_t
    BY <2>2 DEF OSQueue_t
  <2> QED
    BY <2>2, <2>3 DEF Msg_t
<1>3. T \in SUBSET Nat /\ T # {}
  <2>1. PICK i \in Pending(q) : ~(q.list[i].delay > 0)
    BY DEF MsgQAllDelayed
  <2>2. PICK k \in 1 .. Count(q) : i = SlotFrom(q, q.tail, k)
    BY <2>1 DEF Pending
  <2>3. due(k)
    BY <1>2, <2>1, <2>2
  <2>4. T # {}
    BY <2>3
  <2>5. \A x \in T : x \in Nat
    OBVIOUS
  <2> QED
    BY <2>4, <2>5
<1>4. PICK m \in T : \A y \in T : m <= y
  <2> HIDE DEF T
  <2> QED BY <1>3, LeastNat
<1>5. \A j \in 1 .. m - 1 : q.list[SlotFrom(q, q.tail, j)].delay > 0
  <2> TAKE j \in 1 .. m - 1
  <2>1. m \in Nat /\ m <= Count(q)
    BY <1>1
  <2>2. j \in 1 .. Count(q) /\ ~(m <= j)
    BY <1>1, <2>1
  <2>3. ~due(j)
    BY <1>4, <2>2
  <2> QED
    BY <1>2, <2>2, <2>3
<1>6. /\ FoundAt(q) \in 1 .. Count(q)
  BY <1>4, <1>5 DEF FoundAt
<1> DEFINE k == FoundAt(q)
           r == Turns(q)[k]
<1>7. k \in 0 .. size - 1
  BY <1>1, <1>6
<1> HIDE DEF k
<1>8. r \in OSQueue_t(size)
  BY <1>7, TurnsType
<1>9. SlotFrom(q, q.tail, k) \in 0 .. size - 1
  BY <1>2, <1>6 DEF k
<1> HIDE DEF r
<1>10. [r EXCEPT !.tail = SlotFrom(q, q.tail, k)] \in OSQueue_t(size)
  BY <1>8, <1>9 DEF OSQueue_t
<1> QED
  BY <1>10 DEF os_msg_receive, r, k

-----------------------------------------------------------------------------
(* The tick of task_tick, task after task *)

\* What the master clock and the change events may make of a control block.
Later(r, tcb) ==
    /\ r \in TCB
    /\ r.prio = tcb.prio
    /\ Sound(tcb) => Sound(r)
    /\ Listed(tcb) => Listed(r)
    /\ r.eventQueue \subseteq tcb.eventQueue
    /\ tcb.state \in {"READY", "KILLED"} => r.state = tcb.state
    /\ r.state = "WAITING_EVENT" => tcb.state = "WAITING_EVENT"
    /\ tcb.state = "WAITING_EVENT" /\ tcb.waitSingleEvent
         => r = tcb \/ r.state = "READY"

\* A signal of e ends a wait for e alone.
LEMMA SignaledLater ==
    ASSUME NEW tcb \in TCB, NEW e
    PROVE  /\ Later(Signaled(tcb, e), tcb)
           /\ tcb.state = "WAITING_EVENT" /\ tcb.waitSingleEvent /\ e \in tcb.eventQueue
                => Signaled(tcb, e).state = "READY"
           /\ tcb.state = "WAITING_EVENT" /\ e \notin tcb.eventQueue
                => Signaled(tcb, e) = tcb
<1> DEFINE r == Signaled(tcb, e)
           c == Cleared(tcb)
<1>1. /\ r \in TCB /\ r.prio = tcb.prio
      /\ Sound(tcb) => Sound(r)
      /\ Listed(tcb) => Listed(r)
      /\ r.eventQueue \subseteq tcb.eventQueue
  BY SignaledFacts
<1>2. c \in TCB
  BY DEF Cleared, TCB
<1>3. \/ r = tcb
      \/ /\ tcb.state \in {"WAITING_EVENT", "WAITING_EVENT_TIMEOUT"}
         /\ \/ r = [c EXCEPT !.state = "READY"]
            \/ /\ ~tcb.waitSingleEvent
               /\ r = [tcb EXCEPT !.eventQueue = tcb.eventQueue \ {e}]
  BY DEF Signaled, TCB
<1>4. \/ r = tcb
      \/ /\ tcb.state \in {"WAITING_EVENT", "WAITING_EVENT_TIMEOUT"}
         /\ \/ r.state = "READY"
            \/ ~tcb.waitSingleEvent /\ r.state = tcb.state
  BY <1>2, <1>3 DEF TCB
<1>5. tcb.state = "WAITING_EVENT" /\ tcb.waitSingleEvent /\ e \in tcb.eventQueue
        => r.state = "READY"
  <2> SUFFICES ASSUME tcb.state = "WAITING_EVENT", tcb.waitSingleEvent,
                      e \in tcb.eventQueue
               PROVE  r.state = "READY"
    OBVIOUS
  <2>1. r = [c EXCEPT !.state = "READY"]
    BY DEF Signaled
  <2> HIDE DEF c, r
  <2> QED
    BY <1>2, <2>1 DEF TCB
<1>6. tcb.state = "WAITING_EVENT" /\ e \notin tcb.eventQueue => r = tcb
  BY DEF Signaled
<1> QED
  BY <1>1, <1>4, <1>5, <1>6 DEF Later

\* task_tick ends a wait or leaves it the same.
LEMMA TickedLater ==
    ASSUME NEW tcb \in TCB
    PROVE  Later(Ticked(tcb, 0, 1), tcb)
<1> DEFINE r == Ticked(tcb, 0, 1)
<1>1. /\ r \in TCB /\ r.prio = tcb.prio
      /\ \/ r.state = tcb.state
         \/ tcb.state \in TimedState /\ r.state = "READY"
      /\ Sound(tcb) => Sound(r)
  BY TickedFacts DEF ClockId
<1>2. Listed(tcb) => Listed(r)
  BY TickedListed
<1>3. r.eventQueue \subseteq tcb.eventQueue
  <2> DEFINE c == Cleared(tcb)
  <2>1. c \in TCB /\ c.eventQueue = {}
    BY DEF Cleared, TCB
  <2>2. tcb.time \in Int
    BY TaskAssumption DEF TCB, Time
  <2>3. \/ r = tcb
        \/ r = [tcb EXCEPT !.time = tcb.time - 1]
        \/ r = [tcb EXCEPT !.time = 0, !.state = "READY"]
        \/ r = [c EXCEPT !.time = 0, !.state = "READY"]
        \/ r = [tcb EXCEPT !.time = (tcb.time + 1) % TIME_MOD]
    BY <2>2 DEF Ticked, TimedState
  <2> HIDE DEF c, r
  <2> QED
    BY <2>1, <2>3 DEF TCB
<1>4. tcb.state = "WAITING_EVENT" => r = tcb
  BY DEF Ticked, TimedState
<1> QED
  BY <1>1, <1>2, <1>3, <1>4 DEF Later, TimedState

\* Two such changes in one step, a tick and a signal of it, are one.
LEMMA LaterTwice ==
    ASSUME NEW s, NEW r, NEW tcb, Later(s, r), Later(r, tcb)
    PROVE  Later(s, tcb)
BY DEF Later

\* No change is one of them.
LEMMA LaterSame ==
    ASSUME NEW tcb \in TCB
    PROVE  Later(tcb, tcb)
BY DEF Later

\* What task_tick does for task t, after tl was made for the tasks before.
TaskTurn(tl, t) ==
    LET new == IF t \in Created THEN [tl EXCEPT ![t] = Ticked(@, 0, 1)] ELSE tl
    IN  IF t \in ExpiringTasks
        THEN os_task_signal_event(new, nTasks, ChangeOf(t)) ELSE new

IsTicked(f, n) ==
    f = [i \in 0 .. n |-> IF i = 0 THEN task_list ELSE TaskTurn(f[i - 1], i - 1)]

\* The loop of task_tick is defined.
LEMMA TickedExist ==
    ASSUME NEW n \in Nat
    PROVE  \E f : IsTicked(f, n)
<1> DEFINE T == {m \in Nat : ~ \E f : IsTicked(f, m)}
<1> SUFFICES T = {}
  OBVIOUS
<1> SUFFICES ASSUME T # {} PROVE FALSE
  OBVIOUS
<1>1. PICK m \in T : \A y \in T : m <= y
  <2>1. T \in SUBSET Nat /\ T # {}
    OBVIOUS
  <2> HIDE DEF T
  <2> QED BY <2>1, LeastNat
<1>2. m # 0
  <2>1. IsTicked([i \in 0 .. 0 |-> task_list], 0)
    BY DEF IsTicked
  <2> QED
    BY <2>1
<1>3. m \in Nat /\ m - 1 \in Nat
  BY <1>2
<1>4. PICK f : IsTicked(f, m - 1)
  BY <1>1, <1>3
<1> DEFINE g == [i \in 0 .. m |-> IF i <= m - 1 THEN f[i]
                                               ELSE TaskTurn(f[m - 1], m - 1)]
<1>5. \A i \in 0 .. m : i <= m - 1 \/ i = m
  BY <1>3
<1>6. \A i \in 0 .. m : g[i] = IF i = 0 THEN task_list ELSE TaskTurn(g[i - 1], i - 1)
  <2> TAKE i \in 0 .. m
  <2>1. CASE i = 0
    BY <1>3, <1>4, <2>1 DEF IsTicked
  <2>2. CASE i # 0 /\ i <= m - 1
    <3>1. i \in 0 .. m - 1 /\ i - 1 \in 0 .. m - 1 /\ i - 1 \in 0 .. m
      BY <1>3, <2>2
    <3>2. f[i] = TaskTurn(f[i - 1], i - 1)
      BY <1>4, <2>2, <3>1 DEF IsTicked
    <3>3. g[i] = f[i] /\ g[i - 1] = f[i - 1]
      BY <1>3, <2>2, <3>1
    <3> QED
      BY <2>2, <3>2, <3>3
  <2>3. CASE i = m
    <3>1. m - 1 \in 0 .. m /\ m - 1 <= m - 1 /\ ~(m <= m - 1)
      BY <1>3
    <3>2. g[m - 1] = f[m - 1]
      BY <3>1
    <3>3. g[m] = TaskTurn(f[m - 1], m - 1)
      BY <1>3, <3>1
    <3> QED
      BY <1>2, <2>3, <3>2, <3>3
  <2> QED
    BY <1>5, <2>1, <2>2, <2>3
<1> HIDE DEF g
<1>7. IsTicked(g, m)
  <2>1. g = [i \in 0 .. m |-> g[i]]
    BY DEF g
  <2>2. [i \in 0 .. m |-> g[i]]
          = [i \in 0 .. m |-> IF i = 0 THEN task_list ELSE TaskTurn(g[i - 1], i - 1)]
    BY <1>6
  <2> QED
    BY <2>1, <2>2 DEF IsTicked
<1> QED
  BY <1>1, <1>7

\* The control blocks after the first i tasks have been ticked: a task that
\* waits for one event, the change event of a queue among theirs in which a
\* delay ended, is READY.
Ends(i, w) ==
    \E u \in ExpiringTasks : u < i /\ task_list[w].eventQueue = {ChangeOf(u)}

GoodTick(tl, i) ==
    /\ tl \in [Tid -> TCB]
    /\ \A w \in Tid : Later(tl[w], task_list[w])
    /\ \A w \in Created :
          /\ task_list[w].state = "WAITING_EVENT" /\ task_list[w].waitSingleEvent
          /\ Ends(i, w)
          => tl[w].state = "READY"

\* One task more.
LEMMA TaskTurnGood ==
    ASSUME NEW tl, NEW i \in Tid, GoodTick(tl, i)
    PROVE  GoodTick(TaskTurn(tl, i), i + 1)
<1> DEFINE new == IF i \in Created THEN [tl EXCEPT ![i] = Ticked(tl[i], 0, 1)] ELSE tl
           r   == IF i \in ExpiringTasks
                  THEN os_task_signal_event(new, nTasks, ChangeOf(i)) ELSE new
<1>1. TaskTurn(tl, i) = r
  BY DEF TaskTurn
<1>2. tl \in [Tid -> TCB]
  BY DEF GoodTick
<1>3. \A w \in Tid : new[w] = IF w = i /\ i \in Created THEN Ticked(tl[w], 0, 1) ELSE tl[w]
  BY <1>2
<1>4. \A w \in Tid : new[w] \in TCB /\ Later(new[w], tl[w])
  <2> HIDE DEF new
  <2>1. \A w \in Tid : tl[w] \in TCB
    BY <1>2
  <2>2. \A w \in Tid : Later(new[w], tl[w])
    BY <1>3, <2>1, TickedLater, LaterSame
  <2> QED
    BY <2>2 DEF Later
<1>5. new \in [Tid -> TCB]
  BY <1>2, <1>4
<1> HIDE DEF new
<1>6. \A w \in Tid : r[w] = IF i \in ExpiringTasks /\ w < nTasks
                            THEN Signaled(new[w], ChangeOf(i)) ELSE new[w]
  BY DEF os_task_signal_event
<1>7. \A w \in Tid : r[w] \in TCB /\ Later(r[w], new[w])
  <2> HIDE DEF r
  <2>1. \A w \in Tid : Later(r[w], new[w])
    BY <1>4, <1>6, SignaledLater, LaterSame
  <2> QED
    BY <2>1 DEF Later
<1>8. r \in [Tid -> TCB]
  <2>1. r = [w \in Tid |-> r[w]]
    BY <1>5 DEF os_task_signal_event
  <2> QED
    BY <1>7, <2>1
<1> HIDE DEF r
<1>9. \A w \in Tid : Later(r[w], task_list[w])
  BY <1>4, <1>7, LaterTwice DEF GoodTick
<1>10. ASSUME NEW w \in Created,
              task_list[w].state = "WAITING_EVENT", task_list[w].waitSingleEvent,
              Ends(i + 1, w)
       PROVE  r[w].state = "READY"
  <2>1. w \in Tid /\ w < nTasks
    BY DEF Created
  <2>2. PICK u \in ExpiringTasks : u < i + 1 /\ task_list[w].eventQueue = {ChangeOf(u)}
    BY <1>10 DEF Ends
  <2>3. u \in Nat /\ i \in Nat
    BY TidFacts DEF ExpiringTasks, Created
  <2>4. CASE u < i
    <3>1. tl[w].state = "READY"
      BY <1>10, <2>2, <2>4 DEF GoodTick, Ends
    <3>2. new[w].state = "READY"
      BY <1>4, <2>1, <3>1 DEF Later
    <3> QED
      BY <1>7, <2>1, <3>2 DEF Later
  <2>5. CASE u = i
    <3>1. Later(new[w], task_list[w])
      BY <1>4, <2>1, LaterTwice DEF GoodTick
    <3>2. CASE new[w].state = "READY"
      BY <1>7, <2>1, <3>2 DEF Later
    <3>3. CASE new[w] = task_list[w]
      <4>1. /\ new[w].state = "WAITING_EVENT" /\ new[w].waitSingleEvent
            /\ ChangeOf(i) \in new[w].eventQueue
        BY <1>10, <2>2, <2>5, <3>3
      <4>2. r[w] = Signaled(new[w], ChangeOf(i))
        BY <1>6, <2>1, <2>2, <2>5
      <4> QED
        BY <1>4, <2>1, <4>1, <4>2, SignaledLater
    <3> QED
      BY <1>10, <3>1, <3>2, <3>3 DEF Later
  <2> QED
    BY <2>2, <2>3, <2>4, <2>5
<1> QED
  BY <1>1, <1>8, <1>9, <1>10 DEF GoodTick

\* The whole tick.
LEMMA TickedTasksGood ==
    ASSUME ListOK(task_list, nTasks)
    PROVE  GoodTick(TickedTasks, N_TASKS)
<1>1. N_TASKS \in Nat
  BY TaskAssumption
<1> DEFINE f == CHOOSE g : IsTicked(g, N_TASKS)
<1>2. TickedTasks = f[N_TASKS]
  BY DEF TickedTasks, IsTicked, TaskTurn
<1>3. f = [i \in 0 .. N_TASKS |-> IF i = 0 THEN task_list
                                  ELSE TaskTurn(f[i - 1], i - 1)]
  BY <1>1, TickedExist DEF IsTicked
<1> HIDE DEF f
<1> DEFINE T == {i \in 0 .. N_TASKS : ~GoodTick(f[i], i)}
<1>4. T = {}
  <2> SUFFICES ASSUME T # {} PROVE FALSE
    OBVIOUS
  <2>1. PICK m \in T : \A y \in T : m <= y
    <3>1. T \in SUBSET Nat /\ T # {}
      BY <1>1
    <3> HIDE DEF T
    <3> QED BY <3>1, LeastNat
  <2>2. m # 0
    <3>1. f[0] = task_list
      BY <1>1, <1>3
    <3>2. \A w \in Tid : task_list[w] \in TCB
      BY DEF ListOK
    <3>3. \A u \in ExpiringTasks : ~(u < 0)
      BY TidFacts DEF ExpiringTasks, Created
    <3>4. GoodTick(task_list, 0)
      BY <3>2, <3>3, LaterSame DEF ListOK, GoodTick, Ends
    <3> QED
      BY <3>1, <3>4
  <2>3. /\ m - 1 \in 0 .. N_TASKS /\ m \in Nat /\ ~(m <= m - 1)
        /\ m - 1 \in Tid /\ m - 1 + 1 = m
    BY <1>1, <2>2 DEF Tid
  <2>4. GoodTick(f[m - 1], m - 1)
    BY <2>1, <2>3
  <2>5. f[m] = TaskTurn(f[m - 1], m - 1)
    BY <1>1, <1>3, <2>2
  <2>6. GoodTick(f[m], m)
    BY <2>3, <2>4, <2>5, TaskTurnGood
  <2> QED
    BY <2>1, <2>6
<1> QED
  BY <1>1, <1>2, <1>4

-----------------------------------------------------------------------------
(* The inductive invariant *)

AnyQueue == {EmptyList} \cup UNION {OSQueue_t(size) : size \in PoolSize}
QueueRec == [q : AnyQueue, taskId : Tid \cup {0}, change : Event \cup {0}]

MsgVarsOK ==
    /\ nQueues \in 0 .. N_QUEUES
    /\ msgQList \in [Queue -> QueueRec]
    /\ msgQ \in [Tid -> Queue \cup {NO_QUEUE}]
    /\ macro \in [Tid -> Macro]

\* Every queue that was created belongs to one task, and the task knows it.
QueuesOK ==
    /\ \A i \in LiveQ :
          /\ msgQList[i].q.size \in PoolSize
          /\ msgQList[i].q \in OSQueue_t(msgQList[i].q.size)
          /\ msgQList[i].change \in LiveEv
          /\ msgQList[i].taskId \in Created
          /\ msgQ[msgQList[i].taskId] = i
    /\ \A t \in Tid : msgQ[t] # NO_QUEUE =>
          msgQ[t] \in LiveQ /\ msgQList[msgQ[t]].taskId = t

\* Tasks call the macros only after os_start.
StartedOK ==
    /\ running_tid # NO_TID => running = 1
    /\ \A t \in Tid : macro[t] # Outside => running = 1 /\ t \in Created

\* The task whose queue the macro of t posts to or receives from.
Target(t) == IF macro[t].call = "RECEIVE" THEN t ELSE macro[t].to

\* Why the macro of t waits.  Without the lock a delay may end between its try
\* and its wait.
MustWait(t) ==
    LET i == msgQ[Target(t)]
    IN  /\ i # NO_QUEUE
        /\ macro[t].call = "POST" => Full(msgQList[i].q)
        /\ macro[t].call = "RECEIVE" /\ LOCKING => MsgQAllDelayed(msgQList[i].q)

\* Nobody else runs between the try of a macro and its wait.
AboutToWait ==
    \A t \in Tid : macro[t].at = "WAIT" => running_tid = t /\ MustWait(t)

\* A task that nobody suspends waits for the change event of the queue and for
\* nothing else, and that queue is as its last try found it.
WaitingRightly ==
    \A t \in Created \ Managed :
        macro[t].at = "TRY" /\ task_list[t].state = "WAITING_EVENT" =>
            /\ MustWait(t)
            /\ task_list[t].waitSingleEvent
            /\ task_list[t].eventQueue = {ChangeOf(Target(t))}

MsgInv ==
    /\ EventInv
    /\ MsgVarsOK
    /\ QueuesOK
    /\ StartedOK
    /\ AboutToWait
    /\ WaitingRightly

-----------------------------------------------------------------------------
\* 255 is not the index of a queue: there are as many change events as queues.
LEMMA QueueFacts ==
    /\ N_QUEUES \in Nat
    /\ NO_QUEUE \notin Queue
    /\ \A i \in Queue : i \in Nat /\ i < N_QUEUES
    /\ \A i \in Nat : i < N_QUEUES => i \in Queue
    /\ DELAY_MAX \in Nat
BY MsgAssumption, EventAssumption, TaskAssumption DEF Queue, NO_QUEUE

\* os_msgQ_find finds the queue that the task was given when it was created.
LEMMA FindIsOwn ==
    ASSUME QueuesOK, NEW u \in Tid
    PROVE  os_msgQ_find(u) = msgQ[u]
<1>1. \A i \in LiveQ : msgQList[i].taskId = u <=> msgQ[u] = i
  <2> TAKE i \in LiveQ
  <2>1. i # NO_QUEUE
    BY QueueFacts DEF LiveQ
  <2> QED
    BY <2>1 DEF QueuesOK
<1>2. CASE msgQ[u] = NO_QUEUE
  <2>1. \A i \in LiveQ : i # NO_QUEUE
    BY QueueFacts DEF LiveQ
  <2> QED
    BY <1>1, <1>2, <2>1 DEF os_msgQ_find
<1>3. CASE msgQ[u] # NO_QUEUE
  <2>1. msgQ[u] \in LiveQ /\ msgQ[u] \in Nat
    BY <1>3, QueueFacts DEF QueuesOK, LiveQ
  <2>2. /\ msgQList[msgQ[u]].taskId = u
        /\ \A j \in LiveQ : msgQList[j].taskId = u => msgQ[u] <= j
    BY <1>1, <2>1
  <2>3. \A i \in LiveQ : msgQList[i].taskId = u => i = msgQ[u]
    BY <1>1
  <2> QED
    BY <2>1, <2>2, <2>3 DEF os_msgQ_find
<1> QED
  BY <1>2, <1>3

\* The forms a message macro of a task has.
LEMMA MacroFacts ==
    /\ Outside \in Macro /\ Outside.at = "NONE" /\ Outside.call = "NONE"
    /\ \A m \in Macro :
          \/ m = Outside
          \/ /\ m.at \in {"TRY", "WAIT"} /\ m.call = "RECEIVE"
             /\ m = Receiving(m.at)
          \/ /\ m.at \in {"TRY", "WAIT"} /\ m.call = "POST"
             /\ m.to \in Tid /\ m.signal \in Signal /\ m.post \in Posts
             /\ m = Posting(m.at, m.to, m.signal, m.post)
    /\ \A at \in {"TRY", "WAIT"} :
          /\ Receiving(at) \in Macro
          /\ Receiving(at).at = at /\ Receiving(at).call = "RECEIVE"
    /\ \A at \in {"TRY", "WAIT"}, u \in Tid, s \in Signal, p \in Posts :
          /\ Posting(at, u, s, p) \in Macro
          /\ Posting(at, u, s, p).at = at /\ Posting(at, u, s, p).call = "POST"
          /\ Posting(at, u, s, p).to = u
<1>1. Outside \in Macro /\ Outside.at = "NONE" /\ Outside.call = "NONE"
  BY DEF Macro, Outside
<1>2. ASSUME NEW at \in {"TRY", "WAIT"}
      PROVE  /\ Receiving(at) \in Macro
             /\ Receiving(at).at = at /\ Receiving(at).call = "RECEIVE"
  <2>1. Receiving(at) \in Macro
    BY DEF Macro
  <2> QED
    BY <2>1 DEF Receiving
<1>3. ASSUME NEW at \in {"TRY", "WAIT"}, NEW u \in Tid, NEW s \in Signal,
             NEW p \in Posts
      PROVE  /\ Posting(at, u, s, p) \in Macro
             /\ Posting(at, u, s, p).at = at /\ Posting(at, u, s, p).call = "POST"
             /\ Posting(at, u, s, p).to = u
             /\ Posting(at, u, s, p).signal = s /\ Posting(at, u, s, p).post = p
  <2>1. Posting(at, u, s, p) \in Macro
    BY DEF Macro
  <2> QED
    BY <2>1 DEF Posting
<1>4. ASSUME NEW m \in Macro
      PROVE  \/ m = Outside
             \/ /\ m.at \in {"TRY", "WAIT"} /\ m.call = "RECEIVE"
                /\ m = Receiving(m.at)
             \/ /\ m.at \in {"TRY", "WAIT"} /\ m.call = "POST"
                /\ m.to \in Tid /\ m.signal \in Signal /\ m.post \in Posts
                /\ m = Posting(m.at, m.to, m.signal, m.post)
  <2>1. \/ m = Outside
        \/ \E at \in {"TRY", "WAIT"} : m = Receiving(at)
        \/ \E at \in {"TRY", "WAIT"}, u \in Tid, s \in Signal, p \in Posts :
              m = Posting(at, u, s, p)
    BY DEF Macro
  <2> QED
    BY <1>2, <1>3, <2>1
<1> QED
  BY <1>1, <1>2, <1>3, <1>4

-----------------------------------------------------------------------------
(* Steps that leave queues and macros alone *)

\* The task that executes: it was created, and no other task is about to wait.
LEMMA ExecutingFacts ==
    ASSUME MsgInv, NEW t \in Tid, Executing(t)
    PROVE  /\ t \in Created /\ running = 1 /\ running_tid = t
           /\ task_list[t].eventQueue = {}
           /\ \A u \in Tid : macro[u].at = "WAIT" => u = t
<1>1. ControlOK
  BY InvParts DEF MsgInv, EventInv
<1>2. running_tid = t /\ t # NO_TID
  BY DEF Executing
<1> QED
  BY <1>1, <1>2 DEF ControlOK, MsgInv, EventInv, ExecutingHearsNothing,
     StartedOK, AboutToWait

\* A step in which no message macro takes part keeps the invariant, if it changes
\* nothing of a task that waits in one.
LEMMA QuietOK ==
    ASSUME MsgInv, EventInv', UNCHANGED msgVars,
           Created \subseteq Created', LiveEv \subseteq LiveEv',
           running = 1 => running' = 1,
           running_tid' # NO_TID => running' = 1,
           UNCHANGED running_tid \/ \A t \in Tid : macro[t].at # "WAIT",
           \A t \in Created \ Managed :
              macro[t].at = "TRY" /\ task_list'[t].state = "WAITING_EVENT" =>
                /\ task_list[t].state = "WAITING_EVENT"
                /\ task_list'[t].waitSingleEvent = task_list[t].waitSingleEvent
                /\ task_list'[t].eventQueue = task_list[t].eventQueue
    PROVE  MsgInv'
<1>1. MsgVarsOK'
  BY DEF MsgInv, MsgVarsOK, msgVars
<1>2. QueuesOK'
  BY DEF MsgInv, QueuesOK, msgVars, LiveQ
<1>3. StartedOK'
  BY DEF MsgInv, StartedOK, msgVars
<1>4. \A t \in Tid : (MustWait(t))' <=> MustWait(t)
  BY DEF MustWait, Target, msgVars
<1>5. AboutToWait'
  BY <1>4 DEF MsgInv, AboutToWait, msgVars
<1>6. WaitingRightly'
  <2> SUFFICES ASSUME NEW t \in Created' \ Managed, macro'[t].at = "TRY",
                      task_list'[t].state = "WAITING_EVENT"
               PROVE  /\ (MustWait(t))'
                      /\ task_list'[t].waitSingleEvent
                      /\ task_list'[t].eventQueue = {(ChangeOf(Target(t)))'}
    BY DEF WaitingRightly
  <2>1. t \in Tid /\ macro' = macro
    BY DEF Created, msgVars
  <2>2. t \in Created
    BY <2>1, MacroFacts DEF MsgInv, StartedOK
  <2>3. /\ MustWait(t)
        /\ task_list[t].waitSingleEvent
        /\ task_list[t].eventQueue = {ChangeOf(Target(t))}
    BY <2>1, <2>2 DEF MsgInv, WaitingRightly
  <2>4. (ChangeOf(Target(t)))' = ChangeOf(Target(t))
    BY DEF ChangeOf, Target, msgVars
  <2> QED
    BY <1>4, <2>1, <2>2, <2>3, <2>4
<1> QED
  BY <1>1, <1>2, <1>3, <1>5, <1>6 DEF MsgInv

\* Before os_start no task is inside a macro.
LEMMA NobodyInside ==
    ASSUME MsgInv, running_tid = NO_TID \/ running = 0
    PROVE  \A t \in Tid : macro[t].at # "WAIT"
BY TidFacts, MacroFacts DEF MsgInv, AboutToWait, StartedOK

\* os_on_assert: the main thread stops.
LEMMA AssertMsgOK ==
    ASSUME MsgInv, os_on_assert, UNCHANGED <<eventVars, msgVars>>
    PROVE  MsgInv'
<1>1. ControlOK /\ ControlOK'
  BY InvParts DEF MsgInv, EventInv, os_on_assert, ControlOK, Created
<1>2. KernelInv'
  BY <1>1, SameListOK DEF MsgInv, EventInv, StepOK, os_on_assert
<1>3. EventInv'
  BY <1>2 DEF MsgInv, EventInv, EventVarsOK, AllListed, ExecutingHearsNothing,
     os_on_assert, eventVars
<1> QED
  BY <1>3, QuietOK DEF os_on_assert, eventVars, Created, LiveEv, MsgInv,
     StartedOK

\* os_start and event_create in main().
LEMMA MainMsgOK ==
    ASSUME MsgInv,
           \/ os_start /\ UNCHANGED eventVars
           \/ running = 0 /\ event_create,
           UNCHANGED msgVars
    PROVE  MsgInv'
<1>1. EventInv'
  BY EventStepInv DEF MsgInv, EventNext, EventStep, Undisturbed, Main
<1>2. /\ running = 0
      /\ Created' = Created /\ running_tid' = running_tid
      /\ task_list' = task_list
  BY DEF os_start, event_create, os_on_assert, kernelVars, Created
<1>3. running_tid = NO_TID
  BY <1>2 DEF MsgInv, StartedOK
<1>4. LiveEv \subseteq LiveEv'
  <2>1. nEvents \in Nat
    BY EventFacts DEF MsgInv, EventInv, EventVarsOK
  <2>2. nEvents' = nEvents \/ nEvents' = nEvents + 1
    BY DEF os_start, event_create, eventVars
  <2>3. \A e \in Event : e \in Nat
    BY EventFacts DEF Event
  <2> QED
    BY <2>1, <2>2, <2>3 DEF LiveEv
<1> QED
  BY <1>1, <1>2, <1>3, <1>4, QuietOK

\* os_schedule
LEMMA ScheduleMsgOK == ASSUME MsgInv, MsgSchedule PROVE MsgInv'
<1>1. EventInv'
  BY EventStepInv DEF MsgInv, EventNext, Undisturbed, MsgSchedule
<1>2. /\ UNCHANGED <<task_list, nTasks, running, nEvents, msgVars>>
      /\ running_tid = NO_TID /\ running = 1
  BY DEF MsgSchedule, os_schedule, Dispatch, NothingFound, Sleep,
     SchedulePastTaskList, os_on_assert, eventVars, Scheduling
<1>3. \A t \in Tid : macro[t].at # "WAIT"
  BY <1>2, NobodyInside
<1> QED
  BY <1>1, <1>2, <1>3, QuietOK DEF Created, LiveEv

\* A step of task t changes no task but those it manages, unless it signals.
LEMMA TaskStepOthers ==
    ASSUME MsgInv, NEW t \in Tid, TaskStep(t), NEW u \in Created \ Managed, u # t
    PROVE  task_list'[u] = task_list[u]
<1>1. task_list \in [Tid -> TCB] /\ u \in Tid
  BY InvParts DEF MsgInv, EventInv, ListOK, Created
<1>2. \A v \in Created \cap Managed : v # u
  OBVIOUS
<1>3. ASSUME NEW id \in Clocks, NEW ticks \in WaitTicks, task_wait_id(t, id, ticks)
      PROVE  task_list'[u] = task_list[u]
  BY <1>1, <1>3 DEF task_wait_id, os_on_assert, OS_YIELD,
     os_task_internal_state_set, os_task_wait_time_set
<1>4. ASSUME NEW v \in Tid, task_suspend(t, v)
      PROVE  task_list'[u] = task_list[u]
  BY <1>1, <1>2, <1>4 DEF task_suspend, OS_YIELD, Continue,
     os_task_internal_state_set, os_task_suspend
<1>5. ASSUME NEW v \in Tid, task_resume(t, v)
      PROVE  task_list'[u] = task_list[u]
  BY <1>1, <1>2, <1>5 DEF task_resume, OS_YIELD, Continue,
     os_task_internal_state_set, os_task_resume
<1>6. ASSUME NEW v \in Tid, TaskKill(t, v)
      PROVE  task_list'[u] = task_list[u]
  BY <1>1, <1>2, <1>6 DEF TaskKill, Continue, os_task_kill
<1>7. CASE task_close(t)
  BY <1>1, <1>7 DEF task_close, os_task_kill
<1> QED
  BY <1>3, <1>4, <1>5, <1>6, <1>7 DEF TaskStep, TaskYield, TaskCall

\* A signal of an event that is nobody's change event reaches no task that waits
\* in a macro.
LEMMA SignalOthers ==
    ASSUME MsgInv, NEW e \in AppEvent, NEW u \in Created \ Managed,
           macro[u].at = "TRY",
           Signaled(task_list[u], e).state = "WAITING_EVENT"
    PROVE  Signaled(task_list[u], e) = task_list[u]
<1>1. task_list[u] \in TCB /\ u \in Tid
  BY InvParts DEF MsgInv, EventInv, ListOK, Created
<1>2. task_list[u].state = "WAITING_EVENT"
  BY <1>1, SignaledLater DEF Later
<1>3. /\ task_list[u].eventQueue = {ChangeOf(Target(u))}
      /\ msgQ[Target(u)] # NO_QUEUE
  BY <1>2 DEF MsgInv, WaitingRightly, MustWait
<1>4. macro[u] \in Macro /\ macro[u] # Outside
  BY <1>1, MacroFacts DEF MsgInv, MsgVarsOK
<1>5. Target(u) \in Tid
  BY <1>1, <1>4, MacroFacts DEF Target
<1>6. msgQ[Target(u)] \in LiveQ
  BY <1>3, <1>5 DEF MsgInv, QueuesOK
<1>7. e \notin task_list[u].eventQueue
  BY <1>3, <1>6 DEF AppEvent, ChangeOf
<1> QED
  BY <1>1, <1>2, <1>7, SignaledLater

\* A step of a task outside of the macros.
LEMMA TaskStepMsgOK ==
    ASSUME MsgInv, NEW t \in Tid, MsgTaskStep(t)
    PROVE  MsgInv'
<1>1. macro[t] = Outside /\ UNCHANGED msgVars
  BY DEF MsgTaskStep
<1>2. task_list \in [Tid -> TCB]
  BY InvParts DEF MsgInv, EventInv, ListOK
<1>3. CASE TaskStep(t) /\ UNCHANGED eventVars
  <2>1. EventInv'
    BY <1>3, EventStepInv DEF MsgInv, EventNext, Undisturbed
  <2>2. /\ Executing(t) /\ UNCHANGED <<nTasks, running>>
        /\ running_tid' \in {running_tid, NO_TID}
    BY <1>3 DEF TaskStep, TaskYield, TaskCall, task_wait_id, task_suspend,
       task_resume, TaskKill, task_close, os_on_assert, OS_YIELD, Continue
  <2>3. /\ running = 1
        /\ \A u \in Tid : macro[u].at # "WAIT"
    BY <1>1, <2>2, ExecutingFacts, MacroFacts
  <2>4. \A u \in Created \ Managed :
           macro[u].at = "TRY" => task_list'[u] = task_list[u]
    BY <1>1, <1>3, TaskStepOthers, MacroFacts
  <2> QED
    BY <1>1, <1>3, <2>1, <2>2, <2>3, <2>4, QuietOK DEF Created, LiveEv, eventVars
<1>4. ASSUME NEW e \in AppEvent, event_signal(t, e) PROVE MsgInv'
  <2>1. EventInv'
    <3>1. e \in Event
      BY DEF AppEvent, LiveEv
    <3> QED
      BY <1>4, <3>1, EventStepInv DEF MsgInv, EventNext, EventStep
  <2>2. /\ Executing(t) /\ UNCHANGED <<nTasks, running, nEvents>>
        /\ running_tid' = NO_TID
        /\ OS_YIELD(t, os_task_signal_event(task_list, nTasks, e), "SIGNAL_EVENT")
    BY <1>4 DEF event_signal, OS_YIELD
  <2>3. /\ running = 1
        /\ \A u \in Tid : macro[u].at # "WAIT"
    BY <1>1, <2>2, ExecutingFacts, MacroFacts
  <2>4. ASSUME NEW u \in Created \ Managed, macro[u].at = "TRY",
               task_list'[u].state = "WAITING_EVENT"
        PROVE  task_list'[u] = task_list[u]
    <3>1. u # t /\ u \in Tid /\ u < nTasks
      BY <1>1, <2>4, MacroFacts DEF Created
    <3>2. task_list'[u] = Signaled(task_list[u], e)
      BY <2>2, <3>1 DEF OS_YIELD, os_task_internal_state_set, os_task_signal_event
    <3> QED
      BY <2>4, <3>2, SignalOthers
  <2> QED
    BY <1>1, <2>1, <2>2, <2>3, <2>4, QuietOK DEF Created, LiveEv
<1>5. ASSUME NEW e \in AppEvent, NEW timeout \in Timeouts,
             event_wait_timeout(t, e, timeout)
      PROVE  MsgInv'
  <2>1. EventInv'
    <3>1. e \in Event
      BY DEF AppEvent, LiveEv
    <3> QED
      BY <1>5, <3>1, EventStepInv DEF MsgInv, EventNext, EventStep
  <2>2. /\ Executing(t) /\ UNCHANGED <<nTasks, running, nEvents>>
        /\ running_tid' = NO_TID
        /\ \A u \in Tid : u # t => task_list'[u] = task_list[u]
    BY <1>2, <1>5 DEF event_wait_timeout, OS_YIELD, os_task_internal_state_set,
       os_task_wait_event
  <2>3. /\ running = 1
        /\ \A u \in Tid : macro[u].at # "WAIT"
    BY <1>1, <2>2, ExecutingFacts, MacroFacts
  <2>4. \A u \in Created \ Managed :
           macro[u].at = "TRY" => task_list'[u] = task_list[u]
    BY <1>1, <2>2, MacroFacts DEF Created
  <2> QED
    BY <1>1, <2>1, <2>2, <2>3, <2>4, QuietOK DEF Created, LiveEv
<1> QED
  BY <1>3, <1>4, <1>5 DEF MsgTaskStep, AppCall

-----------------------------------------------------------------------------
(* os_task_create *)

\* The queue that is created belongs to the task that is created.
LEMMA CreateQueuesOK ==
    ASSUME MsgInv, NEW prio \in Prio, NEW poolSize \in PoolSizes, poolSize # 0,
           MayCreate(prio), HasRoom, TaskCreate(prio), os_msgQ_create(poolSize)
    PROVE  MsgVarsOK' /\ QueuesOK'
<1> DEFINE m == [signal |-> CHOOSE s \in Signal : TRUE, delay |-> 0, reload |-> 0]
           q == CreatedQueue(poolSize, m)
           r == [q |-> q, taskId |-> nTasks, change |-> nEvents]
<1>1. ControlOK /\ EventVarsOK /\ MsgVarsOK /\ QueuesOK
  BY InvParts DEF MsgInv, EventInv
<1>2. /\ nTasks' = nTasks + 1 /\ nEvents' = nEvents + 1 /\ nQueues' = nQueues + 1
      /\ msgQList' = [msgQList EXCEPT ![nQueues] = r]
      /\ msgQ' = [msgQ EXCEPT ![nTasks] = nQueues]
      /\ macro' = macro
  BY DEF TaskCreate, os_msgQ_create
<1>3. poolSize \in PoolSize
  <2>1. poolSize \in 0 .. 255 /\ poolSize # 0 /\ poolSize # 1
    BY MsgAssumption
  <2> QED
    BY <2>1 DEF PoolSize
<1>4. q \in OSQueue_t(poolSize) /\ q.size = poolSize
  <2>1. m \in Msg_t
    <3>1. (CHOOSE s \in Signal : TRUE) \in Signal
      BY MsgAssumption
    <3>2. 0 \in 0 .. DELAY_MAX
      BY MsgAssumption
    <3> QED
      BY <3>1, <3>2 DEF Msg_t
  <2> HIDE DEF m
  <2> QED
    BY <1>3, <2>1, CreatedType
<1>5. nTasks \in Tid /\ nQueues \in Queue /\ nEvents \in Event
  BY <1>1, TidFacts, QueueFacts, EventFacts
  DEF MayCreate, HasRoom, ControlOK, EventVarsOK, MsgVarsOK
<1>6. nTasks \in Nat /\ nQueues \in Nat /\ nEvents \in Nat
  BY <1>5, TidFacts, QueueFacts DEF Event
<1>7. q \in AnyQueue
  BY <1>3, <1>4 DEF AnyQueue
<1> HIDE DEF q, m
<1>8. /\ r \in QueueRec
      /\ r.q = q /\ r.taskId = nTasks /\ r.change = nEvents
  BY <1>5, <1>7 DEF QueueRec
<1> HIDE DEF r
<1>9. MsgVarsOK'
  <2>1. nQueues' \in 0 .. N_QUEUES
    BY <1>2, <1>5, <1>6, QueueFacts
  <2>2. /\ msgQList' \in [Queue -> QueueRec]
        /\ msgQ' \in [Tid -> Queue \cup {NO_QUEUE}]
    BY <1>1, <1>2, <1>5, <1>8 DEF MsgVarsOK
  <2> QED
    BY <1>1, <1>2, <2>1, <2>2 DEF MsgVarsOK
<1>10. /\ \A i \in Queue : i \in LiveQ' <=> i \in LiveQ \/ i = nQueues
       /\ nQueues \notin LiveQ
       /\ \A t \in Tid : t \in Created' <=> t \in Created \/ t = nTasks
       /\ nTasks \notin Created
       /\ \A e \in Event : e \in LiveEv' <=> e \in LiveEv \/ e = nEvents
  <2>1. \A e \in Event : e \in Nat
    BY EventFacts DEF Event
  <2> QED
    BY <1>2, <1>6, <2>1, TidFacts, QueueFacts DEF LiveQ, Created, LiveEv
<1>11. /\ msgQList'[nQueues] = r
       /\ \A i \in LiveQ : msgQList'[i] = msgQList[i]
       /\ msgQ'[nTasks] = nQueues
       /\ \A t \in Tid : t # nTasks => msgQ'[t] = msgQ[t]
  BY <1>1, <1>2, <1>5, <1>10 DEF MsgVarsOK, LiveQ
<1>12. msgQ[nTasks] = NO_QUEUE
  BY <1>1, <1>5, <1>10 DEF QueuesOK
<1>13. ASSUME NEW i \in LiveQ'
       PROVE  /\ msgQList'[i].q.size \in PoolSize
              /\ msgQList'[i].q \in OSQueue_t(msgQList'[i].q.size)
              /\ msgQList'[i].change \in LiveEv'
              /\ msgQList'[i].taskId \in Created'
              /\ msgQ'[msgQList'[i].taskId] = i
  <2>1. i \in LiveQ \/ i = nQueues
    BY <1>10 DEF LiveQ
  <2>2. CASE i = nQueues
    <3>1. /\ msgQList'[i].q = q /\ msgQList'[i].taskId = nTasks
          /\ msgQList'[i].change = nEvents
      BY <1>8, <1>11, <2>2
    <3>2. nTasks \in Created' /\ nEvents \in LiveEv' /\ msgQ'[nTasks] = i
      BY <1>5, <1>10, <1>11, <2>2
    <3> QED
      BY <1>3, <1>4, <3>1, <3>2
  <2>3. CASE i \in LiveQ
    <3>1. /\ msgQList[i].q.size \in PoolSize
          /\ msgQList[i].q \in OSQueue_t(msgQList[i].q.size)
          /\ msgQList[i].change \in LiveEv
          /\ msgQList[i].taskId \in Created
          /\ msgQ[msgQList[i].taskId] = i
      BY <1>1, <2>3 DEF QueuesOK
    <3>2. msgQList'[i] = msgQList[i]
      BY <1>11, <2>3
    <3>3. msgQList[i].taskId \in Tid /\ msgQList[i].taskId # nTasks
      BY <1>10, <3>1 DEF Created
    <3>4. msgQList[i].change \in Event
      BY <3>1 DEF LiveEv
    <3> QED
      BY <1>10, <1>11, <3>1, <3>2, <3>3, <3>4
  <2> QED
    BY <2>1, <2>2, <2>3
<1>14. ASSUME NEW t \in Tid, msgQ'[t] # NO_QUEUE
       PROVE  msgQ'[t] \in LiveQ' /\ msgQList'[msgQ'[t]].taskId = t
  <2>1. CASE t = nTasks
    BY <1>5, <1>8, <1>10, <1>11, <2>1
  <2>2. CASE t # nTasks
    <3>1. msgQ[t] \in LiveQ /\ msgQList[msgQ[t]].taskId = t
      BY <1>1, <1>11, <1>14, <2>2 DEF QueuesOK
    <3> QED
      BY <1>10, <1>11, <2>2, <3>1 DEF LiveQ
  <2> QED
    BY <2>1, <2>2
<1> QED
  BY <1>9, <1>13, <1>14 DEF QueuesOK

\* os_task_create, with a message pool or without.
LEMMA CreateMsgOK ==
    ASSUME MsgInv, NEW prio \in Prio, NEW poolSize \in PoolSizes,
           MsgTaskCreate(prio, poolSize)
    PROVE  MsgInv'
<1>1. ControlOK /\ EventVarsOK
  BY InvParts DEF MsgInv, EventInv
<1>2. CASE ~MayCreate(prio)
  BY <1>2, AssertMsgOK DEF MsgTaskCreate, TaskCreate
<1>3. CASE MayCreate(prio) /\ poolSize # 0 /\ ~HasRoom
  BY <1>3, AssertMsgOK DEF MsgTaskCreate
<1>4. CASE MayCreate(prio) /\ (poolSize = 0 \/ HasRoom)
  <2>1. /\ TaskCreate(prio)
        /\ \/ UNCHANGED <<eventVars, msgVars>>
           \/ poolSize # 0 /\ HasRoom /\ os_msgQ_create(poolSize)
    BY <1>4 DEF MsgTaskCreate
  <2>2. /\ running = 0 /\ nTasks \in Tid /\ nTasks' = nTasks + 1
        /\ task_list' = os_task_create(task_list, nTasks, prio)
        /\ UNCHANGED <<running, running_tid>>
    BY <1>1, <1>4, <2>1, TidFacts DEF MayCreate, TaskCreate, ControlOK
  <2>3. running_tid = NO_TID /\ \A t \in Tid : macro[t] = Outside
    BY <2>2 DEF MsgInv, StartedOK
  <2>4. Created \subseteq Created'
    BY <2>2, TidFacts DEF Created
  <2>5. EventInv'
    <3>1. [Undisturbed]_kernelVars
      BY <2>1 DEF Undisturbed, Main
    <3>2. KernelInv' /\ KernelGoal
      BY <3>1, StepInv, KernelStepListed DEF MsgInv, EventInv, StepOK, KernelNext
    <3>3. EventVarsOK'
      <4>1. CASE UNCHANGED eventVars
        BY <1>1, <4>1 DEF EventVarsOK, eventVars
      <4>2. CASE HasRoom /\ os_msgQ_create(poolSize)
        <5>1. nEvents + 1 \in 0 .. N_TOTAL_EVENTS
          BY <1>1, <4>2, EventFacts DEF HasRoom, EventVarsOK
        <5>2. /\ nEvents' = nEvents + 1 /\ UNCHANGED lastSignaledEvent
              /\ signaledByTid' = [signaledByTid EXCEPT ![nEvents] = NO_TID]
          BY <4>2 DEF os_msgQ_create
        <5> QED
          BY <1>1, <5>1, <5>2 DEF EventVarsOK
      <4> QED
        BY <2>1, <4>1, <4>2
    <3> QED
      BY <3>2, <3>3 DEF EventInv, KernelGoal
  <2>6. CASE UNCHANGED <<eventVars, msgVars>>
    <3>1. \A t \in Tid : macro[t].at # "TRY" /\ macro[t].at # "WAIT"
      BY <2>3, MacroFacts
    <3>2. \A t \in Created \ Managed : macro[t].at # "TRY"
      BY <3>1 DEF Created
    <3>3. LiveEv \subseteq LiveEv'
      BY <2>6 DEF LiveEv, eventVars
    <3> QED
      BY <2>2, <2>3, <2>4, <2>5, <2>6, <3>1, <3>2, <3>3, QuietOK
  <2>7. CASE poolSize # 0 /\ HasRoom /\ os_msgQ_create(poolSize)
    <3>1. MsgVarsOK' /\ QueuesOK'
      BY <1>4, <2>1, <2>7, CreateQueuesOK
    <3>2. \A t \in Tid : macro'[t] = Outside
      BY <2>3, <2>7 DEF os_msgQ_create
    <3>3. StartedOK' /\ AboutToWait' /\ WaitingRightly'
      BY <2>2, <2>3, <3>2, MacroFacts DEF StartedOK, AboutToWait,
         WaitingRightly, Created
    <3> QED
      BY <2>5, <3>1, <3>3 DEF MsgInv
  <2> QED
    BY <2>1, <2>6, <2>7
<1> QED
  BY <1>2, <1>3, <1>4

-----------------------------------------------------------------------------
(* The macros *)

\* What has been created stays as it is when only the ring buffers are written.
LEMMA QueuesWritten ==
    ASSUME MsgInv, UNCHANGED <<nTasks, nEvents, nQueues, msgQ>>,
           macro' \in [Tid -> Macro],
           msgQList' \in [Queue -> QueueRec],
           \A i \in Queue : /\ msgQList'[i].taskId = msgQList[i].taskId
                            /\ msgQList'[i].change = msgQList[i].change,
           \A i \in LiveQ : msgQList'[i].q \in OSQueue_t(msgQList[i].q.size)
    PROVE  MsgVarsOK' /\ QueuesOK'
<1>1. /\ LiveQ' = LiveQ /\ Created' = Created /\ LiveEv' = LiveEv
      /\ LiveQ \subseteq Queue
  BY DEF LiveQ, Created, LiveEv
<1>2. MsgVarsOK'
  BY DEF MsgInv, MsgVarsOK
<1>3. ASSUME NEW i \in LiveQ
      PROVE  /\ msgQList'[i].q.size = msgQList[i].q.size
             /\ msgQList'[i].q.size \in PoolSize
             /\ msgQList'[i].q \in OSQueue_t(msgQList'[i].q.size)
  <2>1. msgQList[i].q.size \in PoolSize
    BY DEF MsgInv, QueuesOK
  <2>2. msgQList'[i].q \in OSQueue_t(msgQList[i].q.size)
    OBVIOUS
  <2>3. msgQList'[i].q.size = msgQList[i].q.size
    BY <2>1, <2>2, RingFacts
  <2> QED
    BY <2>1, <2>2, <2>3
<1>4. QueuesOK'
  <2>1. ASSUME NEW i \in LiveQ
        PROVE  /\ msgQList'[i].change \in LiveEv
               /\ msgQList'[i].taskId \in Created
               /\ msgQ[msgQList'[i].taskId] = i
    BY <1>1 DEF MsgInv, QueuesOK
  <2>2. ASSUME NEW t \in Tid, msgQ[t] # NO_QUEUE
        PROVE  msgQ[t] \in LiveQ /\ msgQList'[msgQ[t]].taskId = t
    BY <1>1, <2>2 DEF MsgInv, QueuesOK
  <2> QED
    BY <1>1, <1>3, <2>1, <2>2 DEF QueuesOK
<1> QED
  BY <1>2, <1>4

\* The queue a macro works on.
LEMMA TargetFacts ==
    ASSUME MsgInv, NEW t \in Tid, macro[t] # Outside
    PROVE  /\ Target(t) \in Tid
           /\ msgQ[Target(t)] # NO_QUEUE
                => msgQ[Target(t)] \in LiveQ /\ Target(t) \in Created
<1>1. macro[t] \in Macro
  BY DEF MsgInv, MsgVarsOK
<1>2. Target(t) \in Tid
  BY <1>1, MacroFacts DEF Target
<1> QED
  BY <1>2 DEF MsgInv, QueuesOK

\* A live queue, as a queue of its size.
LEMMA LiveQueue ==
    ASSUME MsgInv, NEW i \in LiveQ
    PROVE  \E size \in PoolSize :
              msgQList[i].q.size = size /\ msgQList[i].q \in OSQueue_t(size)
BY DEF MsgInv, QueuesOK

\* A macro that has nothing more to do, or goes on to wait as its try told it.
LEMMA GoesOK ==
    ASSUME MsgInv, NEW t \in Tid, Executing(t), NEW m \in Macro, Goes(t, m),
           \/ m = Outside
           \/ /\ m.at = "WAIT"
              /\ LET u == IF m.call = "RECEIVE" THEN t ELSE m.to
                     i == msgQ[u]
                 IN  /\ i # NO_QUEUE
                     /\ m.call = "POST" => Full(msgQList[i].q)
                     /\ m.call = "RECEIVE" => MsgQAllDelayed(msgQList[i].q)
    PROVE  MsgInv'
<1>1. /\ macro' = [macro EXCEPT ![t] = m] /\ macro' \in [Tid -> Macro]
      /\ UNCHANGED evVars /\ UNCHANGED <<msgQList, nQueues, msgQ>>
  BY DEF Goes, MsgInv, MsgVarsOK
<1>2. macro'[t] = m /\ \A u \in Tid : u # t => macro'[u] = macro[u]
  BY <1>1 DEF MsgInv, MsgVarsOK
<1>3. EventInv'
  BY <1>1, EventStepInv DEF MsgInv
<1>4. /\ UNCHANGED <<task_list, nTasks, running, running_tid, nEvents>>
      /\ Created' = Created /\ LiveQ' = LiveQ /\ LiveEv' = LiveEv
  BY <1>1 DEF evVars, kernelVars, eventVars, Created, LiveQ, LiveEv
<1>5. MsgVarsOK' /\ QueuesOK'
  BY <1>1, <1>4 DEF MsgInv, MsgVarsOK, QueuesOK
<1>6. /\ t \in Created /\ running = 1 /\ running_tid = t
      /\ \A u \in Tid : macro[u].at = "WAIT" => u = t
  BY ExecutingFacts
<1>7. StartedOK'
  BY <1>2, <1>4, <1>6 DEF MsgInv, StartedOK
<1>8. m.at = "WAIT" => (MustWait(t))'
  <2>1. m.at = "WAIT" => m # Outside
    BY MacroFacts
  <2>2. (Target(t))' = IF m.call = "RECEIVE" THEN t ELSE m.to
    BY <1>2 DEF Target
  <2> QED
    BY <1>1, <1>2, <2>1, <2>2 DEF MustWait
<1>9. AboutToWait'
  <2> SUFFICES ASSUME NEW u \in Tid, macro'[u].at = "WAIT"
               PROVE  running_tid' = u /\ (MustWait(u))'
    BY DEF AboutToWait
  <2>1. u = t
    BY <1>2, <1>6
  <2> QED
    BY <1>2, <1>4, <1>6, <1>8, <2>1
<1>10. WaitingRightly'
  <2> SUFFICES ASSUME NEW u \in Created' \ Managed, macro'[u].at = "TRY",
                      task_list'[u].state = "WAITING_EVENT"
               PROVE  /\ (MustWait(u))'
                      /\ task_list'[u].waitSingleEvent
                      /\ task_list'[u].eventQueue = {(ChangeOf(Target(u)))'}
    BY DEF WaitingRightly
  <2>1. u \in Created \ Managed /\ u \in Tid
    BY <1>4 DEF Created
  <2>2. u # t /\ macro'[u] = macro[u]
    BY <1>2, <2>1, MacroFacts
  <2>3. /\ (MustWait(u))' <=> MustWait(u)
        /\ (ChangeOf(Target(u)))' = ChangeOf(Target(u))
    BY <1>1, <2>2 DEF MustWait, ChangeOf, Target
  <2> QED
    BY <1>4, <2>1, <2>2, <2>3 DEF MsgInv, WaitingRightly
<1> QED
  BY <1>3, <1>5, <1>7, <1>9, <1>10 DEF MsgInv

\* A try that succeeds: the change event it signals wakes every task that waits in
\* a macro on the queue, so that nobody waits for what it has just changed.
LEMMA SucceedsOK ==
    ASSUME MsgInv, NEW t \in Tid, Executing(t), NEW i \in LiveQ,
           NEW r \in OSQueue_t(msgQList[i].q.size), Succeeds(t, i, r)
    PROVE  MsgInv'
<1> DEFINE e == msgQList[i].change
<1>1. /\ MsgVarsOK /\ task_list \in [Tid -> TCB] /\ EventVarsOK
  BY InvParts DEF MsgInv, EventInv, ListOK
<1>2. i \in Queue /\ e \in Event
  BY DEF LiveQ, LiveEv, MsgInv, QueuesOK
<1>3. /\ msgQList' = [msgQList EXCEPT ![i] = [msgQList[i] EXCEPT !.q = r]]
      /\ macro' = [macro EXCEPT ![t] = Outside]
      /\ Continue(os_task_signal_event(task_list, nTasks, e))
      /\ lastSignaledEvent' = e
      /\ signaledByTid' = [signaledByTid EXCEPT ![e] = t]
      /\ UNCHANGED <<nEvents, nQueues, msgQ>>
  BY DEF Succeeds
<1>4. /\ macro' \in [Tid -> Macro] /\ macro'[t] = Outside
      /\ \A u \in Tid : u # t => macro'[u] = macro[u]
  BY <1>1, <1>3, MacroFacts DEF MsgVarsOK
<1>5. /\ UNCHANGED <<nTasks, running, running_tid>> /\ Created' = Created
      /\ \A u \in Created : task_list'[u] = Signaled(task_list[u], e)
  BY <1>3 DEF Continue, Created, os_task_signal_event
<1>6. /\ t \in Created /\ running = 1 /\ running_tid = t
      /\ \A u \in Tid : macro[u].at = "WAIT" => u = t
  BY ExecutingFacts
<1>7. EventInv'
  <2>1. EventVarsOK'
    BY <1>1, <1>2, <1>3 DEF EventVarsOK
  <2>2. EventInv
    BY DEF MsgInv
  <2> HIDE DEF e
  <2> QED
    BY <1>3, <2>1, <2>2, SignalStepOK
<1>8. /\ \A j \in Queue : j # i => msgQList'[j] = msgQList[j]
      /\ msgQList'[i].q = r
      /\ msgQList' \in [Queue -> QueueRec]
      /\ \A j \in Queue : /\ msgQList'[j].taskId = msgQList[j].taskId
                          /\ msgQList'[j].change = msgQList[j].change
  <2> DEFINE w == [msgQList[i] EXCEPT !.q = r]
  <2>1. msgQList[i] \in QueueRec /\ msgQList \in [Queue -> QueueRec]
    BY <1>1, <1>2 DEF MsgVarsOK
  <2>2. r \in AnyQueue
    BY DEF AnyQueue, MsgInv, QueuesOK
  <2>3. /\ w \in QueueRec /\ w.q = r /\ w.taskId = msgQList[i].taskId
        /\ w.change = msgQList[i].change
    BY <2>1, <2>2 DEF QueueRec
  <2>4. msgQList' = [msgQList EXCEPT ![i] = w]
    BY <1>3
  <2> HIDE DEF w
  <2> QED
    BY <1>2, <2>1, <2>3, <2>4
<1>9. MsgVarsOK' /\ QueuesOK'
  <2>1. \A j \in LiveQ : msgQList'[j].q \in OSQueue_t(msgQList[j].q.size)
    BY <1>8 DEF MsgInv, QueuesOK, LiveQ
  <2> QED
    BY <1>3, <1>4, <1>5, <1>8, <2>1, QueuesWritten
<1>10. StartedOK'
  BY <1>4, <1>5, <1>6 DEF MsgInv, StartedOK
<1>11. AboutToWait'
  BY <1>4, <1>6, MacroFacts DEF AboutToWait
<1>12. WaitingRightly'
  <2> SUFFICES ASSUME NEW u \in Created' \ Managed, macro'[u].at = "TRY",
                      task_list'[u].state = "WAITING_EVENT"
               PROVE  /\ (MustWait(u))'
                      /\ task_list'[u].waitSingleEvent
                      /\ task_list'[u].eventQueue = {(ChangeOf(Target(u)))'}
    BY DEF WaitingRightly
  <2>1. u \in Created \ Managed /\ u \in Tid
    BY <1>5 DEF Created
  <2>2. u # t /\ macro'[u] = macro[u]
    BY <1>4, <2>1, MacroFacts
  <2>3. task_list[u] \in TCB /\ task_list'[u] = Signaled(task_list[u], e)
    BY <1>1, <1>5, <2>1
  <2>4. task_list[u].state = "WAITING_EVENT"
    BY <2>3, SignaledLater DEF Later
  <2>5. /\ MustWait(u)
        /\ task_list[u].waitSingleEvent
        /\ task_list[u].eventQueue = {ChangeOf(Target(u))}
    BY <2>1, <2>2, <2>4 DEF MsgInv, WaitingRightly
  <2>6. msgQ[Target(u)] \in LiveQ
    BY <2>1, <2>2, <2>5, TargetFacts, MacroFacts DEF MustWait
  <2>7. msgQ[Target(u)] # i
    <3>1. ASSUME msgQ[Target(u)] = i PROVE FALSE
      <4>1. e \in task_list[u].eventQueue
        BY <2>5, <3>1 DEF ChangeOf
      <4>2. Signaled(task_list[u], e).state = "READY"
        BY <2>3, <2>4, <2>5, <4>1, SignaledLater
      <4> QED
        BY <2>3, <4>2
    <3> QED
      BY <3>1
  <2>8. msgQList'[msgQ[Target(u)]] = msgQList[msgQ[Target(u)]]
    BY <1>8, <2>6, <2>7 DEF LiveQ
  <2>9. /\ (MustWait(u))' <=> MustWait(u)
        /\ (ChangeOf(Target(u)))' = ChangeOf(Target(u))
    <3>1. (Target(u))' = Target(u)
      BY <2>2 DEF Target
    <3>2. /\ msgQ' = msgQ
          /\ msgQList'[(msgQ')[(Target(u))']] = msgQList[msgQ[Target(u)]]
      BY <1>3, <2>8, <3>1
    <3>3. (ChangeOf(Target(u)))' = ChangeOf(Target(u))
      BY <3>1, <3>2 DEF ChangeOf
    <3>4. (MustWait(u))' <=> MustWait(u)
      BY <2>2, <3>1, <3>2 DEF MustWait
    <3> QED
      BY <3>3, <3>4
  <2>10. task_list'[u] = task_list[u]
    BY <2>3, <2>4, <2>5, SignaledLater DEF Later
  <2> QED
    BY <2>5, <2>9, <2>10
<1> QED
  BY <1>7, <1>9, <1>10, <1>11, <1>12 DEF MsgInv

\* OS_MSG_Q_POST
LEMMA TryPostOK ==
    ASSUME MsgInv, NEW t \in Tid, Executing(t), NEW u \in Tid, NEW s \in Signal,
           NEW p \in Posts, NEW async \in BOOLEAN, TryPost(t, u, s, p, async)
    PROVE  MsgInv'
<1>1. os_msgQ_find(u) = msgQ[u]
  BY FindIsOwn DEF MsgInv
<1>2. CASE msgQ[u] = NO_QUEUE
  <2>1. Goes(t, Outside)
    BY <1>1, <1>2 DEF TryPost
  <2> QED
    BY <2>1, GoesOK, MacroFacts
<1>3. CASE msgQ[u] # NO_QUEUE /\ ~Full(msgQList[msgQ[u]].q)
  <2>1. msgQ[u] \in LiveQ
    BY <1>3 DEF MsgInv, QueuesOK
  <2>2. PICK size \in PoolSize : /\ msgQList[msgQ[u]].q.size = size
                                 /\ msgQList[msgQ[u]].q \in OSQueue_t(size)
    BY <2>1, LiveQueue
  <2>3. p[1] \in 0 .. DELAY_MAX /\ p[2] \in 0 .. DELAY_MAX
    BY MsgAssumption DEF Posts
  <2> DEFINE r == os_msg_post(msgQList[msgQ[u]].q, s, p[1], p[2])
  <2>4. r \in OSQueue_t(msgQList[msgQ[u]].q.size)
    BY <2>2, <2>3, PostType
  <2>5. Succeeds(t, msgQ[u], r)
    BY <1>1, <1>3 DEF TryPost
  <2> HIDE DEF r
  <2> QED
    BY <2>1, <2>4, <2>5, SucceedsOK
<1>4. CASE msgQ[u] # NO_QUEUE /\ Full(msgQList[msgQ[u]].q)
  <2>1. Goes(t, IF async THEN Outside ELSE Posting("WAIT", u, s, p))
    BY <1>1, <1>4 DEF TryPost
  <2>2. CASE async
    BY <2>1, <2>2, GoesOK, MacroFacts
  <2>3. CASE ~async
    <3> DEFINE m == Posting("WAIT", u, s, p)
    <3>1. m \in Macro /\ m.at = "WAIT" /\ m.call = "POST" /\ m.to = u
      BY MacroFacts
    <3>2. Goes(t, m)
      BY <2>1, <2>3
    <3> HIDE DEF m
    <3> QED
      BY <1>4, <3>1, <3>2, GoesOK
  <2> QED
    BY <2>2, <2>3
<1> QED
  BY <1>2, <1>3, <1>4

\* OS_MSG_Q_RECEIVE
LEMMA TryReceiveOK ==
    ASSUME MsgInv, NEW t \in Tid, Executing(t), NEW async \in BOOLEAN,
           TryReceive(t, async)
    PROVE  MsgInv'
<1>1. os_msgQ_find(t) = msgQ[t]
  BY FindIsOwn DEF MsgInv
<1>2. CASE msgQ[t] = NO_QUEUE
  <2>1. Goes(t, Outside)
    BY <1>1, <1>2 DEF TryReceive
  <2> QED
    BY <2>1, GoesOK, MacroFacts
<1>3. CASE msgQ[t] # NO_QUEUE /\ ~MsgQAllDelayed(msgQList[msgQ[t]].q)
  <2>1. msgQ[t] \in LiveQ
    BY <1>3 DEF MsgInv, QueuesOK
  <2>2. PICK size \in PoolSize : /\ msgQList[msgQ[t]].q.size = size
                                 /\ msgQList[msgQ[t]].q \in OSQueue_t(size)
    BY <2>1, LiveQueue
  <2> DEFINE r == os_msg_receive(msgQList[msgQ[t]].q)
  <2>3. r \in OSQueue_t(msgQList[msgQ[t]].q.size)
    BY <1>3, <2>2, ReceiveType
  <2>4. Succeeds(t, msgQ[t], r)
    BY <1>1, <1>3 DEF TryReceive
  <2> HIDE DEF r
  <2> QED
    BY <2>1, <2>3, <2>4, SucceedsOK
<1>4. CASE msgQ[t] # NO_QUEUE /\ MsgQAllDelayed(msgQList[msgQ[t]].q)
  <2>1. Goes(t, IF async THEN Outside ELSE Receiving("WAIT"))
    BY <1>1, <1>4 DEF TryReceive
  <2>2. CASE async
    BY <2>1, <2>2, GoesOK, MacroFacts
  <2>3. CASE ~async
    <3> DEFINE m == Receiving("WAIT")
    <3>1. m \in Macro /\ m.at = "WAIT" /\ m.call = "RECEIVE"
      BY MacroFacts
    <3>2. Goes(t, m)
      BY <2>1, <2>3
    <3> HIDE DEF m
    <3> QED
      BY <1>4, <3>1, <3>2, GoesOK
  <2> QED
    BY <2>2, <2>3
<1> QED
  BY <1>2, <1>3, <1>4

\* The second and later tries of a macro.
LEMMA RetryOK == ASSUME MsgInv, NEW t \in Tid, Retry(t) PROVE MsgInv'
<1>1. Executing(t) /\ macro[t].at = "TRY" /\ macro[t] \in Macro
  BY DEF Retry, MsgInv, MsgVarsOK
<1>2. CASE macro[t].call = "RECEIVE"
  BY <1>1, <1>2, TryReceiveOK DEF Retry
<1>3. CASE macro[t].call # "RECEIVE"
  <2>1. /\ macro[t].to \in Tid /\ macro[t].signal \in Signal
        /\ macro[t].post \in Posts
    BY <1>1, <1>3, MacroFacts
  <2>2. TryPost(t, macro[t].to, macro[t].signal, macro[t].post, FALSE)
    BY <1>3 DEF Retry
  <2> QED
    BY <1>1, <2>1, <2>2, TryPostOK
<1> QED
  BY <1>2, <1>3

\* The event_wait of a macro: the list of the task was empty, so it waits for the
\* change event and nothing else.
LEMMA AwaitChangeOK ==
    ASSUME MsgInv, NEW t \in Tid, AwaitChange(t)
    PROVE  MsgInv'
<1> DEFINE e == ChangeOf(Target(t))
           r == WaitingEvent(task_list[t], e, TRUE, 0)
<1>1. /\ Executing(t) /\ macro[t].at = "WAIT" /\ macro[t] \in Macro
      /\ macro[t] # Outside
  BY MacroFacts DEF AwaitChange, MsgInv, MsgVarsOK
<1>2. /\ t \in Created /\ running = 1 /\ running_tid = t
      /\ task_list[t].eventQueue = {}
      /\ \A u \in Tid : macro[u].at = "WAIT" => u = t
  BY <1>1, ExecutingFacts
<1>3. MustWait(t) /\ msgQ[Target(t)] \in LiveQ /\ Target(t) \in Tid
  BY <1>1, TargetFacts DEF MsgInv, AboutToWait, MustWait
<1>4. e \in LiveEv /\ e \in Event
  BY <1>3 DEF MsgInv, QueuesOK, ChangeOf, LiveEv
<1>5. ChangeEvent(t) = e
  <2>1. os_msgQ_find(Target(t)) = msgQ[Target(t)]
    BY <1>3, FindIsOwn DEF MsgInv
  <2> QED
    BY <2>1 DEF ChangeEvent, ChangeOf, Target
<1> HIDE DEF e
<1>6. event_wait_timeout(t, e, 0)
  BY <1>5 DEF AwaitChange, event_wait
<1>7. EventInv'
  BY <1>4, <1>6, WaitEventOK DEF MsgInv
<1>8. /\ task_list' = os_task_internal_state_set([task_list EXCEPT ![t] = r], t,
                                                 "WAIT_EVENT")
      /\ running_tid' = NO_TID
      /\ UNCHANGED <<nTasks, running, nEvents>>
  BY <1>4, <1>6 DEF event_wait_timeout, OS_YIELD, os_task_wait_event
<1>9. task_list \in [Tid -> TCB]
  BY InvParts DEF MsgInv, EventInv, ListOK
<1>10. r \in TCB /\ r.waitSingleEvent = TRUE /\ r.eventQueue = {e}
  <2>1. e \in Bits /\ 0 \in Time
    BY <1>4, EventFacts, TaskAssumption DEF Time
  <2>2. r \in TCB
    BY <1>9, <2>1, WaitingEventFacts
  <2> DEFINE q == [task_list[t] EXCEPT
                     !.eventQueue = task_list[t].eventQueue \cup {e},
                     !.waitSingleEvent = TRUE]
  <2>3. q \in TCB /\ q.waitSingleEvent = TRUE /\ q.eventQueue = {e}
    <3>1. task_list[t].eventQueue \cup {e} = {e} /\ {e} \in SUBSET Bits
      BY <1>2, <2>1
    <3>2. task_list[t] \in TCB /\ TRUE \in BOOLEAN
      BY <1>9
    <3> QED
      BY <3>1, <3>2 DEF TCB
  <2>4. r = [q EXCEPT !.state = "WAITING_EVENT"]
    BY <1>9 DEF WaitingEvent, TCB
  <2> HIDE DEF q, r
  <2> QED
    BY <2>2, <2>3, <2>4 DEF TCB, TaskState
<1> HIDE DEF r
<1>11. /\ task_list'[t].waitSingleEvent /\ task_list'[t].eventQueue = {e}
       /\ \A u \in Tid : u # t => task_list'[u] = task_list[u]
  BY <1>8, <1>9, <1>10 DEF os_task_internal_state_set, TCB
<1>12. /\ macro' = [macro EXCEPT ![t] = [macro[t] EXCEPT !.at = "TRY"]]
       /\ UNCHANGED <<msgQList, nQueues, msgQ>>
  BY DEF AwaitChange
<1> DEFINE m == [macro[t] EXCEPT !.at = "TRY"]
<1>13. /\ m \in Macro /\ m.at = "TRY" /\ m.call = macro[t].call
       /\ macro[t].call # "RECEIVE" => m.to = macro[t].to
  <2>1. CASE macro[t] = Receiving("WAIT")
    <3>1. m = Receiving("TRY")
      BY <2>1 DEF Receiving
    <3> QED
      BY <2>1, <3>1, MacroFacts
  <2>2. ASSUME NEW u \in Tid, NEW s \in Signal, NEW p \in Posts,
               macro[t] = Posting("WAIT", u, s, p)
        PROVE  m \in Macro /\ m.at = "TRY" /\ m.call = macro[t].call
               /\ m.to = macro[t].to
    <3>1. m = Posting("TRY", u, s, p)
      <4>1. macro[t] = [call |-> "POST", at |-> "WAIT", to |-> u, signal |-> s,
                        post |-> p]
        BY <2>2 DEF Posting
      <4>2. [macro[t] EXCEPT !.at = "TRY"]
              = [call |-> "POST", at |-> "TRY", to |-> u, signal |-> s, post |-> p]
        BY <4>1
      <4> QED
        BY <4>2 DEF Posting
    <3>2. /\ Posting("TRY", u, s, p) \in Macro
          /\ Posting("TRY", u, s, p).at = "TRY"
          /\ Posting("TRY", u, s, p).call = "POST"
          /\ Posting("TRY", u, s, p).to = u
      BY MacroFacts
    <3>3. macro[t].call = "POST" /\ macro[t].to = u
      BY <2>2 DEF Posting
    <3> HIDE DEF m
    <3> QED
      BY <3>1, <3>2, <3>3
  <2> QED
    BY <1>1, <2>1, <2>2, MacroFacts
<1> HIDE DEF m
<1>14. /\ macro'[t] = m /\ macro' \in [Tid -> Macro]
       /\ \A u \in Tid : u # t => macro'[u] = macro[u]
  BY <1>12, <1>13 DEF MsgInv, MsgVarsOK, m
<1>15. /\ Created' = Created /\ LiveQ' = LiveQ /\ LiveEv' = LiveEv
  BY <1>8, <1>12 DEF Created, LiveQ, LiveEv
<1>16. MsgVarsOK' /\ QueuesOK'
  BY <1>12, <1>14, <1>15 DEF MsgInv, MsgVarsOK, QueuesOK
<1>17. StartedOK'
  BY <1>2, <1>8, <1>14, <1>15 DEF MsgInv, StartedOK
<1>18. AboutToWait'
  BY <1>2, <1>13, <1>14 DEF AboutToWait
<1>19. \A u \in Tid : /\ (MustWait(u))' <=> MustWait(u)
                      /\ (ChangeOf(Target(u)))' = ChangeOf(Target(u))
  <2> TAKE u \in Tid
  <2>1. /\ macro'[u].call = macro[u].call
        /\ macro[u].call # "RECEIVE" => macro'[u].to = macro[u].to
    BY <1>13, <1>14
  <2>2. (Target(u))' = Target(u)
    BY <2>1 DEF Target
  <2> QED
    BY <1>12, <2>1, <2>2 DEF MustWait, ChangeOf
<1>20. WaitingRightly'
  <2> SUFFICES ASSUME NEW u \in Created' \ Managed, macro'[u].at = "TRY",
                      task_list'[u].state = "WAITING_EVENT"
               PROVE  /\ (MustWait(u))'
                      /\ task_list'[u].waitSingleEvent
                      /\ task_list'[u].eventQueue = {(ChangeOf(Target(u)))'}
    BY DEF WaitingRightly
  <2>1. u \in Created \ Managed /\ u \in Tid
    BY <1>15 DEF Created
  <2>2. CASE u = t
    BY <1>3, <1>11, <1>19, <2>2 DEF e
  <2>3. CASE u # t
    BY <1>11, <1>14, <1>19, <2>1, <2>3 DEF MsgInv, WaitingRightly
  <2> QED
    BY <2>2, <2>3
<1> QED
  BY <1>7, <1>16, <1>17, <1>18, <1>20 DEF MsgInv

-----------------------------------------------------------------------------
(* os_tick *)

\* The change events of expiring queues exist, and there is a last one.
LEMMA ExpiringFacts ==
    ASSUME MsgInv
    PROVE  /\ \A u \in ExpiringTasks :
                /\ u \in Created /\ u \in Tid /\ u \in Nat /\ u < N_TASKS
                /\ msgQ[u] \in LiveQ /\ ChangeOf(u) \in LiveEv
                /\ ChangeOf(u) \in Event
           /\ ExpiringTasks # {} =>
                \E t \in ExpiringTasks : \A u \in ExpiringTasks : u <= t
<1>1. ASSUME NEW u \in ExpiringTasks
      PROVE  /\ u \in Created /\ u \in Tid /\ u \in Nat /\ u < N_TASKS
             /\ msgQ[u] \in LiveQ /\ ChangeOf(u) \in LiveEv
             /\ ChangeOf(u) \in Event
  <2>1. u \in Created /\ u \in Tid /\ u \in Nat /\ u < N_TASKS
    BY TidFacts DEF ExpiringTasks, Created
  <2>2. msgQ[u] \in LiveQ
    BY <2>1 DEF ExpiringTasks, MsgInv, QueuesOK
  <2>3. ChangeOf(u) \in LiveEv
    BY <2>2 DEF ChangeOf, MsgInv, QueuesOK
  <2> QED
    BY <2>1, <2>2, <2>3 DEF LiveEv
<1>2. ASSUME ExpiringTasks # {}
      PROVE  \E t \in ExpiringTasks : \A u \in ExpiringTasks : u <= t
  <2>1. /\ ExpiringTasks \in SUBSET Nat /\ N_TASKS \in Nat
        /\ \A x \in ExpiringTasks : x <= N_TASKS
    BY <1>1, TidFacts
  <2> QED
    BY <1>2, <2>1, GreatestNat
<1> QED
  BY <1>1, <1>2

\* The tick keeps the invariant of kernel and events.
LEMMA TickEventOK == ASSUME MsgInv, msg_tick PROVE EventInv'
<1>1. /\ ListOK(task_list, nTasks) /\ ControlOK /\ EventVarsOK
  BY InvParts DEF MsgInv, EventInv
<1>2. /\ task_list' = TickedTasks
      /\ UNCHANGED <<nTasks, last_running_task, running, running_tid, loops,
                     halted, nEvents>>
  BY DEF msg_tick
<1>3. /\ task_list' \in [Tid -> TCB]
      /\ \A w \in Tid : Later(task_list'[w], task_list[w])
  BY <1>1, <1>2, TickedTasksGood DEF GoodTick
<1>4. ListOK(task_list', nTasks')
  BY <1>1, <1>2, <1>3 DEF ListOK, Later
<1>5. ControlOK'
  BY <1>1, <1>2 DEF ControlOK, Created
<1>6. ~SELF_KILL => ExecutingIsReady' /\ KilledStays
  BY <1>1, <1>2, <1>3 DEF MsgInv, EventInv, KernelInv, ExecutingIsReady,
     KilledStays, ControlOK, Created, Later
<1>7. KernelInv'
  BY <1>4, <1>5, <1>6, InvPartsNext DEF StepOK
<1>8. AllListed' /\ ExecutingHearsNothing'
  BY <1>1, <1>2, <1>3 DEF MsgInv, EventInv, AllListed, ExecutingHearsNothing,
     ControlOK, Created, Later
<1>9. EventVarsOK'
  <2>1. signaledByTid' = [e \in Event |->
            IF \E t \in ExpiringTasks : ChangeOf(t) = e THEN ISR_TID
                                                        ELSE signaledByTid[e]]
    BY DEF msg_tick
  <2>2. signaledByTid' \in [Event -> Tid \cup {0, NO_TID, ISR_TID}]
    BY <1>1, <2>1 DEF EventVarsOK
  <2>3. lastSignaledEvent' \in Event \cup {NO_EVENT}
    <3>1. CASE ExpiringTasks = {}
      BY <1>1, <3>1 DEF msg_tick, EventVarsOK
    <3>2. CASE ExpiringTasks # {}
      <4> DEFINE t == CHOOSE v \in ExpiringTasks : \A u \in ExpiringTasks : u <= v
      <4>1. t \in ExpiringTasks
        BY <3>2, ExpiringFacts
      <4>2. lastSignaledEvent' = ChangeOf(t)
        BY <3>2 DEF msg_tick
      <4> HIDE DEF t
      <4> QED
        BY <4>1, <4>2, ExpiringFacts
    <3> QED
      BY <3>1, <3>2
  <2> QED
    BY <1>1, <1>2, <2>2, <2>3 DEF EventVarsOK
<1> QED
  BY <1>7, <1>8, <1>9 DEF EventInv

\* The tick of the queues: a full one stays full, and one whose messages are all
\* delayed stays so unless it expires.
LEMMA TickQueuesOK ==
    ASSUME MsgInv, msg_tick
    PROVE  /\ MsgVarsOK' /\ QueuesOK'
           /\ \A i \in LiveQ :
                 /\ msgQList'[i].change = msgQList[i].change
                 /\ Full(msgQList[i].q) => Full(msgQList'[i].q)
                 /\ MsgQAllDelayed(msgQList[i].q) /\ ~Expires(msgQList[i].q)
                      => MsgQAllDelayed(msgQList'[i].q)
<1> DEFINE w(i) == IF \E t \in Created : msgQ[t] = i
                   THEN [msgQList[i] EXCEPT !.q = os_msgQ_tick(msgQList[i].q)]
                   ELSE msgQList[i]
<1>1. MsgVarsOK /\ QueuesOK /\ DELAY_MAX \in Nat
  BY MsgAssumption DEF MsgInv
<1>2. /\ UNCHANGED <<nTasks, nEvents, nQueues, msgQ, macro>>
      /\ msgQList' = [i \in Queue |-> w(i)]
  BY DEF msg_tick
<1>3. ASSUME NEW i \in Queue, \E t \in Created : msgQ[t] = i
      PROVE  i \in LiveQ
  <2>1. PICK t \in Created : msgQ[t] = i
    BY <1>3
  <2>2. t \in Tid /\ msgQ[t] # NO_QUEUE
    BY <2>1, QueueFacts DEF Created
  <2> QED
    BY <1>1, <2>1, <2>2 DEF QueuesOK
<1>4. ASSUME NEW i \in Queue
      PROVE  /\ w(i) \in QueueRec
             /\ w(i).taskId = msgQList[i].taskId /\ w(i).change = msgQList[i].change
             /\ \/ w(i).q = msgQList[i].q
                \/ i \in LiveQ /\ w(i).q = os_msgQ_tick(msgQList[i].q)
  <2>1. msgQList[i] \in QueueRec
    BY <1>1 DEF MsgVarsOK
  <2>2. CASE \E t \in Created : msgQ[t] = i
    <3>1. i \in LiveQ
      BY <1>3, <2>2
    <3>2. PICK size \in PoolSize : /\ msgQList[i].q.size = size
                                   /\ msgQList[i].q \in OSQueue_t(size)
      BY <3>1, LiveQueue
    <3> DEFINE r == os_msgQ_tick(msgQList[i].q)
    <3>3. r \in OSQueue_t(size)
      BY <1>1, <3>2, TickType
    <3>4. r \in AnyQueue
      BY <3>3 DEF AnyQueue
    <3>5. w(i) = [msgQList[i] EXCEPT !.q = r]
      BY <2>2
    <3> HIDE DEF w, r
    <3>6. w(i).q = r
      BY <2>1, <3>5 DEF QueueRec
    <3> QED
      BY <2>1, <3>1, <3>4, <3>5, <3>6 DEF QueueRec, r
  <2>3. CASE ~ \E t \in Created : msgQ[t] = i
    BY <2>1, <2>3
  <2> QED
    BY <2>2, <2>3
<1> HIDE DEF w
<1>5. /\ msgQList' \in [Queue -> QueueRec]
      /\ \A i \in Queue : msgQList'[i] = w(i)
  BY <1>2, <1>4
<1>6. ASSUME NEW i \in LiveQ
      PROVE  /\ msgQList'[i].q \in OSQueue_t(msgQList[i].q.size)
             /\ msgQList'[i].change = msgQList[i].change
             /\ Full(msgQList[i].q) => Full(msgQList'[i].q)
             /\ MsgQAllDelayed(msgQList[i].q) /\ ~Expires(msgQList[i].q)
                  => MsgQAllDelayed(msgQList'[i].q)
  <2>1. i \in Queue
    BY DEF LiveQ
  <2>2. PICK size \in PoolSize : /\ msgQList[i].q.size = size
                                 /\ msgQList[i].q \in OSQueue_t(size)
    BY LiveQueue
  <2>3. /\ msgQList'[i].change = msgQList[i].change
        /\ \/ msgQList'[i].q = msgQList[i].q
           \/ msgQList'[i].q = os_msgQ_tick(msgQList[i].q)
    BY <1>4, <1>5, <2>1
  <2>4. CASE msgQList'[i].q = msgQList[i].q
    BY <2>2, <2>3, <2>4
  <2>5. CASE msgQList'[i].q = os_msgQ_tick(msgQList[i].q)
    <3> DEFINE q == msgQList[i].q
               r == os_msgQ_tick(q)
    <3>1. r \in OSQueue_t(size) /\ r.head = q.head /\ r.tail = q.tail
      BY <1>1, <2>2, TickType
    <3>2. MsgQAllDelayed(q) /\ ~Expires(q) => MsgQAllDelayed(r)
      BY <1>1, <2>2, TickAllDelayed
    <3>3. Full(q) => Full(r)
      BY <3>1 DEF Full
    <3> QED
      BY <2>2, <2>3, <2>5, <3>1, <3>2, <3>3
  <2> QED
    BY <2>3, <2>4, <2>5
<1>7. MsgVarsOK' /\ QueuesOK'
  <2>1. macro' \in [Tid -> Macro]
    BY <1>1, <1>2 DEF MsgVarsOK
  <2>2. \A i \in Queue : /\ msgQList'[i].taskId = msgQList[i].taskId
                         /\ msgQList'[i].change = msgQList[i].change
    BY <1>4, <1>5
  <2> QED
    BY <1>2, <1>5, <1>6, <2>1, <2>2, QueuesWritten
<1> QED
  BY <1>6, <1>7

\* os_tick with the ticks of the queues.  A delay that ends in the queue of a
\* reader wakes the reader; the lock keeps the tick out between try and wait.
LEMMA TickMsgOK == ASSUME MsgInv, msg_tick PROVE MsgInv'
<1>1. /\ ListOK(task_list, nTasks)
      /\ UNCHANGED <<nTasks, running, running_tid, nEvents, nQueues, msgQ, macro>>
      /\ task_list' = TickedTasks
  BY InvParts DEF MsgInv, EventInv, msg_tick
<1>2. EventInv' /\ MsgVarsOK' /\ QueuesOK'
  BY TickEventOK, TickQueuesOK
<1>3. Created' = Created /\ LiveQ' = LiveQ
  BY <1>1 DEF Created, LiveQ
<1>4. StartedOK'
  BY <1>1, <1>3 DEF MsgInv, StartedOK
<1>5. \A u \in Tid : (Target(u))' = Target(u)
  BY <1>1 DEF Target
<1>6. ASSUME NEW u \in Tid, macro[u] # Outside, MustWait(u),
             \/ ~LOCKING
             \/ ~Expires(msgQList[msgQ[Target(u)]].q)
      PROVE  (MustWait(u))' /\ (ChangeOf(Target(u)))' = ChangeOf(Target(u))
  <2> DEFINE i == msgQ[Target(u)]
  <2>1. i \in LiveQ /\ i # NO_QUEUE
    BY <1>6, TargetFacts DEF MustWait
  <2>2. /\ macro[u].call = "POST" => Full(msgQList[i].q)
        /\ macro[u].call = "RECEIVE" /\ LOCKING => MsgQAllDelayed(msgQList[i].q)
    BY <1>6 DEF MustWait
  <2>3. (msgQ[Target(u)])' = i
    BY <1>1, <1>5
  <2> HIDE DEF i
  <2>4. ~LOCKING \/ ~Expires(msgQList[i].q)
    BY <1>6 DEF i
  <2>5. /\ msgQList'[i].change = msgQList[i].change
        /\ macro[u].call = "POST" => Full(msgQList'[i].q)
        /\ macro[u].call = "RECEIVE" /\ LOCKING => MsgQAllDelayed(msgQList'[i].q)
    <3>1. /\ Full(msgQList[i].q) => Full(msgQList'[i].q)
          /\ MsgQAllDelayed(msgQList[i].q) /\ ~Expires(msgQList[i].q)
               => MsgQAllDelayed(msgQList'[i].q)
          /\ msgQList'[i].change = msgQList[i].change
      BY <2>1, TickQueuesOK
    <3> QED
      BY <2>2, <2>4, <3>1
  <2>6. macro' = macro /\ msgQ'[(Target(u))'] = i /\ msgQ[Target(u)] = i
    BY <1>1, <2>3 DEF i
  <2>7. (MustWait(u))'
    BY <2>1, <2>5, <2>6 DEF MustWait
  <2>8. (ChangeOf(Target(u)))' = ChangeOf(Target(u))
    BY <2>5, <2>6 DEF ChangeOf
  <2> QED
    BY <2>7, <2>8
<1>7. AboutToWait'
  <2> SUFFICES ASSUME NEW u \in Tid, macro'[u].at = "WAIT"
               PROVE  running_tid' = u /\ (MustWait(u))'
    BY DEF AboutToWait
  <2>1. macro[u].at = "WAIT" /\ macro[u] # Outside
    BY <1>1, MacroFacts
  <2>2. running_tid = u /\ MustWait(u)
    BY <2>1 DEF MsgInv, AboutToWait
  <2>3. ~LOCKING
    BY <2>2, TidFacts DEF msg_tick, MayTick
  <2> QED
    BY <1>1, <1>6, <2>1, <2>2, <2>3
<1>8. WaitingRightly'
  <2> SUFFICES ASSUME NEW u \in Created' \ Managed, macro'[u].at = "TRY",
                      task_list'[u].state = "WAITING_EVENT"
               PROVE  /\ (MustWait(u))'
                      /\ task_list'[u].waitSingleEvent
                      /\ task_list'[u].eventQueue = {(ChangeOf(Target(u)))'}
    BY DEF WaitingRightly
  <2>1. u \in Created \ Managed /\ u \in Tid
    BY <1>3 DEF Created
  <2>2. macro[u].at = "TRY" /\ macro[u] # Outside
    BY <1>1, MacroFacts
  <2>3. GoodTick(TickedTasks, N_TASKS)
    BY <1>1, TickedTasksGood
  <2>4. Later(task_list'[u], task_list[u])
    BY <1>1, <2>1, <2>3 DEF GoodTick
  <2>5. task_list[u].state = "WAITING_EVENT"
    BY <2>4 DEF Later
  <2>6. /\ MustWait(u)
        /\ task_list[u].waitSingleEvent
        /\ task_list[u].eventQueue = {ChangeOf(Target(u))}
    BY <2>1, <2>2, <2>5 DEF MsgInv, WaitingRightly
  <2>7. task_list'[u] = task_list[u]
    BY <2>4, <2>5, <2>6 DEF Later
  <2>8. ~Ends(N_TASKS, u)
    BY <1>1, <2>1, <2>3, <2>5, <2>6 DEF GoodTick
  <2>9. ~Expires(msgQList[msgQ[Target(u)]].q)
    <3>1. /\ Target(u) \in Created
          /\ msgQ[Target(u)] # NO_QUEUE
      BY <2>1, <2>2, <2>6, TargetFacts DEF MustWait
    <3>2. ASSUME Expires(msgQList[msgQ[Target(u)]].q) PROVE FALSE
      <4>1. Target(u) \in ExpiringTasks
        BY <3>1, <3>2 DEF ExpiringTasks
      <4>2. Target(u) < N_TASKS
        BY <4>1, ExpiringFacts
      <4>3. Ends(N_TASKS, u)
        BY <2>6, <4>1, <4>2 DEF Ends
      <4> QED
        BY <2>8, <4>3
    <3> QED
      BY <3>2
  <2>10. (MustWait(u))' /\ (ChangeOf(Target(u)))' = ChangeOf(Target(u))
    BY <1>6, <2>1, <2>2, <2>6, <2>9
  <2> QED
    BY <2>6, <2>7, <2>10
<1> QED
  BY <1>2, <1>4, <1>7, <1>8 DEF MsgInv

-----------------------------------------------------------------------------
\* main() has created nothing yet.
LEMMA MsgInitInv == MsgInit => MsgInv
<1> SUFFICES ASSUME MsgInit PROVE MsgInv
  OBVIOUS
<1>1. EventInv
  BY EventInitInv DEF MsgInit
<1>2. /\ LiveQ = {} /\ \A t \in Tid : macro[t] = Outside /\ msgQ[t] = NO_QUEUE
  <2>1. \A i \in Queue : ~(i < 0)
    BY QueueFacts
  <2> QED
    BY <2>1 DEF MsgInit, os_msgQ_init, LiveQ
<1>3. MsgVarsOK
  <2>1. EmptyList \in AnyQueue
    BY DEF AnyQueue
  <2>2. [q |-> EmptyList, taskId |-> 0, change |-> 0] \in QueueRec
    BY <2>1 DEF QueueRec
  <2>3. msgQList \in [Queue -> QueueRec] /\ nQueues \in 0 .. N_QUEUES
    BY <2>2, QueueFacts DEF MsgInit, os_msgQ_init
  <2>4. msgQ \in [Tid -> Queue \cup {NO_QUEUE}] /\ macro \in [Tid -> Macro]
    BY MacroFacts DEF MsgInit, os_msgQ_init
  <2> QED
    BY <2>3, <2>4 DEF MsgVarsOK
<1>4. QueuesOK
  BY <1>2 DEF QueuesOK
<1>5. StartedOK /\ AboutToWait /\ WaitingRightly
  BY <1>2, MacroFacts DEF StartedOK, AboutToWait, WaitingRightly, MsgInit,
     EventInit, os_init, Created
<1> QED
  BY <1>1, <1>3, <1>4, <1>5 DEF MsgInv

\* Every step of tasks, messages and clock.
LEMMA MsgStepInv == MsgInv /\ [MsgNext]_allVars => MsgInv'
<1> SUFFICES ASSUME MsgInv, [MsgNext]_allVars PROVE MsgInv'
  OBVIOUS
<1>1. CASE MsgMain
  BY <1>1, MainMsgOK, CreateMsgOK DEF MsgMain, msgVars
<1>2. CASE MsgSchedule
  BY <1>2, ScheduleMsgOK
<1>3. CASE msg_tick
  BY <1>3, TickMsgOK
<1>4. ASSUME NEW t \in Tid, MsgTaskStep(t) PROVE MsgInv'
  BY <1>4, TaskStepMsgOK
<1>5. ASSUME NEW t \in Tid, MsgStart(t) PROVE MsgInv'
  <2>1. ASSUME NEW async \in BOOLEAN, MSG_Q_RECEIVE(t, async) PROVE MsgInv'
    BY <2>1, TryReceiveOK DEF MSG_Q_RECEIVE
  <2>2. ASSUME NEW async \in BOOLEAN, NEW u \in Created, NEW s \in Signal,
               NEW p \in Posts, MSG_Q_POST(t, u, s, p, async)
        PROVE  MsgInv'
    BY <2>2, TryPostOK DEF MSG_Q_POST, Created
  <2> QED
    BY <1>5, <2>1, <2>2 DEF MsgStart
<1>6. ASSUME NEW t \in Tid, Retry(t) PROVE MsgInv'
  BY <1>6, RetryOK
<1>7. ASSUME NEW t \in Tid, AwaitChange(t) PROVE MsgInv'
  BY <1>7, AwaitChangeOK
<1>8. CASE UNCHANGED allVars
  <2>1. EventInv'
    BY <1>8, EventStepInv DEF MsgInv, allVars
  <2>2. UNCHANGED <<task_list, nTasks, running, running_tid, nEvents, msgVars>>
    BY <1>8 DEF allVars, evVars, kernelVars, eventVars
  <2> QED
    BY <2>1, <2>2, QuietOK DEF Created, LiveEv, MsgInv, StartedOK
<1> QED
  BY <1>1, <1>2, <1>3, <1>4, <1>5, <1>6, <1>7, <1>8 DEF MsgNext

\* The invariant of tasks, events and messages, for any number of tasks, queues and
\* sizes, with or without the lock.
THEOREM MsgInvariant == MsgSpec => []MsgInv
<1>1. MsgInit => MsgInv
  BY MsgInitInv
<1>2. MsgInv /\ [MsgNext]_allVars => MsgInv'
  BY MsgStepInv
<1> QED
  BY <1>1, <1>2, PTL DEF MsgSpec

\* The types: every queue is a ring inside its pool, whatever is posted, received
\* and counted down, and every task knows its queue (os_msgqueue.c).
THEOREM MsgType == MsgSpec => []MsgTypeOK
<1>1. MsgInv => MsgTypeOK
  <2> SUFFICES ASSUME MsgInv PROVE MsgTypeOK
    OBVIOUS
  <2>1. EventTypeOK
    BY DEF MsgInv, EventInv, EventVarsOK, KernelInv, EventTypeOK
  <2>2. \A i \in Queue : msgQList[i] \in QueueRec
    BY DEF MsgInv, MsgVarsOK
  <2>3. \A i \in Queue : i < nQueues
          => msgQList[i].q \in OSQueue_t(msgQList[i].q.size)
    BY DEF MsgInv, QueuesOK, LiveQ
  <2> QED
    BY <2>1, <2>2, <2>3 DEF MsgInv, MsgVarsOK, QueueRec, MsgTypeOK
<1> QED
  BY <1>1, MsgInvariant, PTL

\* Why a task that nobody suspends waits in a macro: its target's queue is full, or
\* its own, under the lock, has no message that is due.
LEMMA WaitsForAReason ==
    ASSUME MsgInv, NEW t \in Created \ Managed,
           WaitsIn(t, "POST") \/ WaitsIn(t, "RECEIVE")
    PROVE  MustWait(t) /\ Target(t) \in Tid
<1>1. t \in Tid /\ macro[t] \in Macro /\ macro[t] # Outside
      /\ macro[t].at \in {"TRY", "WAIT"}
  BY MacroFacts DEF Created, WaitsIn, MsgInv, MsgVarsOK
<1>2. Target(t) \in Tid
  BY <1>1, TargetFacts
<1>3. CASE macro[t].at = "WAIT"
  BY <1>1, <1>2, <1>3 DEF MsgInv, AboutToWait
<1>4. CASE macro[t].at = "TRY"
  BY <1>2, <1>4 DEF MsgInv, WaitingRightly, WaitsIn
<1> QED
  BY <1>1, <1>3, <1>4

\* What every task that nobody may suspend is promised, whatever is done to others: in
\* OS_MSG_Q_POST it waits only while the queue is full, and, under the lock of
\* os_start_locking, in OS_MSG_Q_RECEIVE only while no message of its queue is due.
UnmanagedMissNothing ==
    \A t \in Created \ Managed :
        /\ WaitsIn(t, "POST") => Full(msgQList[os_msgQ_find(macro[t].to)].q)
        /\ LOCKING /\ WaitsIn(t, "RECEIVE") => ~HasDue(t)

\* No wake-up of such a task is lost (os_msgqueue.h).
THEOREM UnmanagedAreWoken == MsgSpec => []UnmanagedMissNothing
<1>1. ASSUME MsgInv, NEW t \in Created \ Managed, WaitsIn(t, "POST")
      PROVE  Full(msgQList[os_msgQ_find(macro[t].to)].q)
  <2>1. MustWait(t) /\ Target(t) \in Tid
    BY <1>1, WaitsForAReason
  <2>2. Target(t) = macro[t].to /\ macro[t].call = "POST"
    BY <1>1 DEF WaitsIn, Target
  <2>3. os_msgQ_find(macro[t].to) = msgQ[macro[t].to]
    BY <1>1, <2>1, <2>2, FindIsOwn DEF MsgInv
  <2> QED
    BY <2>1, <2>2, <2>3 DEF MustWait
<1>2. ASSUME MsgInv, LOCKING, NEW t \in Created \ Managed, WaitsIn(t, "RECEIVE")
      PROVE  ~HasDue(t)
  <2>1. MustWait(t) /\ Target(t) = t /\ t \in Tid
    BY <1>2, WaitsForAReason DEF WaitsIn, Target, Created
  <2>2. os_msgQ_find(t) = msgQ[t]
    BY <1>2, <2>1, FindIsOwn DEF MsgInv
  <2>3. MsgQAllDelayed(msgQList[msgQ[t]].q)
    BY <1>2, <2>1 DEF MustWait, WaitsIn
  <2> QED
    BY <2>2, <2>3 DEF HasDue
<1>3. MsgInv => UnmanagedMissNothing
  BY <1>1, <1>2 DEF UnmanagedMissNothing
<1> QED
  BY <1>3, MsgInvariant, PTL

\* No wake-up of a poster is lost, as long as no task is suspended: it waits only
\* while the queue is full (OS_MSG_Q_POST), also without the lock, for no tick
\* takes a message out.
THEOREM PosterIsWoken ==
    ASSUME Managed = {}
    PROVE  MsgSpec => []PosterMissesNothing
<1>1. UnmanagedMissNothing => PosterMissesNothing
  BY DEF UnmanagedMissNothing, PosterMissesNothing
<1> QED
  BY <1>1, UnmanagedAreWoken, PTL

\* No wake-up of a reader is lost, as long as no task is suspended and the
\* scheduling loop holds the lock (os_start_locking): it waits only while no
\* message in its queue is due.
THEOREM ReaderIsWoken ==
    ASSUME Managed = {}, LOCKING
    PROVE  MsgSpec => []ReaderMissesNothing
<1>1. UnmanagedMissNothing => ReaderMissesNothing
  BY DEF UnmanagedMissNothing, ReaderMissesNothing
<1> QED
  BY <1>1, UnmanagedAreWoken, PTL
=============================================================================
