----------------------------- MODULE OsMsgRing -----------------------------
(***************************************************************************)
(* One message queue between its posters, its reader and the clock.  Posts *)
(* and receives exclude each other, since tasks are coroutines, but with   *)
(* os_start the tick is an interrupt that may come between any two steps   *)
(* of the loop of os_msg_receive, before tail is written.  With            *)
(* os_start_locking it cannot.                                             *)
(*                                                                         *)
(* What callers are promised is MsgQueue.                                  *)
(***************************************************************************)
EXTENDS OsMsgQueue, FiniteSets, Sequences, SequencesExt

CONSTANTS
    SIZE,       \* poolSize given to os_task_create
    Delays,     \* delays given to msg_post_in; 0 is msg_post
    Periods,    \* periods given to msg_post_every
    INTERRUPTS  \* TRUE: os_start; FALSE: os_start_locking

\* A pool of one message does not work: head = 1 is outside it, and the loops that
\* stop at head never end.
ASSUME RingAssumption ==
    /\ SIZE \in 2 .. 255
    /\ DELAY_MAX \in Nat
    /\ Delays \subseteq 0 .. DELAY_MAX
    /\ Periods \subseteq 1 .. DELAY_MAX
    /\ INTERRUPTS \in BOOLEAN

VARIABLES
    q,       \* msgQList[queue].q
    at,      \* where the reader is: IDLE, LOOP or COPIED (msg is read)
    tail,    \* its local variable tail
    msg,     \* the message it copied, *msg
    last     \* observed: what the last call told its caller

vars == <<q, at, tail, msg, last>>

Idle == CHOOSE m \in Msg_t : TRUE

Init ==
    /\ \E m \in Msg_t : q = CreatedQueue(SIZE, m)
    /\ at = "IDLE" /\ tail = 0 /\ msg = Idle
    /\ last = [result |-> "NONE", signal |-> {}]

TypeOK ==
    /\ q \in OSQueue_t(SIZE)
    /\ at \in {"IDLE", "LOOP", "COPIED"}
    /\ tail \in 0 .. SIZE - 1
    /\ msg \in Msg_t

Tells(r, S) == last' = [result |-> r, signal |-> S]

-----------------------------------------------------------------------------
\* The messages in the queue, in the order in which they will be looked at: the
\* one in the reader's hands, those not yet looked at, those put back behind them.
Contents ==
    CASE at = "IDLE"   -> Stored(q, q.tail)
      [] at = "LOOP"   -> Stored(q, tail)
      [] at = "COPIED" -> <<msg>> \o Stored(q, tail)

InQueue(s) == \E k \in DOMAIN Contents : Contents[k].signal = s

Post(s, delay, period) ==
    /\ at = "IDLE"
    /\ ~InQueue(s)
    /\ Tells(IF Full(q) THEN "FULL" ELSE "POSTED", {})
    /\ q' = os_msg_post(q, s, delay, period)
    /\ UNCHANGED <<at, tail, msg>>

ReceiveEmpty ==
    /\ at = "IDLE"
    /\ MsgQAllDelayed(q)
    /\ Tells("EMPTY", {})
    /\ UNCHANGED <<q, at, tail, msg>>

ReceiveBegin ==
    /\ at = "IDLE"
    /\ ~MsgQAllDelayed(q)
    /\ at' = "LOOP" /\ tail' = q.tail
    /\ Tells("NONE", {})
    /\ UNCHANGED <<q, msg>>

CopyOut ==
    /\ at = "LOOP"
    /\ tail' = Behind(q, tail)
    /\ msg' = q.list[tail']
    /\ at' = "COPIED"
    /\ UNCHANGED <<q, last>>

\* The rest of the turn; the last turn writes tail and returns.
PutBack ==
    /\ at = "COPIED"
    /\ msg.delay > 0
    /\ q' = Inspected(q, msg)
    /\ at' = "LOOP"
    /\ UNCHANGED <<tail, msg, last>>

ReceiveEnd ==
    /\ at = "COPIED"
    /\ msg.delay = 0
    /\ q' = [Inspected(q, msg) EXCEPT !.tail = tail]
    /\ at' = "IDLE" /\ tail' = 0 /\ msg' = Idle
    /\ Tells("RECEIVED", {msg.signal})

\* The loop of the tick still starts behind q.tail when it interrupts the reader.
Tick ==
    /\ INTERRUPTS \/ at = "IDLE"
    /\ q' = os_msgQ_tick(q)
    /\ Tells("NONE", {})
    /\ UNCHANGED <<at, tail, msg>>

Next ==
    \/ \E s \in Signal :
          \/ \E delay \in Delays : Post(s, delay, 0)
          \/ \E period \in Periods : Post(s, period, period)
    \/ ReceiveEmpty \/ ReceiveBegin \/ CopyOut \/ PutBack \/ ReceiveEnd
    \/ Tick

Spec == Init /\ [][Next]_vars

-----------------------------------------------------------------------------
IsDue(m) == m.delay = 0

\* The places in sequence c of the messages that are due, and these in order.
DuePlaces(c) == {k \in DOMAIN c : IsDue(c[k])}

InOrder(P) ==
    CHOOSE f \in [1 .. Cardinality(P) -> P] :
        \A i, j \in 1 .. Cardinality(P) : i < j => f[i] < f[j]

DueIn(c) ==
    [i \in 1 .. Cardinality(DuePlaces(c)) |->
        LET m == c[InOrder(DuePlaces(c))[i]]
        IN  [signal |-> m.signal, reload |-> m.reload]]

TimedIn(c) == {c[k] : k \in DOMAIN c \ DuePlaces(c)}

Abstract ==
    INSTANCE MsgQueue WITH
        Capacity  <- SIZE - 1,
        Delays    <- Delays \cup Periods \cup {0},
        MISSES    <- INTERRUPTS,
        due       <- DueIn(Contents),
        timed     <- TimedIn(Contents),
        receiving <- at # "IDLE"

\* No order of posts, receives and ticks, with the queue full or wrapped around
\* or rotated by earlier receives, loses or doubles a message, passes over one
\* that is due, delivers one that is not, or counts a tick twice; and under
\* os_start_locking none is counted not at all (os_msgqueue.c).  A tick that
\* interrupts os_msg_receive may be missed, against the doc: see OsMsgClock.
MsgQueueSpec == Abstract!Spec

\* The rotation starves nobody: a message that is due and stays in the queue never
\* goes back in it, whatever is posted, received, put back or ticked, so that at
\* most SIZE - 2 others are received before it (os_msg_receive).
DueNeverGoesBack ==
    [][\A k \in DOMAIN Contents, j \in DOMAIN Contents' :
        IsDue(Contents[k]) /\ Contents'[j] = Contents[k] => j <= k]_vars
=============================================================================
