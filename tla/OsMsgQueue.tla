----------------------------- MODULE OsMsgQueue -----------------------------
(***************************************************************************)
(* The ring buffer of a message queue (os_msgqueue.c).  A function that    *)
(* changes one queue is an operator from the queue before the call to the  *)
(* queue after it.  head is the next slot to write, tail the last one      *)
(* read: one slot is never used, so that a full queue (head = tail) can be *)
(* told from an empty one (head behind tail).                              *)
(***************************************************************************)
EXTENDS Integers

CONSTANTS
    Signal,     \* what Msg_t.signal can be; here it tells messages apart
    DELAY_MAX   \* bound: largest delay or period, a uint32_t in the code

Msg_t == [signal : Signal, delay : 0 .. DELAY_MAX, reload : 0 .. DELAY_MAX]

OSQueue_t(size) ==
    [list : [0 .. size - 1 -> Msg_t], head : 0 .. size - 1,
     tail : 0 .. size - 1, size : {size}]

\* os_msgQ_create; the message pool holds anything, here m.
CreatedQueue(size, m) ==
    [list |-> [i \in 0 .. size - 1 |-> m], head |-> 1, tail |-> 0,
     size |-> size]

\* Mutant of Behind: no wrap around.
Behind_NoWrap(q, i) == i + 1

Behind(q, i) == (i + 1) % q.size

Full(q) == q.head = q.tail

\* How many slots a loop from behind slot i up to head visits, and the k-th.
CountFrom(q, i) == (q.head - i - 1) % q.size
SlotFrom(q, i, k) == (i + k) % q.size

\* What that loop finds.
Stored(q, i) == [k \in 1 .. CountFrom(q, i) |-> q.list[SlotFrom(q, i, k)]]

Count(q) == CountFrom(q, q.tail)
Pending(q) == {SlotFrom(q, q.tail, k) : k \in 1 .. Count(q)}

-----------------------------------------------------------------------------
\* queue_push without its test for a full queue, and the loop of os_msg_receive
\* that puts a message back.
PutAtHead(q, m) == [q EXCEPT !.list[q.head] = m, !.head = Behind(q, q.head)]

\* Mutant of os_msg_post: the unused slot is used.
os_msg_post_LastSlot(q, s, delay, period) ==
    PutAtHead(q, [signal |-> s, delay |-> delay, reload |-> period])

\* A full queue is left alone (MSG_QUEUE_FULL).
os_msg_post(q, s, delay, period) ==
    IF Full(q) THEN q
    ELSE PutAtHead(q, [signal |-> s, delay |-> delay, reload |-> period])

\* Mutant of MsgQAllDelayed: only the message in front is looked at.
MsgQAllDelayed_FrontOnly(q) ==
    Count(q) = 0 \/ q.list[SlotFrom(q, q.tail, 1)].delay > 0

\* Also the result MSG_QUEUE_EMPTY of os_msg_receive: it holds of an empty queue.
MsgQAllDelayed(q) == \A i \in Pending(q) : q.list[i].delay > 0

\* Mutants of Inspected: a periodic message is put back as it is, or is not put
\* back at all.
Inspected_NoReload(q, m) ==
    IF m.delay > 0 \/ m.reload > 0 THEN PutAtHead(q, m) ELSE q

Inspected_Dropped(q, m) == IF m.delay > 0 THEN PutAtHead(q, m) ELSE q

\* One turn of the loop of os_msg_receive has looked at m: a message that is not
\* due goes to the back, a periodic one that is due starts its next period there.
Inspected(q, m) ==
    CASE m.delay > 0 -> PutAtHead(q, m)
      [] m.delay = 0 /\ m.reload > 0 ->
            PutAtHead(q, [m EXCEPT !.delay = m.reload])
      [] OTHER -> q

\* The queue after the first k turns of that loop, tail not yet written.
Turns(q) ==
    LET after[k \in 0 .. q.size - 1] ==
            IF k = 0 THEN q
            ELSE LET r == after[k - 1]
                 IN  Inspected(r, r.list[SlotFrom(q, q.tail, k)])
    IN  after

\* The turn on which it finds a message that is due.
FoundAt(q) ==
    CHOOSE k \in 1 .. Count(q) :
        /\ q.list[SlotFrom(q, q.tail, k)].delay = 0
        /\ \A j \in 1 .. k - 1 : q.list[SlotFrom(q, q.tail, j)].delay > 0

\* The whole of os_msg_receive, undisturbed.
os_msg_receive(q) ==
    IF MsgQAllDelayed(q) THEN q
    ELSE [Turns(q)[FoundAt(q)] EXCEPT !.tail = SlotFrom(q, q.tail, FoundAt(q))]

\* Mutant of os_msgQ_tick: the loop stops one message before head.
os_msgQ_tick_Newest(q) ==
    LET P == Pending(q) \ {SlotFrom(q, q.tail, Count(q))}
    IN  [q EXCEPT !.list = [i \in 0 .. q.size - 1 |->
            IF i \in P /\ q.list[i].delay > 0
            THEN [q.list[i] EXCEPT !.delay = @ - 1] ELSE q.list[i]]]

os_msgQ_tick(q) ==
    [q EXCEPT !.list = [i \in 0 .. q.size - 1 |->
        IF i \in Pending(q) /\ q.list[i].delay > 0
        THEN [q.list[i] EXCEPT !.delay = @ - 1] ELSE q.list[i]]]

\* os_msgQ_tick signals the change event: a delay reaches 0.
Expires(q) == \E i \in Pending(q) : q.list[i].delay = 1
=============================================================================
