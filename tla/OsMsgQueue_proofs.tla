------------------------- MODULE OsMsgQueue_proofs -------------------------
(***************************************************************************)
(* Lemmas about the ring buffer of a message queue, for every size: what   *)
(* the functions of os_msgqueue.c make of a queue stays one, no slot       *)
(* outside the list is touched, and what a tick does to delays.            *)
(***************************************************************************)
EXTENDS OsMsgQueue, Sequences, TLAPS

\* The sizes os_task_create is called with: one message does not work.
PoolSize == 2 .. 255

\* Every index a loop computes is inside the list.
LEMMA RingFacts ==
    ASSUME NEW size \in PoolSize, NEW q \in OSQueue_t(size)
    PROVE  /\ q.size = size /\ size \in Nat /\ size > 1
           /\ q.list \in [0 .. size - 1 -> Msg_t]
           /\ q.head \in 0 .. size - 1 /\ q.tail \in 0 .. size - 1
           /\ q.head \in Nat /\ q.tail \in Nat
           /\ \A i \in Nat : Behind(q, i) \in 0 .. size - 1
           /\ \A i \in Nat : CountFrom(q, i) \in 0 .. size - 1
           /\ \A i, k \in Nat : SlotFrom(q, i, k) \in 0 .. size - 1
<1>1. /\ q.size = size /\ size \in Nat /\ size > 1
      /\ q.list \in [0 .. size - 1 -> Msg_t]
      /\ q.head \in 0 .. size - 1 /\ q.tail \in 0 .. size - 1
  BY DEF OSQueue_t, PoolSize
<1>2. \A x \in Int : x % size \in 0 .. size - 1
  BY <1>1
<1>3. q.head \in Nat /\ q.tail \in Nat
  BY <1>1
<1>4. ASSUME NEW i \in Nat
      PROVE  /\ Behind(q, i) \in 0 .. size - 1
             /\ CountFrom(q, i) \in 0 .. size - 1
  <2>1. i + 1 \in Int /\ q.head - i - 1 \in Int
    BY <1>3
  <2> QED
    BY <1>1, <1>2, <2>1 DEF Behind, CountFrom
<1>5. ASSUME NEW i \in Nat, NEW k \in Nat
      PROVE  SlotFrom(q, i, k) \in 0 .. size - 1
  <2>1. i + k \in Int
    OBVIOUS
  <2> QED
    BY <1>1, <1>2, <2>1 DEF SlotFrom
<1> QED
  BY <1>1, <1>3, <1>4, <1>5

\* The part of the list that holds messages is inside it.
LEMMA PendingFacts ==
    ASSUME NEW size \in PoolSize, NEW q \in OSQueue_t(size)
    PROVE  /\ Count(q) \in 0 .. size - 1
           /\ Pending(q) \subseteq 0 .. size - 1
<1>1. Count(q) \in 0 .. size - 1
  BY RingFacts DEF Count
<1>2. ASSUME NEW k \in 1 .. Count(q)
      PROVE  SlotFrom(q, q.tail, k) \in 0 .. size - 1
  <2>1. k \in Nat /\ q.tail \in Nat
    BY <1>1, RingFacts
  <2> QED
    BY <2>1, RingFacts
<1> QED
  BY <1>1, <1>2 DEF Pending

\* os_msgQ_create
LEMMA CreatedType ==
    ASSUME NEW size \in PoolSize, NEW m \in Msg_t
    PROVE  /\ CreatedQueue(size, m) \in OSQueue_t(size)
           /\ CreatedQueue(size, m).size = size
BY DEF CreatedQueue, OSQueue_t, PoolSize

\* queue_push
LEMMA PutAtHeadType ==
    ASSUME NEW size \in PoolSize, NEW q \in OSQueue_t(size), NEW m \in Msg_t
    PROVE  /\ PutAtHead(q, m) \in OSQueue_t(size)
           /\ PutAtHead(q, m).tail = q.tail
<1>1. Behind(q, q.head) \in 0 .. size - 1 /\ q.head \in 0 .. size - 1
  BY RingFacts
<1> QED
  BY <1>1 DEF PutAtHead, OSQueue_t

\* os_msg_post
LEMMA PostType ==
    ASSUME NEW size \in PoolSize, NEW q \in OSQueue_t(size), NEW s \in Signal,
           NEW delay \in 0 .. DELAY_MAX, NEW period \in 0 .. DELAY_MAX
    PROVE  os_msg_post(q, s, delay, period) \in OSQueue_t(size)
<1>1. [signal |-> s, delay |-> delay, reload |-> period] \in Msg_t
  BY DEF Msg_t
<1> QED
  BY <1>1, PutAtHeadType DEF os_msg_post

\* One turn of the loop of os_msg_receive.
LEMMA InspectedType ==
    ASSUME NEW size \in PoolSize, NEW q \in OSQueue_t(size), NEW m \in Msg_t,
           DELAY_MAX \in Nat
    PROVE  /\ Inspected(q, m) \in OSQueue_t(size)
           /\ Inspected(q, m).tail = q.tail
<1>1. [m EXCEPT !.delay = m.reload] \in Msg_t
  BY DEF Msg_t
<1>2. m.delay \in Nat
  BY DEF Msg_t
<1>3. CASE m.delay > 0
  BY <1>2, <1>3, PutAtHeadType DEF Inspected
<1>4. CASE ~(m.delay > 0) /\ m.reload > 0
  <2>1. Inspected(q, m) = PutAtHead(q, [m EXCEPT !.delay = m.reload])
    BY <1>2, <1>4 DEF Inspected
  <2> QED
    BY <1>1, <2>1, PutAtHeadType
<1>5. CASE ~(m.delay > 0) /\ ~(m.reload > 0)
  <2>1. Inspected(q, m) = q
    BY <1>5 DEF Inspected
  <2> QED
    BY <2>1
<1> QED
  BY <1>3, <1>4, <1>5

\* os_msgQ_tick moves no message: it only counts down.
LEMMA TickType ==
    ASSUME NEW size \in PoolSize, NEW q \in OSQueue_t(size), DELAY_MAX \in Nat
    PROVE  LET r == os_msgQ_tick(q) IN
           /\ r \in OSQueue_t(size)
           /\ r.head = q.head /\ r.tail = q.tail /\ r.size = q.size
           /\ Pending(r) = Pending(q)
           /\ \A i \in 0 .. size - 1 :
                r.list[i] = IF i \in Pending(q) /\ q.list[i].delay > 0
                            THEN [q.list[i] EXCEPT !.delay = @ - 1]
                            ELSE q.list[i]
<1> DEFINE m(i) == IF i \in Pending(q) /\ q.list[i].delay > 0
                   THEN [q.list[i] EXCEPT !.delay = @ - 1] ELSE q.list[i]
           l == [i \in 0 .. size - 1 |-> m(i)]
           r == os_msgQ_tick(q)
<1>1. q.size = size /\ q.list \in [0 .. size - 1 -> Msg_t]
  BY RingFacts
<1>2. \A i \in 0 .. size - 1 : m(i) \in Msg_t
  <2> TAKE i \in 0 .. size - 1
  <2>1. q.list[i] \in Msg_t
    BY <1>1
  <2>2. q.list[i].delay \in 0 .. DELAY_MAX
    BY <2>1 DEF Msg_t
  <2>3. CASE i \in Pending(q) /\ q.list[i].delay > 0
    <3>1. q.list[i].delay - 1 \in 0 .. DELAY_MAX
      BY <2>2, <2>3
    <3>2. m(i) = [q.list[i] EXCEPT !.delay = q.list[i].delay - 1]
      BY <2>1, <2>3 DEF Msg_t
    <3> QED
      BY <2>1, <3>1, <3>2 DEF Msg_t
  <2>4. CASE ~(i \in Pending(q) /\ q.list[i].delay > 0)
    BY <2>1, <2>4
  <2> QED
    BY <2>3, <2>4
<1>3. r = [q EXCEPT !.list = l]
  BY <1>1 DEF os_msgQ_tick
<1> HIDE DEF m
<1>4. l \in [0 .. size - 1 -> Msg_t]
  BY <1>2
<1> HIDE DEF l, r
<1>5. /\ r \in OSQueue_t(size) /\ r.list = l
      /\ r.head = q.head /\ r.tail = q.tail /\ r.size = q.size
  BY <1>3, <1>4 DEF OSQueue_t
<1>6. Pending(r) = Pending(q)
  BY <1>5 DEF Pending, Count, CountFrom, SlotFrom
<1> QED
  BY <1>5, <1>6 DEF l, m, r

\* A queue in which every message is delayed stays so, unless a delay expires:
\* why the tick signals the change event only when one reaches 0.
LEMMA TickAllDelayed ==
    ASSUME NEW size \in PoolSize, NEW q \in OSQueue_t(size), DELAY_MAX \in Nat,
           MsgQAllDelayed(q), ~Expires(q)
    PROVE  MsgQAllDelayed(os_msgQ_tick(q))
<1> DEFINE r == os_msgQ_tick(q)
<1>1. /\ Pending(r) = Pending(q)
      /\ \A i \in 0 .. size - 1 :
           r.list[i] = IF i \in Pending(q) /\ q.list[i].delay > 0
                       THEN [q.list[i] EXCEPT !.delay = @ - 1] ELSE q.list[i]
  BY TickType
<1> HIDE DEF r
<1>2. ASSUME NEW i \in Pending(q) PROVE r.list[i].delay > 0
  <2>1. i \in 0 .. size - 1
    BY PendingFacts
  <2>2. q.list[i] \in Msg_t
    <3>1. q.list \in [0 .. size - 1 -> Msg_t]
      BY RingFacts
    <3> QED
      BY <2>1, <3>1
  <2>3. q.list[i].delay \in Nat /\ q.list[i].delay > 0 /\ q.list[i].delay # 1
    BY <1>2, <2>2 DEF Msg_t, MsgQAllDelayed, Expires
  <2>4. r.list[i] = [q.list[i] EXCEPT !.delay = q.list[i].delay - 1]
    BY <1>1, <1>2, <2>1, <2>2, <2>3 DEF Msg_t
  <2>5. r.list[i].delay = q.list[i].delay - 1
    BY <2>2, <2>4 DEF Msg_t
  <2> QED
    BY <2>3, <2>5
<1> QED
  BY <1>1, <1>2 DEF r, MsgQAllDelayed

-----------------------------------------------------------------------------
(* The messages of a ring as a sequence. *)

\* The loops of os_msgqueue.c wrap around at most once.
LEMMA Wrap ==
    ASSUME NEW size \in PoolSize, NEW q \in OSQueue_t(size),
           NEW i \in 0 .. size - 1
    PROVE  /\ CountFrom(q, i) = IF q.head > i THEN q.head - i - 1
                                ELSE q.head - i - 1 + size
           /\ \A k \in 0 .. size :
                SlotFrom(q, i, k) = IF i + k < size THEN i + k
                                    ELSE i + k - size
           /\ Behind(q, i) = SlotFrom(q, i, 1)
<1>1. /\ q.size = size /\ size \in Nat /\ size > 1
      /\ q.head \in 0 .. size - 1
  BY RingFacts
<1>2. /\ \A x \in 0 .. size - 1 : x % size = x
      /\ \A x \in size .. 2 * size - 1 : x % size = x - size
      /\ \A x \in (- size) .. -1 : x % size = x + size
  BY <1>1
<1>3. CountFrom(q, i) = IF q.head > i THEN q.head - i - 1
                        ELSE q.head - i - 1 + size
  <2>1. PICK x \in Int : x = q.head - i - 1
    BY <1>1
  <2>2. CASE q.head > i
    <3>1. x \in 0 .. size - 1
      BY <1>1, <2>1, <2>2
    <3> QED
      BY <1>1, <1>2, <2>1, <2>2, <3>1 DEF CountFrom
  <2>3. CASE ~(q.head > i)
    <3>1. x \in (- size) .. -1
      BY <1>1, <2>1, <2>3
    <3> QED
      BY <1>1, <1>2, <2>1, <2>3, <3>1 DEF CountFrom
  <2> QED
    BY <2>2, <2>3
<1>5. ASSUME NEW k \in 0 .. size
      PROVE  SlotFrom(q, i, k) = IF i + k < size THEN i + k ELSE i + k - size
  <2>1. CASE i + k < size
    <3>1. i + k \in 0 .. size - 1
      BY <1>1, <2>1
    <3> QED
      BY <1>1, <1>2, <2>1, <3>1 DEF SlotFrom
  <2>2. CASE ~(i + k < size)
    <3>1. i + k \in size .. 2 * size - 1
      BY <1>1, <2>2
    <3> QED
      BY <1>1, <1>2, <2>2, <3>1 DEF SlotFrom
  <2> QED
    BY <2>1, <2>2
<1>6. Behind(q, i) = SlotFrom(q, i, 1)
  BY DEF Behind, SlotFrom
<1> QED
  BY <1>3, <1>5, <1>6

\* A loop from behind slot i visits different slots, and none of them is head,
\* where it stops.
LEMMA SlotsApart ==
    ASSUME NEW size \in PoolSize, NEW q \in OSQueue_t(size),
           NEW i \in 0 .. size - 1
    PROVE  LET n == CountFrom(q, i) IN
           /\ n \in 0 .. size - 1
           /\ \A k \in 1 .. n : /\ SlotFrom(q, i, k) \in 0 .. size - 1
                                /\ SlotFrom(q, i, k) # q.head
           /\ \A j, k \in 1 .. n : SlotFrom(q, i, j) = SlotFrom(q, i, k) => j = k
           /\ SlotFrom(q, i, n + 1) = q.head
<1> DEFINE n == CountFrom(q, i)
<1>1. size \in Nat /\ size > 1 /\ q.head \in 0 .. size - 1 /\ n \in 0 .. size - 1
  BY RingFacts
<1>2. n = IF q.head > i THEN q.head - i - 1 ELSE q.head - i - 1 + size
  BY Wrap
<1>3. \A k \in 0 .. size :
        SlotFrom(q, i, k) = IF i + k < size THEN i + k ELSE i + k - size
  BY Wrap
<1> HIDE DEF n
<1>4. ASSUME NEW k \in 1 .. n
      PROVE  /\ SlotFrom(q, i, k) \in 0 .. size - 1
             /\ SlotFrom(q, i, k) # q.head
  BY <1>1, <1>2, <1>3
<1>5. ASSUME NEW j \in 1 .. n, NEW k \in 1 .. n,
             SlotFrom(q, i, j) = SlotFrom(q, i, k)
      PROVE  j = k
  BY <1>1, <1>2, <1>3, <1>5
<1>6. SlotFrom(q, i, n + 1) = q.head
  BY <1>1, <1>2, <1>3
<1> QED
  BY <1>1, <1>4, <1>5, <1>6 DEF n

\* What a loop finds is a sequence of messages.
LEMMA StoredSeq ==
    ASSUME NEW size \in PoolSize, NEW q \in OSQueue_t(size),
           NEW i \in 0 .. size - 1
    PROVE  /\ Stored(q, i) \in Seq(Msg_t)
           /\ Len(Stored(q, i)) = CountFrom(q, i)
           /\ \A k \in 1 .. CountFrom(q, i) :
                Stored(q, i)[k] = q.list[SlotFrom(q, i, k)]
<1> DEFINE n == CountFrom(q, i)
<1>1. n \in Nat /\ \A k \in 1 .. n : SlotFrom(q, i, k) \in 0 .. size - 1
  BY SlotsApart
<1>2. q.list \in [0 .. size - 1 -> Msg_t]
  BY RingFacts
<1>3. Stored(q, i) \in [1 .. n -> Msg_t]
  BY <1>1, <1>2 DEF Stored
<1> QED
  BY <1>1, <1>3 DEF Stored

\* queue_push puts a message at the end of what a loop finds, if a slot is left.
LEMMA StoredPut ==
    ASSUME NEW size \in PoolSize, NEW q \in OSQueue_t(size),
           NEW i \in 0 .. size - 1, NEW m \in Msg_t,
           CountFrom(q, i) < size - 1
    PROVE  /\ Stored(PutAtHead(q, m), i) = Append(Stored(q, i), m)
           /\ CountFrom(PutAtHead(q, m), i) = CountFrom(q, i) + 1
<1> DEFINE r == PutAtHead(q, m)
           n == CountFrom(q, i)
           s == Stored(q, i)
           t == Stored(r, i)
<1>1. r \in OSQueue_t(size)
  BY PutAtHeadType
<1>2. /\ r.list = [q.list EXCEPT ![q.head] = m] /\ r.size = q.size
      /\ r.head = Behind(q, q.head)
  BY DEF PutAtHead, OSQueue_t
<1>3. /\ size \in Nat /\ size > 1 /\ q.head \in 0 .. size - 1
      /\ q.list \in [0 .. size - 1 -> Msg_t] /\ n \in 0 .. size - 1
  BY RingFacts, SlotsApart
<1>4. CountFrom(r, i) = n + 1
  <2>1. r.head = IF q.head + 1 < size THEN q.head + 1 ELSE q.head + 1 - size
    <3>1. r.head = SlotFrom(q, q.head, 1)
      BY <1>2, <1>3, Wrap
    <3>2. SlotFrom(q, q.head, 1) = IF q.head + 1 < size THEN q.head + 1
                                   ELSE q.head + 1 - size
      <4>1. 1 \in 0 .. size
        BY <1>3
      <4> QED
        BY <1>3, <4>1, Wrap
    <3> QED
      BY <3>1, <3>2
  <2>2. n = IF q.head > i THEN q.head - i - 1 ELSE q.head - i - 1 + size
    BY Wrap
  <2>3. CountFrom(r, i) = IF r.head > i THEN r.head - i - 1
                          ELSE r.head - i - 1 + size
    BY <1>1, Wrap
  <2>4. /\ size \in Nat /\ q.head \in Nat /\ q.head < size
        /\ i \in Nat /\ i < size /\ n < size - 1
    BY <1>3
  <2> HIDE DEF r, n
  <2>5. CASE q.head + 1 < size
    <3>1. r.head = q.head + 1
      BY <2>1, <2>5
    <3> QED
      BY <2>2, <2>3, <2>4, <3>1
  <2>6. CASE ~(q.head + 1 < size)
    <3>1. q.head = size - 1 /\ r.head = 0
      BY <2>1, <2>4, <2>6
    <3> QED
      BY <2>2, <2>3, <2>4, <3>1
  <2> QED
    BY <2>5, <2>6
<1>5. /\ s \in Seq(Msg_t) /\ Len(s) = n
      /\ \A k \in 1 .. n : s[k] = q.list[SlotFrom(q, i, k)]
  BY StoredSeq
<1>6. /\ t \in Seq(Msg_t) /\ Len(t) = n + 1
      /\ \A k \in 1 .. n + 1 : t[k] = r.list[SlotFrom(r, i, k)]
  BY <1>1, <1>4, StoredSeq
<1>7. \A k \in Nat : SlotFrom(r, i, k) = SlotFrom(q, i, k)
  BY <1>2 DEF SlotFrom
<1>8. /\ \A k \in 1 .. n : /\ SlotFrom(q, i, k) \in 0 .. size - 1
                           /\ SlotFrom(q, i, k) # q.head
      /\ SlotFrom(q, i, n + 1) = q.head
  BY SlotsApart
<1> HIDE DEF r, n, s, t
<1>9. ASSUME NEW k \in 1 .. n + 1 PROVE t[k] = Append(s, m)[k]
  <2>1. CASE k = n + 1
    <3>1. t[k] = m
      BY <1>2, <1>3, <1>6, <1>7, <1>8, <2>1
    <3>2. Append(s, m)[k] = m
      BY <1>5, <2>1
    <3> QED
      BY <3>1, <3>2
  <2>2. CASE k # n + 1
    <3>1. k \in 1 .. n
      BY <1>3, <2>2
    <3>2. t[k] = q.list[SlotFrom(q, i, k)]
      BY <1>2, <1>3, <1>6, <1>7, <1>8, <3>1
    <3>3. Append(s, m)[k] = s[k]
      BY <1>5, <3>1
    <3> QED
      BY <1>5, <3>1, <3>2, <3>3
  <2> QED
    BY <2>1, <2>2
<1>10. t = Append(s, m)
  <2>1. Append(s, m) \in Seq(Msg_t) /\ Len(Append(s, m)) = n + 1
    BY <1>5
  <2>2. DOMAIN t = 1 .. n + 1 /\ DOMAIN Append(s, m) = 1 .. n + 1
    BY <1>6, <2>1
  <2> QED
    BY <1>6, <1>9, <2>1, <2>2
<1> QED
  BY <1>4, <1>10 DEF r, n, s, t

\* A turn of the loop takes the first message it finds.
LEMMA StoredNext ==
    ASSUME NEW size \in PoolSize, NEW q \in OSQueue_t(size),
           NEW i \in 0 .. size - 1, CountFrom(q, i) > 0
    PROVE  /\ Behind(q, i) \in 0 .. size - 1
           /\ CountFrom(q, Behind(q, i)) = CountFrom(q, i) - 1
           /\ Stored(q, i) = <<q.list[Behind(q, i)]>> \o Stored(q, Behind(q, i))
<1> DEFINE n == CountFrom(q, i)
           b == Behind(q, i)
           x == q.list[b]
           s == Stored(q, i)
           t == Stored(q, b)
<1>1. /\ size \in Nat /\ size > 1 /\ q.head \in 0 .. size - 1
      /\ q.list \in [0 .. size - 1 -> Msg_t] /\ n \in 0 .. size - 1
      /\ b \in 0 .. size - 1
  <2>1. i \in Nat
    BY RingFacts
  <2> QED
    BY <2>1, RingFacts, SlotsApart
<1>2. b = IF i + 1 < size THEN i + 1 ELSE i + 1 - size
  <2>1. 1 \in 0 .. size
    BY <1>1
  <2>2. SlotFrom(q, i, 1) = IF i + 1 < size THEN i + 1 ELSE i + 1 - size
    BY <2>1, Wrap
  <2>3. b = SlotFrom(q, i, 1)
    BY Wrap
  <2> QED
    BY <2>2, <2>3
<1>3. CountFrom(q, b) = n - 1
  <2>1. n = IF q.head > i THEN q.head - i - 1 ELSE q.head - i - 1 + size
    BY Wrap
  <2>2. CountFrom(q, b) = IF q.head > b THEN q.head - b - 1
                          ELSE q.head - b - 1 + size
    BY <1>1, Wrap
  <2>3. /\ n > 0 /\ q.head \in Nat /\ q.head < size
        /\ size \in Nat /\ i \in Nat /\ i < size
    BY <1>1
  <2> HIDE DEF n, b
  <2>4. CASE i + 1 < size
    <3>1. b = i + 1
      BY <1>2, <2>4
    <3> QED
      BY <2>1, <2>2, <2>3, <3>1
  <2>5. CASE ~(i + 1 < size)
    <3>1. i = size - 1 /\ b = 0
      BY <1>2, <2>3, <2>5
    <3> QED
      BY <2>1, <2>2, <2>3, <3>1
  <2> QED
    BY <2>4, <2>5
<1>4. ASSUME NEW k \in 1 .. n - 1
      PROVE  SlotFrom(q, b, k) = SlotFrom(q, i, k + 1)
  <2>1. SlotFrom(q, b, k) = IF b + k < size THEN b + k ELSE b + k - size
    <3>1. k \in 0 .. size
      BY <1>1
    <3> QED
      BY <1>1, <3>1, Wrap
  <2>2. SlotFrom(q, i, k + 1) = IF i + (k + 1) < size THEN i + (k + 1)
                                ELSE i + (k + 1) - size
    <3>1. k + 1 \in 0 .. size
      BY <1>1
    <3> QED
      BY <3>1, Wrap
  <2>3. /\ k \in Nat /\ k + 1 < size
        /\ size \in Nat /\ i \in Nat /\ i < size
    BY <1>1
  <2> HIDE DEF n, b
  <2>4. CASE i + 1 < size
    <3>1. b = i + 1
      BY <1>2, <2>4
    <3> QED
      BY <2>1, <2>2, <2>3, <3>1
  <2>5. CASE ~(i + 1 < size)
    <3>1. i = size - 1 /\ b = 0
      BY <1>2, <2>3, <2>5
    <3> QED
      BY <2>1, <2>2, <2>3, <3>1
  <2> QED
    BY <2>4, <2>5
<1>5. SlotFrom(q, i, 1) = b
  BY Wrap
<1>6. /\ s \in Seq(Msg_t) /\ Len(s) = n
      /\ \A k \in 1 .. n : s[k] = q.list[SlotFrom(q, i, k)]
  BY StoredSeq
<1>7. /\ t \in Seq(Msg_t) /\ Len(t) = n - 1
      /\ \A k \in 1 .. n - 1 : t[k] = q.list[SlotFrom(q, b, k)]
  BY <1>1, <1>3, StoredSeq
<1>8. x \in Msg_t /\ n > 0
  BY <1>1
<1> HIDE DEF n, b, x, s, t
<1>9. /\ <<x>> \o t \in Seq(Msg_t) /\ Len(<<x>> \o t) = n
      /\ (<<x>> \o t)[1] = x
      /\ \A k \in 1 .. n - 1 : (<<x>> \o t)[k + 1] = t[k]
  BY <1>1, <1>7, <1>8
<1>10. ASSUME NEW k \in 1 .. n PROVE s[k] = (<<x>> \o t)[k]
  <2>1. CASE k = 1
    BY <1>5, <1>6, <1>8, <1>9, <2>1 DEF x
  <2>2. CASE k # 1
    <3>1. PICK j \in 1 .. n - 1 : k = j + 1
      <4>1. k - 1 \in 1 .. n - 1 /\ k = (k - 1) + 1
        BY <1>1, <2>2
      <4> QED
        BY <4>1
    <3> QED
      BY <1>4, <1>6, <1>7, <1>9, <3>1
  <2> QED
    BY <2>1, <2>2
<1>11. s = <<x>> \o t
  <2>1. DOMAIN s = 1 .. n /\ DOMAIN (<<x>> \o t) = 1 .. n
    BY <1>6, <1>9
  <2> QED
    BY <1>6, <1>9, <1>10, <2>1
<1> QED
  BY <1>1, <1>3, <1>11 DEF n, b, x, s, t

\* A tick counts messages down where they are; the reader not being in its loop,
\* it counts all that have a delay left.
LEMMA StoredTick ==
    ASSUME NEW size \in PoolSize, NEW q \in OSQueue_t(size), DELAY_MAX \in Nat,
           NEW i \in 0 .. size - 1
    PROVE  LET s == Stored(q, i)
               t == Stored(os_msgQ_tick(q), i)
           IN  /\ Len(t) = Len(s)
               /\ CountFrom(os_msgQ_tick(q), i) = CountFrom(q, i)
               /\ \A k \in 1 .. Len(s) :
                    \/ t[k] = s[k] /\ (i = q.tail => s[k].delay = 0)
                    \/ /\ s[k].delay > 0
                       /\ t[k] = [s[k] EXCEPT !.delay = @ - 1]
<1> DEFINE r == os_msgQ_tick(q)
           n == CountFrom(q, i)
           s == Stored(q, i)
           t == Stored(r, i)
<1>1. /\ r \in OSQueue_t(size)
      /\ r.head = q.head /\ r.tail = q.tail /\ r.size = q.size
      /\ \A j \in 0 .. size - 1 :
           r.list[j] = IF j \in Pending(q) /\ q.list[j].delay > 0
                       THEN [q.list[j] EXCEPT !.delay = @ - 1] ELSE q.list[j]
  BY TickType
<1>2. /\ s \in Seq(Msg_t) /\ Len(s) = n
      /\ \A k \in 1 .. n : s[k] = q.list[SlotFrom(q, i, k)]
  BY StoredSeq
<1>3. CountFrom(r, i) = n
  BY <1>1 DEF CountFrom
<1>4. /\ t \in Seq(Msg_t) /\ Len(t) = n
      /\ \A k \in 1 .. n : t[k] = r.list[SlotFrom(r, i, k)]
  BY <1>1, <1>3, StoredSeq
<1>5. \A k \in Nat : SlotFrom(r, i, k) = SlotFrom(q, i, k)
  BY <1>1 DEF SlotFrom
<1>6. n \in Nat /\ \A k \in 1 .. n : SlotFrom(q, i, k) \in 0 .. size - 1
  BY SlotsApart
<1>7. \A k \in 1 .. n : i = q.tail => SlotFrom(q, i, k) \in Pending(q)
  BY DEF Pending, Count
<1> HIDE DEF r, n, s, t
<1>8. ASSUME NEW k \in 1 .. n
      PROVE  \/ t[k] = s[k] /\ (i = q.tail => s[k].delay = 0)
             \/ s[k].delay > 0 /\ t[k] = [s[k] EXCEPT !.delay = @ - 1]
  <2>1. PICK j \in 0 .. size - 1 : j = SlotFrom(q, i, k)
    BY <1>6
  <2>2. s[k] = q.list[j] /\ t[k] = r.list[j] /\ s[k] \in Msg_t
    BY <1>2, <1>4, <1>5, <1>6, <2>1
  <2>3. s[k].delay \in Nat
    BY <2>2 DEF Msg_t
  <2>4. CASE j \in Pending(q) /\ s[k].delay > 0
    BY <1>1, <2>2, <2>4
  <2>5. CASE ~(j \in Pending(q) /\ s[k].delay > 0)
    BY <1>1, <1>7, <2>1, <2>2, <2>3, <2>5
  <2> QED
    BY <2>4, <2>5
<1> QED
  BY <1>2, <1>3, <1>4, <1>8 DEF r, n, s, t
=============================================================================
