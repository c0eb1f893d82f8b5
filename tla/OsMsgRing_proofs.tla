-------------------------- MODULE OsMsgRing_proofs --------------------------
(***************************************************************************)
(* Theorems about one message queue, for every pool size, every set of     *)
(* messages, delays and periods, and with or without ticks that interrupt  *)
(* the reader: types, that a message which is due never goes back, that    *)
(* delays keep the time of the clock where no tick interrupts the reader,  *)
(* and that the ring implements MsgQueue.  The argument has two halves.    *)
(* The first says what every step does to Contents, the messages as one    *)
(* sequence; after it nothing is said of slots.  The second maps that      *)
(* sequence to the due and the timed messages of MsgQueue.                 *)
(***************************************************************************)
EXTENDS OsMsgClock, OsMsgQueue_proofs, FiniteSetTheorems

\* No two messages of a sequence have the same signal.
Distinct(c) ==
    \A j, k \in DOMAIN c : c[j].signal = c[k].signal => j = k

SomeDue(c) == \E k \in DOMAIN c : IsDue(c[k])

\* The reader is in its loop only while a message is due, so it never runs into
\* head; having copied one out there is room to put it back.
RingInv ==
    /\ TypeOK
    /\ Distinct(Contents)
    /\ at # "IDLE" => SomeDue(Contents)
    /\ at = "COPIED" => CountFrom(q, tail) < SIZE - 1

-----------------------------------------------------------------------------
(* What a step does to the messages. *)

\* The pool sizes of the model are those the lemmas are about.
LEMMA SizeOK == SIZE \in PoolSize /\ SIZE \in Nat /\ SIZE > 1 /\ DELAY_MAX \in Nat
BY RingAssumption DEF PoolSize

\* What is in the queue is a sequence of messages, of the length the loop counts.
LEMMA ContentsType ==
    ASSUME TypeOK
    PROVE  /\ Contents \in Seq(Msg_t)
           /\ Len(Contents) \in Nat
           /\ at = "IDLE" => /\ Contents = Stored(q, q.tail)
                             /\ Len(Contents) = CountFrom(q, q.tail)
           /\ at = "LOOP" => /\ Contents = Stored(q, tail)
                             /\ Len(Contents) = CountFrom(q, tail)
           /\ at = "COPIED" => /\ Contents = <<msg>> \o Stored(q, tail)
                               /\ Len(Contents) = CountFrom(q, tail) + 1
<1>1. /\ q \in OSQueue_t(SIZE) /\ tail \in 0 .. SIZE - 1 /\ msg \in Msg_t
      /\ q.tail \in 0 .. SIZE - 1
  BY SizeOK, RingFacts DEF TypeOK
<1>2. /\ Stored(q, tail) \in Seq(Msg_t) /\ Len(Stored(q, tail)) = CountFrom(q, tail)
      /\ Stored(q, q.tail) \in Seq(Msg_t)
      /\ Len(Stored(q, q.tail)) = CountFrom(q, q.tail)
  BY <1>1, SizeOK, StoredSeq
<1>3. CASE at = "IDLE"
  BY <1>2, <1>3 DEF Contents
<1>4. CASE at = "LOOP"
  BY <1>2, <1>4 DEF Contents
<1>5. CASE at = "COPIED"
  BY <1>1, <1>2, <1>5 DEF Contents
<1> QED
  BY <1>3, <1>4, <1>5 DEF TypeOK

\* The test of os_msg_post for a full queue.
LEMMA FullFacts ==
    ASSUME TypeOK, at = "IDLE"
    PROVE  /\ Len(Contents) \in 0 .. SIZE - 1
           /\ Full(q) <=> Len(Contents) = SIZE - 1
<1>1. /\ q \in OSQueue_t(SIZE) /\ q.tail \in 0 .. SIZE - 1
      /\ q.head \in 0 .. SIZE - 1
  BY SizeOK, RingFacts DEF TypeOK
<1>2. CountFrom(q, q.tail) = IF q.head > q.tail THEN q.head - q.tail - 1
                             ELSE q.head - q.tail - 1 + SIZE
  BY <1>1, SizeOK, Wrap
<1> QED
  BY <1>1, <1>2, SizeOK, ContentsType DEF Full

\* The test of os_msg_receive for messages that are due.
LEMMA DueFacts ==
    ASSUME TypeOK, at = "IDLE"
    PROVE  MsgQAllDelayed(q) <=> ~SomeDue(Contents)
<1> DEFINE n == CountFrom(q, q.tail)
<1>1. q \in OSQueue_t(SIZE) /\ q.tail \in 0 .. SIZE - 1
  BY SizeOK, RingFacts DEF TypeOK
<1>2. /\ Contents \in Seq(Msg_t) /\ Len(Contents) = n
      /\ \A k \in 1 .. n : Contents[k] = q.list[SlotFrom(q, q.tail, k)]
  BY <1>1, SizeOK, ContentsType, StoredSeq
<1>3. \A k \in 1 .. n : /\ Contents[k] \in Msg_t
                        /\ Contents[k].delay > 0 <=> ~IsDue(Contents[k])
  <2> TAKE k \in 1 .. n
  <2>1. Contents[k] \in Msg_t
    BY <1>2
  <2>2. Contents[k].delay \in Nat
    BY <2>1 DEF Msg_t
  <2> QED
    BY <2>1, <2>2 DEF IsDue
<1>4. Pending(q) = {SlotFrom(q, q.tail, k) : k \in 1 .. n}
  BY DEF Pending, Count
<1>5. DOMAIN Contents = 1 .. n
  BY <1>2
<1> HIDE DEF n
<1> QED
  BY <1>2, <1>3, <1>4, <1>5 DEF MsgQAllDelayed, SomeDue

\* Tail, the reader's place, does not change what a loop from elsewhere finds.
LEMMA TailApart ==
    ASSUME NEW r \in OSQueue_t(SIZE), NEW i \in 0 .. SIZE - 1,
           NEW j \in 0 .. SIZE - 1
    PROVE  LET z == [r EXCEPT !.tail = j] IN
           /\ z \in OSQueue_t(SIZE) /\ z.tail = j
           /\ Stored(z, i) = Stored(r, i)
<1> DEFINE z == [r EXCEPT !.tail = j]
<1>1. /\ z \in OSQueue_t(SIZE) /\ z.tail = j
      /\ z.list = r.list /\ z.head = r.head /\ z.size = r.size
  BY DEF OSQueue_t
<1> HIDE DEF z
<1>2. Stored(z, i) = Stored(r, i)
  BY <1>1 DEF Stored, CountFrom, SlotFrom
<1> QED
  BY <1>1, <1>2 DEF z

\* os_msg_post puts the message at the end, or nowhere.
LEMMA PostContents ==
    ASSUME TypeOK, NEW s \in Signal, NEW delay \in 0 .. DELAY_MAX,
           NEW period \in 0 .. DELAY_MAX, Post(s, delay, period)
    PROVE  /\ TypeOK' /\ at' = "IDLE"
           /\ Contents' = IF Full(q) THEN Contents
                          ELSE Append(Contents, [signal |-> s, delay |-> delay,
                                                 reload |-> period])
<1> DEFINE m == [signal |-> s, delay |-> delay, reload |-> period]
<1>1. /\ q \in OSQueue_t(SIZE) /\ q.tail \in 0 .. SIZE - 1
      /\ at = "IDLE" /\ at' = "IDLE" /\ tail' = tail /\ msg' = msg
      /\ q' = os_msg_post(q, s, delay, period)
  BY SizeOK, RingFacts DEF TypeOK, Post
<1>2. TypeOK'
  BY <1>1, SizeOK, PostType DEF TypeOK
<1>3. Contents = Stored(q, q.tail) /\ Contents' = Stored(q', q'.tail)
  BY <1>1 DEF Contents
<1>4. CASE Full(q)
  BY <1>1, <1>2, <1>3, <1>4 DEF os_msg_post
<1>5. CASE ~Full(q)
  <2>1. m \in Msg_t /\ q' = PutAtHead(q, m)
    BY <1>1, <1>5 DEF Msg_t, os_msg_post
  <2> HIDE DEF m
  <2>2. CountFrom(q, q.tail) < SIZE - 1
    BY <1>1, <1>5, SizeOK, FullFacts, ContentsType
  <2>3. q'.tail = q.tail
    BY <1>1, <2>1, SizeOK, PutAtHeadType
  <2>4. Contents' = Append(Contents, m)
    BY <1>1, <1>3, <2>1, <2>2, <2>3, SizeOK, StoredPut
  <2> QED
    BY <1>1, <1>2, <1>5, <2>4 DEF m
<1> QED
  BY <1>4, <1>5

\* Starting the loop moves no message.
LEMMA BeginContents ==
    ASSUME TypeOK, ReceiveBegin
    PROVE  /\ TypeOK' /\ at = "IDLE" /\ at' = "LOOP"
           /\ Contents' = Contents /\ SomeDue(Contents)
<1>1. q \in OSQueue_t(SIZE) /\ q.tail \in 0 .. SIZE - 1
  BY SizeOK, RingFacts DEF TypeOK
<1>2. TypeOK'
  BY <1>1 DEF TypeOK, ReceiveBegin
<1> QED
  BY <1>2, DueFacts DEF ReceiveBegin, Contents

\* Nor does copying one out: it is still the first.
LEMMA CopyContents ==
    ASSUME RingInv, CopyOut
    PROVE  /\ TypeOK' /\ at = "LOOP" /\ at' = "COPIED"
           /\ Contents' = Contents
           /\ CountFrom(q', tail') < SIZE - 1
<1>1. /\ q \in OSQueue_t(SIZE) /\ tail \in 0 .. SIZE - 1
      /\ q.list \in [0 .. SIZE - 1 -> Msg_t]
      /\ at = "LOOP" /\ at' = "COPIED" /\ q' = q
      /\ tail' = Behind(q, tail) /\ msg' = q.list[tail']
  BY SizeOK, RingFacts DEF RingInv, TypeOK, CopyOut
<1>2. CountFrom(q, tail) > 0 /\ CountFrom(q, tail) \in 0 .. SIZE - 1
  <2>1. DOMAIN Contents # {} /\ Contents \in Seq(Msg_t)
        /\ Len(Contents) = CountFrom(q, tail)
    BY <1>1, ContentsType DEF RingInv, SomeDue
  <2> QED
    BY <1>1, <2>1, SizeOK, SlotsApart
<1>3. /\ tail' \in 0 .. SIZE - 1
      /\ CountFrom(q, tail') = CountFrom(q, tail) - 1
      /\ Stored(q, tail) = <<q.list[tail']>> \o Stored(q, tail')
  BY <1>1, <1>2, SizeOK, StoredNext
<1>4. TypeOK'
  BY <1>1, <1>3 DEF TypeOK
<1>5. Contents' = Contents
  BY <1>1, <1>3 DEF Contents
<1>6. CountFrom(q', tail') < SIZE - 1
  BY <1>1, <1>2, <1>3, SizeOK
<1> QED
  BY <1>1, <1>4, <1>5, <1>6

\* A message that is not due goes from the front to the back.
LEMMA PutBackContents ==
    ASSUME RingInv, PutBack
    PROVE  /\ TypeOK' /\ at = "COPIED" /\ at' = "LOOP"
           /\ msg.delay > 0 /\ msg \in Msg_t
           /\ \E d \in Seq(Msg_t) : /\ Contents = <<msg>> \o d
                                    /\ Contents' = Append(d, msg)
<1>1. /\ q \in OSQueue_t(SIZE) /\ tail \in 0 .. SIZE - 1 /\ msg \in Msg_t
      /\ at = "COPIED" /\ at' = "LOOP" /\ tail' = tail /\ msg' = msg
      /\ msg.delay > 0 /\ CountFrom(q, tail) < SIZE - 1
  BY DEF RingInv, TypeOK, PutBack
<1>2. q' = PutAtHead(q, msg)
  BY <1>1 DEF PutBack, Inspected
<1>3. q' \in OSQueue_t(SIZE)
  BY <1>1, <1>2, SizeOK, PutAtHeadType
<1>4. TypeOK'
  BY <1>1, <1>3 DEF TypeOK
<1>5. Contents = <<msg>> \o Stored(q, tail) /\ Contents' = Stored(q', tail)
  BY <1>1 DEF Contents
<1>6. Stored(q', tail) = Append(Stored(q, tail), msg)
  BY <1>1, <1>2, SizeOK, StoredPut
<1>7. Stored(q, tail) \in Seq(Msg_t)
  BY <1>1, SizeOK, StoredSeq
<1> QED
  BY <1>1, <1>4, <1>5, <1>6, <1>7

\* The message that is received leaves the front; a periodic one is posted again.
LEMMA EndContents ==
    ASSUME RingInv, ReceiveEnd
    PROVE  /\ TypeOK' /\ at = "COPIED" /\ at' = "IDLE"
           /\ msg.delay = 0 /\ msg \in Msg_t
           /\ \E d \in Seq(Msg_t) :
                /\ Contents = <<msg>> \o d
                /\ Contents' = IF msg.reload > 0
                               THEN Append(d, [msg EXCEPT !.delay = msg.reload])
                               ELSE d
<1> DEFINE r == Inspected(q, msg)
           p == [msg EXCEPT !.delay = msg.reload]
           d == Stored(q, tail)
<1>1. /\ q \in OSQueue_t(SIZE) /\ tail \in 0 .. SIZE - 1 /\ msg \in Msg_t
      /\ at = "COPIED" /\ at' = "IDLE" /\ tail' = 0 /\ msg' = Idle
      /\ msg.delay = 0 /\ CountFrom(q, tail) < SIZE - 1
      /\ q' = [r EXCEPT !.tail = tail]
  BY DEF RingInv, TypeOK, ReceiveEnd
<1>2. r \in OSQueue_t(SIZE)
  BY <1>1, SizeOK, InspectedType
<1>3. p \in Msg_t /\ msg.reload \in Nat
  BY <1>1 DEF Msg_t
<1>4. r = IF msg.reload > 0 THEN PutAtHead(q, p) ELSE q
  BY <1>1 DEF Inspected
<1>5. Idle \in Msg_t
  BY <1>1 DEF Idle
<1>6. d \in Seq(Msg_t)
  BY <1>1, SizeOK, StoredSeq
<1>7. Contents = <<msg>> \o d /\ Contents' = Stored(q', q'.tail)
  BY <1>1 DEF Contents
<1> HIDE DEF r, p, d
<1>8. q' \in OSQueue_t(SIZE) /\ q'.tail = tail /\ Stored(q', tail) = Stored(r, tail)
  BY <1>1, <1>2, TailApart
<1>9. TypeOK'
  BY <1>1, <1>5, <1>8, SizeOK DEF TypeOK
<1>10. Stored(r, tail) = IF msg.reload > 0 THEN Append(d, p) ELSE d
  BY <1>1, <1>3, <1>4, SizeOK, StoredPut DEF d
<1> QED
  BY <1>1, <1>6, <1>7, <1>8, <1>9, <1>10 DEF p

\* A tick moves nothing.  It counts each message down once or not at all, and
\* every one that has a delay left unless it interrupts the reader.
LEMMA TickContents ==
    ASSUME RingInv, Tick
    PROVE  /\ TypeOK' /\ at' = at
           /\ Len(Contents') = Len(Contents)
           /\ CountFrom(q', tail') = CountFrom(q, tail)
           /\ \A k \in 1 .. Len(Contents) :
                \/ /\ Contents'[k] = Contents[k]
                   /\ at = "IDLE" => Contents[k].delay = 0
                \/ /\ Contents[k].delay > 0
                   /\ Contents'[k] = [Contents[k] EXCEPT !.delay = @ - 1]
<1>1. /\ q \in OSQueue_t(SIZE) /\ tail \in 0 .. SIZE - 1 /\ msg \in Msg_t
      /\ q.tail \in 0 .. SIZE - 1
      /\ q' = os_msgQ_tick(q) /\ at' = at /\ tail' = tail /\ msg' = msg
  BY SizeOK, RingFacts DEF RingInv, TypeOK, Tick
<1>2. q' \in OSQueue_t(SIZE) /\ q'.tail = q.tail
  BY <1>1, SizeOK, TickType
<1>3. TypeOK'
  BY <1>1, <1>2 DEF RingInv, TypeOK
<1>4. CountFrom(q', tail') = CountFrom(q, tail)
  BY <1>1, SizeOK, StoredTick
<1>5. CASE at = "IDLE"
  BY <1>1, <1>2, <1>3, <1>4, <1>5, SizeOK, StoredTick DEF Contents
<1>6. CASE at = "LOOP"
  BY <1>1, <1>2, <1>3, <1>4, <1>6, SizeOK, StoredTick DEF Contents
<1>7. CASE at = "COPIED"
  <2> DEFINE s == Stored(q, tail)
             t == Stored(q', tail)
  <2>1. s \in Seq(Msg_t) /\ t \in Seq(Msg_t)
    BY <1>1, <1>2, SizeOK, StoredSeq
  <2>2. /\ Len(t) = Len(s)
        /\ \A k \in 1 .. Len(s) :
             \/ t[k] = s[k]
             \/ s[k].delay > 0 /\ t[k] = [s[k] EXCEPT !.delay = @ - 1]
    BY <1>1, SizeOK, StoredTick
  <2>3. Contents = <<msg>> \o s /\ Contents' = <<msg>> \o t
    BY <1>1, <1>7 DEF Contents
  <2> HIDE DEF s, t
  <2>4. /\ Len(Contents) = Len(s) + 1 /\ Len(Contents') = Len(s) + 1
        /\ Contents[1] = msg /\ Contents'[1] = msg
        /\ \A k \in 1 .. Len(s) : Contents[k + 1] = s[k] /\ Contents'[k + 1] = t[k]
    BY <1>1, <2>1, <2>2, <2>3
  <2>5. ASSUME NEW k \in 1 .. Len(Contents)
        PROVE  \/ Contents'[k] = Contents[k]
               \/ /\ Contents[k].delay > 0
                  /\ Contents'[k] = [Contents[k] EXCEPT !.delay = @ - 1]
    <3>1. CASE k = 1
      BY <2>4, <3>1
    <3>2. CASE k # 1
      <4>1. PICK j \in 1 .. Len(s) : k = j + 1
        <5>1. Len(s) \in Nat
          BY <2>1
        <5>2. k - 1 \in 1 .. Len(s) /\ k = (k - 1) + 1
          BY <2>4, <3>2, <5>1
        <5> QED
          BY <5>2
      <4> QED
        BY <2>2, <2>4, <4>1
    <3> QED
      BY <3>1, <3>2
  <2> QED
    BY <1>1, <1>3, <1>4, <1>7, <2>4, <2>5
<1> QED
  BY <1>5, <1>6, <1>7 DEF RingInv, TypeOK

-----------------------------------------------------------------------------
(* The invariant. *)

\* What is in the queue is a sequence of messages behind a step too.
LEMMA ContentsPrimed ==
    ASSUME TypeOK'
    PROVE  /\ Contents' \in Seq(Msg_t)
           /\ DOMAIN Contents' = 1 .. Len(Contents')
<1>1. /\ q' \in OSQueue_t(SIZE) /\ tail' \in 0 .. SIZE - 1 /\ msg' \in Msg_t
      /\ at' \in {"IDLE", "LOOP", "COPIED"}
      /\ q'.tail \in 0 .. SIZE - 1
  BY SizeOK, RingFacts DEF TypeOK
<1>2. Stored(q', tail') \in Seq(Msg_t) /\ Stored(q', q'.tail) \in Seq(Msg_t)
  BY <1>1, SizeOK, StoredSeq
<1>3. <<msg'>> \o Stored(q', tail') \in Seq(Msg_t)
  BY <1>1, <1>2
<1>4. Contents' \in Seq(Msg_t)
  BY <1>1, <1>2, <1>3 DEF Contents
<1> QED
  BY <1>4

\* A message in front of a sequence.
LEMMA FrontFacts ==
    ASSUME NEW x \in Msg_t, NEW d \in Seq(Msg_t)
    PROVE  LET c == <<x>> \o d IN
           /\ c \in Seq(Msg_t) /\ Len(c) = Len(d) + 1
           /\ DOMAIN c = 1 .. Len(d) + 1 /\ DOMAIN d = 1 .. Len(d)
           /\ Len(d) \in Nat
           /\ c[1] = x
           /\ \A k \in 1 .. Len(d) : c[k + 1] = d[k]
           /\ \A k \in DOMAIN c : k = 1 \/ k - 1 \in 1 .. Len(d)
OBVIOUS

\* A message behind a sequence.
LEMMA BackFacts ==
    ASSUME NEW x \in Msg_t, NEW d \in Seq(Msg_t)
    PROVE  LET c == Append(d, x) IN
           /\ c \in Seq(Msg_t) /\ Len(c) = Len(d) + 1
           /\ DOMAIN c = 1 .. Len(d) + 1 /\ DOMAIN d = 1 .. Len(d)
           /\ Len(d) \in Nat
           /\ c[Len(d) + 1] = x
           /\ \A k \in 1 .. Len(d) : c[k] = d[k]
           /\ \A k \in DOMAIN c : k = Len(d) + 1 \/ k \in 1 .. Len(d)
OBVIOUS

\* Posting a message with a signal that is not in the queue keeps them apart.
LEMMA DistinctBack ==
    ASSUME NEW x \in Msg_t, NEW d \in Seq(Msg_t), Distinct(d),
           \A k \in DOMAIN d : d[k].signal # x.signal
    PROVE  Distinct(Append(d, x))
<1> DEFINE c == Append(d, x)
<1>1. /\ Len(d) \in Nat /\ DOMAIN d = 1 .. Len(d)
      /\ c[Len(d) + 1] = x
      /\ \A k \in 1 .. Len(d) : c[k] = d[k]
      /\ \A k \in DOMAIN c : k = Len(d) + 1 \/ k \in 1 .. Len(d)
  BY BackFacts
<1> HIDE DEF c
<1>2. Distinct(c)
  BY <1>1 DEF Distinct
<1> QED
  BY <1>2 DEF c

\* The message in front has a signal of its own, and so have those behind it.
LEMMA DistinctRest ==
    ASSUME NEW x \in Msg_t, NEW d \in Seq(Msg_t), Distinct(<<x>> \o d)
    PROVE  /\ Distinct(d)
           /\ \A k \in DOMAIN d : d[k].signal # x.signal
<1> DEFINE c == <<x>> \o d
<1>1. /\ Len(d) \in Nat /\ DOMAIN c = 1 .. Len(d) + 1
      /\ DOMAIN d = 1 .. Len(d)
      /\ c[1] = x
      /\ \A k \in 1 .. Len(d) : c[k + 1] = d[k]
  BY FrontFacts
<1>2. Distinct(c)
  OBVIOUS
<1> HIDE DEF c
<1>3. ASSUME NEW j \in DOMAIN d, NEW k \in DOMAIN d, d[j].signal = d[k].signal
      PROVE  j = k
  <2>1. j + 1 \in DOMAIN c /\ k + 1 \in DOMAIN c
    BY <1>1
  <2>2. c[j + 1].signal = c[k + 1].signal
    BY <1>1, <1>3
  <2>3. j + 1 = k + 1
    BY <1>2, <2>1, <2>2 DEF Distinct
  <2> QED
    BY <1>1, <2>3
<1>4. ASSUME NEW k \in DOMAIN d, d[k].signal = x.signal PROVE FALSE
  <2>1. k + 1 \in DOMAIN c /\ 1 \in DOMAIN c /\ k + 1 # 1
    BY <1>1
  <2>2. c[k + 1].signal = c[1].signal
    BY <1>1, <1>4
  <2> QED
    BY <1>2, <2>1, <2>2 DEF Distinct
<1> QED
  BY <1>3, <1>4 DEF Distinct

\* A new queue is empty.
LEMMA RingInitInv == Init => RingInv /\ Contents = << >>
<1> SUFFICES ASSUME Init PROVE RingInv /\ Contents = << >>
  OBVIOUS
<1>1. PICK m \in Msg_t : q = CreatedQueue(SIZE, m)
  BY DEF Init
<1>2. /\ q \in OSQueue_t(SIZE) /\ q.size = SIZE /\ q.head = 1 /\ q.tail = 0
      /\ at = "IDLE" /\ tail = 0 /\ msg = Idle /\ Idle \in Msg_t
  <2>1. CreatedQueue(SIZE, m) \in OSQueue_t(SIZE)
    BY SizeOK, CreatedType
  <2>2. Idle \in Msg_t
    BY <1>1 DEF Idle
  <2> QED
    BY <1>1, <2>1, <2>2 DEF Init, CreatedQueue
<1>3. TypeOK
  BY <1>2, SizeOK DEF TypeOK
<1>4. CountFrom(q, q.tail) = 0
  BY <1>2, SizeOK, Wrap
<1>5. Contents \in Seq(Msg_t) /\ Len(Contents) = 0
  BY <1>2, <1>3, <1>4, ContentsType
<1>6. Contents = << >> /\ DOMAIN Contents = {}
  BY <1>5
<1> QED
  BY <1>2, <1>3, <1>6 DEF RingInv, Distinct

\* What a message that is due is worth to the reader: whatever rotates or ticks,
\* it is still there.
LEMMA RingStepInv == RingInv /\ [Next]_vars => RingInv'
<1> SUFFICES ASSUME RingInv, [Next]_vars PROVE RingInv'
  OBVIOUS
<1>1. /\ TypeOK /\ Distinct(Contents) /\ Contents \in Seq(Msg_t)
      /\ DOMAIN Contents = 1 .. Len(Contents)
  BY ContentsType DEF RingInv
<1>2. ASSUME TypeOK', Contents' = Contents, at' = at,
             CountFrom(q', tail') = CountFrom(q, tail)
      PROVE  RingInv'
  BY <1>2 DEF RingInv
<1>3. ASSUME NEW s \in Signal, NEW delay \in 0 .. DELAY_MAX,
             NEW period \in 0 .. DELAY_MAX, Post(s, delay, period)
      PROVE  RingInv'
  <2> DEFINE m == [signal |-> s, delay |-> delay, reload |-> period]
  <2>1. /\ TypeOK' /\ at' = "IDLE"
        /\ Contents' = IF Full(q) THEN Contents ELSE Append(Contents, m)
    BY <1>1, <1>3, PostContents
  <2>2. m \in Msg_t /\ m.signal = s
    BY DEF Msg_t
  <2> HIDE DEF m
  <2>3. \A k \in DOMAIN Contents : Contents[k].signal # m.signal
    BY <1>3, <2>2 DEF Post, InQueue
  <2>4. Distinct(Append(Contents, m))
    BY <1>1, <2>2, <2>3, DistinctBack
  <2>5. Distinct(Contents')
    BY <1>1, <2>1, <2>4
  <2> QED
    BY <2>1, <2>5 DEF RingInv, Distinct
<1>4. CASE ReceiveEmpty
  BY <1>1, <1>2, <1>4 DEF ReceiveEmpty, TypeOK, Contents
<1>5. CASE ReceiveBegin
  BY <1>1, <1>5, BeginContents DEF RingInv
<1>6. CASE CopyOut
  BY <1>6, CopyContents DEF RingInv
<1>7. CASE PutBack
  <2>1. /\ TypeOK' /\ at = "COPIED" /\ at' = "LOOP"
        /\ msg.delay > 0 /\ msg \in Msg_t
    BY <1>7, PutBackContents
  <2>2. PICK d \in Seq(Msg_t) : /\ Contents = <<msg>> \o d
                                /\ Contents' = Append(d, msg)
    BY <1>7, PutBackContents
  <2>3. Distinct(Append(d, msg))
    BY <1>1, <2>1, <2>2, DistinctBack, DistinctRest
  <2>4. SomeDue(Append(d, msg))
    <3>1. SomeDue(Contents)
      BY <2>1 DEF RingInv
    <3>2. /\ Contents[1] = msg
          /\ \A k \in 1 .. Len(d) : Contents[k + 1] = d[k]
          /\ \A k \in DOMAIN Contents : k = 1 \/ k - 1 \in 1 .. Len(d)
          /\ Len(d) \in Nat /\ DOMAIN Contents = 1 .. Len(d) + 1
      BY <2>1, <2>2, FrontFacts
    <3>3. PICK k \in DOMAIN Contents : IsDue(Contents[k])
      BY <3>1 DEF SomeDue
    <3>4. k # 1
      <4>1. msg.delay \in Nat
        BY <2>1 DEF Msg_t
      <4> QED
        BY <2>1, <3>2, <3>3, <4>1 DEF IsDue
    <3>5. PICK j \in 1 .. Len(d) : IsDue(d[j])
      <4>1. k - 1 \in 1 .. Len(d) /\ k = (k - 1) + 1
        BY <3>2, <3>4
      <4> QED
        BY <3>2, <3>3, <4>1
    <3> QED
      BY <2>1, <3>5, BackFacts DEF SomeDue
  <2>5. Distinct(Contents') /\ SomeDue(Contents')
    BY <2>2, <2>3, <2>4
  <2> QED
    BY <2>1, <2>5 DEF RingInv, Distinct, SomeDue
<1>8. CASE ReceiveEnd
  <2> DEFINE p == [msg EXCEPT !.delay = msg.reload]
  <2>1. /\ TypeOK' /\ at = "COPIED" /\ at' = "IDLE" /\ msg \in Msg_t
    BY <1>8, EndContents
  <2>2. PICK d \in Seq(Msg_t) :
          /\ Contents = <<msg>> \o d
          /\ Contents' = IF msg.reload > 0 THEN Append(d, p) ELSE d
    BY <1>8, EndContents
  <2>3. p \in Msg_t /\ p.signal = msg.signal
    BY <2>1 DEF Msg_t
  <2> HIDE DEF p
  <2>4. /\ Distinct(d)
        /\ \A k \in DOMAIN d : d[k].signal # p.signal
    BY <1>1, <2>1, <2>2, <2>3, DistinctRest
  <2>5. Distinct(Append(d, p))
    BY <2>3, <2>4, DistinctBack
  <2>6. Distinct(Contents')
    BY <2>2, <2>4, <2>5
  <2> QED
    BY <2>1, <2>6 DEF RingInv, Distinct
<1>9. CASE Tick
  <2>1. /\ TypeOK' /\ at' = at
        /\ Len(Contents') = Len(Contents)
        /\ CountFrom(q', tail') = CountFrom(q, tail)
        /\ \A k \in 1 .. Len(Contents) :
             \/ Contents'[k] = Contents[k]
             \/ /\ Contents[k].delay > 0
                /\ Contents'[k] = [Contents[k] EXCEPT !.delay = @ - 1]
    BY <1>9, TickContents
  <2>2. DOMAIN Contents' = DOMAIN Contents
    <3>1. Contents' \in Seq(Msg_t)
      BY <2>1, ContentsPrimed
    <3> QED
      BY <1>1, <2>1, <3>1
  <2>3. \A k \in DOMAIN Contents :
          /\ Contents'[k].signal = Contents[k].signal
          /\ IsDue(Contents[k]) => IsDue(Contents'[k])
    <3> TAKE k \in DOMAIN Contents
    <3>1. Contents[k] \in Msg_t
      BY <1>1
    <3>2. CASE Contents'[k] = Contents[k]
      BY <3>2
    <3>3. CASE /\ Contents[k].delay > 0
               /\ Contents'[k] = [Contents[k] EXCEPT !.delay = @ - 1]
      BY <3>1, <3>3 DEF Msg_t, IsDue
    <3> QED
      BY <1>1, <2>1, <3>2, <3>3
  <2>4. Distinct(Contents')
    BY <1>1, <2>2, <2>3 DEF Distinct
  <2>5. SomeDue(Contents) => SomeDue(Contents')
    BY <2>2, <2>3 DEF SomeDue
  <2> QED
    BY <2>1, <2>4, <2>5 DEF RingInv, Distinct, SomeDue
<1>10. CASE UNCHANGED vars
  BY <1>1, <1>2, <1>10 DEF vars, TypeOK, Contents
<1>11. \A delay \in Delays : delay \in 0 .. DELAY_MAX /\ 0 \in 0 .. DELAY_MAX
  BY RingAssumption
<1>12. \A period \in Periods : period \in 0 .. DELAY_MAX
  BY RingAssumption
<1> QED
  BY <1>3, <1>4, <1>5, <1>6, <1>7, <1>8, <1>9, <1>10, <1>11, <1>12 DEF Next

\* The invariant of every behaviour, for every pool size.
THEOREM RingInvariant == Spec => []RingInv
<1>1. Init => RingInv
  BY RingInitInv
<1> QED
  BY <1>1, RingStepInv, PTL DEF Spec

\* No index of os_msgqueue.c leaves the pool, and what is read is a message.
THEOREM RingType == Spec => []TypeOK
<1>1. RingInv => TypeOK
  BY DEF RingInv
<1> QED
  BY <1>1, RingInvariant, PTL

-----------------------------------------------------------------------------
(* The rotation of os_msg_receive starves nobody. *)

\* Wherever the message goes that has been looked at, the due ones behind it
\* move up.
LEMMA DueMovesUp ==
    ASSUME NEW x \in Msg_t, NEW d \in Seq(Msg_t), Distinct(<<x>> \o d),
           NEW k \in DOMAIN (<<x>> \o d), NEW j \in DOMAIN d,
           d[j] = (<<x>> \o d)[k]
    PROVE  j <= k
<1> DEFINE c == <<x>> \o d
<1>1. /\ Len(d) \in Nat /\ DOMAIN c = 1 .. Len(d) + 1
      /\ DOMAIN d = 1 .. Len(d)
      /\ \A i \in 1 .. Len(d) : c[i + 1] = d[i]
  BY FrontFacts
<1>2. Distinct(c) /\ d[j] = c[k] /\ k \in DOMAIN c
  OBVIOUS
<1> HIDE DEF c
<1>3. c[j + 1] = c[k] /\ j + 1 \in DOMAIN c
  BY <1>1, <1>2
<1>4. j + 1 = k
  BY <1>2, <1>3 DEF Distinct
<1> QED
  BY <1>1, <1>4

\* A message that is due and stays in the queue never goes back in it.
THEOREM RotationFair == Spec => DueNeverGoesBack
<1>1. ASSUME RingInv, [Next]_vars,
             NEW k \in DOMAIN Contents, NEW j \in DOMAIN Contents',
             IsDue(Contents[k]), Contents'[j] = Contents[k]
      PROVE  j <= k
  <2>1. /\ TypeOK /\ Distinct(Contents) /\ Contents \in Seq(Msg_t)
        /\ DOMAIN Contents = 1 .. Len(Contents) /\ Len(Contents) \in Nat
    BY <1>1, ContentsType DEF RingInv
  <2>2. k \in Nat /\ Contents[k] \in Msg_t
    BY <2>1
  <2>3. ASSUME Contents' = Contents PROVE j <= k
    <3>1. j \in DOMAIN Contents /\ Contents[j] = Contents[k]
      BY <1>1, <2>3
    <3>2. j = k
      BY <2>1, <3>1 DEF Distinct
    <3> QED
      BY <2>2, <3>2
  <2>4. ASSUME NEW s \in Signal, NEW delay \in 0 .. DELAY_MAX,
               NEW period \in 0 .. DELAY_MAX, Post(s, delay, period)
        PROVE  j <= k
    <3> DEFINE m == [signal |-> s, delay |-> delay, reload |-> period]
    <3>1. Contents' = IF Full(q) THEN Contents ELSE Append(Contents, m)
      BY <2>1, <2>4, PostContents
    <3>2. m \in Msg_t /\ m.signal = s
      BY DEF Msg_t
    <3> HIDE DEF m
    <3>3. CASE Full(q)
      BY <2>3, <3>1, <3>3
    <3>4. CASE ~Full(q)
      <4>1. Contents' = Append(Contents, m)
        BY <3>1, <3>4
      <4>2. CASE j = Len(Contents) + 1
        <5>1. Contents'[j] = m
          BY <2>1, <3>2, <4>1, <4>2, BackFacts
        <5>2. Contents[k].signal = s
          BY <1>1, <3>2, <5>1
        <5> QED
          BY <2>4, <5>2 DEF Post, InQueue
      <4>3. CASE j # Len(Contents) + 1
        <5>1. j \in DOMAIN Contents /\ Contents'[j] = Contents[j]
          BY <1>1, <2>1, <3>2, <4>1, <4>3, BackFacts
        <5>2. j = k
          BY <1>1, <2>1, <5>1 DEF Distinct
        <5> QED
          BY <2>2, <5>2
      <4> QED
        BY <4>2, <4>3
    <3> QED
      BY <3>3, <3>4
  <2>5. CASE ReceiveEmpty
    BY <2>3, <2>5 DEF ReceiveEmpty, Contents
  <2>6. CASE ReceiveBegin
    BY <2>1, <2>3, <2>6, BeginContents
  <2>7. CASE CopyOut
    BY <1>1, <2>3, <2>7, CopyContents
  <2>8. ASSUME NEW x \in Msg_t, NEW d \in Seq(Msg_t), NEW y \in Msg_t,
               Contents = <<x>> \o d, Contents' = d \/ Contents' = Append(d, y),
               y.delay > 0
        PROVE  j <= k
    <3>1. j \in DOMAIN d => d[j] = Contents'[j]
      <4>1. CASE Contents' = d
        BY <4>1
      <4>2. CASE Contents' = Append(d, y)
        <5>1. j \in DOMAIN d => Append(d, y)[j] = d[j]
          BY BackFacts
        <5> QED
          BY <4>2, <5>1
      <4> QED
        BY <2>8, <4>1, <4>2
    <3>2. j \in DOMAIN d
      <4>1. CASE Contents' = d
        BY <1>1, <4>1
      <4>2. CASE Contents' = Append(d, y)
        <5>1. j # Len(d) + 1
          <6>1. Contents[k].delay = 0
            BY <1>1 DEF IsDue
          <6>2. y.delay \in Nat
            BY DEF Msg_t
          <6>3. Contents[k] # y
            BY <2>8, <6>1, <6>2
          <6> QED
            BY <1>1, <4>2, <6>3, BackFacts
        <5> QED
          BY <1>1, <4>2, <5>1, BackFacts
      <4> QED
        BY <2>8, <4>1, <4>2
    <3> QED
      BY <1>1, <2>1, <2>8, <3>1, <3>2, DueMovesUp
  <2>9. CASE PutBack
    <3>1. msg.delay > 0 /\ msg \in Msg_t
      BY <1>1, <2>9, PutBackContents
    <3>2. PICK d \in Seq(Msg_t) : /\ Contents = <<msg>> \o d
                                  /\ Contents' = Append(d, msg)
      BY <1>1, <2>9, PutBackContents
    <3> QED
      BY <2>8, <3>1, <3>2
  <2>10. CASE ReceiveEnd
    <3> DEFINE p == [msg EXCEPT !.delay = msg.reload]
    <3>1. msg \in Msg_t
      BY <1>1, <2>10, EndContents
    <3>2. PICK d \in Seq(Msg_t) :
            /\ Contents = <<msg>> \o d
            /\ Contents' = IF msg.reload > 0 THEN Append(d, p) ELSE d
      BY <1>1, <2>10, EndContents
    <3>3. p \in Msg_t /\ p.delay = msg.reload
      BY <3>1 DEF Msg_t
    <3> HIDE DEF p
    <3>4. CASE msg.reload > 0
      BY <2>8, <3>1, <3>2, <3>3, <3>4
    <3>5. CASE ~(msg.reload > 0)
      <4>1. Contents' = d
        BY <3>2, <3>5
      <4>2. j \in DOMAIN d /\ d[j] = Contents[k]
        BY <1>1, <4>1
      <4> QED
        BY <2>1, <3>1, <3>2, <4>2, DueMovesUp
    <3> QED
      BY <3>4, <3>5
  <2>11. CASE Tick
    <3>1. /\ TypeOK' /\ Len(Contents') = Len(Contents)
          /\ \A i \in 1 .. Len(Contents) :
               \/ Contents'[i] = Contents[i]
               \/ /\ Contents[i].delay > 0
                  /\ Contents'[i] = [Contents[i] EXCEPT !.delay = @ - 1]
      BY <1>1, <2>11, TickContents
    <3>2. j \in 1 .. Len(Contents)
      BY <1>1, <3>1, ContentsPrimed
    <3>3. Contents'[j].signal = Contents[j].signal
      <4>1. Contents[j] \in Msg_t
        BY <2>1, <3>2
      <4> QED
        BY <3>1, <3>2, <4>1 DEF Msg_t
    <3>4. j = k
      BY <1>1, <2>1, <3>2, <3>3 DEF Distinct
    <3> QED
      BY <2>2, <3>4
  <2>12. CASE UNCHANGED vars
    BY <2>3, <2>12 DEF vars, Contents
  <2>13. \A delay \in Delays : delay \in 0 .. DELAY_MAX /\ 0 \in 0 .. DELAY_MAX
    BY RingAssumption
  <2>14. \A period \in Periods : period \in 0 .. DELAY_MAX
    BY RingAssumption
  <2> QED
    BY <1>1, <2>4, <2>5, <2>6, <2>7, <2>9, <2>10, <2>11, <2>12, <2>13, <2>14
    DEF Next
<1>2. RingInv /\ [Next]_vars =>
        [\A k \in DOMAIN Contents, j \in DOMAIN Contents' :
            IsDue(Contents[k]) /\ Contents'[j] = Contents[k] => j <= k]_vars
  BY <1>1
<1> QED
  BY <1>2, RingInvariant, PTL DEF Spec, DueNeverGoesBack

-----------------------------------------------------------------------------
(* Delays and the master clock. *)

Clocks == [Signal -> Int]

\* The messages of c that are not periodic are on time.
Timely(c, clock) ==
    \A k \in DOMAIN c : c[k].reload = 0 => OnTime(c[k], clock)

\* A new message behind them starts a clock of its own.
LEMMA TimelyPost ==
    ASSUME NEW c \in Seq(Msg_t), NEW clock \in Clocks, Timely(c, clock),
           NEW m \in Msg_t, \A k \in DOMAIN c : c[k].signal # m.signal
    PROVE  LET set == [clock EXCEPT ![m.signal] = m.delay]
           IN  set \in Clocks /\ Timely(c, set) /\ Timely(Append(c, m), set)
<1> DEFINE set == [clock EXCEPT ![m.signal] = m.delay]
<1>1. /\ set \in Clocks /\ set[m.signal] = m.delay /\ OnTime(m, set)
      /\ \A s \in Signal : s # m.signal => set[s] = clock[s]
  BY SizeOK DEF Clocks, Msg_t, OnTime
<1> HIDE DEF set
<1>2. Timely(c, set)
  <2> SUFFICES ASSUME NEW k \in DOMAIN c, c[k].reload = 0 PROVE OnTime(c[k], set)
    BY DEF Timely
  <2>1. c[k] \in Msg_t /\ c[k].signal # m.signal
    OBVIOUS
  <2>2. c[k].signal \in Signal
    BY <2>1 DEF Msg_t
  <2>3. OnTime(c[k], clock)
    BY DEF Timely
  <2> QED
    BY <1>1, <2>1, <2>2, <2>3 DEF OnTime
<1>3. Timely(Append(c, m), set)
  <2> DEFINE a == Append(c, m)
  <2>1. /\ a[Len(c) + 1] = m /\ \A k \in 1 .. Len(c) : a[k] = c[k]
        /\ DOMAIN c = 1 .. Len(c)
        /\ \A k \in DOMAIN a : k = Len(c) + 1 \/ k \in 1 .. Len(c)
    BY BackFacts
  <2> HIDE DEF a
  <2>2. Timely(a, set)
    BY <1>1, <1>2, <2>1 DEF Timely
  <2> QED
    BY <2>2 DEF a
<1> QED
  BY <1>1, <1>2, <1>3 DEF set

\* A message in front that is put back behind the others keeps its time.
LEMMA TimelyBack ==
    ASSUME NEW d \in Seq(Msg_t), NEW clock, NEW m \in Msg_t, Timely(<<m>> \o d, clock)
    PROVE  Timely(d, clock) /\ Timely(Append(d, m), clock)
<1> DEFINE c == <<m>> \o d
           a == Append(d, m)
<1>1. /\ c[1] = m /\ \A k \in 1 .. Len(d) : c[k + 1] = d[k]
      /\ DOMAIN c = 1 .. Len(d) + 1 /\ DOMAIN d = 1 .. Len(d) /\ Len(d) \in Nat
  BY FrontFacts
<1>2. /\ a[Len(d) + 1] = m /\ \A k \in 1 .. Len(d) : a[k] = d[k]
      /\ \A k \in DOMAIN a : k = Len(d) + 1 \/ k \in 1 .. Len(d)
  BY BackFacts
<1>3. Timely(c, clock)
  OBVIOUS
<1> HIDE DEF c, a
<1>4. m.reload = 0 => OnTime(m, clock)
  <2>1. 1 \in DOMAIN c
    BY <1>1
  <2> QED
    BY <1>1, <1>3, <2>1 DEF Timely
<1>5. Timely(d, clock)
  <2> SUFFICES ASSUME NEW k \in 1 .. Len(d), d[k].reload = 0 PROVE OnTime(d[k], clock)
    BY <1>1 DEF Timely
  <2>1. k + 1 \in DOMAIN c /\ c[k + 1] = d[k]
    BY <1>1
  <2> QED
    BY <1>3, <2>1 DEF Timely
<1>6. Timely(a, clock)
  BY <1>1, <1>2, <1>4, <1>5 DEF Timely
<1> QED
  BY <1>5, <1>6 DEF a

AllCounted(c, e) ==
    /\ DOMAIN e = DOMAIN c
    /\ \A k \in DOMAIN c :
         \/ e[k] = c[k] /\ c[k].delay = 0
         \/ c[k].delay > 0 /\ e[k] = [c[k] EXCEPT !.delay = @ - 1]

Ticked(clock) == [s \in Signal |-> OneLess(clock[s])]

\* Every message that has time left counts the tick that the clock counts.
LEMMA TimelyTick ==
    ASSUME NEW c \in Seq(Msg_t), NEW e, NEW clock \in Clocks, Timely(c, clock),
           AllCounted(c, e)
    PROVE  Ticked(clock) \in Clocks /\ Timely(e, Ticked(clock))
<1> DEFINE ticked == Ticked(clock)
<1>1. /\ ticked \in Clocks
      /\ \A s \in Signal : clock[s] \in Int /\ ticked[s] = OneLess(clock[s])
  BY SizeOK DEF Clocks, OneLess, Ticked
<1> HIDE DEF ticked
<1>2. ASSUME NEW k \in DOMAIN c, e[k].reload = 0
      PROVE  OnTime(e[k], ticked)
  <2> DEFINE m == c[k]
             s == m.signal
  <2>1. m \in Msg_t
    OBVIOUS
  <2> HIDE DEF m
  <2>2. /\ e[k].signal = s /\ s \in Signal /\ m.delay \in Nat
        /\ e[k].reload = m.reload
        /\ e[k].delay = IF m.delay > 0 THEN m.delay - 1 ELSE 0
    <3>1. \/ e[k] = m /\ m.delay = 0
          \/ m.delay > 0 /\ e[k] = [m EXCEPT !.delay = @ - 1]
      BY DEF AllCounted, m
    <3> QED
      BY <2>1, <3>1 DEF Msg_t
  <2>3. OnTime(m, clock)
    BY <1>2, <2>2 DEF Timely, m
  <2> HIDE DEF s
  <2>4. m.delay = IF clock[s] > 0 THEN clock[s] ELSE 0
    BY <2>3 DEF OnTime, s
  <2>5. e[k].delay = IF ticked[s] > 0 THEN ticked[s] ELSE 0
    BY <1>1, <2>2, <2>4, SizeOK DEF OneLess
  <2> QED
    BY <2>2, <2>5 DEF OnTime
<1>3. Timely(e, ticked)
  BY <1>2 DEF Timely, AllCounted
<1> QED
  BY <1>1, <1>3 DEF ticked

\* A step of the observed queue is one of the queue.
LEMMA ClockIsStep == [ClockNext]_clockVars => [Next]_vars
BY DEF ClockNext, clockVars, Next

\* Where no tick comes inside os_msg_receive, every step keeps the messages that
\* are not periodic on time.
LEMMA TimelyStep ==
    ASSUME ~INTERRUPTS, RingInv, left \in Clocks, DelaysOnTime, [ClockNext]_clockVars
    PROVE  left' \in Clocks /\ DelaysOnTime'
<1>1. /\ Contents \in Seq(Msg_t) /\ DOMAIN Contents = 1 .. Len(Contents)
      /\ TypeOK /\ Distinct(Contents)
  BY ContentsType DEF RingInv
<1>2. Timely(Contents, left)
  BY DEF DelaysOnTime, Timely
<1>3. SUFFICES left' \in Clocks /\ Timely(Contents', left')
  BY DEF DelaysOnTime, Timely
<1>4. ASSUME Contents' = Contents, left' = left
      PROVE  left' \in Clocks /\ Timely(Contents', left')
  BY <1>2, <1>4
<1>5. ASSUME NEW s \in Signal, NEW delay \in 0 .. DELAY_MAX,
             NEW period \in 0 .. DELAY_MAX, Post(s, delay, period),
             left' = [left EXCEPT ![s] = delay]
      PROVE  left' \in Clocks /\ Timely(Contents', left')
  <2> DEFINE m == [signal |-> s, delay |-> delay, reload |-> period]
  <2>1. Contents' = IF Full(q) THEN Contents ELSE Append(Contents, m)
    BY <1>1, <1>5, PostContents
  <2>2. m \in Msg_t /\ m.signal = s /\ m.delay = delay
    BY DEF Msg_t
  <2>3. \A k \in DOMAIN Contents : Contents[k].signal # s
    BY <1>5 DEF Post, InQueue
  <2> HIDE DEF m
  <2>4. left' = [left EXCEPT ![m.signal] = m.delay]
    BY <1>5, <2>2
  <2> QED
    BY <1>1, <1>2, <2>1, <2>2, <2>3, <2>4, TimelyPost
<1>6. ASSUME ReceiveEmpty \/ ReceiveBegin \/ CopyOut, left' = left
      PROVE  left' \in Clocks /\ Timely(Contents', left')
  <2>1. ReceiveEmpty => Contents' = Contents
    BY DEF ReceiveEmpty, Contents
  <2> QED
    BY <1>1, <1>4, <1>6, <2>1, BeginContents, CopyContents
<1>7. ASSUME PutBack, left' = left
      PROVE  left' \in Clocks /\ Timely(Contents', left')
  <2>1. PICK d \in Seq(Msg_t) : /\ Contents = <<msg>> \o d
                                /\ Contents' = Append(d, msg)
    BY <1>7, PutBackContents
  <2>2. msg \in Msg_t
    BY <1>1 DEF TypeOK
  <2>3. Timely(<<msg>> \o d, left)
    BY <1>2, <2>1
  <2>4. Timely(Append(d, msg), left)
    BY <2>2, <2>3, TimelyBack
  <2> QED
    BY <1>7, <2>1, <2>4
<1>8. ASSUME ReceiveEnd, left' = [left EXCEPT ![msg.signal] = @ + msg.reload]
      PROVE  left' \in Clocks /\ Timely(Contents', left')
  <2>1. msg \in Msg_t /\ msg.signal \in Signal /\ msg.reload \in Nat
    BY <1>1, SizeOK DEF TypeOK, Msg_t
  <2>2. /\ left' \in Clocks
        /\ \A s \in Signal : s # msg.signal => left'[s] = left[s]
    BY <1>8, <2>1 DEF Clocks
  <2>3. PICK d \in Seq(Msg_t) :
          /\ Contents = <<msg>> \o d
          /\ Contents' = IF msg.reload > 0
                         THEN Append(d, [msg EXCEPT !.delay = msg.reload])
                         ELSE d
    BY <1>8, EndContents
  <2>4. Distinct(<<msg>> \o d) /\ Timely(<<msg>> \o d, left)
    BY <1>1, <1>2, <2>3
  <2>5. Timely(d, left)
    BY <2>1, <2>4, TimelyBack
  <2>6. \A k \in DOMAIN d : d[k].signal # msg.signal /\ d[k].signal \in Signal
    <3>1. \A k \in DOMAIN d : d[k].signal # msg.signal
      BY <2>1, <2>4, DistinctRest
    <3>2. ASSUME NEW k \in DOMAIN d PROVE d[k].signal \in Signal
      <4>1. d[k] \in Msg_t
        OBVIOUS
      <4> QED
        BY <4>1 DEF Msg_t
    <3> QED
      BY <3>1, <3>2
  <2>7. Timely(d, left')
    BY <2>2, <2>5, <2>6 DEF Timely, OnTime
  <2>8. CASE msg.reload > 0
    <3> DEFINE p == [msg EXCEPT !.delay = msg.reload]
               a == Append(d, p)
    <3>1. p \in Msg_t /\ p.reload # 0
      BY <2>1, <2>8 DEF Msg_t
    <3> HIDE DEF p
    <3>2. /\ a[Len(d) + 1] = p /\ \A k \in 1 .. Len(d) : a[k] = d[k]
          /\ DOMAIN d = 1 .. Len(d)
          /\ \A k \in DOMAIN a : k = Len(d) + 1 \/ k \in 1 .. Len(d)
      BY <3>1, BackFacts
    <3>3. Contents' = a
      BY <2>3, <2>8 DEF p
    <3> HIDE DEF a
    <3>4. Timely(a, left')
      BY <2>7, <3>1, <3>2 DEF Timely
    <3> QED
      BY <2>2, <3>3, <3>4
  <2>9. CASE ~(msg.reload > 0)
    BY <2>2, <2>3, <2>7, <2>9
  <2> QED
    BY <2>8, <2>9
<1>9. ASSUME Tick, left' = [s \in Signal |-> OneLess(left[s])]
      PROVE  left' \in Clocks /\ Timely(Contents', left')
  <2>1. at = "IDLE"
    BY <1>9 DEF Tick
  <2>2. /\ TypeOK' /\ Len(Contents') = Len(Contents)
        /\ \A k \in 1 .. Len(Contents) :
             \/ Contents'[k] = Contents[k] /\ Contents[k].delay = 0
             \/ /\ Contents[k].delay > 0
                /\ Contents'[k] = [Contents[k] EXCEPT !.delay = @ - 1]
    BY <1>9, <2>1, TickContents
  <2>3. PICK e : e = Contents'
    OBVIOUS
  <2>4. DOMAIN e = DOMAIN Contents
    BY <1>1, <2>2, <2>3, ContentsPrimed
  <2>5. AllCounted(Contents, e)
    BY <1>1, <2>2, <2>3, <2>4 DEF AllCounted
  <2>6. left' = Ticked(left)
    BY <1>9 DEF Ticked
  <2>7. Ticked(left) \in Clocks /\ Timely(e, Ticked(left))
    BY <1>1, <1>2, <2>5, TimelyTick
  <2> QED
    BY <2>3, <2>6, <2>7
<1>10. CASE UNCHANGED clockVars
  BY <1>4, <1>10 DEF clockVars, vars, Contents
<1>11. \A x \in Delays \cup Periods : x \in 0 .. DELAY_MAX
  BY RingAssumption
<1>12. 0 \in 0 .. DELAY_MAX
  BY SizeOK
<1> QED
  BY <1>5, <1>6, <1>7, <1>8, <1>9, <1>10, <1>11, <1>12 DEF ClockNext

\* With os_start_locking a message of msg_post_in is due when the clock says so, not
\* a tick early and none late, wherever the rotation has put it and however often:
\* every tick counts every message exactly once.
THEOREM DelaysKept == ASSUME ~INTERRUPTS PROVE ClockSpec => []DelaysOnTime
<1> DEFINE CInv == RingInv /\ left \in Clocks /\ DelaysOnTime
<1>1. ClockInit => CInv
  <2> SUFFICES ASSUME ClockInit PROVE CInv
    OBVIOUS
  <2>1. RingInv /\ Contents = << >>
    BY RingInitInv DEF ClockInit
  <2> QED
    BY <2>1 DEF ClockInit, Clocks, DelaysOnTime
<1>2. CInv /\ [ClockNext]_clockVars => CInv'
  BY TimelyStep, ClockIsStep, RingStepInv
<1>3. CInv => DelaysOnTime
  OBVIOUS
<1> QED
  BY <1>1, <1>2, <1>3, PTL DEF ClockSpec

-----------------------------------------------------------------------------
(* The messages that are due, in order. *)

\* f lists the elements of P in increasing order, m of them.
Lists(f, P, m) ==
    /\ f \in [1 .. m -> P]
    /\ \A i, j \in 1 .. m : i < j => f[i] < f[j]
    /\ \A p \in P : \E i \in 1 .. m : f[i] = p

\* A nonempty set of naturals has a least element.
LEMMA LeastNat ==
    ASSUME NEW T \in SUBSET Nat, T # {}
    PROVE  \E x \in T : \A y \in T : x <= y
<1> DEFINE R == OpToRel(<, Nat)
<1>1. \E x \in T : \A y \in T : ~ (<<y, x>> \in R)
  BY NatLessThanWellFounded, WFMin
<1>2. \A x, y \in Nat : y < x => <<y, x>> \in R
  BY DEF OpToRel
<1> HIDE DEF R
<1>3. \A x, y \in T : x \in Nat /\ y \in Nat
  OBVIOUS
<1>4. \A x, y \in T : ~ (<<y, x>> \in R) => x <= y
  BY <1>2, <1>3
<1> QED
  BY <1>1, <1>4

\* Two lists of one set are the same: the first place where they differ would
\* miss an element.
LEMMA ListsUnique ==
    ASSUME NEW P \in SUBSET Nat, NEW m \in Nat, NEW f, NEW g,
           Lists(f, P, m), Lists(g, P, m)
    PROVE  f = g
<1> SUFFICES ASSUME f # g PROVE FALSE
  OBVIOUS
<1> DEFINE D == {i \in 1 .. m : f[i] # g[i]}
<1>1. /\ f \in [1 .. m -> P] /\ g \in [1 .. m -> P]
      /\ \A i, j \in 1 .. m : i < j => f[i] < f[j]
      /\ \A i, j \in 1 .. m : i < j => g[i] < g[j]
      /\ \A p \in P : \E i \in 1 .. m : f[i] = p
      /\ \A p \in P : \E i \in 1 .. m : g[i] = p
  BY DEF Lists
<1>2. D \in SUBSET Nat /\ D # {}
  BY <1>1
<1>3. PICK k \in D : \A i \in D : k <= i
  <2> HIDE DEF D
  <2> QED
    BY <1>2, LeastNat
<1>4. k \in 1 .. m /\ f[k] # g[k] /\ f[k] \in P /\ g[k] \in P
      /\ f[k] \in Nat /\ g[k] \in Nat
  BY <1>1
<1>5. \A i \in 1 .. m : i < k => f[i] = g[i]
  BY <1>3, <1>4
<1>6. PICK a \in 1 .. m : f[a] = g[k]
  BY <1>1, <1>4
<1>7. PICK b \in 1 .. m : g[b] = f[k]
  BY <1>1, <1>4
<1>8. f[a] \in Nat /\ g[b] \in Nat /\ g[a] \in Nat /\ f[b] \in Nat
  BY <1>1
<1>9. ~(a < k) /\ a # k /\ ~(b < k) /\ b # k
  <2>1. (a < k => g[a] < g[k]) /\ (b < k => f[b] < f[k])
    BY <1>1, <1>4
  <2>2. (a < k => f[a] = g[a]) /\ (b < k => f[b] = g[b])
    BY <1>5
  <2> QED
    BY <1>4, <1>6, <1>7, <1>8, <2>1, <2>2
<1>10. f[k] < f[a] /\ g[k] < g[b]
  BY <1>1, <1>4, <1>9
<1> QED
  BY <1>4, <1>6, <1>7, <1>10

\* The length of a list is the size of the set, and InOrder finds it.
LEMMA ListsInOrder ==
    ASSUME NEW P \in SUBSET Nat, NEW m \in Nat, NEW f, Lists(f, P, m)
    PROVE  IsFiniteSet(P) /\ Cardinality(P) = m /\ InOrder(P) = f
<1>1. /\ f \in [1 .. m -> P]
      /\ \A i, j \in 1 .. m : i < j => f[i] < f[j]
      /\ \A p \in P : \E i \in 1 .. m : f[i] = p
  BY DEF Lists
<1>2. \A i, j \in 1 .. m : f[i] = f[j] => i = j
  <2> TAKE i, j \in 1 .. m
  <2>1. f[i] \in Nat /\ f[j] \in Nat
    BY <1>1
  <2> QED
    BY <1>1, <2>1
<1>3. f \in Bijection(1 .. m, P)
  BY <1>1, <1>2 DEF Bijection, Injection, IsInjective, Surjection
<1>4. ExistsBijection(1 .. m, P)
  BY <1>3 DEF ExistsBijection
<1>5. IsFiniteSet(P) /\ Cardinality(P) = m
  BY <1>4, FS_NatBijection, FS_CountingElements
<1>6. ASSUME NEW g \in [1 .. m -> P],
             \A i, j \in 1 .. m : i < j => g[i] < g[j]
      PROVE  g = f
  <2>1. \A i, j \in 1 .. m : g[i] = g[j] => i = j
    <3> TAKE i, j \in 1 .. m
    <3>1. g[i] \in Nat /\ g[j] \in Nat
      OBVIOUS
    <3> QED
      BY <1>6, <3>1
  <2>2. g \in Injection(1 .. m, P)
    BY <2>1 DEF Injection, IsInjective
  <2>3. Cardinality(1 .. m) = m
    BY FS_Interval
  <2>4. g \in Surjection(1 .. m, P)
    BY <1>5, <2>2, <2>3, FS_Injection
  <2>5. Lists(g, P, m)
    BY <1>6, <2>4 DEF Lists, Surjection
  <2> QED
    BY <2>5, ListsUnique
<1>7. InOrder(P) = f
  BY <1>1, <1>5, <1>6 DEF InOrder
<1> QED
  BY <1>5, <1>7

\* A list grows by an element above the others.
LEMMA ListsAbove ==
    ASSUME NEW P \in SUBSET Nat, NEW m \in Nat, NEW f, Lists(f, P, m),
           NEW k \in Nat, \A p \in P : p < k
    PROVE  Lists([i \in 1 .. m + 1 |-> IF i = m + 1 THEN k ELSE f[i]],
                 P \cup {k}, m + 1)
<1> DEFINE g == [i \in 1 .. m + 1 |-> IF i = m + 1 THEN k ELSE f[i]]
<1>1. /\ f \in [1 .. m -> P]
      /\ \A i, j \in 1 .. m : i < j => f[i] < f[j]
      /\ \A p \in P : \E i \in 1 .. m : f[i] = p
  BY DEF Lists
<1>2. \A i \in 1 .. m : g[i] = f[i] /\ i \in 1 .. m + 1
  OBVIOUS
<1>3. g[m + 1] = k /\ m + 1 \in 1 .. m + 1
  OBVIOUS
<1>4. \A i \in 1 .. m + 1 : i = m + 1 \/ i \in 1 .. m
  OBVIOUS
<1>5. DOMAIN g = 1 .. m + 1 /\ g = [i \in 1 .. m + 1 |-> g[i]]
  OBVIOUS
<1> HIDE DEF g
<1>6. \A i \in 1 .. m + 1 : g[i] \in P \cup {k}
  BY <1>1, <1>2, <1>3, <1>4
<1>7. ASSUME NEW i \in 1 .. m + 1, NEW j \in 1 .. m + 1, i < j
      PROVE  g[i] < g[j]
  <2>1. i \in 1 .. m
    BY <1>7
  <2>2. CASE j = m + 1
    BY <1>1, <1>2, <1>3, <2>1, <2>2
  <2>3. CASE j \in 1 .. m
    BY <1>1, <1>2, <1>7, <2>1, <2>3
  <2> QED
    BY <1>4, <2>2, <2>3
<1>8. ASSUME NEW p \in P \cup {k} PROVE \E i \in 1 .. m + 1 : g[i] = p
  BY <1>1, <1>2, <1>3
<1>9. Lists(g, P \cup {k}, m + 1)
  BY <1>5, <1>6, <1>7, <1>8 DEF Lists
<1> QED
  BY <1>9 DEF g

\* Places one further back are listed the same way.
LEMMA ListsShift ==
    ASSUME NEW P \in SUBSET Nat, NEW m \in Nat, NEW f, Lists(f, P, m)
    PROVE  Lists([i \in 1 .. m |-> f[i] + 1], {p + 1 : p \in P}, m)
<1>1. /\ f \in [1 .. m -> P]
      /\ \A i, j \in 1 .. m : i < j => f[i] < f[j]
      /\ \A p \in P : \E i \in 1 .. m : f[i] = p
  BY DEF Lists
<1> DEFINE g == [i \in 1 .. m |-> f[i] + 1]
           Q == {p + 1 : p \in P}
<1>2. \A i \in 1 .. m : g[i] = f[i] + 1 /\ f[i] \in P /\ f[i] \in Nat
  BY <1>1
<1>3. g \in [1 .. m -> Q]
  BY <1>2
<1>4. \A i, j \in 1 .. m : i < j => g[i] < g[j]
  BY <1>1, <1>2
<1>5. ASSUME NEW x \in Q PROVE \E i \in 1 .. m : g[i] = x
  <2>1. PICK p \in P : x = p + 1
    OBVIOUS
  <2> HIDE DEF g, Q
  <2> QED
    BY <1>1, <1>2, <2>1
<1> HIDE DEF g, Q
<1>6. Lists(g, Q, m)
  BY <1>3, <1>4, <1>5 DEF Lists
<1> QED
  BY <1>6 DEF g, Q

\* And with place 1 in front of them.
LEMMA ListsFront ==
    ASSUME NEW P \in SUBSET Nat, NEW m \in Nat, NEW f, Lists(f, P, m),
           0 \notin P
    PROVE  Lists([i \in 1 .. m + 1 |-> IF i = 1 THEN 1 ELSE f[i - 1] + 1],
                 {1} \cup {p + 1 : p \in P}, m + 1)
<1>1. /\ f \in [1 .. m -> P]
      /\ \A i, j \in 1 .. m : i < j => f[i] < f[j]
      /\ \A p \in P : \E i \in 1 .. m : f[i] = p
  BY DEF Lists
<1> DEFINE g == [i \in 1 .. m + 1 |-> IF i = 1 THEN 1 ELSE f[i - 1] + 1]
           Q == {1} \cup {p + 1 : p \in P}
<1>2. ASSUME NEW i \in 1 .. m
      PROVE  /\ i + 1 \in 1 .. m + 1 /\ g[i + 1] = f[i] + 1
             /\ f[i] \in P /\ f[i] \in Nat /\ f[i] > 0
  <2>1. i + 1 \in 1 .. m + 1 /\ i + 1 # 1 /\ (i + 1) - 1 = i
    OBVIOUS
  <2>2. f[i] \in P /\ f[i] \in Nat /\ f[i] # 0
    BY <1>1
  <2> QED
    BY <2>1, <2>2
<1>3. g[1] = 1 /\ 1 \in 1 .. m + 1 /\ DOMAIN g = 1 .. m + 1
      /\ g = [i \in 1 .. m + 1 |-> g[i]]
  OBVIOUS
<1>4. ASSUME NEW i \in 1 .. m + 1, i # 1
      PROVE  \E j \in 1 .. m : i = j + 1
  <2>1. i - 1 \in 1 .. m /\ i = (i - 1) + 1
    BY <1>4
  <2> QED
    BY <2>1
<1>5. \A x \in Q : x = 1 \/ \E p \in P : x = p + 1
  OBVIOUS
<1>6. 1 \in Q /\ \A p \in P : p + 1 \in Q
  OBVIOUS
<1> HIDE DEF g, Q
<1>7. ASSUME NEW i \in 1 .. m + 1 PROVE g[i] \in Q
  <2>1. CASE i # 1
    <3>1. PICK a \in 1 .. m : i = a + 1
      BY <1>4, <2>1
    <3>2. g[i] = f[a] + 1 /\ f[a] \in P
      BY <1>2, <3>1
    <3> QED
      BY <1>6, <3>2
  <2> QED
    BY <1>3, <1>6, <2>1
<1>8. ASSUME NEW i \in 1 .. m + 1, NEW j \in 1 .. m + 1, i < j
      PROVE  g[i] < g[j]
  <2>1. PICK b \in 1 .. m : j = b + 1
    BY <1>4, <1>8
  <2>2. CASE i = 1
    <3>1. g[j] = f[b] + 1 /\ f[b] \in Nat /\ f[b] > 0
      BY <1>2, <2>1
    <3> QED
      BY <1>3, <2>2, <3>1
  <2>3. CASE i # 1
    <3>1. PICK a \in 1 .. m : i = a + 1
      BY <1>4, <2>3
    <3>2. f[a] < f[b]
      BY <1>1, <1>8, <2>1, <3>1
    <3>3. /\ g[i] = f[a] + 1 /\ g[j] = f[b] + 1
          /\ f[a] \in Nat /\ f[b] \in Nat
      BY <1>2, <2>1, <3>1
    <3> QED
      BY <3>2, <3>3
  <2> QED
    BY <2>2, <2>3
<1>9. ASSUME NEW x \in Q PROVE \E i \in 1 .. m + 1 : g[i] = x
  <2>1. CASE x # 1
    <3>1. PICK y \in P : x = y + 1
      BY <1>5, <2>1
    <3>2. PICK a \in 1 .. m : f[a] = y
      BY <1>1
    <3>3. a + 1 \in 1 .. m + 1 /\ g[a + 1] = x
      BY <1>2, <3>1, <3>2
    <3> QED
      BY <3>3
  <2> QED
    BY <1>3, <2>1
<1>10. Lists(g, Q, m + 1)
  BY <1>3, <1>7, <1>8, <1>9 DEF Lists
<1> QED
  BY <1>10 DEF g, Q

\* Any set of places can be listed.
LEMMA ListsExist ==
    ASSUME NEW n \in Nat, NEW P \in SUBSET (1 .. n)
    PROVE  \E m \in Nat : \E f : Lists(f, P, m)
<1> DEFINE Upto(k) == {p \in P : p <= k}
           Bad == {k \in 0 .. n : ~ \E m \in Nat : \E f : Lists(f, Upto(k), m)}
<1>a. \A p \in P : p \in Nat /\ p >= 1 /\ p <= n
  OBVIOUS
<1>b. ASSUME NEW k \in Nat
      PROVE  /\ Upto(k) \in SUBSET Nat
             /\ \A p \in Upto(k) : p < k + 1
             /\ k + 1 \in P => Upto(k + 1) = Upto(k) \cup {k + 1}
             /\ k + 1 \notin P => Upto(k + 1) = Upto(k)
  <2>1. \A p \in P : p <= k + 1 <=> p <= k \/ p = k + 1
    BY <1>a
  <2>2. \A p \in Upto(k) : p < k + 1 /\ p \in Nat
    BY <1>a
  <2>3. k + 1 \in P => Upto(k + 1) = Upto(k) \cup {k + 1}
    BY <2>1
  <2>4. k + 1 \notin P => Upto(k + 1) = Upto(k)
    BY <2>1
  <2> HIDE DEF Upto
  <2> QED
    BY <2>2, <2>3, <2>4
<1>c. Upto(0) = {} /\ Upto(n) = P /\ P \in SUBSET Nat
  <2>1. ASSUME NEW x \in Upto(0) PROVE FALSE
    <3>1. x \in P /\ x <= 0
      OBVIOUS
    <3>2. x \in Nat /\ x >= 1
      BY <1>a, <3>1
    <3> QED
      BY <3>1, <3>2
  <2>2. \A x : x \in Upto(n) <=> x \in P
    BY <1>a
  <2>3. P \in SUBSET Nat
    BY <1>a
  <2> HIDE DEF Upto
  <2> QED
    BY <2>1, <2>2, <2>3
<1> HIDE DEF Upto
<1> SUFFICES ASSUME ~ \E m \in Nat : \E f : Lists(f, P, m) PROVE FALSE
  OBVIOUS
<1>2. n \in Bad
  BY <1>c
<1>3. Bad \in SUBSET Nat /\ Bad # {}
  BY <1>2
<1>4. PICK k \in Bad : \A i \in Bad : k <= i
  <2> HIDE DEF Bad
  <2> QED
    BY <1>3, LeastNat
<1>5. k \in 0 .. n /\ ~ \E m \in Nat : \E f : Lists(f, Upto(k), m)
  OBVIOUS
<1>6. k # 0
  <2>1. Lists([i \in 1 .. 0 |-> i], {}, 0)
    BY DEF Lists
  <2> QED
    BY <1>5, <1>c, <2>1
<1>7. PICK j \in Nat : k = j + 1
  <2>1. k - 1 \in Nat /\ k = (k - 1) + 1
    BY <1>5, <1>6
  <2> QED
    BY <2>1
<1>8. j \in 0 .. n /\ j \notin Bad
  <2>1. j \in 0 .. n /\ ~(k <= j)
    BY <1>5, <1>7
  <2> HIDE DEF Bad
  <2> QED
    BY <1>4, <2>1
<1>9m. PICK m \in Nat : \E f : Lists(f, Upto(j), m)
  BY <1>8
<1>9. PICK f : Lists(f, Upto(j), m)
  BY <1>9m
<1>10. CASE k \in P
  <2>1. /\ Upto(j + 1) = Upto(j) \cup {j + 1}
        /\ Upto(j) \in SUBSET Nat /\ \A p \in Upto(j) : p < j + 1
        /\ j + 1 \in Nat
    BY <1>b, <1>7, <1>10
  <2>2. \E g : Lists(g, Upto(j) \cup {j + 1}, m + 1)
    BY <1>9, <2>1, ListsAbove
  <2> QED
    BY <1>5, <1>7, <2>1, <2>2
<1>11. CASE k \notin P
  BY <1>b, <1>5, <1>7, <1>9, <1>11
<1> QED
  BY <1>10, <1>11

\* What MsgQueue knows of a message that is due.
Strip(m) == [signal |-> m.signal, reload |-> m.reload]

\* The due messages of a sequence, place by place.
LEMMA DueOf ==
    ASSUME NEW c \in Seq(Msg_t), NEW m \in Nat, NEW f,
           Lists(f, DuePlaces(c), m)
    PROVE  /\ DueIn(c) = [i \in 1 .. m |-> Strip(c[f[i]])]
           /\ IsFiniteSet(DuePlaces(c)) /\ Cardinality(DuePlaces(c)) = m
<1>1. DuePlaces(c) \in SUBSET Nat
  BY DEF DuePlaces
<1>2. /\ IsFiniteSet(DuePlaces(c)) /\ Cardinality(DuePlaces(c)) = m
      /\ InOrder(DuePlaces(c)) = f
  BY <1>1, ListsInOrder
<1> QED
  BY <1>2 DEF DueIn, Strip

\* There is a list of the due places of every sequence.
LEMMA DueListed ==
    ASSUME NEW c \in Seq(Msg_t)
    PROVE  /\ DuePlaces(c) \in SUBSET (1 .. Len(c))
           /\ \E m \in Nat : \E f : Lists(f, DuePlaces(c), m)
<1>1. DuePlaces(c) \in SUBSET (1 .. Len(c)) /\ Len(c) \in Nat
  BY DEF DuePlaces
<1> QED
  BY <1>1, ListsExist

\* The due messages are a sequence, as many as there are due places, and the
\* elements are those messages.
LEMMA DueSeq ==
    ASSUME NEW c \in Seq(Msg_t)
    PROVE  /\ DueIn(c) \in Seq([signal : Signal, reload : 0 .. DELAY_MAX])
           /\ Len(DueIn(c)) = Cardinality(DuePlaces(c))
           /\ ToSet(DueIn(c)) = {Strip(c[k]) : k \in DuePlaces(c)}
           /\ SomeDue(c) <=> DueIn(c) # << >>
<1> DEFINE D == DueIn(c)
           P == DuePlaces(c)
           R == [signal : Signal, reload : 0 .. DELAY_MAX]
<1>1m. PICK m \in Nat : \E f : Lists(f, P, m)
  BY DueListed
<1>1. PICK f : Lists(f, P, m)
  BY <1>1m
<1>2. D = [i \in 1 .. m |-> Strip(c[f[i]])] /\ Cardinality(P) = m
  BY <1>1, DueOf
<1>3. /\ f \in [1 .. m -> P]
      /\ \A p \in P : \E i \in 1 .. m : f[i] = p
  BY <1>1 DEF Lists
<1>4. \A k \in P : c[k] \in Msg_t
  BY DEF DuePlaces
<1>5. \A k \in P : Strip(c[k]) \in R
  BY <1>4 DEF Msg_t, Strip
<1>6. \A k \in DOMAIN c : k \in P <=> IsDue(c[k])
  BY DEF DuePlaces
<1> HIDE DEF D, P, R
<1>7. D \in [1 .. m -> R]
  BY <1>2, <1>3, <1>5
<1>8. D \in Seq(R) /\ Len(D) = m /\ DOMAIN D = 1 .. m
  BY <1>7
<1>9. ToSet(D) = {Strip(c[k]) : k \in P}
  <2>1. ASSUME NEW x \in ToSet(D) PROVE x \in {Strip(c[k]) : k \in P}
    <3>1. PICK i \in 1 .. m : x = D[i]
      BY <1>8 DEF ToSet
    <3>2. x = Strip(c[f[i]]) /\ f[i] \in P
      BY <1>2, <1>3, <3>1
    <3> QED
      BY <3>2
  <2>2. ASSUME NEW k \in P PROVE Strip(c[k]) \in ToSet(D)
    <3>1. PICK i \in 1 .. m : f[i] = k
      BY <1>3
    <3>2. D[i] = Strip(c[k])
      BY <1>2, <3>1
    <3> QED
      BY <1>8, <3>2 DEF ToSet
  <2> QED
    BY <2>1, <2>2
<1>10. SomeDue(c) <=> D # << >>
  <2>1. D # << >> <=> m # 0
    BY <1>8
  <2>2. m # 0 <=> P # {}
    BY <1>3
  <2>3. P # {} <=> SomeDue(c)
    BY <1>6 DEF SomeDue, P, DuePlaces
  <2> QED
    BY <2>1, <2>2, <2>3
<1> QED
  BY <1>2, <1>8, <1>9, <1>10 DEF D, P, R

\* A message behind the others is due behind the others, or is not due.
LEMMA DueBack ==
    ASSUME NEW c \in Seq(Msg_t), NEW x \in Msg_t
    PROVE  /\ DueIn(Append(c, x)) = IF IsDue(x) THEN Append(DueIn(c), Strip(x))
                                    ELSE DueIn(c)
           /\ TimedIn(Append(c, x)) = IF IsDue(x) THEN TimedIn(c)
                                      ELSE TimedIn(c) \cup {x}
<1> DEFINE e == Append(c, x)
           n == Len(c)
           P == DuePlaces(c)
           Q == DuePlaces(e)
<1>1. /\ e \in Seq(Msg_t) /\ n \in Nat
      /\ DOMAIN e = 1 .. n + 1 /\ DOMAIN c = 1 .. n
      /\ e[n + 1] = x
      /\ \A k \in 1 .. n : e[k] = c[k]
      /\ \A k \in DOMAIN e : k = n + 1 \/ k \in 1 .. n
  BY BackFacts
<1>2m. PICK m \in Nat : \E f : Lists(f, P, m)
  BY DueListed
<1>2. PICK f : Lists(f, P, m)
  BY <1>2m
<1>3. f \in [1 .. m -> P] /\ DueIn(c) = [i \in 1 .. m |-> Strip(c[f[i]])]
  <2> HIDE DEF e
  <2>1. f \in [1 .. m -> P]
    BY <1>2 DEF Lists
  <2>2. DueIn(c) = [i \in 1 .. m |-> Strip(c[f[i]])]
    BY <1>2, DueOf
  <2> QED
    BY <2>1, <2>2
<1>4. P \subseteq 1 .. n /\ \A k \in 1 .. n : k \in P <=> IsDue(c[k])
  BY <1>1 DEF DuePlaces
<1>5. \A k \in DOMAIN e : k \in Q <=> IsDue(e[k])
  BY DEF DuePlaces
<1>6. Q \subseteq DOMAIN e
  BY DEF DuePlaces
<1>7. \A y : y \in TimedIn(c) <=> \E k \in 1 .. n : k \notin P /\ y = c[k]
  BY <1>1 DEF TimedIn
<1>8. \A y : y \in TimedIn(e) <=> \E k \in DOMAIN e : k \notin Q /\ y = e[k]
  BY DEF TimedIn
<1> HIDE DEF e, n, P, Q
<1>9. CASE IsDue(x)
  <2>1. Q = P \cup {n + 1}
    <3>1. ASSUME NEW k \in Q PROVE k \in P \cup {n + 1}
      BY <1>1, <1>4, <1>5, <1>6
    <3>2. ASSUME NEW k \in P PROVE k \in Q
      <4>1. k \in 1 .. n /\ k \in DOMAIN e
        BY <1>1, <1>4
      <4> QED
        BY <1>1, <1>4, <1>5, <4>1
    <3>3. n + 1 \in Q
      BY <1>1, <1>5, <1>9
    <3> QED
      BY <3>1, <3>2, <3>3
  <2> DEFINE g == [i \in 1 .. m + 1 |-> IF i = m + 1 THEN n + 1 ELSE f[i]]
  <2>2. Lists(g, Q, m + 1)
    <3>1. P \in SUBSET Nat /\ \A p \in P : p < n + 1
      BY <1>1, <1>4
    <3>2. n + 1 \in Nat
      BY <1>1
    <3> QED
      BY <1>2, <2>1, <3>1, <3>2, ListsAbove
  <2>3. DueIn(e) = [i \in 1 .. m + 1 |-> Strip(e[g[i]])]
    <3> HIDE DEF g
    <3> QED
      BY <1>1, <2>2, DueOf DEF Q
  <2>4. \A i \in 1 .. m : g[i] = f[i] /\ f[i] \in 1 .. n
    <3> TAKE i \in 1 .. m
    <3>1. i \in 1 .. m + 1 /\ i # m + 1
      OBVIOUS
    <3>2. f[i] \in 1 .. n
      BY <1>3, <1>4
    <3> QED
      BY <3>1, <3>2
  <2>5. g[m + 1] = n + 1
    OBVIOUS
  <2>6. DueIn(c) \in Seq([signal : Signal, reload : 0 .. DELAY_MAX])
        /\ Len(DueIn(c)) = m
    BY <1>2, DueOf, DueSeq DEF P
  <2> DEFINE A == Append(DueIn(c), Strip(x))
  <2>7. A = [i \in 1 .. m + 1 |-> IF i = m + 1 THEN Strip(x) ELSE DueIn(c)[i]]
    <3> DEFINE S == [signal : Signal, reload : 0 .. DELAY_MAX]
               d == DueIn(c)
               z == Strip(x)
    <3>1. d \in Seq(S) /\ Len(d) = m /\ z \in S
      BY <2>6 DEF Msg_t, Strip
    <3> HIDE DEF S, d, z
    <3>2. Append(d, z) = [i \in 1 .. m + 1 |-> IF i = m + 1 THEN z ELSE d[i]]
      <4> DEFINE r == Append(d, z)
      <4>1. /\ r \in Seq(S) /\ Len(r) = m + 1 /\ r[m + 1] = z
            /\ \A i \in 1 .. m : r[i] = d[i]
        BY <3>1
      <4> HIDE DEF r
      <4>2. DOMAIN r = 1 .. m + 1 /\ r = [i \in DOMAIN r |-> r[i]]
        <5>1. r \in [1 .. m + 1 -> S]
          BY <4>1
        <5> QED
          BY <5>1
      <4>3. \A i \in 1 .. m + 1 : r[i] = IF i = m + 1 THEN z ELSE d[i]
        BY <4>1
      <4>4. r = [i \in 1 .. m + 1 |-> IF i = m + 1 THEN z ELSE d[i]]
        BY <4>2, <4>3
      <4> QED
        BY <4>4 DEF r
    <3> QED
      BY <3>2 DEF d, z
  <2> HIDE DEF g, A
  <2>8. \A i \in 1 .. m + 1 :
          Strip(e[g[i]]) = IF i = m + 1 THEN Strip(x) ELSE DueIn(c)[i]
    <3> TAKE i \in 1 .. m + 1
    <3>1. CASE i = m + 1
      BY <1>1, <2>5, <3>1
    <3>2. CASE i # m + 1
      <4>1. i \in 1 .. m
        BY <3>2
      <4>2. e[g[i]] = c[f[i]] /\ DueIn(c)[i] = Strip(c[f[i]])
        BY <1>1, <1>3, <2>4, <4>1
      <4> QED
        BY <3>2, <4>2
    <3> QED
      BY <3>1, <3>2
  <2>9. DueIn(e) = A
    BY <2>3, <2>7, <2>8
  <2>10. \A y : y \in TimedIn(e) <=> y \in TimedIn(c)
    BY <1>1, <1>4, <1>7, <1>8, <2>1
  <2> QED
    BY <1>9, <2>9, <2>10 DEF e, A
<1>10. CASE ~IsDue(x)
  <2>1. Q = P
    <3>1. ASSUME NEW k \in Q PROVE k \in P
      BY <1>1, <1>4, <1>5, <1>6, <1>10
    <3>2. ASSUME NEW k \in P PROVE k \in Q
      <4>1. k \in 1 .. n /\ k \in DOMAIN e
        BY <1>1, <1>4
      <4> QED
        BY <1>1, <1>4, <1>5, <4>1
    <3> QED
      BY <3>1, <3>2
  <2>2. DueIn(e) = [i \in 1 .. m |-> Strip(e[f[i]])]
    BY <1>1, <1>2, <2>1, DueOf DEF Q
  <2>3. \A i \in 1 .. m : e[f[i]] = c[f[i]]
    BY <1>1, <1>3, <1>4
  <2>4. DueIn(e) = DueIn(c)
    BY <1>3, <2>2, <2>3
  <2>5. n + 1 \notin P /\ n + 1 \in DOMAIN e
    BY <1>1, <1>4
  <2>6. \A y : y \in TimedIn(e) <=> y \in TimedIn(c) \cup {x}
    BY <1>1, <1>7, <1>8, <2>1, <2>5
  <2> QED
    BY <1>10, <2>4, <2>6 DEF e
<1> QED
  BY <1>9, <1>10

\* A message in front of the others is due before the others, or is not due.
LEMMA DueFront ==
    ASSUME NEW c \in Seq(Msg_t), NEW x \in Msg_t
    PROVE  /\ DueIn(<<x>> \o c) = IF IsDue(x) THEN <<Strip(x)>> \o DueIn(c)
                                   ELSE DueIn(c)
           /\ TimedIn(<<x>> \o c) = IF IsDue(x) THEN TimedIn(c)
                                     ELSE TimedIn(c) \cup {x}
<1> DEFINE e == <<x>> \o c
           n == Len(c)
           P == DuePlaces(c)
           Q == DuePlaces(e)
           Back == {p + 1 : p \in P}
<1>1. /\ e \in Seq(Msg_t) /\ n \in Nat
      /\ DOMAIN e = 1 .. n + 1 /\ DOMAIN c = 1 .. n
      /\ e[1] = x
      /\ \A k \in 1 .. n : e[k + 1] = c[k]
      /\ \A k \in DOMAIN e : k = 1 \/ k - 1 \in 1 .. n
  BY FrontFacts
<1>a. \A k \in DOMAIN e : k = 1 \/ \E j \in 1 .. n : k = j + 1
  <2> TAKE k \in DOMAIN e
  <2>1. k \in Nat
    BY <1>1
  <2>2. k = (k - 1) + 1
    BY <2>1
  <2> HIDE DEF e
  <2> QED
    BY <1>1, <2>2
<1>2m. PICK m \in Nat : \E f : Lists(f, P, m)
  BY DueListed
<1>2. PICK f : Lists(f, P, m)
  BY <1>2m
<1>3. f \in [1 .. m -> P] /\ DueIn(c) = [i \in 1 .. m |-> Strip(c[f[i]])]
  <2> HIDE DEF e
  <2>1. f \in [1 .. m -> P]
    BY <1>2 DEF Lists
  <2>2. DueIn(c) = [i \in 1 .. m |-> Strip(c[f[i]])]
    BY <1>2, DueOf
  <2> QED
    BY <2>1, <2>2
<1>4. P \subseteq 1 .. n /\ \A k \in 1 .. n : k \in P <=> IsDue(c[k])
  BY <1>1 DEF DuePlaces
<1>5. \A k \in DOMAIN e : k \in Q <=> IsDue(e[k])
  BY DEF DuePlaces
<1>6. Q \subseteq DOMAIN e
  BY DEF DuePlaces
<1>7. \A y : y \in TimedIn(c) <=> \E k \in 1 .. n : k \notin P /\ y = c[k]
  BY <1>1 DEF TimedIn
<1>8. \A y : y \in TimedIn(e) <=> \E k \in DOMAIN e : k \notin Q /\ y = e[k]
  BY DEF TimedIn
<1>b. \A k : k \in Back <=> \E p \in P : k = p + 1
  OBVIOUS
<1> HIDE DEF e, n, P, Q, Back
<1>c. \A k \in 1 .. n : k + 1 \in DOMAIN e /\ (k + 1 \in Q <=> k \in P) /\ k + 1 # 1
  BY <1>1, <1>4, <1>5
<1>d. 1 \in DOMAIN e /\ (1 \in Q <=> IsDue(x))
  BY <1>1, <1>5
<1>e. P \in SUBSET Nat /\ 0 \notin P
  BY <1>1, <1>4
<1>f. \A i \in 1 .. m : f[i] \in P /\ f[i] \in 1 .. n /\ e[f[i] + 1] = c[f[i]]
  BY <1>1, <1>3, <1>4
<1>g. \A y : y \in TimedIn(e) <=> y \in TimedIn(c) \/ (y = x /\ ~IsDue(x))
  <2> TAKE y
  <2>1. ASSUME y \in TimedIn(e)
        PROVE  y \in TimedIn(c) \/ (y = x /\ ~IsDue(x))
    <3>1. PICK k \in DOMAIN e : k \notin Q /\ y = e[k]
      BY <1>8, <2>1
    <3>2. CASE k = 1
      BY <1>1, <1>d, <3>1, <3>2
    <3>3. CASE k # 1
      <4>1. PICK j \in 1 .. n : k = j + 1
        BY <1>a, <3>3
      <4> QED
        BY <1>1, <1>7, <1>c, <3>1, <4>1
    <3> QED
      BY <3>2, <3>3
  <2>2. ASSUME y \in TimedIn(c) PROVE y \in TimedIn(e)
    <3>1. PICK k \in 1 .. n : k \notin P /\ y = c[k]
      BY <1>7, <2>2
    <3> QED
      BY <1>1, <1>8, <1>c, <3>1
  <2>3. ASSUME y = x, ~IsDue(x) PROVE y \in TimedIn(e)
    BY <1>1, <1>8, <1>d, <2>3
  <2> QED
    BY <2>1, <2>2, <2>3
<1>9. CASE IsDue(x)
  <2>1. Q = {1} \cup Back
    <3>1. ASSUME NEW k \in Q PROVE k \in {1} \cup Back
      BY <1>6, <1>a, <1>b, <1>c
    <3>2. Back \subseteq Q /\ 1 \in Q
      BY <1>4, <1>9, <1>b, <1>c, <1>d
    <3> QED
      BY <3>1, <3>2
  <2> DEFINE g == [i \in 1 .. m + 1 |-> IF i = 1 THEN 1 ELSE f[i - 1] + 1]
  <2>2. Lists(g, Q, m + 1)
    BY <1>2, <1>e, <2>1, ListsFront DEF Back
  <2>3. DueIn(e) = [i \in 1 .. m + 1 |-> Strip(e[g[i]])]
    <3> HIDE DEF g
    <3> QED
      BY <1>1, <2>2, DueOf DEF Q
  <2>4. g[1] = 1 /\ \A i \in 1 .. m + 1 : i # 1 => g[i] = f[i - 1] + 1
    OBVIOUS
  <2> DEFINE S == [signal : Signal, reload : 0 .. DELAY_MAX]
             d == DueIn(c)
             z == Strip(x)
             A == <<z>> \o d
  <2>5. d \in Seq(S) /\ Len(d) = m /\ z \in S
    <3>1. Len(d) = m
      BY <1>2, DueOf, DueSeq DEF P
    <3>2. z \in S
      BY DEF Msg_t, Strip
    <3> QED
      BY <3>1, <3>2, DueSeq
  <2> HIDE DEF g, S, d, z
  <2>6. A = [i \in 1 .. m + 1 |-> IF i = 1 THEN z ELSE d[i - 1]]
    BY <2>5
  <2> HIDE DEF A
  <2>7. \A i \in 1 .. m + 1 : Strip(e[g[i]]) = IF i = 1 THEN z ELSE d[i - 1]
    <3> TAKE i \in 1 .. m + 1
    <3>1. CASE i = 1
      BY <1>1, <2>4, <3>1 DEF z
    <3>2. CASE i # 1
      <4>1. PICK j \in 1 .. m : j = i - 1
        BY <3>2
      <4>2. g[i] = f[j] + 1 /\ d[i - 1] = Strip(c[f[j]])
        BY <1>3, <2>4, <3>2, <4>1 DEF d
      <4>3. e[g[i]] = c[f[j]]
        BY <1>f, <4>1, <4>2
      <4> QED
        BY <3>2, <4>2, <4>3
    <3> QED
      BY <3>1, <3>2
  <2>8. DueIn(e) = A
    BY <2>3, <2>6, <2>7
  <2>9. TimedIn(e) = TimedIn(c)
    BY <1>9, <1>g
  <2> QED
    BY <1>9, <2>8, <2>9 DEF e, A, d, z
<1>10. CASE ~IsDue(x)
  <2>1. Q = Back
    <3>1. ASSUME NEW k \in Q PROVE k \in Back
      BY <1>6, <1>10, <1>a, <1>b, <1>c, <1>d
    <3>2. Back \subseteq Q
      BY <1>4, <1>b, <1>c
    <3> QED
      BY <3>1, <3>2
  <2> DEFINE g == [i \in 1 .. m |-> f[i] + 1]
  <2>2. Lists(g, Q, m)
    BY <1>2, <1>e, <2>1, ListsShift DEF Back
  <2>3. DueIn(e) = [i \in 1 .. m |-> Strip(e[g[i]])]
    <3> HIDE DEF g
    <3> QED
      BY <1>1, <2>2, DueOf DEF Q
  <2>4. \A i \in 1 .. m : e[g[i]] = c[f[i]]
    BY <1>f
  <2>5. DueIn(e) = DueIn(c)
    BY <1>3, <2>3, <2>4
  <2>6. TimedIn(e) = TimedIn(c) \cup {x}
    BY <1>10, <1>g
  <2> QED
    BY <1>10, <2>5, <2>6 DEF e
<1> QED
  BY <1>9, <1>10

\* Messages told apart are due or timed, each once: why a full ring is a full
\* queue.
LEMMA DueAndTimed ==
    ASSUME NEW c \in Seq(Msg_t), Distinct(c)
    PROVE  Len(DueIn(c)) + Cardinality(TimedIn(c)) = Len(c)
<1> DEFINE n == Len(c)
           P == DuePlaces(c)
           W == (1 .. n) \ P
           g == [k \in W |-> c[k]]
<1>1. /\ n \in Nat /\ DOMAIN c = 1 .. n /\ P \subseteq 1 .. n
      /\ IsFiniteSet(1 .. n) /\ Cardinality(1 .. n) = n
  <2>1. n \in Nat /\ DOMAIN c = 1 .. n
    OBVIOUS
  <2>2. P \subseteq 1 .. n
    BY <2>1 DEF DuePlaces
  <2> HIDE DEF n, P
  <2>3. 1 \in Int /\ n \in Int /\ (1 > n <=> n = 0)
    BY <2>1
  <2>4. IsFiniteSet(1 .. n) /\ Cardinality(1 .. n) = IF 1 > n THEN 0 ELSE n - 1 + 1
    BY <2>3, FS_Interval
  <2> QED
    BY <2>1, <2>2, <2>3, <2>4
<1>2. TimedIn(c) = {c[k] : k \in W}
  BY <1>1 DEF TimedIn
<1>3. g \in Bijection(W, TimedIn(c))
  <2>1. g \in [W -> TimedIn(c)]
    BY <1>2
  <2>2. \A j, k \in W : g[j] = g[k] => j = k
    BY <1>1 DEF Distinct
  <2>3. \A y \in TimedIn(c) : \E k \in W : g[k] = y
    BY <1>2
  <2> HIDE DEF g, W
  <2> QED
    BY <2>1, <2>2, <2>3 DEF Bijection, Injection, IsInjective, Surjection
<1>4. IsFiniteSet(W) /\ Cardinality(W) = n - Cardinality(P)
  <2> DEFINE S == 1 .. n
  <2>1. S \cap P = P /\ W = S \ P
    BY <1>1
  <2>2. IsFiniteSet(S) /\ Cardinality(S) = n
    BY <1>1
  <2> HIDE DEF P, n, S, W
  <2>3. IsFiniteSet(S \ P) /\ Cardinality(S \ P) = Cardinality(S) - Cardinality(S \cap P)
    BY <2>2, FS_Difference
  <2> QED
    BY <2>1, <2>2, <2>3
<1>5. Cardinality(TimedIn(c)) = Cardinality(W)
  <2> HIDE DEF g, W
  <2>1. ExistsBijection(W, TimedIn(c))
    BY <1>3 DEF ExistsBijection
  <2> QED
    BY <1>4, <2>1, FS_Bijection
<1>6. Len(DueIn(c)) = Cardinality(P) /\ Cardinality(P) \in Nat
  <2>1. IsFiniteSet(P)
    BY <1>1, FS_Subset
  <2> QED
    BY <2>1, DueSeq, FS_CardinalityType
<1> HIDE DEF n, P, W
<1> QED
  BY <1>1, <1>4, <1>5, <1>6 DEF n

-----------------------------------------------------------------------------
(* A tick, as MsgQueue sees it. *)

\* Sequence e is c after a tick that may have missed messages.
OneTick(c, e) ==
    /\ Len(e) = Len(c)
    /\ \A k \in 1 .. Len(c) :
        \/ e[k] = c[k]
        \/ c[k].delay > 0 /\ e[k] = [c[k] EXCEPT !.delay = @ - 1]

\* The messages it has counted, and those of them that it made due.
Counted(c, e) == {c[k] : k \in {j \in 1 .. Len(c) : e[j] # c[j]}}
Ended(c, e)   == {m \in Counted(c, e) : m.delay = 1}

\* A message is counted where it stands.
LEMMA CountedPlaces ==
    ASSUME NEW c \in Seq(Msg_t), NEW e, Distinct(c), NEW k \in 1 .. Len(c)
    PROVE  c[k] \in Counted(c, e) <=> e[k] # c[k]
<1>1. ASSUME c[k] \in Counted(c, e) PROVE e[k] # c[k]
  <2>1. PICK j \in 1 .. Len(c) : e[j] # c[j] /\ c[k] = c[j]
    BY <1>1 DEF Counted
  <2>2. j = k
    BY <2>1 DEF Distinct
  <2> QED
    BY <2>1, <2>2
<1>2. e[k] # c[k] => c[k] \in Counted(c, e)
  BY DEF Counted
<1> QED
  BY <1>1, <1>2

\* What the tick does at each place.
LEMMA TickPlaces ==
    ASSUME NEW c \in Seq(Msg_t), NEW e \in Seq(Msg_t), Distinct(c), OneTick(c, e),
           NEW k \in 1 .. Len(c)
    PROVE  /\ c[k] \in Msg_t /\ e[k] \in Msg_t
           /\ Strip(e[k]) = Strip(c[k])
           /\ c[k] \in Counted(c, e) <=> e[k] # c[k]
           /\ k \in DuePlaces(c) <=> c[k].delay = 0
           /\ k \in DuePlaces(e) <=> e[k].delay = 0
           /\ e[k] # c[k] => /\ c[k].delay > 0
                             /\ e[k] = [c[k] EXCEPT !.delay = @ - 1]
                             /\ e[k].delay = 0 <=> c[k].delay = 1
<1>1. /\ c[k] \in Msg_t /\ e[k] \in Msg_t
      /\ DOMAIN c = 1 .. Len(c) /\ DOMAIN e = 1 .. Len(c)
  BY DEF OneTick
<1>2. c[k].delay \in Nat
  BY <1>1 DEF Msg_t
<1>3. \/ e[k] = c[k]
      \/ /\ c[k].delay > 0
         /\ e[k] = [c[k] EXCEPT !.delay = @ - 1]
         /\ e[k].delay = c[k].delay - 1
  BY <1>1 DEF OneTick, Msg_t
<1>4. Strip(e[k]) = Strip(c[k])
  BY <1>1, <1>3 DEF Strip, Msg_t
<1>5. c[k] \in Counted(c, e) <=> e[k] # c[k]
  BY CountedPlaces
<1>6. /\ k \in DuePlaces(c) <=> c[k].delay = 0
      /\ k \in DuePlaces(e) <=> e[k].delay = 0
  BY <1>1 DEF DuePlaces, IsDue
<1> QED
  BY <1>1, <1>2, <1>3, <1>4, <1>5, <1>6

\* The timed messages: those counted are one tick closer or no longer timed.
LEMMA TickTimed ==
    ASSUME NEW c \in Seq(Msg_t), NEW e \in Seq(Msg_t), Distinct(c), OneTick(c, e)
    PROVE  /\ Counted(c, e) \subseteq TimedIn(c)
           /\ TimedIn(e) = (TimedIn(c) \ Counted(c, e)) \cup
                {[m EXCEPT !.delay = @ - 1] : m \in Counted(c, e) \ Ended(c, e)}
<1> DEFINE n == Len(c)
           M == Counted(c, e)
           Less == {[m EXCEPT !.delay = @ - 1] : m \in M \ Ended(c, e)}
<1>1. DOMAIN c = 1 .. n /\ DOMAIN e = 1 .. n
  BY DEF OneTick
<1>2. \A y : y \in TimedIn(c) <=> \E k \in 1 .. n : k \notin DuePlaces(c) /\ y = c[k]
  BY <1>1 DEF TimedIn
<1>3. \A y : y \in TimedIn(e) <=> \E k \in 1 .. n : k \notin DuePlaces(e) /\ y = e[k]
  BY <1>1 DEF TimedIn
<1>4. ASSUME NEW m \in M PROVE \E k \in 1 .. n : e[k] # c[k] /\ m = c[k]
  BY DEF Counted
<1>5. \A k \in 1 .. n :
        /\ c[k] \in Msg_t
        /\ c[k] \in M <=> e[k] # c[k]
        /\ k \in DuePlaces(c) <=> c[k].delay = 0
        /\ k \in DuePlaces(e) <=> e[k].delay = 0
        /\ e[k] # c[k] => /\ c[k].delay > 0
                          /\ e[k] = [c[k] EXCEPT !.delay = @ - 1]
                          /\ e[k].delay = 0 <=> c[k].delay = 1
  BY TickPlaces
<1>6. \A k \in 1 .. n : c[k] \in M => (c[k] \in Ended(c, e) <=> c[k].delay = 1)
  BY DEF Ended
<1>7. \A m \in M \ Ended(c, e) : [m EXCEPT !.delay = @ - 1] \in Less
  OBVIOUS
<1>8. ASSUME NEW y \in Less
      PROVE  \E m \in M \ Ended(c, e) : y = [m EXCEPT !.delay = @ - 1]
  OBVIOUS
<1> HIDE DEF n, M, Less
<1>9. M \subseteq TimedIn(c)
  <2> SUFFICES ASSUME NEW m \in M PROVE m \in TimedIn(c)
    OBVIOUS
  <2>1. PICK k \in 1 .. n : e[k] # c[k] /\ m = c[k]
    BY <1>4
  <2>2. c[k] \in Msg_t /\ c[k].delay > 0
    BY <1>5, <2>1
  <2>3. c[k].delay \in Nat
    BY <2>2 DEF Msg_t
  <2>4. k \notin DuePlaces(c)
    <3>1. k \in DuePlaces(c) => c[k].delay = 0
      BY <1>5
    <3> QED
      BY <2>2, <2>3, <3>1
  <2> QED
    BY <1>2, <2>1, <2>4
<1>10. ASSUME NEW y \in TimedIn(e)
       PROVE  y \in (TimedIn(c) \ M) \cup Less
  <2>1. PICK k \in 1 .. n : k \notin DuePlaces(e) /\ y = e[k]
    BY <1>3
  <2>2. CASE e[k] = c[k]
    <3>1. k \notin DuePlaces(c) /\ c[k] \notin M
      BY <1>5, <2>1, <2>2
    <3> QED
      BY <1>2, <2>1, <2>2, <3>1
  <2>3. CASE e[k] # c[k]
    <3>1. c[k] \in M \ Ended(c, e)
      BY <1>5, <1>6, <2>1, <2>3
    <3>2. y = [c[k] EXCEPT !.delay = @ - 1]
      BY <1>5, <2>1, <2>3
    <3> QED
      BY <1>7, <3>1, <3>2
  <2> QED
    BY <2>2, <2>3
<1>11. ASSUME NEW y \in TimedIn(c) \ M PROVE y \in TimedIn(e)
  <2>1. PICK k \in 1 .. n : k \notin DuePlaces(c) /\ y = c[k]
    BY <1>2
  <2>2. e[k] = c[k] /\ k \notin DuePlaces(e)
    BY <1>5, <2>1
  <2> QED
    BY <1>3, <2>1, <2>2
<1>12. ASSUME NEW y \in Less PROVE y \in TimedIn(e)
  <2>1. PICK m \in M \ Ended(c, e) : y = [m EXCEPT !.delay = @ - 1]
    BY <1>8
  <2>2. PICK k \in 1 .. n : e[k] # c[k] /\ m = c[k]
    BY <1>4, <2>1
  <2>3. y = e[k] /\ k \notin DuePlaces(e)
    BY <1>5, <1>6, <2>1, <2>2
  <2> QED
    BY <1>3, <2>3
<1>13. TimedIn(e) = (TimedIn(c) \ M) \cup Less
  BY <1>10, <1>11, <1>12
<1> QED
  BY <1>9, <1>13 DEF M, Less

\* The due messages: those whose delay ends join them, and no others.
LEMMA TickDue ==
    ASSUME NEW c \in Seq(Msg_t), NEW e \in Seq(Msg_t), Distinct(c), OneTick(c, e)
    PROVE  LET New == {[signal |-> m.signal, reload |-> m.reload] :
                         m \in Ended(c, e)}
           IN  /\ Len(DueIn(e)) = Len(DueIn(c)) + Cardinality(New)
               /\ ToSet(DueIn(e)) = ToSet(DueIn(c)) \cup New
<1> DEFINE n == Len(c)
           P == DuePlaces(c)
           Q == DuePlaces(e)
           E == {k \in 1 .. n : e[k] # c[k] /\ c[k].delay = 1}
           New == {[signal |-> m.signal, reload |-> m.reload] : m \in Ended(c, e)}
           g == [k \in E |-> Strip(c[k])]
<1>1. /\ n \in Nat /\ DOMAIN c = 1 .. n /\ DOMAIN e = 1 .. n
      /\ P \subseteq 1 .. n /\ Q \subseteq 1 .. n
  BY DEF OneTick, DuePlaces
<1>2. \A k \in 1 .. n :
        /\ c[k] \in Msg_t
        /\ Strip(e[k]) = Strip(c[k])
        /\ c[k] \in Counted(c, e) <=> e[k] # c[k]
        /\ k \in P <=> c[k].delay = 0
        /\ k \in Q <=> e[k].delay = 0
        /\ e[k] # c[k] => /\ c[k].delay > 0
                          /\ e[k].delay = 0 <=> c[k].delay = 1
  <2> TAKE k \in 1 .. n
  <2> HIDE DEF E, New, g
  <2>1. c[k] \in Msg_t /\ Strip(e[k]) = Strip(c[k])
    BY TickPlaces
  <2>5. c[k] \in Counted(c, e) <=> e[k] # c[k]
    BY CountedPlaces
  <2>2. k \in P <=> c[k].delay = 0
    BY TickPlaces
  <2>3. k \in Q <=> e[k].delay = 0
    BY TickPlaces
  <2>4. e[k] # c[k] => c[k].delay > 0
    BY TickPlaces
  <2>6. e[k] # c[k] => (e[k].delay = 0 <=> c[k].delay = 1)
    BY TickPlaces
  <2> QED
    BY <2>1, <2>2, <2>3, <2>4, <2>5, <2>6
<1>3. Q = P \cup E /\ P \cap E = {}
  <2>1. \A k \in 1 .. n : c[k].delay \in Nat
    BY <1>2 DEF Msg_t
  <2>2. \A k \in 1 .. n : k \in E <=> e[k] # c[k] /\ c[k].delay = 1
    OBVIOUS
  <2>3. E \subseteq 1 .. n
    OBVIOUS
  <2> HIDE DEF E, P, Q, n
  <2>4. \A k \in 1 .. n : (k \in Q <=> k \in P \/ k \in E) /\ ~(k \in P /\ k \in E)
    BY <1>2, <2>1, <2>2
  <2> QED
    BY <1>1, <2>3, <2>4
<1>4. \A k \in E : c[k] \in Ended(c, e)
  BY <1>2 DEF Ended
<1>5. ASSUME NEW m \in Ended(c, e) PROVE \E k \in E : m = c[k]
  BY DEF Ended, Counted
<1>6. ASSUME NEW x \in New PROVE \E k \in E : x = Strip(c[k])
  <2>1. PICK m \in Ended(c, e) : x = Strip(m)
    BY DEF Strip
  <2> HIDE DEF E, New
  <2> QED
    BY <1>5, <2>1
<1>7. \A k \in E : Strip(c[k]) \in New
  BY <1>4 DEF Strip
<1>8. \A j, k \in E : Strip(c[j]) = Strip(c[k]) => j = k
  <2> TAKE j, k \in E
  <2>1. ASSUME Strip(c[j]) = Strip(c[k]) PROVE j = k
    <3>1. c[j].signal = c[k].signal
      BY <2>1 DEF Strip
    <3> QED
      BY <1>1, <3>1 DEF Distinct
  <2> QED
    BY <2>1
<1>9. IsFiniteSet(P) /\ IsFiniteSet(E) /\ IsFiniteSet(Q)
  <2>1. E \subseteq 1 .. n
    OBVIOUS
  <2> HIDE DEF E, P, Q, n
  <2>2. IsFiniteSet(1 .. n)
    BY <1>1, FS_Interval
  <2> QED
    BY <1>1, <2>1, <2>2, FS_Subset
<1> HIDE DEF n, P, Q, E, New
<1>10. Cardinality(Q) = Cardinality(P) + Cardinality(E)
  <2>1. Cardinality(P \cap E) = 0
    BY <1>3, FS_EmptySet
  <2>2. Cardinality(P \cup E) = Cardinality(P) + Cardinality(E) - Cardinality(P \cap E)
    BY <1>9, FS_Union
  <2>3. Cardinality(P) \in Nat /\ Cardinality(E) \in Nat
    BY <1>9, FS_CardinalityType
  <2> QED
    BY <1>3, <2>1, <2>2, <2>3
<1>11. Cardinality(New) = Cardinality(E)
  <2>1. /\ g \in [E -> New]
        /\ \A j, k \in E : g[j] = g[k] => j = k
        /\ \A x \in New : \E k \in E : g[k] = x
    BY <1>6, <1>7, <1>8
  <2> HIDE DEF g
  <2>2. g \in Bijection(E, New)
    BY <2>1 DEF Bijection, Injection, IsInjective, Surjection
  <2>3. ExistsBijection(E, New)
    BY <2>2 DEF ExistsBijection
  <2> QED
    BY <1>9, <2>3, FS_Bijection
<1>12. Len(DueIn(c)) = Cardinality(P) /\ Len(DueIn(e)) = Cardinality(Q)
  BY DueSeq DEF P, Q
<1>13. /\ ToSet(DueIn(c)) = {Strip(c[k]) : k \in P}
       /\ ToSet(DueIn(e)) = {Strip(e[k]) : k \in Q}
  BY DueSeq DEF P, Q
<1>14. ToSet(DueIn(e)) = ToSet(DueIn(c)) \cup New
  <2>1. ASSUME NEW x \in ToSet(DueIn(e)) PROVE x \in ToSet(DueIn(c)) \cup New
    <3>1. PICK k \in Q : x = Strip(e[k])
      BY <1>13
    <3>2. x = Strip(c[k])
      BY <1>1, <1>2, <3>1
    <3> QED
      BY <1>3, <1>7, <1>13, <3>2
  <2>2. ASSUME NEW x \in ToSet(DueIn(c)) PROVE x \in ToSet(DueIn(e))
    <3>1. PICK k \in P : x = Strip(c[k])
      BY <1>13
    <3>2. x = Strip(e[k]) /\ k \in Q
      BY <1>1, <1>2, <1>3, <3>1
    <3> QED
      BY <1>13, <3>2
  <2>3. ASSUME NEW x \in New PROVE x \in ToSet(DueIn(e))
    <3>1. PICK k \in E : x = Strip(c[k])
      BY <1>6
    <3>2. x = Strip(e[k]) /\ k \in Q
      BY <1>1, <1>2, <1>3, <3>1
    <3> QED
      BY <1>13, <3>2
  <2> QED
    BY <2>1, <2>2, <2>3
<1> QED
  BY <1>10, <1>11, <1>12, <1>14 DEF New

\* Those that were due keep their order.
LEMMA TickOrder ==
    ASSUME NEW c \in Seq(Msg_t), NEW e \in Seq(Msg_t), Distinct(c), OneTick(c, e)
    PROVE  Abstract!Within(DueIn(c), DueIn(e))
<1>1. /\ DOMAIN c = 1 .. Len(c) /\ DuePlaces(c) \subseteq 1 .. Len(c)
      /\ DuePlaces(e) \subseteq 1 .. Len(c) /\ Len(c) \in Nat
  BY DEF OneTick, DuePlaces
<1>2. \A k \in 1 .. Len(c) : /\ Strip(e[k]) = Strip(c[k])
                             /\ k \in DuePlaces(c) => k \in DuePlaces(e)
  <2> TAKE k \in 1 .. Len(c)
  <2>3. c[k] \in Msg_t /\ Strip(e[k]) = Strip(c[k])
    BY TickPlaces
  <2>4. k \in DuePlaces(c) <=> c[k].delay = 0
    BY TickPlaces
  <2>5. k \in DuePlaces(e) <=> e[k].delay = 0
    BY TickPlaces
  <2>6. e[k] # c[k] => c[k].delay > 0
    BY TickPlaces
  <2>1. /\ c[k] \in Msg_t /\ Strip(e[k]) = Strip(c[k])
        /\ k \in DuePlaces(c) <=> c[k].delay = 0
        /\ k \in DuePlaces(e) <=> e[k].delay = 0
        /\ e[k] # c[k] => c[k].delay > 0
    BY <2>3, <2>4, <2>5, <2>6
  <2>2. c[k].delay \in Nat
    BY <2>1 DEF Msg_t
  <2> QED
    BY <2>1, <2>2
<1>3m. PICK m \in Nat : \E f : Lists(f, DuePlaces(c), m)
  BY DueListed
<1>3. PICK f : Lists(f, DuePlaces(c), m)
  BY <1>3m
<1>4m. PICK p \in Nat : \E g : Lists(g, DuePlaces(e), p)
  BY DueListed
<1>4. PICK g : Lists(g, DuePlaces(e), p)
  BY <1>4m
<1>5. /\ f \in [1 .. m -> DuePlaces(c)] /\ g \in [1 .. p -> DuePlaces(e)]
      /\ \A i, j \in 1 .. m : i < j => f[i] < f[j]
      /\ \A i, j \in 1 .. p : i < j => g[i] < g[j]
      /\ \A k \in DuePlaces(e) : \E i \in 1 .. p : g[i] = k
  BY <1>3, <1>4 DEF Lists
<1>6. /\ DueIn(c) = [i \in 1 .. m |-> Strip(c[f[i]])]
      /\ DueIn(e) = [i \in 1 .. p |-> Strip(e[g[i]])]
  BY <1>3, <1>4, DueOf
<1> DEFINE h == [i \in 1 .. m |-> CHOOSE j \in 1 .. p : g[j] = f[i]]
<1>7. ASSUME NEW i \in 1 .. m
      PROVE  h[i] \in 1 .. p /\ g[h[i]] = f[i]
  <2>1. f[i] \in DuePlaces(e)
    BY <1>1, <1>2, <1>5
  <2>2. \E j \in 1 .. p : g[j] = f[i]
    BY <1>5, <2>1
  <2> QED
    BY <2>2
<1>8. h \in [1 .. m -> 1 .. p]
  BY <1>7
<1> HIDE DEF h
<1>9. ASSUME NEW i \in 1 .. m, NEW j \in 1 .. m, i < j PROVE h[i] < h[j]
  <2>1. /\ h[i] \in 1 .. p /\ h[j] \in 1 .. p
        /\ g[h[i]] = f[i] /\ g[h[j]] = f[j] /\ f[i] < f[j]
    BY <1>5, <1>7, <1>9
  <2>2. f[i] \in Nat /\ f[j] \in Nat
    BY <1>1, <1>5
  <2>3. CASE h[i] = h[j]
    BY <2>1, <2>2, <2>3
  <2>4. CASE h[j] < h[i]
    BY <1>5, <2>1, <2>2, <2>4
  <2> QED
    BY <2>1, <2>3, <2>4
<1>10. ASSUME NEW i \in 1 .. m PROVE DueIn(e)[h[i]] = DueIn(c)[i]
  <2>1. DueIn(e)[h[i]] = Strip(e[f[i]])
    BY <1>6, <1>7
  <2>2. f[i] \in 1 .. Len(c)
    BY <1>1, <1>5
  <2> QED
    BY <1>2, <1>6, <2>1, <2>2
<1>11. DOMAIN DueIn(c) = 1 .. m /\ DOMAIN DueIn(e) = 1 .. p
  BY <1>6
<1> QED
  BY <1>8, <1>9, <1>10, <1>11 DEF Abstract!Within

-----------------------------------------------------------------------------
(* The ring implements MsgQueue. *)

\* os_msgQ_create makes an empty queue.
LEMMA RingInitRefines == Init => Abstract!Init
<1> SUFFICES ASSUME Init PROVE Abstract!Init
  OBVIOUS
<1>1. Contents = << >> /\ at = "IDLE"
  BY RingInitInv DEF Init
<1>2. Contents \in Seq(Msg_t) /\ DOMAIN Contents = {}
  BY <1>1
<1>3. DueIn(Contents) = << >>
  BY <1>2, DueSeq DEF SomeDue
<1>4. TimedIn(Contents) = {}
  BY <1>2 DEF TimedIn
<1>5. last = [result |-> "NONE", signal |-> {}]
  BY DEF Init
<1> QED
  BY <1>1, <1>3, <1>4, <1>5 DEF Abstract!Init, Abstract!Silent

\* The set operators of MsgQueue are those of this module.
LEMMA SameOperators ==
    /\ \A S : Abstract!Cardinality(S) = Cardinality(S)
    /\ \A s : Abstract!ToSet(s) = ToSet(s)
<1>1. ASSUME NEW S PROVE Abstract!Cardinality(S) = Cardinality(S)
  BY DEF Abstract!Cardinality, Cardinality, Abstract!IsFiniteSet, IsFiniteSet
<1>2. ASSUME NEW s PROVE Abstract!ToSet(s) = ToSet(s)
  BY DEF Abstract!ToSet, ToSet
<1> QED
  BY <1>1, <1>2

\* os_msg_post keeps a message or refuses it.
LEMMA PostRefines ==
    ASSUME RingInv, NEW s \in Signal, NEW delay \in 0 .. DELAY_MAX,
           NEW period \in 0 .. DELAY_MAX, Post(s, delay, period)
    PROVE  Abstract!Post(s, delay, period)
<1> DEFINE m == [signal |-> s, delay |-> delay, reload |-> period]
           c == Contents
<1>1. /\ TypeOK /\ Distinct(c) /\ c \in Seq(Msg_t) /\ Len(c) \in 0 .. SIZE - 1
      /\ Full(q) <=> Len(c) = SIZE - 1
      /\ at = "IDLE" /\ at' = "IDLE"
      /\ last' = [result |-> IF Full(q) THEN "FULL" ELSE "POSTED", signal |-> {}]
  BY ContentsType, FullFacts DEF RingInv, Post, Tells
<1>2. Contents' = IF Full(q) THEN c ELSE Append(c, m)
  BY <1>1, PostContents
<1>3. Len(DueIn(c)) + Cardinality(TimedIn(c)) = Len(c)
  BY <1>1, DueAndTimed
<1>4. m \in Msg_t /\ (IsDue(m) <=> delay = 0)
      /\ Strip(m) = [signal |-> s, reload |-> period]
  BY DEF Msg_t, IsDue, Strip
<1> HIDE DEF m, c
<1>5. CASE Full(q)
  <2>1. ~(Len(DueIn(c)) + Cardinality(TimedIn(c)) < SIZE - 1)
    BY <1>1, <1>3, <1>5, SizeOK
  <2>2. Contents' = c /\ last' = [result |-> "FULL", signal |-> {}]
    BY <1>1, <1>2, <1>5
  <2>3. DueIn(Contents)' = DueIn(Contents) /\ TimedIn(Contents)' = TimedIn(Contents)
    BY <2>2 DEF c
  <2> QED
    BY <1>1, <2>1, <2>2, <2>3, SameOperators DEF Abstract!Post, Abstract!Told, c
<1>6. CASE ~Full(q)
  <2>1. Len(DueIn(c)) + Cardinality(TimedIn(c)) < SIZE - 1
    BY <1>1, <1>3, <1>6, SizeOK
  <2>2. Contents' = Append(c, m) /\ last' = [result |-> "POSTED", signal |-> {}]
    BY <1>1, <1>2, <1>6
  <2>3. /\ DueIn(Append(c, m)) = IF IsDue(m) THEN Append(DueIn(c), Strip(m))
                                 ELSE DueIn(c)
        /\ TimedIn(Append(c, m)) = IF IsDue(m) THEN TimedIn(c)
                                   ELSE TimedIn(c) \cup {m}
    BY <1>1, <1>4, DueBack
  <2>4. Abstract!Kept(s, delay, period)
    <3>1. CASE delay = 0
      BY <1>4, <2>2, <2>3, <3>1 DEF Abstract!Kept, c
    <3>2. CASE delay # 0
      BY <1>4, <2>2, <2>3, <3>2 DEF Abstract!Kept, c, m
    <3> QED
      BY <3>1, <3>2
  <2> QED
    BY <1>1, <2>1, <2>2, <2>4, SameOperators DEF Abstract!Post, Abstract!Told, c
<1> QED
  BY <1>5, <1>6

\* os_msg_receive ends with the oldest message that is due.
LEMMA EndRefines ==
    ASSUME RingInv, ReceiveEnd
    PROVE  Abstract!Deliver
<1> DEFINE p == [msg EXCEPT !.delay = msg.reload]
<1>1. /\ at = "COPIED" /\ at' = "IDLE" /\ msg.delay = 0 /\ msg \in Msg_t
  BY EndContents
<1>2. PICK d \in Seq(Msg_t) :
        /\ Contents = <<msg>> \o d
        /\ Contents' = IF msg.reload > 0 THEN Append(d, p) ELSE d
  BY EndContents
<1>3. /\ p \in Msg_t /\ msg.reload \in Nat
      /\ p.delay = msg.reload
      /\ p = [signal |-> msg.signal, delay |-> msg.reload, reload |-> msg.reload]
  BY <1>1 DEF Msg_t
<1> HIDE DEF p
<1>4. DueIn(Contents) = <<Strip(msg)>> \o DueIn(d) /\ TimedIn(Contents) = TimedIn(d)
  BY <1>1, <1>2, DueFront DEF IsDue
<1>5. Head(DueIn(Contents)) = Strip(msg) /\ Tail(DueIn(Contents)) = DueIn(d)
  <2> DEFINE R == [signal : Signal, reload : 0 .. DELAY_MAX]
             z == Strip(msg)
             t == DueIn(d)
  <2>1. z \in R
    BY <1>1 DEF Msg_t, Strip
  <2>2. t \in Seq(R)
    BY DueSeq
  <2> HIDE DEF R, z, t
  <2>3. Head(<<z>> \o t) = z /\ Tail(<<z>> \o t) = t
    BY <2>1, <2>2
  <2> QED
    BY <1>4, <2>3 DEF z, t
<1>6. last' = [result |-> "RECEIVED", signal |-> {msg.signal}]
  BY DEF ReceiveEnd, Tells
<1>7. /\ DueIn(Contents') = DueIn(d)
      /\ TimedIn(Contents') = IF msg.reload = 0 THEN TimedIn(d)
                              ELSE TimedIn(d) \cup {p}
  <2>1. CASE msg.reload > 0
    <3>1. ~IsDue(p) /\ Contents' = Append(d, p) /\ msg.reload # 0
      BY <1>2, <1>3, <2>1 DEF IsDue
    <3> QED
      BY <1>3, <3>1, DueBack
  <2>2. CASE ~(msg.reload > 0)
    BY <1>2, <1>3, <2>2
  <2> QED
    BY <2>1, <2>2
<1>8. DueIn(Contents)' = DueIn(Contents') /\ TimedIn(Contents)' = TimedIn(Contents')
  OBVIOUS
<1>9. /\ Strip(msg).signal = msg.signal /\ Strip(msg).reload = msg.reload
  BY DEF Strip
<1>10. at # "IDLE" /\ ~(at' # "IDLE")
  BY <1>1
<1> QED
  BY <1>3, <1>4, <1>5, <1>6, <1>7, <1>8, <1>9, <1>10
  DEF Abstract!Deliver, Abstract!Received

\* os_msgQ_tick counts every timed message, or, inside the reader's loop, some.
LEMMA TickRefines ==
    ASSUME RingInv, Tick
    PROVE  Abstract!Tick
<1> DEFINE c == Contents
           e == Contents'
           M == Counted(c, e)
           New == {[signal |-> m.signal, reload |-> m.reload] : m \in Ended(c, e)}
<1>1. /\ TypeOK' /\ at' = at /\ Len(e) = Len(c)
      /\ \A k \in 1 .. Len(c) :
           \/ /\ e[k] = c[k]
              /\ at = "IDLE" => c[k].delay = 0
           \/ /\ c[k].delay > 0
              /\ e[k] = [c[k] EXCEPT !.delay = @ - 1]
  BY TickContents
<1>2. /\ c \in Seq(Msg_t) /\ e \in Seq(Msg_t) /\ Distinct(c)
      /\ DOMAIN c = 1 .. Len(c)
  <2>1. c \in Seq(Msg_t) /\ Distinct(c)
    BY ContentsType DEF RingInv
  <2>2. e \in Seq(Msg_t)
    BY <1>1, ContentsPrimed
  <2> HIDE DEF c, e
  <2> QED
    BY <2>1, <2>2
<1>3. last' = [result |-> "NONE", signal |-> {}]
  BY DEF Tick, Tells
<1>4. DueIn(Contents)' = DueIn(e) /\ TimedIn(Contents)' = TimedIn(e)
  OBVIOUS
<1> HIDE DEF e
<1>5. OneTick(c, e)
  <2> HIDE DEF c
  <2> QED
    BY <1>1 DEF OneTick
<1>6. /\ M \subseteq TimedIn(c)
      /\ TimedIn(e) = (TimedIn(c) \ M) \cup
           {[m EXCEPT !.delay = @ - 1] : m \in M \ Ended(c, e)}
  <2> HIDE DEF c
  <2> QED
    BY <1>2, <1>5, TickTimed
<1>7. /\ Len(DueIn(e)) = Len(DueIn(c)) + Cardinality(New)
      /\ ToSet(DueIn(e)) = ToSet(DueIn(c)) \cup New
  <2> HIDE DEF c
  <2> QED
    BY <1>2, <1>5, TickDue
<1>8. Abstract!Within(DueIn(c), DueIn(e))
  <2> HIDE DEF c
  <2> QED
    BY <1>2, <1>5, TickOrder
<1>9. ASSUME at = "IDLE" PROVE M = TimedIn(c)
  <2> SUFFICES ASSUME NEW y \in TimedIn(c) PROVE y \in M
    BY <1>6
  <2> HIDE DEF c
  <2>1. PICK k \in 1 .. Len(c) : k \notin DuePlaces(c) /\ y = c[k]
    BY <1>2 DEF TimedIn
  <2>2. c[k].delay # 0
    BY <1>2, <2>1 DEF DuePlaces, IsDue
  <2>3. c[k] \in Msg_t
    BY <1>2
  <2>4. e[k] # c[k]
    <3>1. e[k] = [c[k] EXCEPT !.delay = @ - 1] /\ c[k].delay > 0
      BY <1>1, <1>9, <2>2
    <3>2. e[k].delay # c[k].delay
      BY <2>3, <3>1 DEF Msg_t
    <3> QED
      BY <3>2
  <2> QED
    BY <1>2, <2>1, <2>4, CountedPlaces
<1>10. Abstract!Count(M)
  BY <1>4, <1>6, <1>7, <1>8, SameOperators DEF Abstract!Count, Ended
<1> HIDE DEF M
<1>11. at = "IDLE" \/ INTERRUPTS
  BY DEF Tick
<1>12. M \in (IF at # "IDLE" /\ INTERRUPTS THEN SUBSET TimedIn(Contents)
              ELSE {TimedIn(Contents)})
  <2>1. CASE at = "IDLE"
    BY <1>9, <2>1
  <2>2. CASE at # "IDLE"
    BY <1>6, <1>11, <2>2
  <2> QED
    BY <2>1, <2>2
<1> QED
  BY <1>1, <1>3, <1>10, <1>12 DEF Abstract!Tick, Abstract!Silent

\* Every step of the ring is one of the queue, or of no interest to its callers.
LEMMA RingRefines ==
    RingInv /\ [Next]_vars => [Abstract!Next]_(Abstract!vars)
<1> SUFFICES ASSUME RingInv, [Next]_vars
             PROVE  [Abstract!Next]_(Abstract!vars)
  OBVIOUS
<1>1. TypeOK /\ Contents \in Seq(Msg_t)
  BY ContentsType DEF RingInv
<1>2. ASSUME Contents' = Contents, (at' # "IDLE") = (at # "IDLE"), last' = last
      PROVE  UNCHANGED Abstract!vars
  BY <1>2 DEF Abstract!vars
<1>3. ASSUME NEW s \in Signal, NEW delay \in Delays, Post(s, delay, 0)
      PROVE  Abstract!Next
  <2>1. delay \in 0 .. DELAY_MAX /\ 0 \in 0 .. DELAY_MAX
    BY RingAssumption
  <2>2. Abstract!Post(s, delay, 0)
    BY <1>3, <2>1, PostRefines
  <2>3. delay \in Delays \cup Periods \cup {0} /\ 0 \in Delays \cup Periods \cup {0}
    OBVIOUS
  <2> QED
    BY <2>2, <2>3 DEF Abstract!Next
<1>4. ASSUME NEW s \in Signal, NEW period \in Periods, Post(s, period, period)
      PROVE  Abstract!Next
  <2>1. period \in 0 .. DELAY_MAX
    BY RingAssumption
  <2>2. Abstract!Post(s, period, period)
    BY <1>4, <2>1, PostRefines
  <2>3. period \in Delays \cup Periods \cup {0}
    OBVIOUS
  <2> QED
    BY <2>2, <2>3 DEF Abstract!Next
<1>5. CASE ReceiveEmpty
  <2>1. DueIn(Contents) = << >>
    BY <1>1, <1>5, DueFacts, DueSeq DEF ReceiveEmpty
  <2>2. Contents' = Contents
    BY <1>5 DEF ReceiveEmpty, Contents
  <2>3. DueIn(Contents)' = DueIn(Contents) /\ TimedIn(Contents)' = TimedIn(Contents)
    BY <2>2
  <2>4. /\ at = "IDLE" /\ at' = at
        /\ last' = [result |-> "EMPTY", signal |-> {}]
    BY <1>5 DEF ReceiveEmpty, Tells
  <2>5. Abstract!Refuse
    BY <2>1, <2>3, <2>4 DEF Abstract!Refuse, Abstract!Told
  <2> QED
    BY <2>5 DEF Abstract!Next
<1>6. CASE ReceiveBegin
  <2>1. /\ at = "IDLE" /\ at' = "LOOP" /\ Contents' = Contents
        /\ SomeDue(Contents)
    BY <1>1, <1>6, BeginContents
  <2>2. DueIn(Contents) # << >>
    BY <1>1, <2>1, DueSeq
  <2>3. DueIn(Contents)' = DueIn(Contents) /\ TimedIn(Contents)' = TimedIn(Contents)
    BY <2>1
  <2>4. last' = [result |-> "NONE", signal |-> {}]
    BY <1>6 DEF ReceiveBegin, Tells
  <2>5. Abstract!Begin
    BY <2>1, <2>2, <2>3, <2>4 DEF Abstract!Begin, Abstract!Silent
  <2> QED
    BY <2>5 DEF Abstract!Next
<1>7. CASE CopyOut
  <2>1. at = "LOOP" /\ at' = "COPIED" /\ Contents' = Contents
    BY <1>7, CopyContents
  <2>2. last' = last
    BY <1>7 DEF CopyOut
  <2> QED
    BY <1>2, <2>1, <2>2
<1>8. CASE PutBack
  <2>1. /\ at = "COPIED" /\ at' = "LOOP" /\ msg.delay > 0 /\ msg \in Msg_t
    BY <1>8, PutBackContents
  <2>2. PICK d \in Seq(Msg_t) : /\ Contents = <<msg>> \o d
                                /\ Contents' = Append(d, msg)
    BY <1>8, PutBackContents
  <2>3. ~IsDue(msg)
    <3>1. msg.delay \in Nat
      BY <2>1 DEF Msg_t
    <3> QED
      BY <2>1, <3>1 DEF IsDue
  <2>4. /\ DueIn(Contents) = DueIn(d)
        /\ TimedIn(Contents) = TimedIn(d) \cup {msg}
    BY <2>1, <2>2, <2>3, DueFront
  <2>5. /\ DueIn(Contents') = DueIn(d)
        /\ TimedIn(Contents') = TimedIn(d) \cup {msg}
    BY <2>1, <2>2, <2>3, DueBack
  <2>6. DueIn(Contents)' = DueIn(Contents) /\ TimedIn(Contents)' = TimedIn(Contents)
    BY <2>4, <2>5
  <2>7. last' = last
    BY <1>8 DEF PutBack
  <2> QED
    BY <2>1, <2>6, <2>7 DEF Abstract!vars
<1>9. CASE ReceiveEnd
  BY <1>9, EndRefines DEF Abstract!Next
<1>10. CASE Tick
  BY <1>10, TickRefines DEF Abstract!Next
<1>11. CASE UNCHANGED vars
  BY <1>2, <1>11 DEF vars, Contents
<1> QED
  BY <1>3, <1>4, <1>5, <1>6, <1>7, <1>8, <1>9, <1>10, <1>11 DEF Next

\* No order of posts, receives and ticks, with the ring full, wrapped around or
\* rotated, loses, doubles, passes over or miscounts a message: os_msgqueue.c
\* implements MsgQueue, for every size, every set of messages, delays and periods,
\* with or without ticks inside os_msg_receive.
THEOREM RingRefinement == Spec => MsgQueueSpec
<1> QED
  BY RingInitRefines, RingRefines, RingInvariant, PTL
  DEF Spec, MsgQueueSpec, Abstract!Spec
=============================================================================
