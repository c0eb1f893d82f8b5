------------------------------ MODULE MsgQueue ------------------------------
(***************************************************************************)
(* What a message queue promises to its posters and its reader, without    *)
(* the ring buffer.  A message is due or it is timed.  Due messages are    *)
(* received in order and none is passed over.  A timed message becomes due *)
(* on the tick that ends its delay, then it is in the queue of due ones,   *)
(* anywhere: the code promises no order between messages that were not due *)
(* together.  A periodic message that is received is timed again.          *)
(*                                                                         *)
(* Every tick counts every timed message once.  Only where MISSES says so  *)
(* may a tick that interrupts the reader count some of them.               *)
(***************************************************************************)
EXTENDS Naturals, FiniteSets, Sequences, SequencesExt

CONSTANTS
    Capacity,
    Signal,   \* what tells messages apart
    Delays,   \* delays and periods they are posted with
    MISSES    \* TRUE: a tick may miss messages while the reader is receiving

VARIABLES
    due,        \* sequence of [signal, reload]
    timed,      \* set of [signal, delay, reload]
    receiving,  \* the reader is inside os_msg_receive
    last        \* what the last call told its caller

vars == <<due, timed, receiving, last>>

Silent      == [result |-> "NONE", signal |-> {}]
Told(r)     == [result |-> r, signal |-> {}]
Received(s) == [result |-> "RECEIVED", signal |-> {s}]

Init ==
    /\ due = <<>>
    /\ timed = {}
    /\ receiving = FALSE
    /\ last = Silent

Kept(s, delay, period) ==
    IF delay = 0
    THEN /\ due' = Append(due, [signal |-> s, reload |-> period])
         /\ UNCHANGED timed
    ELSE /\ timed' = timed \cup {[signal |-> s, delay |-> delay, reload |-> period]}
         /\ UNCHANGED due

Post(s, delay, period) ==
    /\ ~receiving
    /\ IF Len(due) + Cardinality(timed) < Capacity
       THEN Kept(s, delay, period) /\ last' = Told("POSTED")
       ELSE last' = Told("FULL") /\ UNCHANGED <<due, timed>>
    /\ UNCHANGED receiving

Refuse ==
    /\ ~receiving /\ due = <<>>
    /\ last' = Told("EMPTY")
    /\ UNCHANGED <<due, timed, receiving>>

Begin ==
    /\ ~receiving /\ due # <<>>
    /\ receiving' = TRUE
    /\ last' = Silent
    /\ UNCHANGED <<due, timed>>

Deliver ==
    /\ receiving
    /\ receiving' = FALSE
    /\ LET m == Head(due)
       IN  /\ due' = Tail(due)
           /\ last' = Received(m.signal)
           /\ timed' = IF m.reload = 0 THEN timed
                       ELSE timed \cup {[signal |-> m.signal, delay |-> m.reload,
                                         reload |-> m.reload]}

\* Sequence t is s with elements put in between.
Within(s, t) ==
    \E f \in [DOMAIN s -> DOMAIN t] :
        /\ \A i, j \in DOMAIN s : i < j => f[i] < f[j]
        /\ \A i \in DOMAIN s : t[f[i]] = s[i]

\* The messages of M are one tick closer; those whose delay ends join the due.
Count(M) ==
    LET Ends == {m \in M : m.delay = 1}
        New  == {[signal |-> m.signal, reload |-> m.reload] : m \in Ends}
    IN  /\ timed' = (timed \ M)
                       \cup {[m EXCEPT !.delay = @ - 1] : m \in M \ Ends}
        /\ Len(due') = Len(due) + Cardinality(New)
        /\ ToSet(due') = ToSet(due) \cup New
        /\ Within(due, due')

Tick ==
    /\ \E M \in (IF receiving /\ MISSES THEN SUBSET timed ELSE {timed}) : Count(M)
    /\ last' = Silent
    /\ UNCHANGED receiving

Next ==
    \/ \E s \in Signal, delay, period \in Delays : Post(s, delay, period)
    \/ Refuse \/ Begin \/ Deliver \/ Tick

Spec == Init /\ [][Next]_vars
=============================================================================
