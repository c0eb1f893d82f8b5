-------------------------- MODULE EventBits_proofs --------------------------
(***************************************************************************)
(* The byte list of EventBits keeps a set of events, for every number of   *)
(* events that the list has a bit for: what OsTask takes for granted, with *)
(* the same condition on N_TOTAL_EVENTS.                                   *)
(***************************************************************************)
EXTENDS EventBits, TLAPS

\* A bit of the list is the bit of some event.
ListOfEvents(list) ==
    /\ list \in [Byte -> SUBSET Bit]
    /\ \A i \in Byte : \A b \in list[i] : 8 * i + b \in Event

\* The inductive invariant.  A bit above the last event in the last byte would
\* keep os_task_wait_queue_empty from ever saying yes.
BitsInv ==
    /\ ListOfEvents(eventList)
    /\ waitSingleEvent \in BOOLEAN
    /\ missed \subseteq Event
    /\ BitsAreMissed

\* The assumption on EVENT_QUEUE_SIZE.
EnoughBytes ==
    /\ N_TOTAL_EVENTS \in Nat
    /\ N_TOTAL_EVENTS <= 8 * EVENT_QUEUE_SIZE

-----------------------------------------------------------------------------
\* eventId / 8 and eventId & 7 name one bit, and no other event has it.
LEMMA PlaceOfEvent ==
    ASSUME EnoughBytes, NEW e \in Event
    PROVE  /\ Index(e) \in Byte
           /\ Shift(e) \in Bit
           /\ 8 * Index(e) + Shift(e) = e
<1>1. Index(e) \in Byte
  BY DEF Byte
<1>2. Shift(e) \in Bit /\ 8 * Index(e) + Shift(e) = e
  BY DEF EnoughBytes, Event, Index, Shift, Bit
<1> QED
  BY <1>1, <1>2

\* A byte and a bit in it name one event id (eventId / 8, eventId % 8).
LEMMA EventOfPlace ==
    ASSUME EnoughBytes, NEW i \in Byte, NEW b \in Bit
    PROVE  i \in Nat /\ Index(8 * i + b) = i /\ Shift(8 * i + b) = b
<1>1. i \in Nat
  BY DEF EnoughBytes, Byte, Listed, EVENT_QUEUE_SIZE, Event, Index
<1> QED
  BY <1>1 DEF Index, Shift, Bit

\* With enough bytes the whole list is cleared and looked at.
LEMMA ByteIsListed ==
    ASSUME EnoughBytes
    PROVE  Byte = Listed
<1>1. ASSUME NEW e \in Event
      PROVE  Index(e) \in Listed
  BY DEF EnoughBytes, Event, Index, Listed, EVENT_QUEUE_SIZE
<1> QED
  BY <1>1 DEF Byte

\* os_task_clear_wait_queue leaves a list of events without any.
LEMMA ClearedIsNone ==
    ASSUME EnoughBytes, NEW list
    PROVE  ListOfEvents(ClearedList(list)) /\ EventsOf(ClearedList(list)) = {}
<1>1. ClearedList(list) = [i \in Byte |-> {}]
  BY ByteIsListed DEF ClearedList
<1> QED
  BY <1>1, PlaceOfEvent DEF ListOfEvents, EventsOf

\* os_task_wait_event adds its event to the list and no other.
LEMMA SetAdds ==
    ASSUME EnoughBytes, NEW list, ListOfEvents(list), NEW e \in Event
    PROVE  /\ ListOfEvents(SetBit(list, e))
           /\ EventsOf(SetBit(list, e)) = EventsOf(list) \cup {e}
<1> DEFINE r == SetBit(list, e)
<1>1. /\ r \in [Byte -> SUBSET Bit]
      /\ \A i \in Byte : r[i] = IF i = Index(e) THEN list[i] \cup {Shift(e)}
                                               ELSE list[i]
  BY PlaceOfEvent DEF SetBit, ListOfEvents
<1>2. ListOfEvents(r)
  BY <1>1, PlaceOfEvent DEF ListOfEvents
<1>3. ASSUME NEW f \in Event
      PROVE  Shift(f) \in r[Index(f)] <=> Shift(f) \in list[Index(f)] \/ f = e
  <2> HIDE DEF r
  <2>1. Index(f) = Index(e) /\ Shift(f) = Shift(e) => f = e
    BY PlaceOfEvent
  <2> QED
    BY <1>1, <2>1, PlaceOfEvent
<1> QED
  BY <1>2, <1>3 DEF EventsOf

\* os_task_signal_event takes its event out of the list and no other.
LEMMA ClearRemoves ==
    ASSUME EnoughBytes, NEW list, ListOfEvents(list), NEW e \in Event
    PROVE  /\ ListOfEvents(ClearBit(list, e))
           /\ EventsOf(ClearBit(list, e)) = EventsOf(list) \ {e}
<1> DEFINE r == ClearBit(list, e)
<1>1. /\ r \in [Byte -> SUBSET Bit]
      /\ \A i \in Byte : r[i] = IF i = Index(e) THEN list[i] \ {Shift(e)}
                                               ELSE list[i]
  BY PlaceOfEvent DEF ClearBit, ListOfEvents
<1>2. ListOfEvents(r)
  BY <1>1 DEF ListOfEvents
<1>3. ASSUME NEW f \in Event
      PROVE  Shift(f) \in r[Index(f)] <=> Shift(f) \in list[Index(f)] /\ f # e
  <2> HIDE DEF r
  <2>1. Index(f) = Index(e) /\ Shift(f) = Shift(e) => f = e
    BY PlaceOfEvent
  <2> QED
    BY <1>1, <2>1, PlaceOfEvent
<1> QED
  BY <1>2, <1>3 DEF EventsOf

\* os_wait_multiple, from a cleared list, lists the events it is given.
LEMMA MultipleSets ==
    ASSUME EnoughBytes, NEW list, NEW E \in SUBSET Event
    PROVE  /\ ListOfEvents(SetBits(ClearedList(list), E))
           /\ EventsOf(SetBits(ClearedList(list), E)) = E
<1> DEFINE r == SetBits(ClearedList(list), E)
<1>1. r = [i \in Byte |-> {b \in Bit : 8 * i + b \in E}]
  BY ByteIsListed DEF SetBits, ClearedList
<1>2. ListOfEvents(r)
  BY <1>1 DEF ListOfEvents
<1>3. ASSUME NEW f \in Event
      PROVE  Shift(f) \in r[Index(f)] <=> f \in E
  BY <1>1, PlaceOfEvent
<1> QED
  BY <1>2, <1>3 DEF EventsOf

\* os_task_wait_queue_empty tells whether an event is missed.
LEMMA EmptyIsNone ==
    ASSUME EnoughBytes, NEW list, ListOfEvents(list)
    PROVE  EmptyList(list) <=> EventsOf(list) = {}
<1>1. ASSUME EmptyList(list)
      PROVE  EventsOf(list) = {}
  BY <1>1, PlaceOfEvent, ByteIsListed DEF EmptyList, EventsOf
<1>2. ASSUME NEW i \in Listed, list[i] # {}
      PROVE  EventsOf(list) # {}
  <2>1. PICK b \in list[i] : TRUE
    BY <1>2
  <2>2. i \in Byte /\ b \in Bit /\ 8 * i + b \in Event
    BY ByteIsListed DEF ListOfEvents
  <2> QED
    BY <2>2, EventOfPlace DEF EventsOf
<1> QED
  BY <1>1, <1>2 DEF EmptyList

-----------------------------------------------------------------------------
\* os_task_create clears the list before the first wait.
LEMMA BitsInit_Inv ==
    ASSUME EnoughBytes, BitsInit
    PROVE  BitsInv
BY PlaceOfEvent DEF BitsInit, BitsInv, ListOfEvents, BitsAreMissed, EventsOf,
                    waiting

\* os_task_signal_event ends the wait or goes on missing one event less.
LEMMA Signals_Inv ==
    ASSUME EnoughBytes, BitsInv, NEW e \in Event, Signals(e)
    PROVE  BitsInv'
<1> USE DEF BitsInv
<1>1. e \in missed <=> Shift(e) \in eventList[Index(e)]
  BY DEF BitsAreMissed, EventsOf
<1>2. CASE Wakes(e)
  <2> DEFINE list == ClearBit(eventList, e)
  <2>1. e \in missed /\ ListOfEvents(list) /\ EventsOf(list) = missed \ {e}
    BY <1>1, <1>2, ClearRemoves DEF Wakes, BitsAreMissed
  <2>2. EmptyList(list) <=> missed \ {e} = {}
    BY <2>1, EmptyIsNone
  <2>3. CASE waitSingleEvent \/ EmptyList(list)
    <3>1. /\ eventList' = ClearedList(list) /\ waitSingleEvent' = FALSE
          /\ state' = "READY"
      BY <1>2, <2>3 DEF Wakes
    <3>2. missed' = {}
      BY <2>1, <2>2, <2>3 DEF Signals
    <3> QED
      BY <3>1, <3>2, ClearedIsNone DEF BitsAreMissed, waiting
  <2>4. CASE ~(waitSingleEvent \/ EmptyList(list))
    <3>1. eventList' = list /\ UNCHANGED <<waitSingleEvent, state>> /\ waiting
      BY <1>2, <2>4 DEF Wakes
    <3>2. missed' = missed \ {e} /\ missed' # {}
      BY <2>2, <2>4 DEF Signals
    <3> QED
      BY <2>1, <3>1, <3>2 DEF BitsAreMissed, waiting
  <2> QED
    BY <2>3, <2>4
<1>3. CASE ~Wakes(e)
  <2>1. UNCHANGED <<eventList, waitSingleEvent, state>>
    BY <1>3 DEF Signals
  <2>2. e \notin missed
    BY <1>1, <1>3 DEF Signals, BitsAreMissed
  <2>3. missed' = missed
    BY <2>2 DEF Signals
  <2> QED
    BY <2>1, <2>3 DEF BitsAreMissed, waiting
<1> QED
  BY <1>2, <1>3

\* Every wait, signal and timeout.
LEMMA BitsNext_Inv ==
    ASSUME EnoughBytes, BitsInv, [BitsNext]_bitsVars
    PROVE  BitsInv'
<1> USE DEF BitsInv
<1>1. ASSUME NEW e \in Event, NEW timeout \in BOOLEAN, WaitsFor(e, timeout)
      PROVE  BitsInv'
  <2>1. EventsOf(eventList) = {}
    BY <1>1 DEF WaitsFor, BitsAreMissed
  <2>2. ListOfEvents(eventList') /\ EventsOf(eventList') = {e}
    BY <1>1, <2>1, SetAdds DEF WaitsFor
  <2>3. state' # "READY" /\ missed' = {e} /\ waitSingleEvent' = TRUE
    BY <1>1 DEF WaitsFor
  <2> QED
    BY <2>2, <2>3 DEF BitsAreMissed, waiting
<1>2. ASSUME NEW waitForAll \in BOOLEAN, NEW E \in (SUBSET Event) \ {{}},
             WaitsForMultiple(waitForAll, E)
      PROVE  BitsInv'
  <2>1. ListOfEvents(eventList') /\ EventsOf(eventList') = E
    BY <1>2, MultipleSets DEF WaitsForMultiple
  <2>2. state' # "READY" /\ missed' = E /\ waitSingleEvent' \in BOOLEAN
    BY <1>2 DEF WaitsForMultiple
  <2> QED
    BY <2>1, <2>2 DEF BitsAreMissed, waiting
<1>3. CASE TimesOut
  BY <1>3, ClearedIsNone DEF TimesOut, BitsAreMissed, waiting
<1>4. CASE UNCHANGED bitsVars
  BY <1>4 DEF bitsVars, BitsAreMissed, waiting
<1> QED
  BY <1>1, <1>2, <1>3, <1>4, Signals_Inv DEF BitsNext

\* Whatever the number of events, as long as EVENT_QUEUE_SIZE bytes hold a bit for
\* each (os_event.h), the bits of a task are the events it still misses and it
\* waits exactly while it misses one: the byte list does what the set of OsTask
\* does.
THEOREM BitsSuffice ==
    ASSUME EnoughBytes
    PROVE  BitsSpec => []BitsAreMissed
<1>1. BitsInit => BitsInv
  BY BitsInit_Inv
<1>2. BitsInv /\ [BitsNext]_bitsVars => BitsInv'
  BY BitsNext_Inv
<1>3. BitsInv => BitsAreMissed
  BY DEF BitsInv
<1> QED
  BY <1>1, <1>2, <1>3, PTL DEF BitsSpec
=============================================================================
