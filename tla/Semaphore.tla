----------------------------- MODULE Semaphore -----------------------------
(***************************************************************************)
(* What a set of bounded counting semaphores promises to its callers,      *)
(* without clocks, schedulers or task control blocks.  Every signal is     *)
(* given to exactly one waiter or kept, up to the limit; a wait takes a    *)
(* token or joins the waiters of that one semaphore; a task is let through *)
(* a wait that blocked by a signal of that semaphore and by nothing else.  *)
(* A waiter can be withdrawn (it is suspended or killed).                  *)
(***************************************************************************)
EXTENDS Naturals

CONSTANTS Task, Sem

VARIABLES
    value, limit,  \* tokens of each semaphore and how many it can keep
    blocked,       \* its waiters
    released,      \* tasks let through, that have not moved on yet
    last           \* what the last step was to its caller

vars == <<value, limit, blocked, released, last>>

None       == [call |-> "none", sem |-> 0]
SignalOf(s) == [call |-> "signal", sem |-> s]
TakeOf(s)   == [call |-> "take", sem |-> s]

Init ==
    /\ value = [s \in Sem |-> 0]
    /\ limit = [s \in Sem |-> 0]
    /\ blocked = [s \in Sem |-> {}]
    /\ released = {}
    /\ last = None

Create(s) ==
    /\ blocked[s] = {}
    /\ value[s] = 0 /\ limit[s] = 0
    /\ limit'[s] \in Nat /\ limit' = [limit EXCEPT ![s] = limit'[s]]
    /\ value'[s] \in Nat /\ value' = [value EXCEPT ![s] = value'[s]]
    /\ last' = None
    /\ UNCHANGED <<blocked, released>>

Take(s) ==
    /\ value[s] > 0
    /\ value' = [value EXCEPT ![s] = @ - 1]
    /\ last' = TakeOf(s)
    /\ UNCHANGED <<limit, blocked, released>>

Block(t, s) ==
    /\ value[s] = 0
    /\ \A r \in Sem : t \notin blocked[r]
    /\ blocked' = [blocked EXCEPT ![s] = @ \cup {t}]
    /\ released' = released \ {t}
    /\ last' = None
    /\ UNCHANGED <<value, limit>>

\* A signal without waiters is kept, unless the semaphore is full.
Signal(s) ==
    /\ blocked[s] = {}
    /\ value' = [value EXCEPT ![s] = IF @ < limit[s] THEN @ + 1 ELSE @]
    /\ last' = SignalOf(s)
    /\ UNCHANGED <<limit, blocked, released>>

\* A signal with waiters goes to one of them.  The caller may move on from an
\* earlier wait in the same step.
Grant(t, s) ==
    /\ t \in blocked[s]
    /\ blocked' = [blocked EXCEPT ![s] = @ \ {t}]
    /\ \E u \in Task : released' = (released \ {u}) \cup {t}
    /\ last' = SignalOf(s)
    /\ UNCHANGED <<value, limit>>

Withdraw(t, s) ==
    /\ t \in blocked[s]
    /\ blocked' = [blocked EXCEPT ![s] = @ \ {t}]
    /\ last' = None
    /\ UNCHANGED <<value, limit, released>>

MoveOn(t) ==
    /\ released' = released \ {t}
    /\ last' = None
    /\ UNCHANGED <<value, limit, blocked>>

\* A step of the system that is no concern of the semaphores.
Elsewhere ==
    /\ last' = None
    /\ UNCHANGED <<value, limit, blocked, released>>

Next ==
    \/ \E s \in Sem :
          \/ Create(s) \/ Take(s) \/ Signal(s)
          \/ \E t \in Task : Block(t, s) \/ Grant(t, s) \/ Withdraw(t, s)
    \/ \E t \in Task : MoveOn(t)
    \/ Elsewhere

Spec == Init /\ [][Next]_vars

\* A token is never idle while somebody waits for it.
NoIdleToken == \A s \in Sem : value[s] > 0 => blocked[s] = {}
=============================================================================
