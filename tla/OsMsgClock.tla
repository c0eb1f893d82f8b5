----------------------------- MODULE OsMsgClock -----------------------------
(***************************************************************************)
(* One message queue with an outside observer of the master clock: left[s] *)
(* is the number of ticks until the message s is to be received, as the    *)
(* docs of msg_post_in and msg_post_every have it (os_kernel.h).  A delay  *)
(* runs from the post.  The periods of a periodic message follow each      *)
(* other on the clock, whenever its reader comes for it.                   *)
(***************************************************************************)
EXTENDS OsMsgRing

VARIABLE left

clockVars == <<vars, left>>

ClockInit == Init /\ left = [s \in Signal |-> 0]

\* Bound: a message that is late by DELAY_MAX, a whole period, counts no further.
OneLess(n) == IF n > -DELAY_MAX THEN n - 1 ELSE n

ClockNext ==
    \/ \E s \in Signal, delay \in Delays :
          Post(s, delay, 0) /\ left' = [left EXCEPT ![s] = delay]
    \/ \E s \in Signal, period \in Periods :
          Post(s, period, period) /\ left' = [left EXCEPT ![s] = period]
    \/ (ReceiveEmpty \/ ReceiveBegin \/ CopyOut \/ PutBack) /\ UNCHANGED left
    \/ ReceiveEnd /\ left' = [left EXCEPT ![msg.signal] = @ + msg.reload]
    \/ Tick /\ left' = [s \in Signal |-> OneLess(left[s])]

ClockSpec == ClockInit /\ [][ClockNext]_clockVars

-----------------------------------------------------------------------------
OnTime(m, clock) ==
    m.delay = IF clock[m.signal] > 0 THEN clock[m.signal] ELSE 0

\* "The message will be received by the receiver task when the delay has expired.
\* The delay is related to the master clock" (os_kernel.h, msg_post_in): wherever
\* the rotation has put a message, its delay is the time the clock says is left,
\* no tick missed and none counted twice (os_msgQ_tick, os_msg_receive).  A tick
\* that interrupts os_msg_receive breaks it, and so does a reader that comes late
\* for a periodic message, whose next period starts when it is received.
OnMasterClock == \A k \in DOMAIN Contents : OnTime(Contents[k], left)

\* What is left of it where no tick interrupts os_msg_receive (os_start_locking):
\* the messages that are not periodic keep the time of the clock.
DelaysOnTime ==
    \A k \in DOMAIN Contents : Contents[k].reload = 0 => OnTime(Contents[k], left)
=============================================================================
