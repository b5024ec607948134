------------------------------ MODULE RtTimers ------------------------------
(***************************************************************************)
(* rt_timers.c: a test arms a periodic timer, sleeps three seconds at a    *)
(* time, and quits when the handler of the timer's signal has counted two  *)
(* expirations.  The check library gives it ten seconds.                   *)
(*                                                                         *)
(* Time is counted in seconds.  What the test computes takes no time, but  *)
(* it may be held up anywhere for as long as it pleases; then expirations  *)
(* are merged into one signal, and a signal is handled between the test of *)
(* the counter and the call of clock_nanosleep, which sleeps for its whole *)
(* time then.                                                              *)
(***************************************************************************)
EXTENDS Integers

VARIABLES
  now,
  loop,        \* where the test is
  wake,        \* when clock_nanosleep ends by itself
  next,        \* when the timer expires next; never is disarmed
  pending,     \* its signal is pending
  overrun,     \* expirations since that signal was queued
  expire,      \* the counter of the handler
  expired,     \* history: expirations so far
  heldUp       \* history: seconds in which the test was ready and did not run

rtvars == <<now, loop, wake, next, pending, overrun, expire, expired, heldUp>>

Limit     == 10     \* tcase_set_timeout
MaxExpire == 2
Value     == 5      \* it_value, it_interval and the time slept
Interval  == 4
Nap       == 3
Never     == Limit + Value + Interval

Init ==
  /\ now = 0 /\ loop = "arm" /\ wake = 0 /\ next = Never
  /\ pending = FALSE /\ overrun = 0 /\ expire = 0 /\ expired = 0 /\ heldUp = 0

Over == {"quit", "timeout"}

(* timer_settime, after the handler has been registered *)
Arm ==
  /\ loop = "arm" /\ next' = now + Value /\ loop' = "nap"
  /\ UNCHANGED <<now, wake, pending, overrun, expire, expired, heldUp>>

ClockNanosleep ==
  /\ loop = "nap" /\ ~pending
  /\ wake' = now + Nap /\ loop' = "asleep"
  /\ UNCHANGED <<now, next, pending, overrun, expire, expired, heldUp>>

Wake ==
  /\ loop = "asleep" /\ wake <= now /\ ~pending
  /\ loop' = "look"
  /\ UNCHANGED <<now, wake, next, pending, overrun, expire, expired, heldUp>>

(* timer_handler.  timer_getoverrun is given the address of a field of     *)
(* siginfo in place of the timer: it fails, or finds the timer all the     *)
(* same.  The signal ends the sleep.                                       *)
TimerHandler ==
  /\ pending /\ loop \notin Over
  /\ pending' = FALSE /\ overrun' = 0
  /\ \E counted \in {-1, overrun} :
       expire' = expire + 1 + (IF counted = -1 THEN 0 ELSE counted)
  /\ loop' = IF loop = "asleep" THEN "look" ELSE loop
  /\ UNCHANGED <<now, wake, next, expired, heldUp>>

(* if (MAX_EXPIRE <= expire): disarm and exit *)
Look ==
  /\ loop = "look" /\ ~pending
  /\ IF MaxExpire <= expire THEN loop' = "quit" /\ next' = Never
                            ELSE loop' = "nap" /\ UNCHANGED next
  /\ UNCHANGED <<now, wake, pending, overrun, expire, expired, heldUp>>

Test == Arm \/ ClockNanosleep \/ Wake \/ TimerHandler \/ Look

(* A second passes; the timer may expire. *)
Tick ==
  /\ loop \notin Over /\ now < Limit
  /\ now' = now + 1
  /\ heldUp' = IF loop = "asleep" /\ ~pending /\ now < wake THEN heldUp ELSE heldUp + 1
  /\ IF next = now + 1
       THEN /\ next' = next + Interval /\ expired' = expired + 1 /\ pending' = TRUE
            /\ overrun' = IF pending THEN overrun + 1 ELSE 0
       ELSE UNCHANGED <<next, expired, pending, overrun>>
  /\ UNCHANGED <<loop, wake, expire>>

Timeout ==
  /\ loop \notin Over /\ now = Limit /\ loop' = "timeout"
  /\ UNCHANGED <<now, wake, next, pending, overrun, expire, expired, heldUp>>

Next == Test \/ Tick \/ Timeout

Spec == Init /\ [][Next]_rtvars

(* The test runs, and time passes. *)
FairSpec == Spec /\ WF_rtvars(Test) /\ WF_rtvars(Tick \/ Timeout)
-----------------------------------------------------------------------------
TypeOK ==
  /\ now \in 0 .. Limit /\ loop \in {"arm", "nap", "asleep", "look"} \cup Over
  /\ wake \in 0 .. Limit + Nap /\ next \in 1 .. Never
  /\ pending \in BOOLEAN /\ {overrun, expire, expired, heldUp} \subseteq Nat

(* A test that is not held up quits with its second expiration, a second   *)
(* before its time limit: none of its sleeps swallows a signal.  One that  *)
(* quits has seen two expirations, however they were merged and whatever   *)
(* timer_getoverrun answers.                                               *)
QuitsInTime ==
  /\ loop = "timeout" => heldUp > 0
  /\ loop = "quit" => expired >= MaxExpire /\ now >= Value + Interval
  /\ loop = "quit" /\ heldUp = 0 => now = Value + Interval
  /\ expire <= expired

TestEnds == <>(loop \in Over)
=============================================================================
