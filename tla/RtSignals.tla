----------------------------- MODULE RtSignals -----------------------------
(***************************************************************************)
(* rt_signals.c: a test queues three realtime signals to its child, one a  *)
(* second, and ends.  The child takes two of them with sigtimedwait and    *)
(* lets the third call its handler.  Nothing makes the parent wait for the *)
(* child, so each signal may be sent at any point of it: the seconds are   *)
(* left out.  A signal is the number of its sigqueue.                      *)
(***************************************************************************)
EXTENDS Naturals, Sequences

VARIABLES
  sent,       \* signals queued by parent
  waiting,    \* those that are pending
  child,      \* where the child is, or how it has ended
  taken,      \* what sigtimedwait and the handler have got, in this order
  early       \* history: sent before the child had blocked them, and the third
              \* before it had taken the second

rsvars == <<sent, waiting, child, taken, early>>

Total == 3
Wanted == 2                          \* count < 2
Number(s) == IF s = 2 THEN 1 ELSE 0  \* SIGRTMIN + ...

Init ==
  sent = 0 /\ waiting = {} /\ child = "start" /\ taken = <<>> /\ early = {}

Alive == child \in {"start", "wait", "action", "suspend"}

(* The pending signals with number n *)
Of(n) == {s \in waiting : Number(s) = n}
(* The lowest number is delivered first, and the oldest of that number. *)
Oldest(S) == CHOOSE s \in S : \A t \in S : s <= t
First     == Oldest(IF Of(0) = {} THEN Of(1) ELSE Of(0))

(* parent: a signal that is not blocked kills the child, SIGRTMIN in       *)
(* sigsuspend calls the handler.  A child that has ended is not yet waited *)
(* for, and sigqueue succeeds.                                             *)
Sigqueue ==
  /\ sent < Total /\ child # "killed_by_the_library"
  /\ LET s == sent + 1
     IN /\ sent' = s
        /\ early' = IF child = "start" \/ (s = Total /\ child = "wait")
                      THEN early \cup {s} ELSE early
        /\ waiting' = waiting \cup {s}
  /\ UNCHANGED <<child, taken>>

(* Before sigprocmask, and in sigsuspend, a signal without a handler. *)
Die ==
  /\ \/ child = "start" /\ waiting # {}
     \/ child = "suspend" /\ Of(0) = {} /\ Of(1) # {}
  /\ child' = "killed" /\ UNCHANGED <<sent, waiting, taken, early>>

Sigprocmask ==
  /\ child = "start" /\ waiting = {}
  /\ child' = "wait" /\ UNCHANGED <<sent, waiting, taken, early>>

(* Takes the next one.  When there is none within a second it is called    *)
(* again, which changes nothing.                                           *)
Sigtimedwait ==
  /\ child = "wait" /\ waiting # {}
  /\ taken' = Append(taken, First)
  /\ waiting' = waiting \ {First}
  /\ child' = IF Len(taken) + 1 < Wanted THEN "wait" ELSE "action"
  /\ UNCHANGED <<sent, early>>

Sigaction ==
  /\ child = "action" /\ child' = "suspend" /\ UNCHANGED <<sent, waiting, taken, early>>

(* rt_handler returns, and so do sigsuspend and the test in the child. *)
Handler ==
  /\ child = "suspend" /\ Of(0) # {}
  /\ taken' = Append(taken, First)
  /\ waiting' = waiting \ {First}
  /\ child' = "done"
  /\ UNCHANGED <<sent, early>>

(* The test has ended with the parent, and what is left of its group is    *)
(* killed.                                                                 *)
Killpg ==
  /\ sent = Total /\ Alive
  /\ child' = "killed_by_the_library" /\ UNCHANGED <<sent, waiting, taken, early>>

Child == Die \/ Sigprocmask \/ Sigtimedwait \/ Sigaction \/ Handler
Next  == Sigqueue \/ Child \/ Killpg

Spec == Init /\ [][Next]_rsvars

(* Both processes run; whether the library kills the child in time to      *)
(* matter is left open.                                                    *)
FairSpec == Spec /\ WF_rsvars(Sigqueue) /\ WF_rsvars(Child)
-----------------------------------------------------------------------------
TypeOK ==
  /\ sent \in 0 .. Total /\ waiting \subseteq 1 .. Total /\ taken \in Seq(1 .. Total)
  /\ child \in {"start", "wait", "action", "suspend", "done", "killed", "killed_by_the_library"}
  /\ early \subseteq 1 .. Total

(* Unless one is early the child gets all three in the order of their      *)
(* sending, although those pending are not delivered in that order, and is *)
(* killed by none of them.                                                 *)
InTurn ==
  /\ early = {} => \A i \in DOMAIN taken : taken[i] = i
  /\ child = "killed" => early # {}
  /\ child = "done"   => Len(taken) = Total

(* The child never waits for a signal that has been taken before: with the *)
(* time-outs and without the library it still ends.                        *)
ChildEnds == <>~Alive
=============================================================================
