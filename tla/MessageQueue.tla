---------------------------- MODULE MessageQueue ----------------------------
(***************************************************************************)
(* mqueue.c, mqueue_sig.c and mqueue_thread.c: a test forks a child that   *)
(* sends one message through the POSIX message queue "/my_queue", and      *)
(* receives it: blocking, after the signal of mq_notify, or in the thread  *)
(* that mq_notify starts.  All three use one name, and a queue outlives    *)
(* the processes: a run may find what a killed run left, or share its      *)
(* queue with a run that is under way.                                     *)
(*                                                                         *)
(* Queue q is the one that run q created.  All messages have one text and  *)
(* one priority, so a message is the number of the run that sent it.  A    *)
(* run is a process group of the check library, which kills the whole      *)
(* group when the test ends or takes too long.                             *)
(***************************************************************************)
EXTENDS Naturals, Sequences, FiniteSets

CONSTANTS
  Runs,        \* executions of one of the programs
  MaxMsg,      \* mq_maxmsg
  MaxKills     \* bound on runs killed from outside

QueueAssumption ==
  /\ Runs \subseteq Nat \ {0} /\ IsFiniteSet(Runs)
  /\ MaxMsg \in Nat \ {0} /\ MaxKills \in Nat

NoQueue == 0
Kinds   == {"plain", "signal", "thread"}

VARIABLES
  kind,        \* the program of each run
  main, kid,   \* where the test and its child are
  name,        \* the queue that QUEUE_NAME denotes
  msgs, reg,   \* content of each queue; the run registered by mq_notify
  held,        \* the queue that ds of each run refers to
  blocked,     \* runs that have SIGUSR1 blocked
  pend,        \* runs with SIGUSR1 pending, or whose thread has been started
  recved,      \* runs whose thread has set msg_recved
  overlapped,  \* history: runs during which another one was under way
  kills

queues == <<name, msgs, reg, held>>
vars   == <<kind, main, kid, queues, blocked, pend, recved, overlapped, kills>>

Init ==
  /\ kind \in [Runs -> Kinds]
  /\ main = [r \in Runs |-> "start"] /\ kid = [r \in Runs |-> "none"]
  /\ name = NoQueue
  /\ msgs = [r \in Runs |-> <<>>] /\ reg = [r \in Runs |-> NoQueue]
  /\ held = [r \in Runs |-> NoQueue]
  /\ blocked = {} /\ pend = {} /\ recved = {}
  /\ overlapped = {} /\ kills = 0

Over     == {"passed", "noname", "nomsg", "busy", "full", "timeout", "killed"}
At(r, l) == main[r] = l
Go(r, l) == main' = [main EXCEPT ![r] = l]
Alive(r) == main[r] \notin {"start"} \cup Over
Under(r) == Alive(r) \/ kid[r] = "send"

(* A process that ends or closes loses its registration. *)
Dropped(r) == [q \in Runs |-> IF reg[q] = r THEN NoQueue ELSE reg[q]]
-----------------------------------------------------------------------------
(* The test.  mqueue.c opens the queue as it is, the others unlink the     *)
(* name first and do not look at the result.                               *)

Start(r) ==
  /\ At(r, "start")
  /\ overlapped' = overlapped \cup
       (LET others == {o \in Runs \ {r} : Under(o)} IN IF others = {} THEN {} ELSE others \cup {r})
  /\ name' = IF kind[r] = "plain" THEN name ELSE NoQueue
  /\ Go(r, "open")
  /\ UNCHANGED <<kind, kid, msgs, reg, held, blocked, pend, recved, kills>>

(* mq_open with O_CREAT and without O_EXCL *)
Open(r) ==
  /\ At(r, "open")
  /\ LET q == IF name = NoQueue THEN r ELSE name
     IN /\ name' = q /\ held' = [held EXCEPT ![r] = q]
  /\ Go(r, CASE kind[r] = "plain"  -> "fork"
             [] kind[r] = "signal" -> "block"
             [] kind[r] = "thread" -> "notify")
  /\ UNCHANGED <<kind, kid, msgs, reg, blocked, pend, recved, overlapped, kills>>

(* Mutant of Block: the signal is not blocked. *)
BlockNot(r) ==
  /\ At(r, "block") /\ Go(r, "notify")
  /\ UNCHANGED <<kind, kid, queues, blocked, pend, recved, overlapped, kills>>

(* sigprocmask, then sigaction, before there is anything to be notified of *)
Block(r) ==
  /\ At(r, "block")
  /\ blocked' = blocked \cup {r} /\ Go(r, "notify")
  /\ UNCHANGED <<kind, kid, queues, pend, recved, overlapped, kills>>

(* One process at a time can be registered with a queue. *)
Notify(r) ==
  /\ At(r, "notify")
  /\ IF reg[held[r]] = NoQueue
       THEN reg' = [reg EXCEPT ![held[r]] = r] /\ Go(r, "fork")
       ELSE Go(r, "busy") /\ UNCHANGED reg
  /\ UNCHANGED <<kind, kid, name, msgs, held, blocked, pend, recved, overlapped, kills>>

Fork(r) ==
  /\ At(r, "fork")
  /\ kid' = [kid EXCEPT ![r] = "send"]
  /\ Go(r, CASE kind[r] = "plain"  -> "receive"
             [] kind[r] = "signal" -> "suspend"
             [] kind[r] = "thread" -> "spin")
  /\ UNCHANGED <<kind, queues, blocked, pend, recved, overlapped, kills>>

(* The handler does nothing but end sigsuspend, which unblocks SIGUSR1. *)
Handler(r) ==
  /\ kind[r] = "signal" /\ r \in pend /\ Alive(r)
  /\ \/ At(r, "suspend") /\ Go(r, "receive")
     \/ r \notin blocked /\ UNCHANGED main      \* and then it waits for another one
  /\ pend' = pend \ {r}
  /\ UNCHANGED <<kind, kid, queues, blocked, recved, overlapped, kills>>

(* mq_receive waits in mqueue.c, and fails on an empty queue in mqueue_sig.c *)
Receive(r) ==
  /\ At(r, "receive")
  /\ LET q == held[r]
     IN IF msgs[q] = <<>>
          THEN kind[r] = "signal" /\ Go(r, "nomsg") /\ UNCHANGED msgs
          ELSE msgs' = [msgs EXCEPT ![q] = Tail(@)] /\ Go(r, "close")
  /\ UNCHANGED <<kind, kid, name, reg, held, blocked, pend, recved, overlapped, kills>>

(* thread_starter receives without waiting and ends the wait for           *)
(* msg_recved; when it fails, so does the test.                            *)
ThreadStarter(r) ==
  /\ kind[r] = "thread" /\ r \in pend /\ Alive(r)
  /\ pend' = pend \ {r}
  /\ LET q == held[r]
     IN IF msgs[q] = <<>>
          THEN Go(r, "nomsg") /\ UNCHANGED <<msgs, recved>>
          ELSE /\ msgs' = [msgs EXCEPT ![q] = Tail(@)] /\ recved' = recved \cup {r}
               /\ UNCHANGED main
  /\ UNCHANGED <<kind, kid, name, reg, held, blocked, overlapped, kills>>

Spin(r) ==
  /\ At(r, "spin") /\ r \in recved
  /\ Go(r, "close")
  /\ UNCHANGED <<kind, kid, queues, blocked, pend, recved, overlapped, kills>>

Close(r) ==
  /\ At(r, "close")
  /\ reg' = Dropped(r)
  /\ Go(r, "unlink")
  /\ UNCHANGED <<kind, kid, name, msgs, held, blocked, pend, recved, overlapped, kills>>

Unlink(r) ==
  /\ At(r, "unlink")
  /\ name' = NoQueue
  /\ Go(r, IF name = NoQueue THEN "noname" ELSE "wait")
  /\ UNCHANGED <<kind, kid, msgs, reg, held, blocked, pend, recved, overlapped, kills>>

(* check_waitpid_and_exit *)
Wait(r) ==
  /\ At(r, "wait") /\ kid[r] \in {"sent", "full"}
  /\ Go(r, IF kid[r] = "sent" THEN "passed" ELSE "full")
  /\ UNCHANGED <<kind, kid, queues, blocked, pend, recved, overlapped, kills>>
-----------------------------------------------------------------------------
(* The child *)

(* mq_send.  A message that a process is waiting for is handed over; one   *)
(* that meets an empty queue otherwise uses up the registration.           *)
HandOver(r) ==
  /\ kid[r] = "send"
  /\ \E w \in Runs :
       /\ kind[w] = "plain" /\ At(w, "receive") /\ held[w] = held[r] /\ msgs[held[r]] = <<>>
       /\ Go(w, "close")
  /\ kid' = [kid EXCEPT ![r] = "sent"]
  /\ UNCHANGED <<kind, queues, blocked, pend, recved, overlapped, kills>>

Send(r) ==
  /\ kid[r] = "send"
  /\ LET q == held[r]
     IN /\ Len(msgs[q]) < MaxMsg
        /\ msgs' = [msgs EXCEPT ![q] = Append(@, r)]
        /\ IF msgs[q] = <<>> /\ reg[q] # NoQueue
             THEN pend' = pend \cup {reg[q]} /\ reg' = [reg EXCEPT ![q] = NoQueue]
             ELSE UNCHANGED <<pend, reg>>
  /\ kid' = [kid EXCEPT ![r] = "sent"]
  /\ UNCHANGED <<kind, main, name, held, blocked, recved, overlapped, kills>>

(* A full queue: mqueue.c waits, the others opened it with O_NONBLOCK. *)
SendFull(r) ==
  /\ kid[r] = "send" /\ kind[r] # "plain" /\ Len(msgs[held[r]]) = MaxMsg
  /\ kid' = [kid EXCEPT ![r] = "full"]
  /\ UNCHANGED <<kind, main, queues, blocked, pend, recved, overlapped, kills>>
-----------------------------------------------------------------------------
(* The check library *)

Gone(r) ==
  /\ kid' = [kid EXCEPT ![r] = IF @ = "send" THEN "gone" ELSE @]
  /\ reg' = Dropped(r) /\ pend' = pend \ {r}

(* The test has failed: what is left of its group is killed. *)
Reap(r) ==
  /\ main[r] \in Over /\ kid[r] = "send"
  /\ Gone(r) /\ UNCHANGED <<kind, main, name, msgs, held, blocked, recved, overlapped, kills>>

(* The test takes too long: it waits for what no process of its own will do. *)
Stuck(r) ==
  \/ /\ kid[r] \in {"sent", "full"} /\ r \notin pend
     /\ \/ At(r, "suspend")
        \/ At(r, "spin") /\ r \notin recved
        \/ At(r, "receive") /\ kind[r] = "plain" /\ msgs[held[r]] = <<>>
  \/ At(r, "wait") /\ kid[r] = "send" /\ Len(msgs[held[r]]) = MaxMsg
Timeout(r) ==
  /\ Stuck(r) /\ Go(r, "timeout") /\ Gone(r)
  /\ UNCHANGED <<kind, name, msgs, held, blocked, recved, overlapped, kills>>

(* Somebody kills the run, and its queue stays. *)
Kill(r) ==
  /\ Alive(r) /\ kills < MaxKills /\ kills' = kills + 1
  /\ Go(r, "killed") /\ Gone(r)
  /\ UNCHANGED <<kind, name, msgs, held, blocked, recved, overlapped>>

Step(r) ==
  \/ Open(r) \/ Block(r) \/ Notify(r) \/ Fork(r) \/ Handler(r) \/ Receive(r)
  \/ ThreadStarter(r) \/ Spin(r) \/ Close(r) \/ Unlink(r) \/ Wait(r)
  \/ HandOver(r) \/ Send(r) \/ SendFull(r) \/ Reap(r) \/ Timeout(r)

Next == \E r \in Runs : Start(r) \/ Step(r) \/ Kill(r)

Spec == Init /\ [][Next]_vars

(* A process that can go on does, and the library enforces its time limit; *)
(* nobody has to start a program, or kill it.                              *)
Fairness == \A r \in Runs : WF_vars(Step(r))
FairSpec == Spec /\ Fairness
-----------------------------------------------------------------------------
TypeOK ==
  /\ kind \in [Runs -> Kinds]
  /\ main \in [Runs -> Over \cup {"start", "open", "block", "notify", "fork", "receive",
                                  "suspend", "spin", "close", "unlink", "wait"}]
  /\ kid \in [Runs -> {"none", "send", "sent", "full", "gone"}]
  /\ name \in Runs \cup {NoQueue} /\ held \in [Runs -> Runs \cup {NoQueue}]
  /\ \A q \in Runs : msgs[q] \in Seq(Runs) /\ Len(msgs[q]) <= MaxMsg
  /\ reg \in [Runs -> Runs \cup {NoQueue}]
  /\ blocked \subseteq Runs /\ pend \subseteq Runs /\ recved \subseteq Runs
  /\ overlapped \subseteq Runs /\ kills \in 0 .. MaxKills

(* Whatever killed runs left in the queue, a run that has the name to      *)
(* itself passes, unless it is killed, too: the notification is not lost   *)
(* between mq_notify, sigsuspend and mq_receive, the receive that does not *)
(* wait finds the message, and a full queue is emptied for the child.      *)
AlonePasses ==
  \A r \in Runs : main[r] \in Over \ {"passed", "killed"} => r \in overlapped

(* Every run that has started ends. *)
RunsEnd == \A r \in Runs : Alive(r) ~> main[r] \in Over
=============================================================================
