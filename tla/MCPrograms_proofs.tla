-------------------------- MODULE MCPrograms_proofs --------------------------
(***************************************************************************)
(* Proofs about the small process trees of MCPrograms.tla, for any number  *)
(* of runs of the message queue programs and of clients, any length of     *)
(* queue and backlog and any capacity of a terminal.  Each program has an  *)
(* inductive invariant of its own, about its module of that name; at the   *)
(* end they are put together for the specification that is checked.        *)
(***************************************************************************)
EXTENDS MCPrograms, SequenceTheorems, TLAPS

(* What is assumed of the constants, for each program that has some.       *)
LEMMA QueueParameters == Queue!QueueAssumption
BY Assumptions
LEMMA TestsParameters == Sockets!TestsAssumption
BY Assumptions
LEMMA ConnParameters == Connections!ConnAssumption
BY Assumptions
LEMMA PtyParameters == Terminal!PtyAssumption
BY Assumptions
-----------------------------------------------------------------------------
(***************************************************************************)
(* MessageQueue: mqueue.c, mqueue_sig.c, mqueue_thread.c.  A run that has  *)
(* the name to itself is on a course on which what it waits for is either  *)
(* still to come from its own child or already there.                      *)
(***************************************************************************)

(* Where a run is that has opened a queue, and where its child is not      *)
(* forked yet.                                                             *)
Opened    == {"block", "notify", "fork", "suspend", "spin", "receive", "close", "unlink", "wait"}
Before    == {"start", "open", "block", "notify"}
Size(q)   == Len(msgs[q])

(* The types, and no queue longer than it may be.                          *)
QueueShape ==
  /\ kind \in [Runs -> Queue!Kinds]
  /\ main \in [Runs -> Queue!Over \cup Opened \cup {"start", "open"}]
  /\ kid \in [Runs -> {"none", "send", "sent", "full", "gone"}]
  /\ name \in Runs \cup {Queue!NoQueue} /\ held \in [Runs -> Runs \cup {Queue!NoQueue}]
  /\ msgs \in [Runs -> Seq(Runs)] /\ \A q \in Runs : Size(q) <= MaxMsg
  /\ reg \in [Runs -> Runs \cup {Queue!NoQueue}]
  /\ blocked \subseteq Runs /\ pend \subseteq Runs /\ recved \subseteq Runs
  /\ overlapped \subseteq Runs /\ kills \in 0 .. MaxKills

(* Who has opened a queue holds one; one not yet created is nobody's. *)
Holding ==
  \A r \in Runs :
    /\ main[r] \in Opened \/ kid[r] = "send" => held[r] \in Runs
    /\ main[r] \in Before => r \notin pend /\ r \notin recved /\ kid[r] = "none"
    /\ main[r] \in {"block", "notify"} => kind[r] # "plain"
    /\ main[r] \in {"start", "open"} =>
         Size(r) = 0 /\ name # r /\ \A o \in Runs : held[o] # r

(* Who is registered is so with the queue he holds, and waits. *)
Registered ==
  \A q, r \in Runs : reg[q] = r =>
    /\ q = held[r] /\ kind[r] # "plain" /\ main[r] \in {"fork", "suspend", "spin"}
    /\ r \notin pend /\ r \notin recved

(* mqueue.c: the parent receives what its child has sent or is going to    *)
(* send.                                                                   *)
PlainCourse(r) ==
  /\ main[r] \in {"open", "fork", "receive", "close", "unlink", "wait"}
  /\ main[r] \in {"open", "fork"} => kid[r] = "none"
  /\ main[r] = "receive" => kid[r] = "send" \/ (kid[r] = "sent" /\ Size(held[r]) > 0)
  /\ main[r] \in {"close", "unlink", "wait"} =>
       kid[r] = "sent" \/ (kid[r] = "send" /\ Size(held[r]) < MaxMsg)

(* Whoever asks to be notified created the queue, and it is empty until he *)
(* is registered.                                                          *)
NotifiedCourse(r) ==
  /\ main[r] = "open" => name = Queue!NoQueue
  /\ main[r] \in Opened => held[r] = r
  /\ main[r] \in {"open", "block", "notify", "fork"} => kid[r] = "none" /\ Size(r) = 0
  /\ main[r] = "fork" => reg[r] = r
  /\ main[r] \in {"close", "unlink", "wait"} => kid[r] = "sent"

(* mqueue_sig.c: SIGUSR1 is blocked before it can come, so it is pending   *)
(* when the message is there.                                              *)
SignalCourse(r) ==
  /\ main[r] \in {"open", "block", "notify", "fork", "suspend", "receive", "close", "unlink",
        "wait"}
  /\ main[r] \notin {"open", "block"} => r \in blocked
  /\ main[r] = "suspend" =>
       \/ kid[r] = "send" /\ reg[r] = r /\ Size(r) = 0
       \/ kid[r] = "sent" /\ r \in pend /\ Size(r) > 0
  /\ main[r] = "receive" => kid[r] = "sent" /\ Size(r) > 0

(* mqueue_thread.c: the thread is still to be started, or has received the *)
(* message.                                                                *)
ThreadCourse(r) ==
  /\ main[r] \in {"open", "notify", "fork", "spin", "close", "unlink", "wait"}
  /\ main[r] = "spin" =>
       \/ kid[r] = "send" /\ reg[r] = r /\ Size(r) = 0
       \/ kid[r] = "sent" /\ r \in pend /\ r \notin recved /\ Size(r) > 0
       \/ kid[r] = "sent" /\ r \notin pend /\ r \in recved
  /\ main[r] \in {"fork", "close", "unlink", "wait"} => r \notin pend

OnCourse(r) ==
  /\ main[r] \in Opened \ {"wait"} => name = held[r]
  /\ kind[r] = "plain"  => PlainCourse(r)
  /\ kind[r] # "plain"  => NotifiedCourse(r)
  /\ kind[r] = "signal" => SignalCourse(r)
  /\ kind[r] = "thread" => ThreadCourse(r)

(* A run that has the name to itself is where it should be. *)
Lonely(r) ==
  r \notin overlapped =>
    /\ main[r] \in Queue!Over => main[r] \in {"passed", "killed"}
    /\ Queue!Under(r) => \A o \in Runs \ {r} : ~Queue!Under(o)
    /\ Queue!Alive(r) => OnCourse(r)

QueueInv == QueueShape /\ Holding /\ Registered /\ \A r \in Runs : Lonely(r)

USE DEF Opened, Before, Queue!Over, Queue!Kinds, Queue!NoQueue

LEMMA QueueInit == Queue!Init => QueueInv
<1> SUFFICES ASSUME Queue!Init PROVE QueueInv OBVIOUS
<1>0. \A r \in Runs : r # 0 BY QueueParameters DEF Queue!QueueAssumption
<1>1. <<>> \in Seq(Runs) /\ Len(<<>>) = 0 BY SMT
<1>2. QueueShape
  BY <1>1, QueueParameters, SMT DEF Queue!QueueAssumption, Queue!Init, QueueShape, Size
<1>3. Holding BY <1>0, <1>1, SMT DEF Queue!Init, Holding, Size
<1>4. Registered BY <1>0, SMT DEF Queue!Init, Registered
<1>5. ASSUME NEW r \in Runs PROVE Lonely(r)
  BY SMT DEF Queue!Init, Lonely, Queue!Under, Queue!Alive
<1> QED BY <1>2, <1>3, <1>4, <1>5 DEF QueueInv

(* What the invariant is for.                                              *)
LEMMA QueueSafe == QueueInv => Queue!TypeOK /\ Queue!AlonePasses
<1> SUFFICES ASSUME QueueInv PROVE Queue!TypeOK /\ Queue!AlonePasses OBVIOUS
<1>1. Queue!TypeOK BY SMT DEF QueueInv, QueueShape, Queue!TypeOK, Size
<1>2. Queue!AlonePasses BY SMT DEF QueueInv, Lonely, Queue!AlonePasses
<1> QED BY <1>1, <1>2

(* Only a run that is under way does anything but begin, and what it does  *)
(* leaves the others where they are, but for one that it hands its message.*)
Acts(p) ==
  /\ Queue!Under(p) /\ overlapped' = overlapped /\ kind' = kind
  /\ \A r \in Runs \ {p} : kid'[r] = kid[r] /\ (main'[r] = main[r] \/ main[r] = "receive")

(* Each step of a run, and a kill, is one of those.                        *)
LEMMA Acting == ASSUME QueueShape, NEW p \in Runs, Queue!Step(p) \/ Queue!Kill(p) PROVE Acts(p)
<1> USE DEF QueueShape, Acts, Queue!Under, Queue!Alive, Queue!At, Queue!Go, Queue!queues,
      Queue!Gone
<1>1. CASE Queue!Open(p) BY <1>1, SMT DEF Queue!Open
<1>2. CASE Queue!Block(p) BY <1>2, SMT DEF Queue!Block
<1>3. CASE Queue!Notify(p) BY <1>3, SMT DEF Queue!Notify
<1>4. CASE Queue!Fork(p) BY <1>4, SMT DEF Queue!Fork
<1>5. CASE Queue!Handler(p) BY <1>5, SMT DEF Queue!Handler
<1>6. CASE Queue!Receive(p) BY <1>6, SMT DEF Queue!Receive
<1>7. CASE Queue!ThreadStarter(p) BY <1>7, SMT DEF Queue!ThreadStarter
<1>8. CASE Queue!Spin(p) BY <1>8, SMT DEF Queue!Spin
<1>9. CASE Queue!Close(p) BY <1>9, SMT DEF Queue!Close
<1>10. CASE Queue!Unlink(p) BY <1>10, SMT DEF Queue!Unlink
<1>11. CASE Queue!Wait(p) BY <1>11, SMT DEF Queue!Wait
<1>12. CASE Queue!HandOver(p) BY <1>12, SMT DEF Queue!HandOver
<1>13. CASE Queue!Send(p) BY <1>13, SMT DEF Queue!Send
<1>14. CASE Queue!SendFull(p) BY <1>14, SMT DEF Queue!SendFull
<1>15. CASE Queue!Reap(p) BY <1>15, SMT DEF Queue!Reap
<1>16. CASE Queue!Timeout(p) BY <1>16, SMT DEF Queue!Timeout, Queue!Stuck
<1>17. CASE Queue!Kill(p) BY <1>17, SMT DEF Queue!Kill
<1> QED
  BY <1>1, <1>2, <1>3, <1>4, <1>5, <1>6, <1>7, <1>8, <1>9, <1>10, <1>11, <1>12, <1>13, <1>14,
     <1>15, <1>16, <1>17 DEF Queue!Step

(* What is left to show of a step is that its own run stays on its course. *)
OwnCourse(p) ==
  p \notin overlapped =>
    /\ main[p] \in Queue!Over => main[p] \in {"passed", "killed"}
    /\ Queue!Alive(p) => OnCourse(p)

(* A step of a run that keeps to its course leaves each of the others on   *)
(* its own.                                                                *)
LEMMA Others ==
  ASSUME QueueInv, NEW p \in Runs, Acts(p), OwnCourse(p)'
  PROVE  \A r \in Runs : Lonely(r)'
<1> SUFFICES ASSUME NEW r \in Runs, r \notin overlapped PROVE Lonely(r)'
  BY DEF Acts, Lonely
<1>0. Lonely(r) BY DEF QueueInv
<1>1. CASE r = p
  <2>1. \A o \in Runs \ {p} : ~Queue!Under(o) BY <1>0, <1>1 DEF Lonely, Acts
  <2>2. \A o \in Runs \ {p} : ~Queue!Under(o)'
    <3> SUFFICES ASSUME NEW o \in Runs \ {p} PROVE ~Queue!Under(o)' OBVIOUS
    <3>1. ~Queue!Under(o) BY <2>1
    <3>2. main[o] # "receive" BY <3>1, SMT DEF Queue!Under, Queue!Alive
    <3> QED BY <3>1, <3>2 DEF Acts, Queue!Under, Queue!Alive
  <2> QED BY <1>1, <2>2 DEF OwnCourse, Lonely
<1>2. CASE r # p
  <2>1. ~Queue!Under(r) BY <1>0, <1>2 DEF Lonely, Acts
  <2>2. main[r] # "receive" BY <2>1, SMT DEF Queue!Under, Queue!Alive
  <2>3. main'[r] = main[r] /\ kid'[r] = kid[r] BY <1>2, <2>2 DEF Acts
  <2> QED BY <1>0, <2>1, <2>3 DEF Acts, Lonely, Queue!Under, Queue!Alive
<1> QED BY <1>1, <1>2

(* The registrations without those of a process that ends or is closed.    *)
LEMMA DroppedIs ==
  ASSUME QueueShape, NEW p \in Runs
  PROVE  /\ Queue!Dropped(p) \in [Runs -> Runs \cup {Queue!NoQueue}]
         /\ \A q \in Runs : Queue!Dropped(p)[q] = IF reg[q] = p THEN Queue!NoQueue ELSE reg[q]
BY SMT DEF QueueShape, Queue!Dropped

(* A message more or less in a queue.                                      *)
LEMMA MessageTaken ==
  ASSUME NEW s \in Seq(Runs), s # <<>>
  PROVE  Tail(s) \in Seq(Runs) /\ Len(s) > 0 /\ Len(Tail(s)) = Len(s) - 1
BY SMT

LEMMA MessageAdded ==
  ASSUME NEW s \in Seq(Runs), NEW r \in Runs
  PROVE  /\ Append(s, r) \in Seq(Runs) /\ Len(Append(s, r)) = Len(s) + 1
         /\ Len(s) \in Nat /\ (s = <<>> <=> Len(s) = 0)
BY AppendProperties, EmptySeq, LenProperties, SMT

(* The queues after one of them was changed.                               *)
LEMMA Refilled ==
  ASSUME QueueShape, NEW h \in Runs, NEW t \in Seq(Runs), Len(t) \in Nat, Len(t) <= MaxMsg,
         msgs' = [msgs EXCEPT ![h] = t]
  PROVE  /\ msgs' \in [Runs -> Seq(Runs)]
         /\ \A q \in Runs : Len(msgs'[q]) = IF q = h THEN Len(t) ELSE Len(msgs[q])
         /\ \A q \in Runs : Len(msgs'[q]) <= MaxMsg
<1>1. msgs' \in [Runs -> Seq(Runs)] BY SMT DEF QueueShape
<1>2. \A q \in Runs : msgs'[q] = IF q = h THEN t ELSE msgs[q] BY SMT DEF QueueShape
<1> QED BY <1>1, <1>2 DEF QueueShape, Size

(* Each operation of a run keeps the invariant; Others leaves its own      *)
(* course to be shown.                                                     *)
LEMMA QueueStart == ASSUME QueueInv, NEW p \in Runs, Queue!Start(p) PROVE QueueInv'
<1>0. /\ main[p] = "start" /\ main' = [main EXCEPT ![p] = "open"]
      /\ name' = (IF kind[p] = "plain" THEN name ELSE Queue!NoQueue)
      /\ UNCHANGED <<kind, kid, msgs, reg, held, blocked, pend, recved, kills>>
  BY Zenon DEF Queue!Start, Queue!At, Queue!Go
<1>1. /\ overlapped' \subseteq Runs /\ overlapped \subseteq overlapped'
      /\ \A o \in Runs \ {p} : Queue!Under(o) => o \in overlapped' /\ p \in overlapped'
  BY SMT DEF Queue!Start, QueueInv, QueueShape
<1>a. \A r \in Runs : r # 0 BY QueueParameters DEF Queue!QueueAssumption
<1>2. QueueShape' BY <1>0, <1>1, SMT DEF QueueInv, QueueShape, Size
<1>3. Holding' BY <1>0, <1>a, SMT DEF QueueInv, QueueShape, Holding, Size
<1>4. Registered' BY <1>0, SMT DEF QueueInv, QueueShape, Registered
<1>5. ASSUME NEW r \in Runs PROVE Lonely(r)'
  <2> SUFFICES ASSUME r \notin overlapped' PROVE Lonely(r)' BY DEF Lonely
  <2>0. Lonely(r) /\ r \notin overlapped BY <1>1 DEF QueueInv
  <2>1. CASE r # p
    <3>1. ~Queue!Under(r) BY <1>1, <2>1
    <3>2. main'[r] = main[r] /\ kid'[r] = kid[r] BY <1>0, <2>1, SMT DEF QueueInv, QueueShape
    <3> QED BY <2>0, <3>1, <3>2 DEF Lonely, Queue!Under, Queue!Alive
  <2>2. CASE r = p
    <3>1. \A o \in Runs \ {p} : ~Queue!Under(o) BY <1>1, <2>2
    <3>2. \A o \in Runs \ {p} : main'[o] = main[o] /\ kid'[o] = kid[o]
      BY <1>0, SMT DEF QueueInv, QueueShape
    <3>3. \A o \in Runs \ {p} : ~Queue!Under(o)' BY <3>1, <3>2 DEF Queue!Under, Queue!Alive
    <3>4. OnCourse(p)'
      BY <1>0, SMT DEF QueueInv, QueueShape, Holding, OnCourse, PlainCourse, NotifiedCourse,
         SignalCourse, ThreadCourse, Size
    <3>5. main'[p] \notin Queue!Over BY <1>0, SMT DEF QueueInv, QueueShape
    <3> QED BY <2>2, <3>3, <3>4, <3>5 DEF Lonely
  <2> QED BY <2>1, <2>2
<1> QED BY <1>2, <1>3, <1>4, <1>5 DEF QueueInv

LEMMA QueueOpen == ASSUME QueueInv, NEW p \in Runs, Queue!Open(p) PROVE QueueInv'
<1>0. /\ main[p] = "open" /\ name' = (IF name = Queue!NoQueue THEN p ELSE name)
      /\ held' = [held EXCEPT ![p] = IF name = Queue!NoQueue THEN p ELSE name]
      /\ main' = [main EXCEPT ![p] = CASE kind[p] = "plain"  -> "fork"
                                       [] kind[p] = "signal" -> "block"
                                       [] kind[p] = "thread" -> "notify"]
      /\ UNCHANGED <<kind, kid, msgs, reg, blocked, pend, recved, overlapped, kills>>
  BY Zenon DEF Queue!Open, Queue!At, Queue!Go, Queue!queues, Queue!Gone
<1>a. Acts(p) BY Acting DEF QueueInv, Queue!Step
<1>b. Lonely(p) BY DEF QueueInv
<1>c. \A r \in Runs : r # 0 BY QueueParameters DEF Queue!QueueAssumption
<1>1. QueueShape' BY <1>0, <1>c, SMT DEF QueueInv, QueueShape, Holding, Size
<1>2. Holding' BY <1>0, <1>c, SMT DEF QueueInv, QueueShape, Holding, Size
<1>3. Registered' BY <1>0, <1>c, SMT DEF QueueInv, QueueShape, Holding, Registered
<1>4. OwnCourse(p)'
  BY <1>0, <1>a, <1>b, <1>c, SMT DEF Acts, QueueInv, QueueShape, Holding, Registered, Lonely,
     Queue!Under, Queue!Alive, OwnCourse, OnCourse, PlainCourse, NotifiedCourse, SignalCourse,
     ThreadCourse, Size
<1> QED BY <1>1, <1>2, <1>3, <1>4, <1>a, Others DEF QueueInv

LEMMA QueueBlock == ASSUME QueueInv, NEW p \in Runs, Queue!Block(p) PROVE QueueInv'
<1>0. /\ main[p] = "block" /\ blocked' = blocked \cup {p} /\ main' = [main EXCEPT ![p] = "notify"]
      /\ UNCHANGED <<kind, kid, name, msgs, reg, held, pend, recved, overlapped, kills>>
  BY Zenon DEF Queue!Block, Queue!At, Queue!Go, Queue!queues, Queue!Gone
<1>a. Acts(p) BY Acting DEF QueueInv, Queue!Step
<1>b. Lonely(p) BY DEF QueueInv
<1>c. \A r \in Runs : r # 0 BY QueueParameters DEF Queue!QueueAssumption
<1>1. QueueShape' BY <1>0, <1>c, SMT DEF QueueInv, QueueShape, Holding, Size
<1>2. Holding' BY <1>0, <1>c, SMT DEF QueueInv, QueueShape, Holding, Size
<1>3. Registered' BY <1>0, <1>c, SMT DEF QueueInv, QueueShape, Holding, Registered
<1>4. OwnCourse(p)'
  BY <1>0, <1>a, <1>b, <1>c, SMT DEF Acts, QueueInv, QueueShape, Holding, Registered, Lonely,
     Queue!Under, Queue!Alive, OwnCourse, OnCourse, PlainCourse, NotifiedCourse, SignalCourse,
     ThreadCourse, Size
<1> QED BY <1>1, <1>2, <1>3, <1>4, <1>a, Others DEF QueueInv

LEMMA QueueNotify == ASSUME QueueInv, NEW p \in Runs, Queue!Notify(p) PROVE QueueInv'
<1>0. /\ main[p] = "notify"
      /\ IF reg[held[p]] = Queue!NoQueue
           THEN reg' = [reg EXCEPT ![held[p]] = p] /\ main' = [main EXCEPT ![p] = "fork"]
           ELSE main' = [main EXCEPT ![p] = "busy"] /\ reg' = reg
      /\ UNCHANGED <<kind, kid, name, msgs, held, blocked, pend, recved, overlapped, kills>>
  BY Zenon DEF Queue!Notify, Queue!At, Queue!Go, Queue!queues, Queue!Gone
<1>a. Acts(p) BY Acting DEF QueueInv, Queue!Step
<1>b. Lonely(p) BY DEF QueueInv
<1>c. \A r \in Runs : r # 0 BY QueueParameters DEF Queue!QueueAssumption
<1>d. held[p] \in Runs /\ reg[held[p]] \in Runs \cup {Queue!NoQueue}
  BY <1>0, SMT DEF QueueInv, QueueShape, Holding
<1>1. QueueShape'
  <2>0. main \in [Runs -> Queue!Over \cup Opened \cup {"start", "open"}]
          /\ reg \in [Runs -> Runs \cup {Queue!NoQueue}]
    BY DEF QueueInv, QueueShape
  <2>1. reg' \in [Runs -> Runs \cup {Queue!NoQueue}] BY <1>0, <1>d, <2>0, SMT
  <2>2. main' \in [Runs -> Queue!Over \cup Opened \cup {"start", "open"}] BY <1>0, <2>0, SMT
  <2> QED BY <1>0, <2>1, <2>2, SMT DEF QueueInv, QueueShape, Size
<1>2. Holding' BY <1>0, <1>c, SMT DEF QueueInv, QueueShape, Holding, Size
<1>3. Registered'
  <2> SUFFICES ASSUME NEW q \in Runs, NEW r \in Runs, reg'[q] = r
               PROVE  q = held'[r] /\ kind'[r] # "plain"
                      /\ main'[r] \in {"fork", "suspend", "spin"} /\ r \notin pend'
                            /\ r \notin recved'
    BY Zenon DEF Registered
  <2>0. reg[q] = r => q = held[r] /\ kind[r] # "plain"
          /\ main[r] \in {"fork", "suspend", "spin"} /\ r \notin pend /\ r \notin recved
    BY DEF QueueInv, Registered
  <2>1. CASE r = p BY <1>0, <1>c, <1>d, <2>0, <2>1, SMT DEF QueueInv, QueueShape, Holding
  <2>2. CASE r # p BY <1>0, <1>c, <1>d, <2>0, <2>2, SMT DEF QueueInv, QueueShape, Holding
  <2> QED BY <2>1, <2>2
<1>4. OwnCourse(p)'
  <2>1. CASE reg[held[p]] = Queue!NoQueue
    BY <2>1, <1>d, <1>0, <1>a, <1>b, <1>c, SMT DEF Acts, QueueInv, QueueShape, Holding,
       Registered, Lonely, Queue!Under, Queue!Alive, OwnCourse, OnCourse, PlainCourse,
       NotifiedCourse, SignalCourse, ThreadCourse, Size
  <2>2. CASE reg[held[p]] # Queue!NoQueue
    <3>1. PICK o \in Runs : reg[held[p]] = o BY <1>d, <2>2
    <3>2. main[o] \in {"fork", "suspend", "spin"} BY <1>d, <3>1 DEF QueueInv, Registered
    <3>3. o # p /\ Queue!Under(o) BY <1>0, <3>2, SMT DEF Queue!Under, Queue!Alive
    <3> QED BY <1>a, <1>b, <3>3 DEF Acts, Lonely, OwnCourse
  <2> QED BY <2>1, <2>2
<1> QED BY <1>1, <1>2, <1>3, <1>4, <1>a, Others DEF QueueInv

LEMMA QueueFork == ASSUME QueueInv, NEW p \in Runs, Queue!Fork(p) PROVE QueueInv'
<1>0. /\ main[p] = "fork" /\ kid' = [kid EXCEPT ![p] = "send"]
      /\ main' = [main EXCEPT ![p] = CASE kind[p] = "plain"  -> "receive"
                                       [] kind[p] = "signal" -> "suspend"
                                       [] kind[p] = "thread" -> "spin"]
      /\ UNCHANGED <<kind, name, msgs, reg, held, blocked, pend, recved, overlapped, kills>>
  BY Zenon DEF Queue!Fork, Queue!At, Queue!Go, Queue!queues, Queue!Gone
<1>a. Acts(p) BY Acting DEF QueueInv, Queue!Step
<1>b. Lonely(p) BY DEF QueueInv
<1>c. \A r \in Runs : r # 0 BY QueueParameters DEF Queue!QueueAssumption
<1>1. QueueShape'
  <2>1. main' \in [Runs -> Queue!Over \cup Opened \cup {"start", "open"}]
    BY <1>0, SMT DEF QueueInv, QueueShape
  <2>2. kid' \in [Runs -> {"none", "send", "sent", "full", "gone"}]
    BY <1>0, SMT DEF QueueInv, QueueShape
  <2>3. reg' \in [Runs -> Runs \cup {Queue!NoQueue}] BY <1>0, SMT DEF QueueInv, QueueShape
  <2>4. msgs' \in [Runs -> Seq(Runs)] /\ \A q \in Runs : Size(q)' <= MaxMsg
    BY <1>0, SMT DEF QueueInv, QueueShape, Size
  <2> QED
    BY <1>0, <2>1, <2>2, <2>3, <2>4, QueueParameters, SMT DEF QueueInv, QueueShape,
       Queue!QueueAssumption
<1>2. Holding' BY <1>0, <1>c, SMT DEF QueueInv, QueueShape, Holding, Size
<1>3. Registered'
  <2> SUFFICES ASSUME NEW q \in Runs, NEW r \in Runs, reg'[q] = r
               PROVE  q = held'[r] /\ kind'[r] # "plain"
                      /\ main'[r] \in {"fork", "suspend", "spin"} /\ r \notin pend'
                            /\ r \notin recved'
    BY Zenon DEF Registered
  <2>0. reg[q] = r => q = held[r] /\ kind[r] # "plain"
          /\ main[r] \in {"fork", "suspend", "spin"} /\ r \notin pend /\ r \notin recved
    BY DEF QueueInv, Registered
  <2>1. CASE r = p BY <1>0, <1>c, <2>0, <2>1, SMT DEF QueueInv, QueueShape, Holding
  <2>2. CASE r # p BY <1>0, <1>c, <2>0, <2>2, SMT DEF QueueInv, QueueShape, Holding
  <2> QED BY <2>1, <2>2
<1>4. OwnCourse(p)'
  BY <1>0, <1>a, <1>b, <1>c, SMT DEF Acts, QueueInv, QueueShape, Holding, Registered, Lonely,
     Queue!Under, Queue!Alive, OwnCourse, OnCourse, PlainCourse, NotifiedCourse, SignalCourse,
     ThreadCourse, Size
<1> QED BY <1>1, <1>2, <1>3, <1>4, <1>a, Others DEF QueueInv

LEMMA QueueHandler == ASSUME QueueInv, NEW p \in Runs, Queue!Handler(p) PROVE QueueInv'
<1>0. /\ kind[p] = "signal" /\ p \in pend /\ Queue!Alive(p) /\ pend' = pend \ {p}
      /\ \/ main[p] = "suspend" /\ main' = [main EXCEPT ![p] = "receive"]
         \/ p \notin blocked /\ main' = main
      /\ UNCHANGED <<kind, kid, name, msgs, reg, held, blocked, recved, overlapped, kills>>
  BY Zenon DEF Queue!Handler, Queue!At, Queue!Go, Queue!queues, Queue!Gone
<1>a. Acts(p) BY Acting DEF QueueInv, Queue!Step
<1>b. Lonely(p) BY DEF QueueInv
<1>c. \A r \in Runs : r # 0 BY QueueParameters DEF Queue!QueueAssumption
<1>1. QueueShape' BY <1>0, <1>c, SMT DEF QueueInv, QueueShape, Holding, Size
<1>2. Holding' BY <1>0, <1>c, SMT DEF QueueInv, QueueShape, Holding, Size
<1>3. Registered'
  <2> SUFFICES ASSUME NEW q \in Runs, NEW r \in Runs, reg'[q] = r
               PROVE  q = held'[r] /\ kind'[r] # "plain"
                      /\ main'[r] \in {"fork", "suspend", "spin"} /\ r \notin pend'
                            /\ r \notin recved'
    BY Zenon DEF Registered
  <2>0. reg[q] = r => q = held[r] /\ kind[r] # "plain"
          /\ main[r] \in {"fork", "suspend", "spin"} /\ r \notin pend /\ r \notin recved
    BY DEF QueueInv, Registered
  <2>1. CASE r = p BY <1>0, <1>c, <2>0, <2>1, SMT DEF QueueInv, QueueShape, Holding
  <2>2. CASE r # p BY <1>0, <1>c, <2>0, <2>2, SMT DEF QueueInv, QueueShape, Holding
  <2> QED BY <2>1, <2>2
<1>4. OwnCourse(p)'
  BY <1>0, <1>a, <1>b, <1>c, SMT DEF Acts, QueueInv, QueueShape, Holding, Registered, Lonely,
     Queue!Under, Queue!Alive, OwnCourse, OnCourse, PlainCourse, NotifiedCourse, SignalCourse,
     ThreadCourse, Size
<1> QED BY <1>1, <1>2, <1>3, <1>4, <1>a, Others DEF QueueInv

LEMMA QueueReceive == ASSUME QueueInv, NEW p \in Runs, Queue!Receive(p) PROVE QueueInv'
<1>0. /\ main[p] = "receive"
      /\ \/ msgs[held[p]] = <<>> /\ kind[p] = "signal" /\ main' = [main EXCEPT ![p] = "nomsg"]
              /\ msgs' = msgs
         \/ /\ msgs[held[p]] # <<>> /\ msgs' = [msgs EXCEPT ![held[p]] = Tail(msgs[held[p]])]
            /\ main' = [main EXCEPT ![p] = "close"]
      /\ UNCHANGED <<kind, kid, name, reg, held, blocked, pend, recved, overlapped, kills>>
  BY Zenon DEF Queue!Receive, Queue!At, Queue!Go, Queue!queues, Queue!Gone
<1>a. Acts(p) BY Acting DEF QueueInv, Queue!Step
<1>b. Lonely(p) BY DEF QueueInv
<1>c. \A r \in Runs : r # 0 BY QueueParameters DEF Queue!QueueAssumption
<1>d. held[p] \in Runs /\ msgs[held[p]] \in Seq(Runs) /\ Len(msgs[held[p]]) \in Nat
  BY <1>0, <1>b, SMT DEF QueueInv, QueueShape, Holding, Queue!Alive
<1>z. msgs[held[p]] = <<>> <=> Size(held[p]) = 0 BY <1>d, MessageAdded DEF Size
<1>n. \A q \in Runs : Size(q) \in Nat BY LenProperties DEF QueueInv, QueueShape, Size
<1>e. msgs[held[p]] # <<>> =>
        LET t == Tail(msgs[held[p]]) IN t \in Seq(Runs) /\ Len(t) = Len(msgs[held[p]]) - 1
              /\ Len(t) \in Nat
  BY <1>d, MessageTaken, LenProperties
<1>g. /\ main[p] = "receive"
      /\ \/ Size(held[p]) = 0 /\ kind[p] = "signal" /\ main' = [main EXCEPT ![p] = "nomsg"]
         \/ Size(held[p]) > 0 /\ main' = [main EXCEPT ![p] = "close"]
      /\ UNCHANGED <<kind, kid, name, reg, held, blocked, pend, recved, overlapped, kills>>
  BY <1>0, <1>d, <1>z, <1>n, SMT DEF Size
<1>f. /\ msgs' \in [Runs -> Seq(Runs)] /\ \A q \in Runs : Len(msgs'[q]) <= MaxMsg
      /\ \/ Size(held[p]) = 0 /\ msgs' = msgs
         \/ /\ Size(held[p]) > 0
            /\ \A q \in Runs : Len(msgs'[q]) = IF q = held[p] THEN Len(msgs[q]) - 1 ELSE Len(msgs[q])
  <2>1. CASE msgs[held[p]] = <<>> BY <1>0, <1>z, <2>1 DEF QueueInv, QueueShape, Size
  <2>2. CASE msgs[held[p]] # <<>>
    <3>1. PICK t \in Seq(Runs) : t = Tail(msgs[held[p]]) /\ Len(t) = Len(msgs[held[p]]) - 1
            /\ Len(t) \in Nat
      BY <1>e, <2>2
    <3>2. msgs' = [msgs EXCEPT ![held[p]] = t] BY <1>0, <2>2, <3>1
    <3>3. Len(t) <= MaxMsg /\ Size(held[p]) > 0
      <4>1. Size(held[p]) <= MaxMsg /\ MaxMsg \in Nat
        BY <1>d, QueueParameters DEF QueueInv, QueueShape, Queue!QueueAssumption
      <4> QED BY <4>1, <3>1, <1>d, SMT DEF Size
    <3>4. /\ msgs' \in [Runs -> Seq(Runs)]
          /\ \A q \in Runs : Len(msgs'[q]) = IF q = held[p] THEN Len(t) ELSE Len(msgs[q])
          /\ \A q \in Runs : Len(msgs'[q]) <= MaxMsg
      BY <1>d, <3>1, <3>2, <3>3, Refilled DEF QueueInv
    <3> QED BY <3>1, <3>3, <3>4
  <2> QED BY <2>1, <2>2
<1>h. \A q \in Runs : Len(msgs[q]) = 0 => Len(msgs'[q]) = 0
  <2> SUFFICES ASSUME NEW q \in Runs, Len(msgs[q]) = 0 PROVE Len(msgs'[q]) = 0 OBVIOUS
  <2>1. CASE msgs' = msgs BY <2>1
  <2>2. CASE q = held[p] /\ Size(held[p]) > 0 BY <1>d, <2>2, SMT DEF Size
  <2>3. CASE q # held[p] /\ Size(held[p]) > 0 BY <1>f, <2>3, SMT DEF Size
  <2> QED BY <1>f, <1>n, <1>d, <2>1, <2>2, <2>3, SMT
<1>i. Size(held[p]) > 0 => Len(msgs'[held[p]]) < MaxMsg
  <2>1. Size(held[p]) <= MaxMsg /\ MaxMsg \in Nat
    BY <1>d, QueueParameters DEF QueueInv, QueueShape, Queue!QueueAssumption
  <2> QED BY <1>d, <1>f, <2>1, SMT DEF Size
<1>1. QueueShape'
  <2>0. main \in [Runs -> Queue!Over \cup Opened \cup {"start", "open"}]
          /\ reg \in [Runs -> Runs \cup {Queue!NoQueue}]
    BY DEF QueueInv, QueueShape
  <2>1. main' \in [Runs -> Queue!Over \cup Opened \cup {"start", "open"}] BY <1>g, <2>0, SMT
  <2>2. kid' \in [Runs -> {"none", "send", "sent", "full", "gone"}]
    BY <1>g, SMT DEF QueueInv, QueueShape
  <2>3. reg' \in [Runs -> Runs \cup {Queue!NoQueue}] BY <1>d, <1>g, SMT DEF QueueInv, QueueShape
  <2>4. pend' \subseteq Runs /\ recved' \subseteq Runs BY <1>d, <1>g, SMT DEF QueueInv, QueueShape
  <2> QED BY <1>f, <1>g, <2>1, <2>2, <2>3, <2>4, Zenon DEF QueueInv, QueueShape, Size
<1>2. Holding' BY <1>d, <1>g, <1>h, <1>n, <1>c, SMT DEF QueueInv, QueueShape, Holding, Size
<1>3. Registered'
  <2> SUFFICES ASSUME NEW q \in Runs, NEW r \in Runs, reg'[q] = r
               PROVE  q = held'[r] /\ kind'[r] # "plain"
                      /\ main'[r] \in {"fork", "suspend", "spin"} /\ r \notin pend'
                            /\ r \notin recved'
    BY Zenon DEF Registered
  <2>0. reg[q] = r => q = held[r] /\ kind[r] # "plain"
          /\ main[r] \in {"fork", "suspend", "spin"} /\ r \notin pend /\ r \notin recved
    BY DEF QueueInv, Registered
  <2>1. CASE r = p BY <1>d, <1>g, <1>c, <2>0, <2>1, SMT DEF QueueInv, QueueShape, Holding
  <2>2. CASE r # p BY <1>d, <1>g, <1>c, <2>0, <2>2, SMT DEF QueueInv, QueueShape, Holding
  <2> QED BY <2>1, <2>2
<1>4. OwnCourse(p)'
  BY <1>d, <1>g, <1>h, <1>i, <1>n, <1>a, <1>b, <1>c, SMT DEF Acts, QueueInv, QueueShape, Holding,
     Registered, Lonely, Queue!Under, Queue!Alive, OwnCourse, OnCourse, PlainCourse,
     NotifiedCourse, SignalCourse, ThreadCourse, Size
<1> QED BY <1>1, <1>2, <1>3, <1>4, <1>a, Others DEF QueueInv

LEMMA QueueThreadStarter == ASSUME QueueInv, NEW p \in Runs, Queue!ThreadStarter(p)
  PROVE QueueInv'
<1>0. /\ kind[p] = "thread" /\ p \in pend /\ Queue!Alive(p) /\ pend' = pend \ {p}
      /\ \/ msgs[held[p]] = <<>> /\ main' = [main EXCEPT ![p] = "nomsg"]
              /\ UNCHANGED <<msgs, recved>>
         \/ /\ msgs[held[p]] # <<>> /\ msgs' = [msgs EXCEPT ![held[p]] = Tail(msgs[held[p]])]
            /\ recved' = recved \cup {p} /\ main' = main
      /\ UNCHANGED <<kind, kid, name, reg, held, blocked, overlapped, kills>>
  BY Zenon DEF Queue!ThreadStarter, Queue!At, Queue!Go, Queue!queues, Queue!Gone
<1>a. Acts(p) BY Acting DEF QueueInv, Queue!Step
<1>b. Lonely(p) BY DEF QueueInv
<1>c. \A r \in Runs : r # 0 BY QueueParameters DEF Queue!QueueAssumption
<1>d. held[p] \in Runs /\ msgs[held[p]] \in Seq(Runs) /\ Len(msgs[held[p]]) \in Nat
  BY <1>0, <1>b, SMT DEF QueueInv, QueueShape, Holding, Queue!Alive
<1>z. msgs[held[p]] = <<>> <=> Size(held[p]) = 0 BY <1>d, MessageAdded DEF Size
<1>n. \A q \in Runs : Size(q) \in Nat BY LenProperties DEF QueueInv, QueueShape, Size
<1>e. msgs[held[p]] # <<>> =>
        LET t == Tail(msgs[held[p]]) IN t \in Seq(Runs) /\ Len(t) = Len(msgs[held[p]]) - 1
              /\ Len(t) \in Nat
  BY <1>d, MessageTaken, LenProperties
<1>g. /\ kind[p] = "thread" /\ p \in pend /\ Queue!Alive(p) /\ pend' = pend \ {p}
      /\ \/ Size(held[p]) = 0 /\ main' = [main EXCEPT ![p] = "nomsg"] /\ recved' = recved
         \/ Size(held[p]) > 0 /\ recved' = recved \cup {p} /\ main' = main
      /\ UNCHANGED <<kind, kid, name, reg, held, blocked, overlapped, kills>>
  BY <1>0, <1>d, <1>z, <1>n, SMT DEF Size
<1>f. /\ msgs' \in [Runs -> Seq(Runs)] /\ \A q \in Runs : Len(msgs'[q]) <= MaxMsg
      /\ \/ Size(held[p]) = 0 /\ msgs' = msgs
         \/ /\ Size(held[p]) > 0
            /\ \A q \in Runs : Len(msgs'[q]) = IF q = held[p] THEN Len(msgs[q]) - 1 ELSE Len(msgs[q])
  <2>1. CASE msgs[held[p]] = <<>> BY <1>0, <1>z, <2>1 DEF QueueInv, QueueShape, Size
  <2>2. CASE msgs[held[p]] # <<>>
    <3>1. PICK t \in Seq(Runs) : t = Tail(msgs[held[p]]) /\ Len(t) = Len(msgs[held[p]]) - 1
            /\ Len(t) \in Nat
      BY <1>e, <2>2
    <3>2. msgs' = [msgs EXCEPT ![held[p]] = t] BY <1>0, <2>2, <3>1
    <3>3. Len(t) <= MaxMsg /\ Size(held[p]) > 0
      <4>1. Size(held[p]) <= MaxMsg /\ MaxMsg \in Nat
        BY <1>d, QueueParameters DEF QueueInv, QueueShape, Queue!QueueAssumption
      <4> QED BY <4>1, <3>1, <1>d, SMT DEF Size
    <3>4. /\ msgs' \in [Runs -> Seq(Runs)]
          /\ \A q \in Runs : Len(msgs'[q]) = IF q = held[p] THEN Len(t) ELSE Len(msgs[q])
          /\ \A q \in Runs : Len(msgs'[q]) <= MaxMsg
      BY <1>d, <3>1, <3>2, <3>3, Refilled DEF QueueInv
    <3> QED BY <3>1, <3>3, <3>4
  <2> QED BY <2>1, <2>2
<1>h. \A q \in Runs : Len(msgs[q]) = 0 => Len(msgs'[q]) = 0
  <2> SUFFICES ASSUME NEW q \in Runs, Len(msgs[q]) = 0 PROVE Len(msgs'[q]) = 0 OBVIOUS
  <2>1. CASE msgs' = msgs BY <2>1
  <2>2. CASE q = held[p] /\ Size(held[p]) > 0 BY <1>d, <2>2, SMT DEF Size
  <2>3. CASE q # held[p] /\ Size(held[p]) > 0 BY <1>f, <2>3, SMT DEF Size
  <2> QED BY <1>f, <1>n, <1>d, <2>1, <2>2, <2>3, SMT
<1>i. Size(held[p]) > 0 => Len(msgs'[held[p]]) < MaxMsg
  <2>1. Size(held[p]) <= MaxMsg /\ MaxMsg \in Nat
    BY <1>d, QueueParameters DEF QueueInv, QueueShape, Queue!QueueAssumption
  <2> QED BY <1>d, <1>f, <2>1, SMT DEF Size
<1>1. QueueShape'
  <2>0. main \in [Runs -> Queue!Over \cup Opened \cup {"start", "open"}]
          /\ reg \in [Runs -> Runs \cup {Queue!NoQueue}]
    BY DEF QueueInv, QueueShape
  <2>1. main' \in [Runs -> Queue!Over \cup Opened \cup {"start", "open"}] BY <1>g, <2>0, SMT
  <2>2. kid' \in [Runs -> {"none", "send", "sent", "full", "gone"}]
    BY <1>g, SMT DEF QueueInv, QueueShape
  <2>3. reg' \in [Runs -> Runs \cup {Queue!NoQueue}] BY <1>d, <1>g, SMT DEF QueueInv, QueueShape
  <2>4. pend' \subseteq Runs /\ recved' \subseteq Runs BY <1>d, <1>g, SMT DEF QueueInv, QueueShape
  <2> QED BY <1>f, <1>g, <2>1, <2>2, <2>3, <2>4, Zenon DEF QueueInv, QueueShape, Size
<1>2. Holding' BY <1>d, <1>g, <1>h, <1>n, <1>c, SMT DEF QueueInv, QueueShape, Holding, Size
<1>3. Registered' BY <1>d, <1>g, <1>c, SMT DEF QueueInv, QueueShape, Holding, Registered
<1>4. OwnCourse(p)'
  BY <1>d, <1>g, <1>h, <1>i, <1>n, <1>a, <1>b, <1>c, SMT DEF Acts, QueueInv, QueueShape, Holding,
     Registered, Lonely, Queue!Under, Queue!Alive, OwnCourse, OnCourse, PlainCourse,
     NotifiedCourse, SignalCourse, ThreadCourse, Size
<1> QED BY <1>1, <1>2, <1>3, <1>4, <1>a, Others DEF QueueInv

LEMMA QueueSpin == ASSUME QueueInv, NEW p \in Runs, Queue!Spin(p) PROVE QueueInv'
<1>0. /\ main[p] = "spin" /\ p \in recved /\ main' = [main EXCEPT ![p] = "close"]
      /\ UNCHANGED <<kind, kid, name, msgs, reg, held, blocked, pend, recved, overlapped, kills>>
  BY Zenon DEF Queue!Spin, Queue!At, Queue!Go, Queue!queues, Queue!Gone
<1>a. Acts(p) BY Acting DEF QueueInv, Queue!Step
<1>b. Lonely(p) BY DEF QueueInv
<1>c. \A r \in Runs : r # 0 BY QueueParameters DEF Queue!QueueAssumption
<1>1. QueueShape' BY <1>0, <1>c, SMT DEF QueueInv, QueueShape, Holding, Size
<1>2. Holding' BY <1>0, <1>c, SMT DEF QueueInv, QueueShape, Holding, Size
<1>3. Registered' BY <1>0, <1>c, SMT DEF QueueInv, QueueShape, Holding, Registered
<1>4. OwnCourse(p)'
  BY <1>0, <1>a, <1>b, <1>c, SMT DEF Acts, QueueInv, QueueShape, Holding, Registered, Lonely,
     Queue!Under, Queue!Alive, OwnCourse, OnCourse, PlainCourse, NotifiedCourse, SignalCourse,
     ThreadCourse, Size
<1> QED BY <1>1, <1>2, <1>3, <1>4, <1>a, Others DEF QueueInv

LEMMA QueueClose == ASSUME QueueInv, NEW p \in Runs, Queue!Close(p) PROVE QueueInv'
<1>0. /\ main[p] = "close" /\ reg' = Queue!Dropped(p) /\ main' = [main EXCEPT ![p] = "unlink"]
      /\ UNCHANGED <<kind, kid, name, msgs, held, blocked, pend, recved, overlapped, kills>>
  BY Zenon DEF Queue!Close, Queue!At, Queue!Go, Queue!queues, Queue!Gone
<1>a. Acts(p) BY Acting DEF QueueInv, Queue!Step
<1>b. Lonely(p) BY DEF QueueInv
<1>c. \A r \in Runs : r # 0 BY QueueParameters DEF Queue!QueueAssumption
<1>d. /\ Queue!Dropped(p) \in [Runs -> Runs \cup {Queue!NoQueue}]
      /\ \A q \in Runs : Queue!Dropped(p)[q] = IF reg[q] = p THEN Queue!NoQueue ELSE reg[q]
  BY DroppedIs DEF QueueInv
<1>1. QueueShape'
  <2>1. main' \in [Runs -> Queue!Over \cup Opened \cup {"start", "open"}]
    BY <1>0, SMT DEF QueueInv, QueueShape
  <2>2. kid' \in [Runs -> {"none", "send", "sent", "full", "gone"}]
    BY <1>0, SMT DEF QueueInv, QueueShape
  <2>3. reg' \in [Runs -> Runs \cup {Queue!NoQueue}] BY <1>0, <1>d, Zenon DEF QueueInv, QueueShape
  <2>4. msgs' \in [Runs -> Seq(Runs)] /\ \A q \in Runs : Size(q)' <= MaxMsg
    BY <1>0, <1>d, SMT DEF QueueInv, QueueShape, Size
  <2> QED
    BY <1>0, <2>1, <2>2, <2>3, <2>4, QueueParameters, SMT DEF QueueInv, QueueShape,
       Queue!QueueAssumption
<1>2. Holding' BY <1>0, <1>d, <1>c, SMT DEF QueueInv, QueueShape, Holding, Size
<1>3. Registered'
  <2> SUFFICES ASSUME NEW q \in Runs, NEW r \in Runs, reg'[q] = r
               PROVE  q = held'[r] /\ kind'[r] # "plain"
                      /\ main'[r] \in {"fork", "suspend", "spin"} /\ r \notin pend'
                            /\ r \notin recved'
    BY Zenon DEF Registered
  <2>0. reg[q] = r => q = held[r] /\ kind[r] # "plain"
          /\ main[r] \in {"fork", "suspend", "spin"} /\ r \notin pend /\ r \notin recved
    BY DEF QueueInv, Registered
  <2>1. CASE r = p BY <1>0, <1>d, <1>c, <2>0, <2>1, SMT DEF QueueInv, QueueShape, Holding
  <2>2. CASE r # p BY <1>0, <1>d, <1>c, <2>0, <2>2, SMT DEF QueueInv, QueueShape, Holding
  <2> QED BY <2>1, <2>2
<1>4. OwnCourse(p)'
  BY <1>0, <1>d, <1>a, <1>b, <1>c, SMT DEF Acts, QueueInv, QueueShape, Holding, Registered,
     Lonely, Queue!Under, Queue!Alive, OwnCourse, OnCourse, PlainCourse, NotifiedCourse,
     SignalCourse, ThreadCourse, Size
<1> QED BY <1>1, <1>2, <1>3, <1>4, <1>a, Others DEF QueueInv

LEMMA QueueUnlink == ASSUME QueueInv, NEW p \in Runs, Queue!Unlink(p) PROVE QueueInv'
<1>0. /\ main[p] = "unlink" /\ name' = Queue!NoQueue
      /\ main' = [main EXCEPT ![p] = IF name = Queue!NoQueue THEN "noname" ELSE "wait"]
      /\ UNCHANGED <<kind, kid, msgs, reg, held, blocked, pend, recved, overlapped, kills>>
  BY Zenon DEF Queue!Unlink, Queue!At, Queue!Go, Queue!queues, Queue!Gone
<1>a. Acts(p) BY Acting DEF QueueInv, Queue!Step
<1>b. Lonely(p) BY DEF QueueInv
<1>c. \A r \in Runs : r # 0 BY QueueParameters DEF Queue!QueueAssumption
<1>1. QueueShape' BY <1>0, <1>c, SMT DEF QueueInv, QueueShape, Holding, Size
<1>2. Holding' BY <1>0, <1>c, SMT DEF QueueInv, QueueShape, Holding, Size
<1>3. Registered' BY <1>0, <1>c, SMT DEF QueueInv, QueueShape, Holding, Registered
<1>4. OwnCourse(p)'
  BY <1>0, <1>a, <1>b, <1>c, SMT DEF Acts, QueueInv, QueueShape, Holding, Registered, Lonely,
     Queue!Under, Queue!Alive, OwnCourse, OnCourse, PlainCourse, NotifiedCourse, SignalCourse,
     ThreadCourse, Size
<1> QED BY <1>1, <1>2, <1>3, <1>4, <1>a, Others DEF QueueInv

LEMMA QueueWait == ASSUME QueueInv, NEW p \in Runs, Queue!Wait(p) PROVE QueueInv'
<1>0. /\ main[p] = "wait" /\ kid[p] \in {"sent", "full"}
      /\ main' = [main EXCEPT ![p] = IF kid[p] = "sent" THEN "passed" ELSE "full"]
      /\ UNCHANGED <<kind, kid, name, msgs, reg, held, blocked, pend, recved, overlapped, kills>>
  BY Zenon DEF Queue!Wait, Queue!At, Queue!Go, Queue!queues, Queue!Gone
<1>a. Acts(p) BY Acting DEF QueueInv, Queue!Step
<1>b. Lonely(p) BY DEF QueueInv
<1>c. \A r \in Runs : r # 0 BY QueueParameters DEF Queue!QueueAssumption
<1>1. QueueShape' BY <1>0, <1>c, SMT DEF QueueInv, QueueShape, Holding, Size
<1>2. Holding' BY <1>0, <1>c, SMT DEF QueueInv, QueueShape, Holding, Size
<1>3. Registered' BY <1>0, <1>c, SMT DEF QueueInv, QueueShape, Holding, Registered
<1>4. OwnCourse(p)'
  BY <1>0, <1>a, <1>b, <1>c, SMT DEF Acts, QueueInv, QueueShape, Holding, Registered, Lonely,
     Queue!Under, Queue!Alive, OwnCourse, OnCourse, PlainCourse, NotifiedCourse, SignalCourse,
     ThreadCourse, Size
<1> QED BY <1>1, <1>2, <1>3, <1>4, <1>a, Others DEF QueueInv

LEMMA QueueHandOver == ASSUME QueueInv, NEW p \in Runs, Queue!HandOver(p) PROVE QueueInv'
<1>0. PICK w \in Runs :
        /\ kid[p] = "send" /\ kind[w] = "plain" /\ main[w] = "receive" /\ held[w] = held[p]
        /\ msgs[held[p]] = <<>> /\ main' = [main EXCEPT ![w] = "close"]
        /\ kid' = [kid EXCEPT ![p] = "sent"]
        /\ UNCHANGED <<kind, name, msgs, reg, held, blocked, pend, recved, overlapped, kills>>
  BY Zenon DEF Queue!HandOver, Queue!At, Queue!Go, Queue!queues
<1>a. Acts(p) BY Acting DEF QueueInv, Queue!Step
<1>b. Lonely(p) BY DEF QueueInv
<1>c. \A r \in Runs : r # 0 BY QueueParameters DEF Queue!QueueAssumption
<1>1. QueueShape' BY <1>0, <1>c, SMT DEF QueueInv, QueueShape, Holding, Size
<1>2. Holding' BY <1>0, <1>c, SMT DEF QueueInv, QueueShape, Holding, Size
<1>3. Registered' BY <1>0, <1>c, SMT DEF QueueInv, QueueShape, Holding, Registered
<1>4. OwnCourse(p)'
  <2>1. CASE w = p
    BY <2>1, <1>0, <1>a, <1>b, <1>c, SMT DEF Acts, QueueInv, QueueShape, Holding, Registered,
       Lonely, Queue!Under, Queue!Alive, OwnCourse, OnCourse, PlainCourse, NotifiedCourse,
       SignalCourse, ThreadCourse, Size
  <2>2. CASE w # p
    <3>1. Queue!Under(w) BY <1>0, SMT DEF Queue!Under, Queue!Alive
    <3> QED BY <1>a, <1>b, <2>2, <3>1 DEF Acts, Lonely, OwnCourse
  <2> QED BY <2>1, <2>2
<1> QED BY <1>1, <1>2, <1>3, <1>4, <1>a, Others DEF QueueInv

LEMMA QueueSend == ASSUME QueueInv, NEW p \in Runs, Queue!Send(p) PROVE QueueInv'
<1>0. /\ kid[p] = "send" /\ Len(msgs[held[p]]) < MaxMsg
           /\ msgs' = [msgs EXCEPT ![held[p]] = Append(msgs[held[p]], p)]
      /\ \/ /\ msgs[held[p]] = <<>> /\ reg[held[p]] # Queue!NoQueue
                 /\ pend' = pend \cup {reg[held[p]]}
            /\ reg' = [reg EXCEPT ![held[p]] = Queue!NoQueue]
         \/ ~(msgs[held[p]] = <<>> /\ reg[held[p]] # Queue!NoQueue) /\ UNCHANGED <<pend, reg>>
      /\ kid' = [kid EXCEPT ![p] = "sent"]
      /\ UNCHANGED <<kind, main, name, held, blocked, recved, overlapped, kills>>
  BY Zenon DEF Queue!Send, Queue!At, Queue!Go, Queue!queues, Queue!Gone
<1>a. Acts(p) BY Acting DEF QueueInv, Queue!Step
<1>b. Lonely(p) BY DEF QueueInv
<1>c. \A r \in Runs : r # 0 BY QueueParameters DEF Queue!QueueAssumption
<1>d. held[p] \in Runs /\ msgs[held[p]] \in Seq(Runs) /\ Len(msgs[held[p]]) \in Nat
  BY <1>0, <1>b, SMT DEF QueueInv, QueueShape, Holding, Queue!Alive
<1>z. msgs[held[p]] = <<>> <=> Size(held[p]) = 0 BY <1>d, MessageAdded DEF Size
<1>n. \A q \in Runs : Size(q) \in Nat BY LenProperties DEF QueueInv, QueueShape, Size
<1>e. PICK t \in Seq(Runs) : t = Append(msgs[held[p]], p) /\ Len(t) = Len(msgs[held[p]]) + 1
  BY <1>d, MessageAdded
<1>k. MaxMsg \in Nat BY QueueParameters DEF Queue!QueueAssumption
<1>f. /\ msgs' \in [Runs -> Seq(Runs)] /\ \A q \in Runs : Len(msgs'[q]) <= MaxMsg
      /\ \A q \in Runs : Len(msgs'[q]) = IF q = held[p] THEN Len(msgs[q]) + 1 ELSE Len(msgs[q])
  <2>1. Len(t) \in Nat /\ Len(t) <= MaxMsg BY <1>0, <1>d, <1>e, <1>k, SMT
  <2>2. msgs' = [msgs EXCEPT ![held[p]] = t] BY <1>0, <1>e
  <2>3. /\ msgs' \in [Runs -> Seq(Runs)]
        /\ \A q \in Runs : Len(msgs'[q]) = IF q = held[p] THEN Len(t) ELSE Len(msgs[q])
        /\ \A q \in Runs : Len(msgs'[q]) <= MaxMsg
    BY <1>d, <2>1, <2>2, Refilled DEF QueueInv
  <2> QED BY <1>e, <2>3
<1>g. /\ kid[p] = "send" /\ kid' = [kid EXCEPT ![p] = "sent"]
      /\ \/ /\ Size(held[p]) = 0 /\ reg[held[p]] # Queue!NoQueue
                 /\ pend' = pend \cup {reg[held[p]]}
            /\ reg' = [reg EXCEPT ![held[p]] = Queue!NoQueue]
         \/ ~(Size(held[p]) = 0 /\ reg[held[p]] # Queue!NoQueue) /\ UNCHANGED <<pend, reg>>
      /\ UNCHANGED <<kind, main, name, held, blocked, recved, overlapped, kills>>
  BY <1>0, <1>z, Zenon
<1>h. /\ Len(msgs'[held[p]]) > 0
      /\ \A q \in Runs : q # held[p] => Len(msgs'[q]) = Len(msgs[q])
  BY <1>d, <1>f, SMT
<1>1. QueueShape'
  <2>0. main \in [Runs -> Queue!Over \cup Opened \cup {"start", "open"}]
          /\ reg \in [Runs -> Runs \cup {Queue!NoQueue}]
    BY DEF QueueInv, QueueShape
  <2>1. main' \in [Runs -> Queue!Over \cup Opened \cup {"start", "open"}]
    BY <1>g, SMT DEF QueueInv, QueueShape
  <2>2. kid' \in [Runs -> {"none", "send", "sent", "full", "gone"}]
    BY <1>g, SMT DEF QueueInv, QueueShape
  <2>3. reg' \in [Runs -> Runs \cup {Queue!NoQueue}] BY <1>d, <1>g, <2>0, SMT
  <2>4. pend' \subseteq Runs /\ recved' \subseteq Runs BY <1>d, <1>g, SMT DEF QueueInv, QueueShape
  <2> QED BY <1>f, <1>g, <2>1, <2>2, <2>3, <2>4, Zenon DEF QueueInv, QueueShape, Size
<1>p. \A r \in Runs : r \in pend' /\ r \notin pend =>
        /\ reg[held[p]] = r /\ main[r] \in {"fork", "suspend", "spin"} /\ held[r] = held[p]
        /\ reg' = [reg EXCEPT ![held[p]] = Queue!NoQueue]
  <2>1. ASSUME NEW r \in Runs, r \in pend', r \notin pend
        PROVE  reg[held[p]] = r /\ main[r] \in {"fork", "suspend", "spin"} /\ held[r] = held[p]
               /\ reg' = [reg EXCEPT ![held[p]] = Queue!NoQueue]
    <3>1. pend' = pend \cup {reg[held[p]]} /\ reg' = [reg EXCEPT ![held[p]] = Queue!NoQueue]
      BY <1>g, <2>1
    <3>2. reg[held[p]] = r BY <2>1, <3>1
    <3> QED BY <1>d, <3>1, <3>2 DEF QueueInv, Registered
  <2> QED BY <2>1
<1>2. Holding'
  <2> SUFFICES ASSUME NEW r \in Runs
               PROVE  /\ main'[r] \in Opened \/ kid'[r] = "send" => held'[r] \in Runs
                      /\ main'[r] \in Before => r \notin pend' /\ r \notin recved'
                            /\ kid'[r] = "none"
                      /\ main'[r] \in {"block", "notify"} => kind'[r] # "plain"
                      /\ main'[r] \in {"start", "open"} =>
                           Len(msgs'[r]) = 0 /\ name' # r /\ \A o \in Runs : held'[o] # r
    BY Zenon DEF Holding, Size
  <2>0. /\ main[r] \in Opened \/ kid[r] = "send" => held[r] \in Runs
        /\ main[r] \in Before => r \notin pend /\ r \notin recved /\ kid[r] = "none"
        /\ main[r] \in {"block", "notify"} => kind[r] # "plain"
        /\ main[r] \in {"start", "open"} =>
             Len(msgs[r]) = 0 /\ name # r /\ \A o \in Runs : held[o] # r
    BY DEF QueueInv, Holding, Size
  <2>1. r \in pend' => r \in pend \/ main[r] \in {"fork", "suspend", "spin"} BY <1>p
  <2>2. kid'[r] = IF r = p THEN "sent" ELSE kid[r] BY <1>g, SMT DEF QueueInv, QueueShape
  <2> QED BY <1>d, <1>g, <1>h, <2>0, <2>1, <2>2, SMT
<1>3. Registered'
  <2> SUFFICES ASSUME NEW q \in Runs, NEW r \in Runs, reg'[q] = r
               PROVE  q = held'[r] /\ kind'[r] # "plain"
                      /\ main'[r] \in {"fork", "suspend", "spin"} /\ r \notin pend'
                            /\ r \notin recved'
    BY Zenon DEF Registered
  <2>0. reg[q] = r => q = held[r] /\ kind[r] # "plain"
          /\ main[r] \in {"fork", "suspend", "spin"} /\ r \notin pend /\ r \notin recved
    BY DEF QueueInv, Registered
  <2>1. CASE r = p BY <1>d, <1>g, <1>c, <2>0, <2>1, SMT DEF QueueInv, QueueShape, Holding
  <2>2. CASE r # p
    <3>1. reg[q] = r BY <1>c, <1>d, <1>g, SMT DEF QueueInv, QueueShape
    <3>2. reg' = [reg EXCEPT ![held[p]] = Queue!NoQueue] => q # held[p]
      BY <1>c, <1>d, SMT DEF QueueInv, QueueShape
    <3>3. r \notin pend' BY <1>p, <2>0, <3>1, <3>2
    <3> QED BY <1>g, <2>0, <3>1, <3>3
  <2> QED BY <2>1, <2>2
<1>4. OwnCourse(p)'
  BY <1>d, <1>g, <1>h, <1>n, <1>a, <1>b, <1>c, SMT DEF Acts, QueueInv, QueueShape, Holding,
     Registered, Lonely, Queue!Under, Queue!Alive, OwnCourse, OnCourse, PlainCourse,
     NotifiedCourse, SignalCourse, ThreadCourse, Size
<1> QED BY <1>1, <1>2, <1>3, <1>4, <1>a, Others DEF QueueInv

LEMMA QueueSendFull == ASSUME QueueInv, NEW p \in Runs, Queue!SendFull(p) PROVE QueueInv'
<1>0. /\ kid[p] = "send" /\ kind[p] # "plain" /\ Len(msgs[held[p]]) = MaxMsg
      /\ kid' = [kid EXCEPT ![p] = "full"]
      /\ UNCHANGED <<kind, main, name, msgs, reg, held, blocked, pend, recved, overlapped, kills>>
  BY Zenon DEF Queue!SendFull, Queue!At, Queue!Go, Queue!queues, Queue!Gone
<1>a. Acts(p) BY Acting DEF QueueInv, Queue!Step
<1>b. Lonely(p) BY DEF QueueInv
<1>c. \A r \in Runs : r # 0 BY QueueParameters DEF Queue!QueueAssumption
<1>d. held[p] \in Runs BY <1>0, SMT DEF QueueInv, Holding
<1>1. QueueShape' BY <1>0, <1>c, SMT DEF QueueInv, QueueShape, Holding, Size
<1>2. Holding' BY <1>0, <1>c, SMT DEF QueueInv, QueueShape, Holding, Size
<1>3. Registered' BY <1>0, <1>c, SMT DEF QueueInv, QueueShape, Holding, Registered
<1>4. OwnCourse(p)'
  BY QueueParameters, <1>d, <1>0, <1>a, <1>b, <1>c, SMT DEF Queue!QueueAssumption, Acts, QueueInv,
     QueueShape, Holding, Registered, Lonely, Queue!Under, Queue!Alive, OwnCourse, OnCourse,
     PlainCourse, NotifiedCourse, SignalCourse, ThreadCourse, Size
<1> QED BY <1>1, <1>2, <1>3, <1>4, <1>a, Others DEF QueueInv

LEMMA QueueReap == ASSUME QueueInv, NEW p \in Runs, Queue!Reap(p) PROVE QueueInv'
<1>0. /\ main[p] \in Queue!Over /\ kid[p] = "send"
      /\ kid' = [kid EXCEPT ![p] = IF kid[p] = "send" THEN "gone" ELSE kid[p]]
      /\ reg' = Queue!Dropped(p) /\ pend' = pend \ {p}
      /\ UNCHANGED <<kind, main, name, msgs, held, blocked, recved, overlapped, kills>>
  BY Zenon DEF Queue!Reap, Queue!At, Queue!Go, Queue!queues, Queue!Gone
<1>a. Acts(p) BY Acting DEF QueueInv, Queue!Step
<1>b. Lonely(p) BY DEF QueueInv
<1>c. \A r \in Runs : r # 0 BY QueueParameters DEF Queue!QueueAssumption
<1>d. /\ Queue!Dropped(p) \in [Runs -> Runs \cup {Queue!NoQueue}]
      /\ \A q \in Runs : Queue!Dropped(p)[q] = IF reg[q] = p THEN Queue!NoQueue ELSE reg[q]
  BY DroppedIs DEF QueueInv
<1>1. QueueShape'
  <2>1. main' \in [Runs -> Queue!Over \cup Opened \cup {"start", "open"}]
    BY <1>0, SMT DEF QueueInv, QueueShape
  <2>2. kid' \in [Runs -> {"none", "send", "sent", "full", "gone"}]
    BY <1>0, SMT DEF QueueInv, QueueShape
  <2>3. reg' \in [Runs -> Runs \cup {Queue!NoQueue}] BY <1>0, <1>d, Zenon DEF QueueInv, QueueShape
  <2>4. msgs' \in [Runs -> Seq(Runs)] /\ \A q \in Runs : Size(q)' <= MaxMsg
    BY <1>0, <1>d, SMT DEF QueueInv, QueueShape, Size
  <2> QED
    BY <1>0, <2>1, <2>2, <2>3, <2>4, QueueParameters, SMT DEF QueueInv, QueueShape,
       Queue!QueueAssumption
<1>2. Holding' BY <1>0, <1>d, <1>c, SMT DEF QueueInv, QueueShape, Holding, Size
<1>3. Registered'
  <2> SUFFICES ASSUME NEW q \in Runs, NEW r \in Runs, reg'[q] = r
               PROVE  q = held'[r] /\ kind'[r] # "plain"
                      /\ main'[r] \in {"fork", "suspend", "spin"} /\ r \notin pend'
                            /\ r \notin recved'
    BY Zenon DEF Registered
  <2>0. reg[q] = r => q = held[r] /\ kind[r] # "plain"
          /\ main[r] \in {"fork", "suspend", "spin"} /\ r \notin pend /\ r \notin recved
    BY DEF QueueInv, Registered
  <2>1. CASE r = p BY <1>0, <1>d, <1>c, <2>0, <2>1, SMT DEF QueueInv, QueueShape, Holding
  <2>2. CASE r # p BY <1>0, <1>d, <1>c, <2>0, <2>2, SMT DEF QueueInv, QueueShape, Holding
  <2> QED BY <2>1, <2>2
<1>4. OwnCourse(p)'
  BY <1>0, <1>d, <1>a, <1>b, <1>c, SMT DEF Acts, QueueInv, QueueShape, Holding, Registered,
     Lonely, Queue!Under, Queue!Alive, OwnCourse, OnCourse, PlainCourse, NotifiedCourse,
     SignalCourse, ThreadCourse, Size
<1> QED BY <1>1, <1>2, <1>3, <1>4, <1>a, Others DEF QueueInv

LEMMA QueueTimeout == ASSUME QueueInv, NEW p \in Runs, Queue!Timeout(p) PROVE QueueInv'
<1>0. /\ Queue!Stuck(p) /\ main' = [main EXCEPT ![p] = "timeout"]
      /\ kid' = [kid EXCEPT ![p] = IF kid[p] = "send" THEN "gone" ELSE kid[p]]
      /\ reg' = Queue!Dropped(p) /\ pend' = pend \ {p}
      /\ UNCHANGED <<kind, name, msgs, held, blocked, recved, overlapped, kills>>
  BY Zenon DEF Queue!Timeout, Queue!At, Queue!Go, Queue!queues, Queue!Gone
<1>a. Acts(p) BY Acting DEF QueueInv, Queue!Step
<1>b. Lonely(p) BY DEF QueueInv
<1>c. \A r \in Runs : r # 0 BY QueueParameters DEF Queue!QueueAssumption
<1>d. /\ Queue!Dropped(p) \in [Runs -> Runs \cup {Queue!NoQueue}]
      /\ \A q \in Runs : Queue!Dropped(p)[q] = IF reg[q] = p THEN Queue!NoQueue ELSE reg[q]
  BY DroppedIs DEF QueueInv
<1>1. QueueShape'
  <2>1. main' \in [Runs -> Queue!Over \cup Opened \cup {"start", "open"}]
    BY <1>0, SMT DEF QueueInv, QueueShape
  <2>2. kid' \in [Runs -> {"none", "send", "sent", "full", "gone"}]
    BY <1>0, SMT DEF QueueInv, QueueShape
  <2>3. reg' \in [Runs -> Runs \cup {Queue!NoQueue}] BY <1>0, <1>d, Zenon DEF QueueInv, QueueShape
  <2>4. msgs' \in [Runs -> Seq(Runs)] /\ \A q \in Runs : Size(q)' <= MaxMsg
    BY <1>0, <1>d, SMT DEF QueueInv, QueueShape, Size
  <2> QED
    BY <1>0, <2>1, <2>2, <2>3, <2>4, QueueParameters, SMT DEF QueueInv, QueueShape,
       Queue!QueueAssumption
<1>2. Holding' BY <1>0, <1>d, <1>c, SMT DEF QueueInv, QueueShape, Holding, Size
<1>3. Registered'
  <2> SUFFICES ASSUME NEW q \in Runs, NEW r \in Runs, reg'[q] = r
               PROVE  q = held'[r] /\ kind'[r] # "plain"
                      /\ main'[r] \in {"fork", "suspend", "spin"} /\ r \notin pend'
                            /\ r \notin recved'
    BY Zenon DEF Registered
  <2>0. reg[q] = r => q = held[r] /\ kind[r] # "plain"
          /\ main[r] \in {"fork", "suspend", "spin"} /\ r \notin pend /\ r \notin recved
    BY DEF QueueInv, Registered
  <2>1. CASE r = p BY <1>0, <1>d, <1>c, <2>0, <2>1, SMT DEF QueueInv, QueueShape, Holding
  <2>2. CASE r # p BY <1>0, <1>d, <1>c, <2>0, <2>2, SMT DEF QueueInv, QueueShape, Holding
  <2> QED BY <2>1, <2>2
<1>4. OwnCourse(p)'
  BY <1>0, <1>d, <1>a, <1>b, <1>c, SMT DEF Acts, QueueInv, QueueShape, Holding, Registered,
     Lonely, Queue!Under, Queue!Alive, OwnCourse, OnCourse, PlainCourse, NotifiedCourse,
     SignalCourse, ThreadCourse, Size, Queue!Stuck, Queue!At
<1> QED BY <1>1, <1>2, <1>3, <1>4, <1>a, Others DEF QueueInv

LEMMA QueueKill == ASSUME QueueInv, NEW p \in Runs, Queue!Kill(p) PROVE QueueInv'
<1>0. /\ Queue!Alive(p) /\ kills < MaxKills /\ kills' = kills + 1
           /\ main' = [main EXCEPT ![p] = "killed"]
      /\ kid' = [kid EXCEPT ![p] = IF kid[p] = "send" THEN "gone" ELSE kid[p]]
      /\ reg' = Queue!Dropped(p) /\ pend' = pend \ {p}
      /\ UNCHANGED <<kind, name, msgs, held, blocked, recved, overlapped>>
  BY Zenon DEF Queue!Kill, Queue!At, Queue!Go, Queue!queues, Queue!Gone
<1>a. Acts(p) BY Acting DEF QueueInv, Queue!Step
<1>b. Lonely(p) BY DEF QueueInv
<1>c. \A r \in Runs : r # 0 BY QueueParameters DEF Queue!QueueAssumption
<1>d. /\ Queue!Dropped(p) \in [Runs -> Runs \cup {Queue!NoQueue}]
      /\ \A q \in Runs : Queue!Dropped(p)[q] = IF reg[q] = p THEN Queue!NoQueue ELSE reg[q]
  BY DroppedIs DEF QueueInv
<1>1. QueueShape'
  <2>1. main' \in [Runs -> Queue!Over \cup Opened \cup {"start", "open"}]
    BY <1>0, SMT DEF QueueInv, QueueShape
  <2>2. kid' \in [Runs -> {"none", "send", "sent", "full", "gone"}]
    BY <1>0, SMT DEF QueueInv, QueueShape
  <2>3. reg' \in [Runs -> Runs \cup {Queue!NoQueue}] BY <1>0, <1>d, Zenon DEF QueueInv, QueueShape
  <2>4. msgs' \in [Runs -> Seq(Runs)] /\ \A q \in Runs : Size(q)' <= MaxMsg
    BY <1>0, <1>d, SMT DEF QueueInv, QueueShape, Size
  <2> QED
    BY <1>0, <2>1, <2>2, <2>3, <2>4, QueueParameters, SMT DEF QueueInv, QueueShape,
       Queue!QueueAssumption
<1>2. Holding' BY <1>0, <1>d, <1>c, SMT DEF QueueInv, QueueShape, Holding, Size
<1>3. Registered'
  <2> SUFFICES ASSUME NEW q \in Runs, NEW r \in Runs, reg'[q] = r
               PROVE  q = held'[r] /\ kind'[r] # "plain"
                      /\ main'[r] \in {"fork", "suspend", "spin"} /\ r \notin pend'
                            /\ r \notin recved'
    BY Zenon DEF Registered
  <2>0. reg[q] = r => q = held[r] /\ kind[r] # "plain"
          /\ main[r] \in {"fork", "suspend", "spin"} /\ r \notin pend /\ r \notin recved
    BY DEF QueueInv, Registered
  <2>1. CASE r = p BY <1>0, <1>d, <1>c, <2>0, <2>1, SMT DEF QueueInv, QueueShape, Holding
  <2>2. CASE r # p BY <1>0, <1>d, <1>c, <2>0, <2>2, SMT DEF QueueInv, QueueShape, Holding
  <2> QED BY <2>1, <2>2
<1>4. OwnCourse(p)'
  BY <1>0, <1>d, <1>a, <1>b, <1>c, SMT DEF Acts, QueueInv, QueueShape, Holding, Registered,
     Lonely, Queue!Under, Queue!Alive, OwnCourse, OnCourse, PlainCourse, NotifiedCourse,
     SignalCourse, ThreadCourse, Size
<1> QED BY <1>1, <1>2, <1>3, <1>4, <1>a, Others DEF QueueInv

(* So does every step.                                                     *)
LEMMA QueueStep == QueueInv /\ (Queue!Next \/ UNCHANGED Queue!vars) => QueueInv'
<1> SUFFICES ASSUME QueueInv, (Queue!Next \/ UNCHANGED Queue!vars) PROVE QueueInv' OBVIOUS
<1>1. CASE UNCHANGED Queue!vars
  BY <1>1, SMT DEF Queue!vars, Queue!queues, QueueInv, QueueShape, Size, Holding, Registered,
     Lonely, Queue!Under, Queue!Alive, OnCourse, PlainCourse, NotifiedCourse, SignalCourse,
     ThreadCourse
<1>2. ASSUME NEW p \in Runs, Queue!Start(p) \/ Queue!Step(p) \/ Queue!Kill(p) PROVE QueueInv'
  BY <1>2, QueueStart, QueueOpen, QueueBlock, QueueNotify, QueueFork, QueueHandler, QueueReceive,
     QueueThreadStarter, QueueSpin, QueueClose, QueueUnlink, QueueWait, QueueHandOver, QueueSend,
     QueueSendFull, QueueReap, QueueTimeout, QueueKill DEF Queue!Step
<1> QED BY <1>1, <1>2 DEF Queue!Next

HIDE DEF Opened, Before, Queue!Over, Queue!Kinds, Queue!NoQueue
-----------------------------------------------------------------------------
(***************************************************************************)
(* RtSignals: rt_signals.c.  While no signal is early the child has taken  *)
(* the first of those sent, and the rest of them wait.                     *)
(***************************************************************************)

(* The types, and how many signals are taken at each point of the child.   *)
SignalShape ==
  /\ sent \in 0 .. Signals!Total /\ waiting \subseteq 1 .. sent
  /\ early \subseteq 1 .. Signals!Total
  /\ taken \in Seq(1 .. Signals!Total)
  /\ child \in {"start", "wait", "action", "suspend", "done", "killed", "killed_by_the_library"}
  /\ child = "start" => Len(taken) = 0 /\ waiting \subseteq early
  /\ child = "wait" => Len(taken) \in {0, 1}
  /\ child \in {"action", "suspend"} => Len(taken) = 2
  /\ child = "done" => Len(taken) = 3
  /\ child = "killed" => early # {}

(* What is taken are the first signals, and the others that are sent wait. *)
Punctual ==
  /\ \A i \in DOMAIN taken : taken[i] = i
  /\ child = "start" => sent = 0
  /\ child = "wait" => sent <= 2
  /\ Signals!Alive => /\ Len(taken) <= sent
                      /\ \A s \in 1 .. 3 : s \in waiting <=> Len(taken) < s /\ s <= sent

SignalInv == SignalShape /\ (early = {} => Punctual)

USE DEF Signals!Total, Signals!Wanted

(* A set of signals that is not empty has an oldest one.                   *)
LEMMA OldestThere ==
  ASSUME NEW S \in SUBSET (1 .. 3), S # {}
  PROVE  Signals!Oldest(S) \in S /\ \A t \in S : Signals!Oldest(S) <= t
<1>1. \E s \in S : \A t \in S : s <= t
  <2>1. CASE 1 \in S BY <2>1, SMT
  <2>2. CASE 1 \notin S /\ 2 \in S BY <2>2, SMT
  <2>3. CASE 1 \notin S /\ 2 \notin S
    <3>1. PICK x \in S : TRUE OBVIOUS
    <3>2. \A t \in S : t = 3 BY <2>3, SMT
    <3> QED BY <3>1, <3>2, SMT
  <2> QED BY <2>1, <2>2, <2>3
<1> QED BY <1>1, Zenon DEF Signals!Oldest

(* The signal that is delivered first is one that waits: the second, of    *)
(* the higher number, only when no other does.                             *)
LEMMA FirstThere ==
  ASSUME SignalShape, waiting # {}
  PROVE  /\ Signals!First \in waiting
         /\ Signals!First = 2 => 1 \notin waiting /\ 3 \notin waiting
         /\ Signals!First = 3 => 1 \notin waiting
<1>0. waiting \subseteq 1 .. 3 BY SMT DEF SignalShape
<1>1. /\ Signals!Of(0) \subseteq waiting /\ Signals!Of(1) \subseteq waiting
      /\ \A s \in waiting : s = 2 => s \in Signals!Of(1)
      /\ \A s \in waiting : s # 2 => s \in Signals!Of(0)
      /\ 2 \notin Signals!Of(0)
  BY <1>0, SMT DEF Signals!Of, Signals!Number
<1>2. CASE Signals!Of(0) = {}
  <2>1. Signals!Of(1) # {} BY <1>1, <1>2
  <2>2. Signals!First \in Signals!Of(1) BY <2>1, <1>0, <1>1, <1>2, OldestThere DEF Signals!First
  <2> QED BY <2>2, <1>0, <1>1, <1>2, SMT
<1>3. CASE Signals!Of(0) # {}
  <2>1. Signals!First \in Signals!Of(0) /\ \A t \in Signals!Of(0) : Signals!First <= t
    BY <1>0, <1>1, <1>3, OldestThere DEF Signals!First
  <2> QED BY <2>1, <1>0, <1>1, <1>3, SMT
<1> QED BY <1>2, <1>3

LEMMA SignalInit == Signals!Init => SignalInv
BY SMT DEF Signals!Init, SignalInv, SignalShape, Punctual

LEMMA SignalSafe == SignalInv => Signals!TypeOK /\ Signals!InTurn
<1> SUFFICES ASSUME SignalInv PROVE Signals!TypeOK /\ Signals!InTurn OBVIOUS
<1>1. Signals!TypeOK BY SMT DEF SignalInv, SignalShape, Signals!TypeOK
<1>2. Signals!InTurn BY SMT DEF SignalInv, SignalShape, Punctual, Signals!InTurn
<1> QED BY <1>1, <1>2

(* sigwaitinfo and sigsuspend take the signal that is the next one.        *)
LEMMA SignalTake ==
  ASSUME SignalInv, waiting # {}, child \in {"wait", "suspend"},
         taken' = Append(taken, Signals!First), waiting' = waiting \ {Signals!First},
         child' = IF child = "suspend" THEN "done"
                  ELSE IF Len(taken) + 1 < 2 THEN "wait" ELSE "action",
         UNCHANGED <<sent, early>>,
         child = "suspend" => Signals!First # 2
  PROVE  SignalInv'
<1>0. Signals!First \in waiting /\ (Signals!First = 2 => 1 \notin waiting /\ 3 \notin waiting)
        /\ (Signals!First = 3 => 1 \notin waiting)
  BY FirstThere DEF SignalInv
<1>1. PICK f \in 1 .. 3 : f = Signals!First BY <1>0, SMT DEF SignalInv, SignalShape
<1>2. PICK n \in Nat : n = Len(taken) BY SMT DEF SignalInv, SignalShape
<1>3. PICK q \in Seq(1 .. 3) : q = Append(taken, f)
  <2>1. taken \in Seq(1 .. 3) BY DEF SignalInv, SignalShape
  <2> QED BY <2>1, AppendProperties
<1>4. /\ Len(q) = n + 1 /\ DOMAIN taken = 1 .. n /\ DOMAIN q = 1 .. n + 1 /\ q[n + 1] = f
      /\ \A i \in 1 .. n : q[i] = taken[i]
  BY <1>2, <1>3, SMT DEF SignalInv, SignalShape
<1>5. taken' = q BY <1>1, <1>3
<1>6. SignalShape' BY <1>0, <1>1, <1>2, <1>4, <1>5, SMT DEF SignalInv, SignalShape
<1>7. ASSUME early = {} PROVE Punctual'
  <2>1. Punctual /\ n <= sent /\ sent \in 0 .. 3
    BY <1>7, <1>2, SMT DEF SignalInv, SignalShape, Punctual, Signals!Alive
  <2>2. f = n + 1
    BY <2>1, <1>0, <1>1, <1>2, SMT DEF Punctual, Signals!Alive, SignalInv, SignalShape
  <2>3. \A i \in DOMAIN q : q[i] = i BY <2>1, <2>2, <1>4, SMT DEF Punctual
  <2>4. /\ child' = "wait" => sent' <= 2
        /\ Signals!Alive' => /\ n + 1 <= sent'
                     /\ \A s \in 1 .. 3 : s \in waiting' <=> n + 1 < s /\ s <= sent'
    BY <2>1, <2>2, <1>0, <1>1, <1>2, SMT DEF Punctual, Signals!Alive, SignalInv, SignalShape
  <2> QED BY <2>3, <2>4, <1>4, <1>5, SMT DEF Punctual, Signals!Alive
<1> QED BY <1>6, <1>7 DEF SignalInv

(* Each step of the sender and the child keeps the invariant.              *)
LEMMA SignalStep == SignalInv /\ (Signals!Next \/ UNCHANGED Signals!rsvars) => SignalInv'
<1> SUFFICES ASSUME SignalInv, (Signals!Next \/ UNCHANGED Signals!rsvars) PROVE SignalInv' OBVIOUS
<1>1. CASE Signals!Sigqueue
  <2>1. SignalShape' BY <1>1, SMT DEF Signals!Sigqueue, SignalInv, SignalShape
  <2>2. ASSUME early' = {} PROVE Punctual'
    <3>1. early = {} /\ child # "start" /\ ~(sent + 1 = 3 /\ child = "wait")
      BY <1>1, <2>2, SMT DEF Signals!Sigqueue
    <3>2. PICK n \in Nat : n = Len(taken) BY SMT DEF SignalInv, SignalShape
    <3> QED
      BY <1>1, <3>1, <3>2, SMT DEF Signals!Sigqueue, SignalInv, SignalShape, Punctual,
         Signals!Alive
  <2> QED BY <2>1, <2>2 DEF SignalInv
<1>2. CASE Signals!Die
  <2>1. child' = "killed" /\ UNCHANGED <<sent, waiting, taken, early>>
    BY <1>2, Zenon DEF Signals!Die
  <2>2. early # {}
    <3>1. CASE child = "start" /\ waiting # {}
      <4>1. waiting \subseteq early BY <3>1, Zenon DEF SignalInv, SignalShape
      <4> QED BY <3>1, <4>1
    <3>2. CASE child = "suspend" /\ Signals!Of(1) # {}
      <4>1. PICK n \in Nat : n = Len(taken) BY SMT DEF SignalInv, SignalShape
      <4>2. waiting \subseteq 1 .. 3 BY SMT DEF SignalInv, SignalShape
      <4>3. 2 \in waiting BY <3>2, <4>2, SMT DEF Signals!Of, Signals!Number
      <4> QED BY <4>1, <4>3, <3>2, SMT DEF SignalInv, SignalShape, Punctual, Signals!Alive
    <3> QED BY <1>2, <3>1, <3>2, Zenon DEF Signals!Die
  <2>3. SignalShape' BY <2>1, <2>2, SMT DEF SignalInv, SignalShape
  <2>4. early' # {} BY <2>1, <2>2
  <2> QED BY <2>3, <2>4 DEF SignalInv
<1>3. CASE Signals!Sigprocmask
  BY <1>3, SMT DEF Signals!Sigprocmask, SignalInv, SignalShape, Punctual, Signals!Alive
<1>4. CASE Signals!Sigtimedwait BY <1>4, SignalTake DEF Signals!Sigtimedwait
<1>5. CASE Signals!Sigaction
  BY <1>5, SMT DEF Signals!Sigaction, SignalInv, SignalShape, Punctual, Signals!Alive
<1>6. CASE Signals!Handler
  <2>1. waiting # {} BY <1>6 DEF Signals!Handler, Signals!Of
  <2>2. Signals!First # 2
    <3>1. waiting \subseteq 1 .. 3 BY SMT DEF SignalInv, SignalShape
    <3>2. Signals!Of(0) \subseteq waiting /\ 2 \notin Signals!Of(0)
      BY SMT DEF Signals!Of, Signals!Number
    <3>3. Signals!Of(0) \in SUBSET (1 .. 3) BY <3>1, <3>2
    <3> QED BY <1>6, <3>2, <3>3, OldestThere DEF Signals!Handler, Signals!First
  <2> QED BY <1>6, <2>1, <2>2, SignalTake DEF Signals!Handler
<1>7. CASE Signals!Killpg
  BY <1>7, SMT DEF Signals!Killpg, SignalInv, SignalShape, Punctual, Signals!Alive
<1>8. CASE UNCHANGED Signals!rsvars
  BY <1>8, SMT DEF Signals!rsvars, SignalInv, SignalShape, Punctual, Signals!Alive
<1> QED BY <1>1, <1>2, <1>3, <1>4, <1>5, <1>6, <1>7, <1>8 DEF Signals!Next, Signals!Child

HIDE DEF Signals!Total, Signals!Wanted
-----------------------------------------------------------------------------
(***************************************************************************)
(* RtTimers: rt_timers.c.  When the timer expires next follows from how    *)
(* often it has expired, and, of a test that is not held up, where it is   *)
(* from the time.                                                          *)
(***************************************************************************)

Napping == {"nap", "asleep", "look"}

(* The types.                                                              *)
TimerShape ==
  /\ now \in 0 .. Timers!Limit /\ loop \in {"arm"} \cup Napping \cup Timers!Over
  /\ wake \in 0 .. Timers!Limit + Timers!Nap /\ next \in 1 .. Timers!Never
  /\ overrun \in Nat /\ expire \in Nat /\ expired \in Nat /\ heldUp \in Nat

(* The first expiration comes Value after the timer was armed, and each    *)
(* other one Interval after the one before; the handler has counted some   *)
(* of them, and the pending signal stands for others.                      *)
Counted ==
  /\ expire <= expired /\ (pending => expire + 1 + overrun <= expired)
  /\ loop = "arm" => ~pending /\ expired = 0 /\ overrun = 0 /\ next = Timers!Never
  /\ loop \in Napping => /\ now < next /\ next >= Timers!Value + Timers!Interval * expired
                         /\ next <= now + Timers!Value
                         /\ (expired > 0 => next <= now + Timers!Interval)
  /\ loop = "quit" => expired >= Timers!MaxExpire /\ now >= Timers!Value + Timers!Interval

(* A test that is not held up sleeps from 0 to 3, 3 to 5, 5 to 8, 8 to 9.  *)
OnTime ==
  /\ loop = "arm" => now = 0
  /\ loop \in Napping =>
       /\ overrun = 0 /\ (pending => expire + 1 = expired) /\ (~pending => expire = expired)
       /\ \/ now < 5 /\ next = 5 /\ expired = 0
          \/ now \in 5 .. 8 /\ next = 9 /\ expired = 1
          \/ now = 9 /\ next = 13 /\ expired = 2
  /\ loop = "nap" => ~pending /\ now \in {0, 3, 5, 8}
  /\ loop = "look" => ~pending /\ now \in {3, 5, 8, 9}
  /\ loop = "asleep" =>
       \/ wake = 3 /\ now <= 3 /\ ~pending
       \/ wake = 6 /\ now \in 3 .. 5 /\ (pending <=> now = 5)
       \/ wake = 8 /\ now \in 5 .. 8 /\ ~pending
       \/ wake = 11 /\ now \in 8 .. 9 /\ (pending <=> now = 9)
  /\ loop = "quit" => now = 9
  /\ loop # "timeout"

TimerInv == pending \in BOOLEAN /\ TimerShape /\ Counted /\ (heldUp = 0 => OnTime)

USE DEF Timers!Limit, Timers!MaxExpire, Timers!Value, Timers!Interval, Timers!Nap, Timers!Never,
        Napping, Timers!Over

LEMMA TimerInit == Timers!Init => TimerInv
<1> SUFFICES ASSUME Timers!Init PROVE TimerInv OBVIOUS
<1>1. pending \in BOOLEAN BY DEF Timers!Init
<1>2. TimerShape /\ Counted /\ OnTime BY SMT DEF Timers!Init, TimerShape, Counted, OnTime
<1> QED BY <1>1, <1>2 DEF TimerInv

LEMMA TimerSafe == TimerInv => Timers!TypeOK /\ Timers!QuitsInTime
<1> SUFFICES ASSUME TimerInv PROVE Timers!TypeOK /\ Timers!QuitsInTime OBVIOUS
<1>1. Timers!TypeOK BY SMT DEF TimerInv, TimerShape, Timers!TypeOK
<1>2. Timers!QuitsInTime BY SMT DEF TimerInv, TimerShape, Counted, OnTime, Timers!QuitsInTime
<1> QED BY <1>1, <1>2

(* Each step of the test and of the clock keeps the invariant.             *)
LEMMA TimerStep == TimerInv /\ (Timers!Next \/ UNCHANGED Timers!rtvars) => TimerInv'
<1> SUFFICES ASSUME TimerInv, (Timers!Next \/ UNCHANGED Timers!rtvars) PROVE TimerInv' OBVIOUS
<1>a. pending' \in BOOLEAN
  BY Zenon DEF TimerInv, Timers!Next, Timers!rtvars, Timers!Test, Timers!Tick, Timers!Timeout,
     Timers!Arm, Timers!ClockNanosleep, Timers!Wake, Timers!TimerHandler, Timers!Look
<1> USE <1>a DEF TimerInv
<1>1. CASE Timers!Arm
  <2>1. TimerShape' BY <1>1, SMT DEF Timers!Arm, TimerShape
  <2>2. Counted' BY <1>1, SMT DEF Timers!Arm, TimerShape, Counted
  <2>3. (heldUp = 0 => OnTime)' BY <1>1, SMT DEF Timers!Arm, TimerShape, Counted, OnTime
  <2> QED BY <2>1, <2>2, <2>3
<1>2. CASE Timers!ClockNanosleep
  <2>1. TimerShape' /\ Counted' BY <1>2, SMT DEF Timers!ClockNanosleep, TimerShape, Counted
  <2>2. (heldUp = 0 => OnTime)' BY <1>2, SMT DEF Timers!ClockNanosleep, TimerShape, OnTime
  <2> QED BY <2>1, <2>2
<1>3. CASE Timers!Wake
  <2>1. TimerShape' /\ Counted' BY <1>3, SMT DEF Timers!Wake, TimerShape, Counted
  <2>2. (heldUp = 0 => OnTime)' BY <1>3, SMT DEF Timers!Wake, TimerShape, OnTime
  <2> QED BY <2>1, <2>2
<1>4. CASE Timers!TimerHandler
  <2>0. PICK counted \in {-1, overrun} :
          expire' = expire + 1 + (IF counted = -1 THEN 0 ELSE counted)
    BY <1>4 DEF Timers!TimerHandler
  <2>a. expire' = expire + 1 \/ expire' = expire + 1 + overrun BY <2>0, SMT DEF TimerShape
  <2>b. /\ pending /\ loop \notin Timers!Over /\ ~pending' /\ overrun' = 0
        /\ loop' = IF loop = "asleep" THEN "look" ELSE loop
        /\ UNCHANGED <<now, wake, next, expired, heldUp>>
    BY <1>4, Zenon DEF Timers!TimerHandler
  <2>1. TimerShape' BY <2>a, <2>b, SMT DEF TimerShape
  <2>2. Counted' BY <2>a, <2>b, SMT DEF TimerShape, Counted
  <2>3. (heldUp = 0 => OnTime)' BY <2>a, <2>b, SMT DEF TimerShape, OnTime
  <2> QED BY <2>1, <2>2, <2>3
<1>5. CASE Timers!Look
  <2>1. TimerShape' /\ Counted' BY <1>5, SMT DEF Timers!Look, TimerShape, Counted
  <2>2. (heldUp = 0 => OnTime)' BY <1>5, SMT DEF Timers!Look, TimerShape, OnTime
  <2> QED BY <2>1, <2>2
<1>6. CASE Timers!Tick
  <2>1. TimerShape' BY <1>6, SMT DEF Timers!Tick, TimerShape, Counted
  <2>2. Counted' BY <1>6, SMT DEF Timers!Tick, TimerShape, Counted
  <2>3. (heldUp = 0 => OnTime)' BY <1>6, SMT DEF Timers!Tick, TimerShape, OnTime
  <2> QED BY <2>1, <2>2, <2>3
<1>7. CASE Timers!Timeout BY <1>7, SMT DEF Timers!Timeout, TimerShape, Counted, OnTime
<1>8. CASE UNCHANGED Timers!rtvars BY <1>8, SMT DEF Timers!rtvars, TimerShape, Counted, OnTime
<1> QED BY <1>1, <1>2, <1>3, <1>4, <1>5, <1>6, <1>7, <1>8 DEF Timers!Next, Timers!Test

HIDE DEF Timers!Limit, Timers!MaxExpire, Timers!Value, Timers!Interval, Timers!Nap, Timers!Never,
        Napping, Timers!Over
-----------------------------------------------------------------------------
(***************************************************************************)
(* UniqueConnections: unique_connections.c.  Clients that live have        *)
(* process numbers of their own, and what stands under the name of one     *)
(* that has bound it is his, unless it was removed in place of another's.  *)
(***************************************************************************)

(* What stands under a name, and when the server has a client in hand;     *)
(* Past are the clients that have bound one.                               *)
Names == [of : Clients, private : BOOLEAN, fresh : BOOLEAN]
Busy  == server \in {"stat", "unlink_client"}
Past  == {"chmod", "connect", "connected", "accepted", "closed", "lost"}

(* The types.                                                              *)
ConnShape ==
  /\ user \in [Clients -> Users] /\ srvuser \in Users
  /\ client \in [Clients -> Connections!Ended \cup
                   {"new", "unlink", "bind", "chmod", "connect", "connected", "accepted",
                    "closed", "lost"}]
  /\ pid \in [Clients -> Pids \cup {None}] /\ file \in [Pids -> Names \cup {None}]
  /\ srvname \in {"absent", "left", "bound", "live"}
  /\ server \in {"unlink", "bind", "listen", "accept", "stat", "unlink_client", "failed"}
  /\ backlog \in Seq(Clients) /\ Len(backlog) <= Qlen
  /\ cur \in Clients \cup {None} /\ (Busy => cur \in Clients)
  /\ DOMAIN uid = Clients /\ crashes \in 0 .. MaxCrashes

(* No two that live have the same process number, and a name is that of a  *)
(* client with the number it stands for.                                   *)
Numbered ==
  /\ \A c \in Clients : Connections!Alive(c) => pid[c] \in Pids
  /\ \A c, d \in Clients :
       Connections!Alive(c) /\ Connections!Alive(d) /\ pid[c] = pid[d] => c = d
  /\ \A c \in Clients : Connections!At(c, "new") => pid[c] = None
  /\ \A p \in Pids : file[p] # None => pid[file[p].of] = p

(* Nobody is in the backlog twice, or in it and in hand.                   *)
Waits(c) == client[c] \in {"connected", "exit"}
Queued ==
  /\ \A i, j \in DOMAIN backlog : backlog[i] = backlog[j] => i = j
  /\ \A i \in DOMAIN backlog : Waits(backlog[i]) /\ (Busy => backlog[i] # cur)
  /\ Busy => Waits(cur)

(* The name of a client that has bound one: it is his, made private and    *)
(* fresh, unless time or serv_accept has spoilt it.                        *)
Mine(c) ==
  /\ client[c] \in Past => Connections!Name(c) = None \/ Connections!Name(c).of = c
  /\ client[c] \in {"chmod", "connect", "connected"} /\ c \notin robbed =>
        Connections!Name(c) # None
  /\ client[c] \in {"connect", "connected"} /\ c \notin aged \cup robbed =>
       Connections!Name(c).private /\ Connections!Name(c).fresh
OwnName == \A c \in Clients : Mine(c)

(* Between stat and unlink the user read from the name is that of the      *)
(* client.                                                                 *)
Known ==
  server = "unlink_client" /\ Connections!At(cur, "connected") => uid[cur] = user[cur]

ConnInv ==
  /\ ConnShape /\ Numbered /\ Queued /\ OwnName /\ Known
  /\ Connections!OwnUser /\ Connections!TurnedDown /\ Connections!InTheWay

USE DEF Connections!Ended, Past, Names, Busy

(* chmod makes a name private and fresh.                                   *)
LEMMA Renewed ==
  ASSUME NEW n \in Names, NEW m, m = [n EXCEPT !.private = TRUE, !.fresh = TRUE]
  PROVE  m \in Names /\ m.of = n.of /\ m.private /\ m.fresh
<1>1. m \in Names BY Zenon DEF Names
<1>2. m.of = n.of BY SMT DEF Names
<1>3. m.private BY SMT DEF Names
<1>4. DOMAIN n = {"of", "private", "fresh"} BY SMT DEF Names
<1>5. m.fresh = TRUE BY <1>4, Zenon
<1> QED BY <1>1, <1>2, <1>3, <1>5

(* Time makes it old.                                                      *)
LEMMA Stale ==
  ASSUME NEW n \in Names, NEW m, m = [n EXCEPT !.fresh = FALSE]
  PROVE  m \in Names /\ m.of = n.of
<1>1. m \in Names BY Zenon DEF Names
<1>2. m.of = n.of BY SMT DEF Names
<1> QED BY <1>1, <1>2

LEMMA ConnInit == Connections!Init => ConnInv
BY ConnParameters, SMT DEF Connections!ConnAssumption, Connections!Init, ConnInv, ConnShape,
   Numbered, Queued, OwnName, Known, Connections!OwnUser, Connections!TurnedDown,
   Connections!InTheWay, Connections!Alive, Connections!At, Waits, Mine, Connections!Name

(* Each operation of the clients, the server and the system keeps the      *)
(* invariant.                                                              *)
LEMMA ConnBegin == ASSUME ConnInv, NEW c \in Clients, Connections!Begin(c) PROVE ConnInv'
<1>0. /\ client' = [client EXCEPT ![c] = "unlink"] /\ client[c] = "new"
      /\ UNCHANGED <<user, srvuser, file, srvname, server, backlog, cur, uid, aged, robbed,
            crashes>>
  BY SMT DEF Connections!Begin, Connections!who, Connections!Go, Connections!At
<1>1. PICK p \in Pids : pid' = [pid EXCEPT ![c] = p]
        /\ \A d \in Clients : Connections!Alive(d) => pid[d] # p
  BY DEF Connections!Begin
<1>2. ConnShape' BY <1>0, <1>1, SMT DEF ConnInv, ConnShape
<1>3. Numbered'
  BY <1>0, <1>1, ConnParameters, SMT DEF Connections!ConnAssumption, ConnInv, ConnShape, Numbered,
     Connections!Alive, Connections!At
<1>4. Queued' BY <1>0, SMT DEF ConnInv, ConnShape, Queued, Waits
<1>5. OwnName' BY <1>0, <1>1, SMT DEF ConnInv, ConnShape, OwnName, Mine, Connections!Name
<1>6. Known' BY <1>0, SMT DEF ConnInv, ConnShape, Known, Connections!At
<1>7. Connections!OwnUser' /\ Connections!TurnedDown'
  BY <1>0, SMT DEF ConnInv, ConnShape, Connections!OwnUser, Connections!TurnedDown, Connections!At
<1>8. Connections!InTheWay'
  BY <1>0, <1>1, ConnParameters, SMT DEF Connections!ConnAssumption, ConnInv, ConnShape,
     Connections!InTheWay, Numbered, Connections!Alive, Connections!At, Connections!Name
<1> QED BY <1>2, <1>3, <1>4, <1>5, <1>6, <1>7, <1>8 DEF ConnInv

LEMMA ConnUnlinkOwn == ASSUME ConnInv, NEW c \in Clients, Connections!UnlinkOwn(c) PROVE ConnInv'
<1>0. /\ client' = [client EXCEPT ![c] = "bind"] /\ client[c] = "unlink"
      /\ file' = IF Connections!MayRemove(user[c],
            pid[c]) THEN [file EXCEPT ![pid[c]] = None] ELSE file
      /\ UNCHANGED <<user, srvuser, pid, srvname, server, backlog, cur, uid, aged, robbed,
            crashes>>
  BY SMT DEF Connections!UnlinkOwn, Connections!who, Connections!Go, Connections!At
<1>1. ConnShape'
  BY <1>0, ConnParameters, SMT DEF Connections!ConnAssumption, ConnInv, ConnShape, Numbered,
     Connections!Alive
<1>2. Numbered'
  BY <1>0, ConnParameters, SMT DEF Connections!ConnAssumption, ConnInv, ConnShape, Numbered,
     Connections!Alive, Connections!At
<1>3. Queued'
  BY <1>0, ConnParameters, SMT DEF Connections!ConnAssumption, ConnInv, ConnShape, Queued, Waits
<1>4. OwnName'
  BY <1>0, ConnParameters, SMT DEF Connections!ConnAssumption, ConnInv, ConnShape, OwnName, Mine,
     Connections!Name, Numbered, Connections!Alive
<1>5. Known'
  BY <1>0, ConnParameters, SMT DEF Connections!ConnAssumption, ConnInv, ConnShape, Known,
     Connections!At
<1>6. Connections!OwnUser'
  BY <1>0, ConnParameters, SMT DEF Connections!ConnAssumption, ConnInv, ConnShape,
     Connections!OwnUser, Connections!At
<1>7. Connections!TurnedDown'
  BY <1>0, ConnParameters, SMT DEF Connections!ConnAssumption, ConnInv, ConnShape,
     Connections!TurnedDown, Connections!At
<1>8. Connections!InTheWay'
  BY <1>0, ConnParameters, SMT DEF Connections!ConnAssumption, ConnInv, ConnShape,
     Connections!InTheWay, Connections!Alive, Connections!At, Connections!Name, Numbered,
     Connections!MayRemove
<1> QED BY <1>1, <1>2, <1>3, <1>4, <1>5, <1>6, <1>7, <1>8 DEF ConnInv

LEMMA ConnBind == ASSUME ConnInv, NEW c \in Clients, Connections!Bind(c) PROVE ConnInv'
<1>0. /\ client[c] = "bind"
      /\ IF Connections!Name(c) = None
           THEN /\ file' = [file EXCEPT ![pid[c]] = [of |-> c, private |-> FALSE, fresh |-> TRUE]]
                /\ client' = [client EXCEPT ![c] = "chmod"]
           ELSE client' = [client EXCEPT ![c] = "refused_at_bind"] /\ file' = file
      /\ UNCHANGED <<user, srvuser, pid, srvname, server, backlog, cur, uid, aged, robbed,
            crashes>>
  BY SMT DEF Connections!Bind, Connections!who, Connections!Go, Connections!At
<1>a. PICK f \in Names : f = [of |-> c, private |-> FALSE, fresh |-> TRUE] OBVIOUS
<1>b. pid[c] \in Pids /\ f.of = c /\ f # None
  <2>1. pid[c] \in Pids BY <1>0, SMT DEF ConnInv, Numbered, Connections!Alive
  <2>2. f.of = c BY <1>a, SMT
  <2>3. f # None BY ConnParameters DEF Connections!ConnAssumption
  <2> QED BY <2>1, <2>2, <2>3
<1>c. IF Connections!Name(c) = None
           THEN /\ file' = [file EXCEPT ![pid[c]] = f] /\ client' = [client EXCEPT ![c] = "chmod"]
           ELSE client' = [client EXCEPT ![c] = "refused_at_bind"] /\ file' = file
  BY <1>0, <1>a
<1>d. /\ client[c] = "bind"
      /\ UNCHANGED <<user, srvuser, pid, srvname, server, backlog, cur, uid, aged, robbed,
            crashes>>
  BY <1>0
<1>1. ConnShape'
  BY <1>b, <1>c, <1>d, ConnParameters, SMT DEF Connections!ConnAssumption, ConnInv, ConnShape
<1>2. Numbered'
  BY <1>0, ConnParameters, SMT DEF Connections!ConnAssumption, ConnInv, ConnShape, Numbered,
     Connections!Alive, Connections!At
<1>3. Queued'
  BY <1>0, ConnParameters, SMT DEF Connections!ConnAssumption, ConnInv, ConnShape, Queued, Waits
<1>4. OwnName'
  <2> SUFFICES ASSUME NEW d \in Clients PROVE Mine(d)' BY DEF OwnName
  <2>1. CASE d = c BY <1>b, <1>c, <1>d, <2>1, SMT DEF ConnInv, ConnShape, Mine, Connections!Name
  <2>2. CASE d # c /\ Connections!Alive(d)
    <3>1. pid[d] # pid[c] BY <2>2, <1>d, SMT DEF ConnInv, Numbered, Connections!Alive
    <3>2. Mine(d) BY DEF ConnInv, OwnName
    <3>3. file'[pid[d]] = file[pid[d]]
      BY <3>1, <1>b, <1>c, <2>2, SMT DEF ConnInv, ConnShape, Numbered
    <3>4. client'[d] = client[d] BY <1>c, <2>2, SMT DEF ConnInv, ConnShape
    <3> QED BY <3>2, <3>3, <3>4, <1>d DEF Mine, Connections!Name
  <2>3. CASE d # c /\ ~Connections!Alive(d)
    BY <1>c, <1>d, <2>3, SMT DEF ConnInv, ConnShape, Mine, Connections!Alive
  <2> QED BY <2>1, <2>2, <2>3
<1>5. Known'
  BY <1>0, ConnParameters, SMT DEF Connections!ConnAssumption, ConnInv, ConnShape, Known,
     Connections!At
<1>6. Connections!OwnUser'
  BY <1>0, ConnParameters, SMT DEF Connections!ConnAssumption, ConnInv, ConnShape,
     Connections!OwnUser, Connections!At
<1>7. Connections!TurnedDown'
  BY <1>0, ConnParameters, SMT DEF Connections!ConnAssumption, ConnInv, ConnShape,
     Connections!TurnedDown, Connections!At
<1>8. Connections!InTheWay'
  BY <1>0, ConnParameters, SMT DEF Connections!ConnAssumption, ConnInv, ConnShape,
     Connections!InTheWay, Connections!Alive, Connections!At, Connections!Name, Numbered
<1> QED BY <1>1, <1>2, <1>3, <1>4, <1>5, <1>6, <1>7, <1>8 DEF ConnInv

LEMMA ConnChmod == ASSUME ConnInv, NEW c \in Clients, Connections!Chmod(c) PROVE ConnInv'
<1>0. /\ client[c] = "chmod" /\ client' = [client EXCEPT ![c] = "connect"]
      /\ file' = IF Connections!Name(c) # None /\ user[c] \in {Root, user[Connections!Name(c).of]}
                   THEN [file EXCEPT ![pid[c]] = [file[pid[c]] EXCEPT !.private = TRUE,
                         !.fresh = TRUE]] ELSE file
      /\ UNCHANGED <<user, srvuser, pid, srvname, server, backlog, cur, uid, aged, robbed,
            crashes>>
  BY Zenon DEF Connections!Chmod, Connections!who, Connections!Go, Connections!At
<1>a. pid[c] \in Pids BY <1>0, SMT DEF ConnInv, Numbered, Connections!Alive
<1>b. Connections!Name(c) = None \/ (Connections!Name(c) \in Names /\ Connections!Name(c).of = c)
  BY <1>0, <1>a, SMT DEF ConnInv, ConnShape, OwnName, Mine, Connections!Name
<1>c. \/ c \in robbed /\ file' = file
      \/ \E f \in Names : /\ f.of = c /\ f.private /\ f.fresh
            /\ file' = [file EXCEPT ![pid[c]] = f]
                          /\ file[pid[c]] # None /\ file[pid[c]].of = c
  <2>1. CASE Connections!Name(c) = None
    BY <2>1, <1>0, SMT DEF ConnInv, OwnName, Mine
  <2>2. CASE Connections!Name(c) # None
    <3>1. PICK n \in Names : n = Connections!Name(c) /\ n.of = c BY <1>b, <2>2
    <3>2. file' = [file EXCEPT ![pid[c]] = [n EXCEPT !.private = TRUE, !.fresh = TRUE]]
      BY <1>0, <3>1, <2>2 DEF Connections!Name
    <3>3. PICK f \in Names : f = [n EXCEPT !.private = TRUE, !.fresh = TRUE] /\ f.of = n.of
            /\ f.private /\ f.fresh
      BY Renewed
    <3>4. file' = [file EXCEPT ![pid[c]] = f] BY <3>2, <3>3
    <3> QED BY <3>1, <3>3, <3>4, <2>2 DEF Connections!Name
  <2> QED BY <2>1, <2>2
<1>d. /\ client[c] = "chmod" /\ client' = [client EXCEPT ![c] = "connect"]
      /\ UNCHANGED <<user, srvuser, pid, srvname, server, backlog, cur, uid, aged, robbed,
            crashes>>
  BY <1>0
<1>1. ConnShape'
  BY <1>a, <1>c, <1>d, ConnParameters, SMT DEF Connections!ConnAssumption, ConnInv, ConnShape
<1>2. Numbered'
  BY <1>a, <1>c, <1>d, ConnParameters, SMT DEF Connections!ConnAssumption, ConnInv, ConnShape,
     Numbered, Connections!Alive, Connections!At
<1>3. Queued'
  BY <1>0, ConnParameters, SMT DEF Connections!ConnAssumption, ConnInv, ConnShape, Queued, Waits
<1>4. OwnName'
  <2> SUFFICES ASSUME NEW d \in Clients PROVE Mine(d)' BY DEF OwnName
  <2>1. CASE d = c
    <3>1. Mine(c) BY DEF ConnInv, OwnName
    <3> QED
      BY <1>a, <1>c, <1>d, <2>1, <3>1, ConnParameters, SMT DEF Connections!ConnAssumption,
         ConnInv, ConnShape, Mine, Connections!Name
  <2>2. CASE d # c /\ Connections!Alive(d)
    <3>1. pid[d] # pid[c] BY <2>2, <1>d, SMT DEF ConnInv, Numbered, Connections!Alive
    <3>2. Mine(d) BY DEF ConnInv, OwnName
    <3>3. file'[pid[d]] = file[pid[d]]
      BY <3>1, <1>a, <1>c, <2>2, SMT DEF ConnInv, ConnShape, Numbered, Connections!Alive
    <3>4. client'[d] = client[d] BY <1>d, <2>2, SMT DEF ConnInv, ConnShape
    <3> QED BY <3>2, <3>3, <3>4, <1>d DEF Mine, Connections!Name
  <2>3. CASE d # c /\ ~Connections!Alive(d)
    BY <1>c, <1>d, <2>3, SMT DEF ConnInv, ConnShape, Mine, Connections!Alive
  <2> QED BY <2>1, <2>2, <2>3
<1>5. Known'
  BY <1>0, ConnParameters, SMT DEF Connections!ConnAssumption, ConnInv, ConnShape, Known,
     Connections!At
<1>6. Connections!OwnUser'
  BY <1>0, ConnParameters, SMT DEF Connections!ConnAssumption, ConnInv, ConnShape,
     Connections!OwnUser, Connections!At
<1>7. Connections!TurnedDown'
  BY <1>0, ConnParameters, SMT DEF Connections!ConnAssumption, ConnInv, ConnShape,
     Connections!TurnedDown, Connections!At
<1>8. Connections!InTheWay'
  BY <1>a, <1>c, <1>d, ConnParameters, SMT DEF Connections!ConnAssumption, ConnInv, ConnShape,
     Connections!InTheWay, Connections!Alive, Connections!At, Connections!Name, Numbered
<1> QED BY <1>1, <1>2, <1>3, <1>4, <1>5, <1>6, <1>7, <1>8 DEF ConnInv

LEMMA ConnConnect == ASSUME ConnInv, NEW c \in Clients, Connections!Connect(c) PROVE ConnInv'
<1>0. /\ client[c] = "connect"
      /\ \/ /\ client' = [client EXCEPT ![c] = "connected"]
            /\ Len(backlog) < Qlen /\ backlog' = Append(backlog, c)
         \/ client' = [client EXCEPT ![c] = "refused_at_connect"] /\ backlog' = backlog
      /\ UNCHANGED <<user, srvuser, pid, file, srvname, server, cur, uid, aged, robbed, crashes>>
  BY SMT DEF Connections!Connect, Connections!who, Connections!Go, Connections!At
<1>1. ConnShape'
  <2>0. backlog \in Seq(Clients) /\ Len(backlog) <= Qlen /\ Qlen \in Nat
    BY ConnParameters DEF Connections!ConnAssumption, ConnInv, ConnShape
  <2>a. Append(backlog, c) \in Seq(Clients) /\ Len(Append(backlog, c)) = Len(backlog) + 1
    BY <2>0, AppendProperties
  <2>b. Len(backlog) \in Nat BY <2>0, LenProperties
  <2>1. backlog' \in Seq(Clients) /\ Len(backlog') <= Qlen
    <3>1. CASE backlog' = Append(backlog, c) /\ Len(backlog) < Qlen
      BY <3>1, <2>0, <2>a, <2>b, SMT
    <3> QED BY <1>0, <2>0, <3>1
  <2>2. client' \in [Clients -> Connections!Ended \cup {"new", "unlink", "bind", "chmod",
          "connect",
                                            "connected", "accepted", "closed", "lost"}]
    BY <1>0, SMT DEF ConnInv, ConnShape
  <2> QED BY <1>0, <2>1, <2>2, SMT DEF ConnInv, ConnShape
<1>2. Numbered'
  BY <1>0, ConnParameters, SMT DEF Connections!ConnAssumption, ConnInv, ConnShape, Numbered,
     Connections!Alive, Connections!At
<1>3. Queued' /\ Known'
  <2>0. /\ \A i \in DOMAIN backlog : backlog[i] # c
        /\ Busy => cur # c
    BY <1>0, SMT DEF ConnInv, ConnShape, Queued, Waits
  <2>1. CASE backlog' = backlog
    BY <1>0, <2>0, <2>1, SMT DEF ConnInv, ConnShape, Queued, Waits, Known, Connections!At
  <2>2. CASE client' = [client EXCEPT ![c] = "connected"] /\ backlog' = Append(backlog, c)
    <3>1. PICK q \in Seq(Clients) : q = Append(backlog, c)
      <4>1. backlog \in Seq(Clients) BY DEF ConnInv, ConnShape
      <4> QED BY <4>1, AppendProperties
    <3>2. PICK n \in Nat : n = Len(backlog) BY SMT DEF ConnInv, ConnShape
    <3>3. /\ DOMAIN backlog = 1 .. n /\ DOMAIN q = 1 .. n + 1 /\ q[n + 1] = c
          /\ \A i \in 1 .. n : q[i] = backlog[i]
      BY <3>1, <3>2, SMT DEF ConnInv, ConnShape
    <3>4. Queued' BY <1>0, <2>0, <2>2, <3>1, <3>3, SMT DEF ConnInv, ConnShape, Queued, Waits
    <3>5. Known' BY <1>0, <2>0, <2>2, SMT DEF ConnInv, ConnShape, Known, Connections!At
    <3> QED BY <3>4, <3>5
  <2> QED BY <1>0, <2>1, <2>2
<1>4. OwnName'
  BY <1>0, ConnParameters, SMT DEF Connections!ConnAssumption, ConnInv, ConnShape, OwnName, Mine,
     Connections!Name
<1>6. Connections!OwnUser'
  BY <1>0, ConnParameters, SMT DEF Connections!ConnAssumption, ConnInv, ConnShape,
     Connections!OwnUser, Connections!At
<1>7. Connections!TurnedDown'
  BY <1>0, ConnParameters, SMT DEF Connections!ConnAssumption, ConnInv, ConnShape,
     Connections!TurnedDown, Connections!At
<1>8. Connections!InTheWay'
  BY <1>0, ConnParameters, SMT DEF Connections!ConnAssumption, ConnInv, ConnShape,
     Connections!InTheWay, Connections!Alive, Connections!At, Connections!Name, Numbered
<1> QED BY <1>1, <1>2, <1>3, <1>4, <1>6, <1>7, <1>8 DEF ConnInv

LEMMA ConnExit == ASSUME ConnInv, NEW c \in Clients, Connections!Exit(c) PROVE ConnInv'
<1>0. /\ Connections!Alive(c) /\ client' = [client EXCEPT ![c] = "exit"]
      /\ UNCHANGED <<user, srvuser, pid, file, srvname, server, backlog, cur, uid, aged, robbed,
            crashes>>
  BY SMT DEF Connections!Exit, Connections!who, Connections!Go
<1>1. ConnShape' BY <1>0, ConnParameters, SMT DEF Connections!ConnAssumption, ConnInv, ConnShape
<1>2. Numbered'
  BY <1>0, ConnParameters, SMT DEF Connections!ConnAssumption, ConnInv, ConnShape, Numbered,
     Connections!Alive, Connections!At
<1>3. Queued'
  BY <1>0, ConnParameters, SMT DEF Connections!ConnAssumption, ConnInv, ConnShape, Queued, Waits,
     Connections!Alive
<1>4. OwnName'
  BY <1>0, ConnParameters, SMT DEF Connections!ConnAssumption, ConnInv, ConnShape, OwnName, Mine,
     Connections!Name
<1>5. Known'
  BY <1>0, ConnParameters, SMT DEF Connections!ConnAssumption, ConnInv, ConnShape, Known,
     Connections!At
<1>6. Connections!OwnUser'
  BY <1>0, ConnParameters, SMT DEF Connections!ConnAssumption, ConnInv, ConnShape,
     Connections!OwnUser, Connections!At
<1>7. Connections!TurnedDown'
  BY <1>0, ConnParameters, SMT DEF Connections!ConnAssumption, ConnInv, ConnShape,
     Connections!TurnedDown, Connections!At
<1>8. Connections!InTheWay'
  BY <1>0, ConnParameters, SMT DEF Connections!ConnAssumption, ConnInv, ConnShape,
     Connections!InTheWay, Connections!Alive, Connections!At, Connections!Name, Numbered
<1> QED BY <1>1, <1>2, <1>3, <1>4, <1>5, <1>6, <1>7, <1>8 DEF ConnInv

LEMMA ConnAge == ASSUME ConnInv, NEW p \in Pids, Connections!Age(p) PROVE ConnInv'
<1>0. /\ file[p] # None /\ file' = [file EXCEPT ![p] = [file[p] EXCEPT !.fresh = FALSE]]
      /\ aged' = aged \cup {file[p].of}
      /\ UNCHANGED <<user, srvuser, pid, client, srvname, server, backlog, cur, uid, robbed,
            crashes>>
  BY Zenon DEF Connections!Age, Connections!who
<1>a. PICK n \in Names : n = file[p] BY <1>0, SMT DEF ConnInv, ConnShape
<1>b. PICK f \in Names : f = [n EXCEPT !.fresh = FALSE] /\ f.of = n.of BY Stale
<1>c. file' = [file EXCEPT ![p] = f] BY <1>0, <1>a, <1>b
<1>d. f # None BY ConnParameters DEF Connections!ConnAssumption
<1>e. file' \in [Pids -> Names \cup {None}] BY <1>c, SMT DEF ConnInv, ConnShape
<1>1. ConnShape' BY <1>0, <1>e, Zenon DEF ConnInv, ConnShape
<1>2. Numbered'
  BY <1>0, <1>a, <1>b, <1>c, ConnParameters, SMT DEF Connections!ConnAssumption, ConnInv,
     ConnShape, Numbered, Connections!Alive, Connections!At
<1>3. Queued'
  BY <1>0, ConnParameters, SMT DEF Connections!ConnAssumption, ConnInv, ConnShape, Queued, Waits
<1>4. OwnName'
  <2> SUFFICES ASSUME NEW d \in Clients PROVE Mine(d)' BY DEF OwnName
  <2>0. Mine(d) BY DEF ConnInv, OwnName
  <2>1. CASE pid[d] = p
    <3>1. file'[pid[d]] = f /\ Connections!Name(d) = n
      BY <1>a, <1>c, <2>1, SMT DEF ConnInv, ConnShape, Connections!Name
    <3>2. client[d] \in Past => f.of = d /\ d \in aged' BY <1>0, <1>a, <1>b, <2>0, <3>1 DEF Mine
    <3> QED BY <1>0, <1>d, <2>0, <3>1, <3>2 DEF Mine, Connections!Name
  <2>2. CASE pid[d] # p
    <3>1. file'[pid[d]] = file[pid[d]] BY <1>c, <2>2, SMT DEF ConnInv, ConnShape
    <3> QED BY <1>0, <2>0, <3>1 DEF Mine, Connections!Name
  <2> QED BY <2>1, <2>2
<1>5. Known'
  BY <1>0, ConnParameters, SMT DEF Connections!ConnAssumption, ConnInv, ConnShape, Known,
     Connections!At
<1>6. Connections!OwnUser'
  BY <1>0, ConnParameters, SMT DEF Connections!ConnAssumption, ConnInv, ConnShape,
     Connections!OwnUser, Connections!At
<1>7. Connections!TurnedDown'
  BY <1>0, ConnParameters, SMT DEF Connections!ConnAssumption, ConnInv, ConnShape,
     Connections!TurnedDown, Connections!At
<1>8. Connections!InTheWay'
  BY <1>0, <1>a, <1>b, <1>c, ConnParameters, SMT DEF Connections!ConnAssumption, ConnInv,
     ConnShape, Connections!InTheWay, Connections!Alive, Connections!At, Connections!Name,
     Numbered
<1> QED BY <1>1, <1>2, <1>3, <1>4, <1>5, <1>6, <1>7, <1>8 DEF ConnInv

LEMMA ConnListen == ASSUME ConnInv,
  Connections!ServUnlink \/ Connections!ServBind \/ Connections!ServListen PROVE ConnInv'
<1>0. /\ server \in {"unlink", "bind", "listen"}
           /\ server' \in {"failed", "bind", "listen", "accept"}
      /\ srvname' \in {"absent", "bound", "live"}
      /\ UNCHANGED <<user, srvuser, pid, client, file, backlog, cur, uid, aged, robbed, crashes>>
  BY SMT DEF Connections!ServUnlink, Connections!ServBind, Connections!ServListen, Connections!who
<1>1. ConnShape' BY <1>0, ConnParameters, SMT DEF Connections!ConnAssumption, ConnInv, ConnShape
<1>2. Numbered'
  BY <1>0, ConnParameters, SMT DEF Connections!ConnAssumption, ConnInv, ConnShape, Numbered,
     Connections!Alive, Connections!At
<1>3. Queued'
  BY <1>0, ConnParameters, SMT DEF Connections!ConnAssumption, ConnInv, ConnShape, Queued, Waits
<1>4. OwnName'
  BY <1>0, ConnParameters, SMT DEF Connections!ConnAssumption, ConnInv, ConnShape, OwnName, Mine,
     Connections!Name
<1>5. Known'
  BY <1>0, ConnParameters, SMT DEF Connections!ConnAssumption, ConnInv, ConnShape, Known,
     Connections!At
<1>6. Connections!OwnUser'
  BY <1>0, ConnParameters, SMT DEF Connections!ConnAssumption, ConnInv, ConnShape,
     Connections!OwnUser, Connections!At
<1>7. Connections!TurnedDown'
  BY <1>0, ConnParameters, SMT DEF Connections!ConnAssumption, ConnInv, ConnShape,
     Connections!TurnedDown, Connections!At
<1>8. Connections!InTheWay'
  BY <1>0, ConnParameters, SMT DEF Connections!ConnAssumption, ConnInv, ConnShape,
     Connections!InTheWay, Connections!Alive, Connections!At, Connections!Name, Numbered
<1> QED BY <1>1, <1>2, <1>3, <1>4, <1>5, <1>6, <1>7, <1>8 DEF ConnInv

LEMMA ConnAccept == ASSUME ConnInv, Connections!Accept PROVE ConnInv'
<1>0. /\ server = "accept" /\ backlog # <<>> /\ cur' = Head(backlog) /\ backlog' = Tail(backlog)
      /\ server' = "stat"
      /\ UNCHANGED <<user, srvuser, pid, client, file, srvname, uid, aged, robbed, crashes>>
  BY SMT DEF Connections!Accept, Connections!who
<1>1. ConnShape' BY <1>0, ConnParameters, SMT DEF Connections!ConnAssumption, ConnInv, ConnShape
<1>2. Numbered'
  BY <1>0, ConnParameters, SMT DEF Connections!ConnAssumption, ConnInv, ConnShape, Numbered,
     Connections!Alive, Connections!At
<1>3. Queued'
  BY <1>0, ConnParameters, SMT DEF Connections!ConnAssumption, ConnInv, ConnShape, Queued, Waits
<1>4. OwnName'
  BY <1>0, ConnParameters, SMT DEF Connections!ConnAssumption, ConnInv, ConnShape, OwnName, Mine,
     Connections!Name
<1>5. Known'
  BY <1>0, ConnParameters, SMT DEF Connections!ConnAssumption, ConnInv, ConnShape, Known,
     Connections!At
<1>6. Connections!OwnUser'
  BY <1>0, ConnParameters, SMT DEF Connections!ConnAssumption, ConnInv, ConnShape,
     Connections!OwnUser, Connections!At
<1>7. Connections!TurnedDown'
  BY <1>0, ConnParameters, SMT DEF Connections!ConnAssumption, ConnInv, ConnShape,
     Connections!TurnedDown, Connections!At
<1>8. Connections!InTheWay'
  BY <1>0, ConnParameters, SMT DEF Connections!ConnAssumption, ConnInv, ConnShape,
     Connections!InTheWay, Connections!Alive, Connections!At, Connections!Name, Numbered
<1> QED BY <1>1, <1>2, <1>3, <1>4, <1>5, <1>6, <1>7, <1>8 DEF ConnInv

LEMMA ConnStat == ASSUME ConnInv, Connections!Stat PROVE ConnInv'
<1>0. /\ server = "stat"
      /\ IF Connections!Acceptable(Connections!Name(cur))
           THEN /\ uid' = [uid EXCEPT ![cur] = user[Connections!Name(cur).of]]
                /\ server' = "unlink_client" /\ UNCHANGED <<client, cur>>
           ELSE Connections!Close(cur) /\ cur' = None /\ server' = "accept" /\ uid' = uid
      /\ UNCHANGED <<user, srvuser, pid, file, srvname, backlog, aged, robbed, crashes>>
  BY SMT DEF Connections!Stat, Connections!who
<1>1. ConnShape'
  BY <1>0, ConnParameters, SMT DEF Connections!ConnAssumption, ConnInv, ConnShape,
     Connections!Close, Connections!Alive
<1>2. Numbered'
  BY <1>0, ConnParameters, SMT DEF Connections!ConnAssumption, ConnInv, ConnShape, Numbered,
     Connections!Alive, Connections!At, Connections!Close
<1>3. Queued'
  BY <1>0, ConnParameters, SMT DEF Connections!ConnAssumption, ConnInv, ConnShape, Queued, Waits,
     Connections!Close, Connections!Alive
<1>4. OwnName'
  <2> SUFFICES ASSUME NEW d \in Clients PROVE Mine(d)' BY DEF OwnName
  <2>0. Mine(d) BY DEF ConnInv, OwnName
  <2>1. client'[d] = client[d] \/ (client'[d] = "closed" /\ client[d] \in Past)
    BY <1>0, SMT DEF ConnInv, ConnShape, Connections!Close, Queued, Waits, Connections!Alive
  <2> QED BY <1>0, <2>0, <2>1 DEF Mine, Connections!Name
<1>5. Known'
  BY <1>0, ConnParameters, SMT DEF Connections!ConnAssumption, ConnInv, ConnShape, Known,
     Connections!At, Connections!Close, Connections!Alive, OwnName, Mine, Connections!Name,
     Connections!Acceptable
<1>6. Connections!OwnUser'
  BY <1>0, ConnParameters, SMT DEF Connections!ConnAssumption, ConnInv, ConnShape,
     Connections!OwnUser, Connections!At, Connections!Close, Connections!Alive, OwnName, Mine,
     Connections!Name, Connections!Acceptable
<1>7. Connections!TurnedDown'
  BY <1>0, ConnParameters, SMT DEF Connections!ConnAssumption, ConnInv, ConnShape,
     Connections!TurnedDown, Connections!At, Connections!Close, Connections!Alive, Queued, Waits,
     OwnName, Mine, Connections!Name, Connections!Acceptable
<1>8. Connections!InTheWay'
  BY <1>0, ConnParameters, SMT DEF Connections!ConnAssumption, ConnInv, ConnShape,
     Connections!InTheWay, Connections!Alive, Connections!At, Connections!Name, Numbered,
     Connections!Close
<1> QED BY <1>1, <1>2, <1>3, <1>4, <1>5, <1>6, <1>7, <1>8 DEF ConnInv

LEMMA ConnUnlinkClient == ASSUME ConnInv, Connections!UnlinkClient PROVE ConnInv'
<1>0. /\ server = "unlink_client" /\ server' = "accept" /\ cur' = None
      /\ IF Connections!MayRemove(srvuser, pid[cur])
           THEN /\ file' = [file EXCEPT ![pid[cur]] = None]
                /\ robbed' = robbed \cup ({Connections!Name(cur).of} \ {cur})
           ELSE UNCHANGED <<file, robbed>>
      /\ client' = IF Connections!At(cur,
            "connected") THEN [client EXCEPT ![cur] = "accepted"] ELSE client
      /\ UNCHANGED <<user, srvuser, pid, srvname, backlog, uid, aged, crashes>>
  BY SMT DEF Connections!UnlinkClient, Connections!who
<1>1. ConnShape'
  BY <1>0, ConnParameters, SMT DEF Connections!ConnAssumption, ConnInv, ConnShape, Connections!At
<1>2. Numbered'
  BY <1>0, ConnParameters, SMT DEF Connections!ConnAssumption, ConnInv, ConnShape, Numbered,
     Connections!Alive, Connections!At
<1>3. Queued'
  BY <1>0, ConnParameters, SMT DEF Connections!ConnAssumption, ConnInv, ConnShape, Queued, Waits,
     Connections!At, ConnShape
<1>4. OwnName'
  <2> SUFFICES ASSUME NEW d \in Clients PROVE Mine(d)' BY DEF OwnName
  <2>0. Mine(d) BY DEF ConnInv, OwnName
  <2>1. client'[d] = client[d] \/ (client'[d] = "accepted" /\ client[d] \in Past)
    BY <1>0, SMT DEF ConnInv, ConnShape, Connections!At
  <2>2. client'[d] = client[d] \/ client'[d] \notin {"chmod", "connect", "connected"} BY <2>1
  <2>3. CASE file'[pid[d]] = file[pid[d]] /\ robbed \subseteq robbed'
    BY <1>0, <2>0, <2>1, <2>3 DEF Mine, Connections!Name
  <2>4. CASE /\ file' = [file EXCEPT ![pid[cur]] = None] /\ file'[pid[d]] # file[pid[d]]
             /\ robbed' = robbed \cup ({Connections!Name(cur).of} \ {cur})
    <3>1. pid[d] = pid[cur] /\ file'[pid[d]] = None BY <2>4, SMT DEF ConnInv, ConnShape
    <3>2. Connections!Name(d) # None BY <3>1, <2>4 DEF Connections!Name
    <3>3. client[d] \in Past => Connections!Name(cur).of = d
      BY <3>1, <3>2, <2>0 DEF Mine, Connections!Name
    <3>4. client'[cur] \notin {"chmod", "connect", "connected"}
      BY <1>0, SMT DEF ConnInv, ConnShape, Queued, Waits, Connections!At
    <3> QED BY <1>0, <2>0, <2>1, <2>4, <3>1, <3>3, <3>4 DEF Mine, Connections!Name
  <2> QED BY <1>0, <2>3, <2>4
<1>5. Known'
  BY <1>0, ConnParameters, SMT DEF Connections!ConnAssumption, ConnInv, ConnShape, Known,
     Connections!At
<1>6. Connections!OwnUser'
  BY <1>0, ConnParameters, SMT DEF Connections!ConnAssumption, ConnInv, ConnShape,
     Connections!OwnUser, Connections!At, Known
<1>7. Connections!TurnedDown'
  BY <1>0, ConnParameters, SMT DEF Connections!ConnAssumption, ConnInv, ConnShape,
     Connections!TurnedDown, Connections!At
<1>8. Connections!InTheWay'
  BY <1>0, ConnParameters, SMT DEF Connections!ConnAssumption, ConnInv, ConnShape,
     Connections!InTheWay, Connections!Alive, Connections!At, Connections!Name, Numbered
<1> QED BY <1>1, <1>2, <1>3, <1>4, <1>5, <1>6, <1>7, <1>8 DEF ConnInv

LEMMA ConnCrash == ASSUME ConnInv, Connections!Crash PROVE ConnInv'
<1>0. /\ crashes < MaxCrashes /\ crashes' = crashes + 1
      /\ server' = "unlink" /\ cur' = None /\ backlog' = <<>>
      /\ srvname' \in {"absent", "left"}
      /\ client' = [c \in Clients |-> IF Connections!At(c, "connected") \/ Connections!At(c,
            "accepted") THEN "lost"
                                      ELSE client[c]]
      /\ UNCHANGED <<user, srvuser, pid, file, uid, aged, robbed>>
  BY SMT DEF Connections!Crash, Connections!who
<1>1. ConnShape'
  BY <1>0, ConnParameters, SMT DEF Connections!ConnAssumption, ConnInv, ConnShape, Connections!At
<1>2. Numbered'
  BY <1>0, ConnParameters, SMT DEF Connections!ConnAssumption, ConnInv, ConnShape, Numbered,
     Connections!Alive, Connections!At
<1>3. Queued'
  BY <1>0, ConnParameters, SMT DEF Connections!ConnAssumption, ConnInv, ConnShape, Queued, Waits
<1>4. OwnName'
  <2> SUFFICES ASSUME NEW d \in Clients PROVE Mine(d)' BY DEF OwnName
  <2>0. Mine(d) BY DEF ConnInv, OwnName
  <2>1. client'[d] = client[d] \/ (client'[d] = "lost" /\ client[d] \in Past)
    BY <1>0, SMT DEF Connections!At
  <2> QED BY <1>0, <2>0, <2>1 DEF Mine, Connections!Name
<1>5. Known'
  BY <1>0, ConnParameters, SMT DEF Connections!ConnAssumption, ConnInv, ConnShape, Known,
     Connections!At
<1>6. Connections!OwnUser'
  BY <1>0, ConnParameters, SMT DEF Connections!ConnAssumption, ConnInv, ConnShape,
     Connections!OwnUser, Connections!At
<1>7. Connections!TurnedDown'
  BY <1>0, ConnParameters, SMT DEF Connections!ConnAssumption, ConnInv, ConnShape,
     Connections!TurnedDown, Connections!At
<1>8. Connections!InTheWay'
  BY <1>0, ConnParameters, SMT DEF Connections!ConnAssumption, ConnInv, ConnShape,
     Connections!InTheWay, Connections!Alive, Connections!At, Connections!Name, Numbered
<1> QED BY <1>1, <1>2, <1>3, <1>4, <1>5, <1>6, <1>7, <1>8 DEF ConnInv

(* So does every step.                                                     *)
LEMMA ConnStep == ConnInv /\ (Connections!Next \/ UNCHANGED Connections!ucvars) => ConnInv'
<1> SUFFICES ASSUME ConnInv, Connections!Next \/ UNCHANGED Connections!ucvars
      PROVE ConnInv' OBVIOUS
<1>1. CASE UNCHANGED Connections!ucvars
  BY <1>1, SMT DEF Connections!ucvars, Connections!who, ConnInv, ConnShape, Numbered, Queued,
     OwnName, Mine, Known, Connections!OwnUser, Connections!TurnedDown, Connections!InTheWay,
     Connections!Alive, Connections!At, Waits, Connections!Name
<1>2. CASE Connections!Next
  BY <1>2, ConnBegin, ConnUnlinkOwn, ConnBind, ConnChmod, ConnConnect, ConnExit, ConnAge,
     ConnListen, ConnAccept, ConnStat, ConnUnlinkClient, ConnCrash DEF Connections!Next,
     Connections!CliConn, Connections!Server
<1> QED BY <1>1, <1>2

(* The types follow.                                                       *)
LEMMA ConnTypes == ConnInv => Connections!TypeOK
BY SMT DEF ConnInv, ConnShape, Connections!TypeOK

HIDE DEF Connections!Ended, Past, Names, Busy
-----------------------------------------------------------------------------
(***************************************************************************)
(* Pty: my_pty.c.  What the program has written is shown, held by the      *)
(* terminal, or on its way; the relay ends when there is no more to come,  *)
(* or for a reason that is recorded.                                       *)
(***************************************************************************)

(* What has been written is shown, held by the terminal, or on its way *)
OnItsWay == IF relay = "write" THEN 1 ELSE 0
Accounted ==
  /\ written \in Nat /\ shown \in Nat
  /\ written = shown + outbuf + OnItsWay
  /\ slave = "closed" => prog = "ended"

(* One process: the output it has found is still there when it comes to    *)
(* read it.                                                                *)
RelayAlone ==
  /\ variant \in {"loop", "one"}
  /\ variant = "one" =>
       /\ relay \in {"select", "one_in", "one_write", "one_out", "done", "killed"}
       /\ pkid = "none" /\ ~handler
       /\ relay \in {"one_in", "one_write", "one_out"} /\ "out" \in ready =>
             outbuf > 0 \/ slave = "closed"
       /\ relay = "one_out" => "out" \in ready
       /\ relay = "done" => cut \/ (outbuf = 0 /\ slave = "closed")

(* Two processes: the parent ends for the end of the output, or for the    *)
(* signal, which the child sends as it ends.                               *)
RelayAndKid ==
  variant = "loop" =>
    /\ relay \in {"fork", "sigaction", "read", "write", "end", "done", "killed"}
    /\ relay = "fork" => pkid = "none"
    /\ relay \in {"read", "write", "end", "done"} => handler
    /\ relay \in {"end", "done"} => sigcaught \/ (outbuf = 0 /\ slave = "closed")
    /\ outside = 0 /\ (term \/ sigcaught) => pkid = "exit"

PtyInv ==
  /\ Terminal!TypeOK /\ Accounted /\ RelayAlone /\ RelayAndKid
  /\ Terminal!AllShown /\ Terminal!EndTogether

LEMMA PtyInit == Terminal!Init => PtyInv
BY PtyParameters, SMT DEF Terminal!PtyAssumption, Terminal!Init, PtyInv, Terminal!TypeOK,
   Accounted, OnItsWay, RelayAlone, RelayAndKid, Terminal!AllShown, Terminal!EndTogether,
   Terminal!Over, Terminal!KidRuns

(* Each step of the program, the relay and the system keeps the invariant. *)
LEMMA PtyStep == PtyInv /\ (Terminal!Next \/ UNCHANGED Terminal!ptyvars) => PtyInv'
<1> SUFFICES ASSUME PtyInv, (Terminal!Next \/ UNCHANGED Terminal!ptyvars) PROVE PtyInv' OBVIOUS
<1> USE PtyParameters DEF Terminal!PtyAssumption, PtyInv, Terminal!TypeOK, Accounted, OnItsWay,
      RelayAlone, RelayAndKid, Terminal!AllShown, Terminal!EndTogether, Terminal!Over,
            Terminal!KidRuns, Terminal!program, Terminal!signals, Terminal!input, Terminal!setting
<1>1. CASE Terminal!Start BY <1>1, SMT DEF Terminal!Start
<1>2. CASE Terminal!ProgRead BY <1>2, SMT DEF Terminal!ProgRead
<1>3. CASE Terminal!ProgWrite BY <1>3, SMT DEF Terminal!ProgWrite
<1>4. CASE Terminal!ProgEnd BY <1>4, SMT DEF Terminal!ProgEnd
<1>5. CASE Terminal!Fork BY <1>5, SMT DEF Terminal!Fork
<1>6. CASE Terminal!KidRead BY <1>6, SMT DEF Terminal!KidRead, Terminal!AtEof
<1>7. CASE Terminal!KidWrite BY <1>7, SMT DEF Terminal!KidWrite
<1>8. CASE Terminal!KidTell BY <1>8, SMT DEF Terminal!KidTell
<1>9. CASE Terminal!Sigaction BY <1>9, SMT DEF Terminal!Sigaction
<1>10. CASE Terminal!RelayRead BY <1>10, SMT DEF Terminal!RelayRead
<1>11. CASE Terminal!RelayWrite BY <1>11, SMT DEF Terminal!RelayWrite
<1>12. CASE Terminal!RelayEnd BY <1>12, SMT DEF Terminal!RelayEnd
<1>13. CASE Terminal!SigTerm
  <2>0. /\ term
        /\ UNCHANGED <<variant, typed, own, owed, slave, prog, inbuf, outbuf, pkid, ready,
                       handler, stray, outside, written, shown, cut>>
        /\ ~term'
    BY <1>13, Zenon DEF Terminal!SigTerm
  <2>1. CASE handler /\ sigcaught' /\ relay' = relay BY <2>0, <2>1, SMT
  <2>2. CASE handler /\ sigcaught' /\ relay = "read" /\ relay' = "end" BY <2>0, <2>2, SMT
  <2>3. CASE ~handler /\ sigcaught' = sigcaught
          /\ relay' = (IF Terminal!Over THEN relay ELSE "killed")
    BY <2>0, <2>3, SMT
  <2> QED BY <1>13, <2>1, <2>2, <2>3, Zenon DEF Terminal!SigTerm
<1>14. CASE Terminal!TermFromOutside BY <1>14, SMT DEF Terminal!TermFromOutside
<1>15. CASE Terminal!Select BY <1>15, SMT DEF Terminal!Select, Terminal!AtEof
<1>16. CASE Terminal!OneIn BY <1>16, SMT DEF Terminal!OneIn
<1>17. CASE Terminal!OneWrite BY <1>17, SMT DEF Terminal!OneWrite
<1>18. CASE Terminal!OneOut BY <1>18, SMT DEF Terminal!OneOut
<1>19. CASE UNCHANGED Terminal!ptyvars BY <1>19, SMT DEF Terminal!ptyvars
<1> QED
  BY <1>1, <1>2, <1>3, <1>4, <1>5, <1>6, <1>7, <1>8, <1>9, <1>10, <1>11, <1>12, <1>13, <1>14,
     <1>15, <1>16, <1>17, <1>18, <1>19 DEF Terminal!Next, Terminal!Relay, Terminal!Kid,
     Terminal!Program
-----------------------------------------------------------------------------
(***************************************************************************)
(* TtyModes: noncanonical_mode.c.  The mode of the terminal, what is saved *)
(* and ttystate, at each point of main.                                    *)
(***************************************************************************)

(* The mode, what is saved and ttystate at each point of main.             *)
TtyStages ==
  /\ mode \in Tty!Modes /\ save \in {"none"} \cup Tty!Modes
  /\ ttystate \in {"RESET", "RAW", "CBREAK"}
  /\ tpc \in {"sigaction", "get_raw", "set_raw", "state_raw", "read_raw", "reset", "state_reset",
             "get_cbreak", "set_cbreak", "verify", "state_cbreak", "read_cbreak", "undo",
             "reset_and_exit", "state_reset_and_exit", "exit", "killed"}
  /\ Tty!Lives => (handled <=> tpc # "sigaction")
  /\ tpc = "killed" => mode = "original"
  /\ tpc \in {"sigaction", "get_raw", "set_raw", "get_cbreak", "set_cbreak", "state_reset",
             "state_reset_and_exit"} => mode = "original"
  /\ Tty!Lives /\ tpc \notin {"sigaction", "get_raw"} => save = "original"
  /\ tpc \in {"sigaction", "get_raw", "set_raw", "state_raw", "get_cbreak", "set_cbreak",
             "verify", "undo", "state_cbreak"} => ttystate = "RESET"
  /\ tpc \in {"read_raw", "reset", "state_reset"} => ttystate = "RAW"
  /\ tpc \in {"reset_and_exit", "state_reset_and_exit"} => ttystate \in {"RAW", "CBREAK"}
  /\ tpc = "read_cbreak" => ttystate = "CBREAK"
  /\ tpc \in {"state_cbreak", "read_cbreak"} => mode = "cbreak"

TtyBools == handled \in BOOLEAN /\ signal \in BOOLEAN /\ torn \in BOOLEAN /\ failed \in BOOLEAN

TtyInv == TtyBools /\ TtyStages /\ Tty!Restored /\ Tty!SavedIsOriginal

LEMMA TtyInit == Tty!Init => TtyInv
<1> SUFFICES ASSUME Tty!Init PROVE TtyInv OBVIOUS
<1>1. TtyBools BY Zenon DEF Tty!Init, TtyBools
<1>2. TtyStages /\ Tty!Restored /\ Tty!SavedIsOriginal
  BY SMT DEF Tty!Init, TtyStages, Tty!Modes, Tty!Lives, Tty!Restored, Tty!SavedIsOriginal
<1> QED BY <1>1, <1>2 DEF TtyInv

(* Each step of main and each signal keeps the invariant.                  *)
LEMMA TtyStep == TtyInv /\ (Tty!Next \/ UNCHANGED Tty!ttyvars) => TtyInv'
<1> SUFFICES ASSUME TtyInv, (Tty!Next \/ UNCHANGED Tty!ttyvars) PROVE TtyInv' OBVIOUS
<1>1. TtyBools'
  <2> USE DEF TtyInv, TtyBools
  <2>1. CASE Tty!Sigaction BY <2>1, Zenon DEF Tty!Sigaction, Tty!At
  <2>2. CASE Tty!Get BY <2>2, Zenon DEF Tty!Get, Tty!At, Tty!Fail
  <2>3. CASE Tty!SetRaw BY <2>3, Zenon DEF Tty!SetRaw, Tty!At, Tty!Fail
  <2>4. CASE Tty!SetCbreak BY <2>4, Zenon DEF Tty!SetCbreak, Tty!At, Tty!Fail
  <2>5. CASE Tty!Verify BY <2>5, Zenon DEF Tty!Verify, Tty!At, Tty!Fail
  <2>6. CASE Tty!Undo BY <2>6, Zenon DEF Tty!Undo, Tty!At
  <2>7. CASE Tty!State BY <2>7, Zenon DEF Tty!State, Tty!At
  <2>8. CASE Tty!Read BY <2>8, Zenon DEF Tty!Read, Tty!At
  <2>9. CASE Tty!Reset BY <2>9, Zenon DEF Tty!Reset, Tty!At, Tty!Fail
  <2>10. CASE Tty!StateReset BY <2>10, Zenon DEF Tty!StateReset, Tty!At
  <2>11. CASE Tty!SigCatch
    <3>1. torn' = (tpc \in Tty!Window) BY <2>11 DEF Tty!SigCatch
    <3>2. torn' \in BOOLEAN
      <4>1. CASE tpc \in Tty!Window BY <3>1, <4>1
      <4>2. CASE tpc \notin Tty!Window BY <3>1, <4>2
      <4> QED BY <4>1, <4>2
    <3> QED BY <2>11, <3>2, Zenon DEF Tty!SigCatch
  <2>12. CASE Tty!Signal BY <2>12, Zenon DEF Tty!Signal
  <2>13. CASE UNCHANGED Tty!ttyvars BY <2>13, Zenon DEF Tty!ttyvars
  <2> QED
    BY <2>1, <2>2, <2>3, <2>4, <2>5, <2>6, <2>7, <2>8, <2>9, <2>10, <2>11, <2>12, <2>13
       DEF Tty!Next, Tty!Main
<1>2. TtyStages' /\ Tty!Restored' /\ Tty!SavedIsOriginal'
  <2> USE DEF TtyInv, Tty!Modes, TtyStages, Tty!Lives, Tty!Restored, Tty!SavedIsOriginal
  <2>1. CASE Tty!Sigaction BY <2>1, SMT DEF Tty!Sigaction, Tty!At
  <2>2. CASE Tty!Get BY <2>2, SMT DEF Tty!Get, Tty!At, Tty!Fail
  <2>3. CASE Tty!SetRaw BY <2>3, SMT DEF Tty!SetRaw, Tty!At, Tty!Fail
  <2>4. CASE Tty!SetCbreak BY <2>4, SMT DEF Tty!SetCbreak, Tty!At, Tty!Fail
  <2>5. CASE Tty!Verify BY <2>5, SMT DEF Tty!Verify, Tty!At, Tty!Fail
  <2>6. CASE Tty!Undo BY <2>6, SMT DEF Tty!Undo, Tty!At
  <2>7. CASE Tty!State BY <2>7, SMT DEF Tty!State, Tty!At
  <2>8. CASE Tty!Read BY <2>8, SMT DEF Tty!Read, Tty!At
  <2>9. CASE Tty!Reset BY <2>9, SMT DEF Tty!Reset, Tty!At, Tty!Fail
  <2>10. CASE Tty!StateReset BY <2>10, SMT DEF Tty!StateReset, Tty!At
  <2>11. CASE Tty!SigCatch
    <3>1. torn' <=> tpc \in Tty!Window BY <2>11 DEF Tty!SigCatch
    <3>2. /\ Tty!Lives /\ tpc' = IF handled THEN "exit" ELSE "killed"
          /\ \/ handled /\ ttystate # "RESET" /\ mode' = save /\ ttystate' = "RESET"
                  /\ failed' = failed
             \/ handled /\ ttystate # "RESET" /\ failed' /\ UNCHANGED <<mode, ttystate>>
             \/ ~(handled /\ ttystate # "RESET") /\ UNCHANGED <<mode, ttystate, failed>>
          /\ save' = save /\ handled' = handled
      BY <2>11, Zenon DEF Tty!SigCatch
    <3> QED BY <3>1, <3>2, SMT DEF Tty!Window
  <2>12. CASE Tty!Signal BY <2>12, SMT DEF Tty!Signal
  <2>13. CASE UNCHANGED Tty!ttyvars BY <2>13, SMT DEF Tty!ttyvars
  <2> QED
    BY <2>1, <2>2, <2>3, <2>4, <2>5, <2>6, <2>7, <2>8, <2>9, <2>10, <2>11, <2>12, <2>13
       DEF Tty!Next, Tty!Main
<1> QED BY <1>1, <1>2 DEF TtyInv

(* The types follow.                                                       *)
LEMMA TtyTypes == TtyInv => Tty!TypeOK
<1> SUFFICES ASSUME TtyInv PROVE Tty!TypeOK OBVIOUS
<1>1. {handled, signal, torn, failed} \subseteq BOOLEAN BY Zenon DEF TtyInv, TtyBools
<1>2. /\ mode \in Tty!Modes /\ save \in {"none"} \cup Tty!Modes
      /\ ttystate \in {"RESET", "RAW", "CBREAK"}
  BY DEF TtyInv, TtyStages
<1> QED BY <1>1, <1>2 DEF Tty!TypeOK
-----------------------------------------------------------------------------
(***************************************************************************)
(* SocketTests: the tests of streams_pipe.c, exchange_fd.c and             *)
(* unique_connections.c.  Each test has a course of its own: where its two *)
(* processes can be at the same time, what is on its way between them, and *)
(* what the name denotes.  A course ends in the outcomes that are          *)
(* explained, and what the name denotes there is what the next test, or    *)
(* the next execution, begins with.                                        *)
(***************************************************************************)

(* The name of the socket, for the programs that do not make it: it is     *)
(* never there if it was not there at first, and lasts if it was and       *)
(* nobody interrupts them.                                                 *)
Interrupted == ~first \/ interrupts > 0
Kept  == sockname = "none" => Interrupted
Never == suite # "unique" /\ ~first => sockname = "none"

Lone  == pc[Sockets!C] = 1 /\ proc[Sockets!C] = "off"
Still == conn = "none" /\ told = FALSE /\ wire = {} /\ shut = FALSE
Running(S, e)     == proc[Sockets!P] = "run" /\ pc[Sockets!P] \in S /\ notes \subseteq e
Ends(n, how, e) == proc[Sockets!P] = how /\ pc[Sockets!P] = n /\ notes = e
Nameless(n)    == Ends(n, "failed", {"noname"}) /\ Interrupted
Child(m)       == pc[Sockets!C] = m /\ proc[Sockets!C] = "run"
ChildGone(m)   == pc[Sockets!C] = m /\ proc[Sockets!C] \in {"run", "done"}

(* streams_pipe.c: the child listens before it tells the test to connect,  *)
(* and writes before it ends.                                              *)
TemplateCourse ==
  /\ Running(1 .. 6, {}) \/ Nameless(1) \/ Ends(6, "done", {})
  /\ shut = FALSE /\ (pc[Sockets!P] > 1 => first)
  /\ pc[Sockets!P] = 1 => Lone /\ Still /\ (proc[Sockets!P] = "run" => Kept)
  /\ pc[Sockets!P] = 2 => Lone /\ Still /\ sockname = "none"
  /\ pc[Sockets!P] = 3 =>
       /\ conn = "none" /\ wire = {}
       /\ \/ Child(1) /\ told = FALSE /\ sockname = "none"
          \/ Child(2) /\ told = FALSE /\ sockname = "bound"
          \/ Child(3) /\ told = FALSE /\ sockname = "live"
          \/ Child(4) /\ told = TRUE /\ sockname = "live"
  /\ pc[Sockets!P] > 3 => told = FALSE /\ sockname = "live"
  /\ pc[Sockets!P] = 4 => Child(4) /\ conn = "none" /\ wire = {}
  /\ pc[Sockets!P] = 5 => \/ Child(4) /\ conn = "waiting" /\ wire = {}
                          \/ Child(5) /\ conn = "accepted" /\ wire = {}
                          \/ ChildGone(6) /\ conn = "accepted" /\ wire = {"msg"}
  /\ pc[Sockets!P] = 6 => ChildGone(6) /\ conn = "accepted" /\ wire = {}

(* The child of exchange_fd.c, which does not wait until it can connect.   *)
Early == pc[Sockets!C] = 1 /\ proc[Sockets!C] = "failed" /\ conn = "none" /\ notes = {"early"}
Connects(n, s) ==
  /\ wire = {}
  /\ \/ Early
     \/ Child(1) /\ conn = "none" /\ notes = {}
     \/ pc[Sockets!P] = n /\ pc[Sockets!C] = 2 /\ proc[Sockets!C] \in s /\ conn = "waiting"
          /\ notes = {}

SendFdCourse ==
  /\ \/ Running(1 .. 7, {"early"}) \/ Nameless(1)
     \/ Ends(6, "sigpipe", {"noreader"}) \/ Ends(7, "done", {})
  /\ shut = FALSE /\ told = FALSE /\ (pc[Sockets!P] > 1 => first)
  /\ pc[Sockets!P] = 1 => Lone /\ Still /\ (proc[Sockets!P] = "run" => Kept /\ notes = {})
  /\ pc[Sockets!P] = 2 => Lone /\ Still /\ sockname = "none" /\ notes = {}
  /\ pc[Sockets!P] \in 3 .. 5 => Connects(5, {"run", "done"})
  /\ pc[Sockets!P] = 3 => sockname = "none"
  /\ pc[Sockets!P] = 4 => sockname = "bound"
  /\ pc[Sockets!P] > 4 => sockname = "live"
  /\ pc[Sockets!P] = 6 => wire = {} /\ (proc[Sockets!P] = "run" => notes = {})
  /\ pc[Sockets!P] = 7 => wire = {"fd"} /\ notes = {}
  /\ pc[Sockets!P] > 5 => ChildGone(2) /\ conn = "accepted"

FdExchangeCourse ==
  /\ \/ Running(1 .. 8, {"early"}) \/ Nameless(2) \/ Ends(1, "failed", {"nofile"})
     \/ Ends(8, "done", {})
  /\ shut = FALSE /\ told = FALSE /\ (pc[Sockets!P] > 2 => first)
  /\ pc[Sockets!P] < 3 => Lone /\ Still /\ (proc[Sockets!P] = "run" \/ pc[Sockets!P] = 1 => Kept)
                          /\ (proc[Sockets!P] = "run" => notes = {})
  /\ pc[Sockets!P] = 3 => Lone /\ Still /\ sockname = "none" /\ notes = {}
  /\ pc[Sockets!P] \in 4 .. 6 => Connects(6, {"run"})
  /\ pc[Sockets!P] = 4 => sockname = "none"
  /\ pc[Sockets!P] = 5 => sockname = "bound"
  /\ pc[Sockets!P] > 5 => sockname = "live"
  /\ pc[Sockets!P] = 7 => Child(2) /\ wire = {}
  /\ pc[Sockets!P] = 8 => (Child(2) /\ wire = {"fd"}) \/ (ChildGone(3) /\ wire = {})
  /\ pc[Sockets!P] > 6 => conn = "accepted" /\ notes = {}

(* The two tests with a socket pair are alone; the first sends a           *)
(* descriptor to an end that it has closed.                                *)
SendFdWithSockpairCourse ==
  /\ Running(1 .. 4, {}) \/ Ends(4, "sigpipe", {"noreader"})
  /\ Lone /\ told = FALSE /\ Kept
  /\ pc[Sockets!P] = 1 => Still
  /\ pc[Sockets!P] = 2 => conn = "accepted" /\ wire = {} /\ shut = FALSE
  /\ pc[Sockets!P] = 3 => conn = "accepted" /\ wire = {"fd"} /\ shut = FALSE
  /\ pc[Sockets!P] = 4 => conn = "accepted" /\ wire = {"fd"} /\ shut = TRUE

FdExchangeWithSockpairCourse ==
  /\ Running(1 .. 4, {}) \/ Ends(4, "done", {})
  /\ Lone /\ told = FALSE /\ shut = FALSE /\ Kept
  /\ pc[Sockets!P] = 1 => Still
  /\ pc[Sockets!P] > 1 => conn = "accepted"
  /\ pc[Sockets!P] \in {2, 4} => wire = {}
  /\ pc[Sockets!P] = 3 => wire = {"fd"}

(* The tests of unique_connections.c make the name they remove.            *)
Listening ==
  /\ notes = {} /\ told = FALSE /\ shut = FALSE
  /\ pc[Sockets!P] < 6 => Lone /\ Still
  /\ pc[Sockets!P] = 2 => sockname = "none"
  /\ pc[Sockets!P] = 3 => sockname = "file"
  /\ pc[Sockets!P] = 4 => sockname = "none"
  /\ pc[Sockets!P] = 5 => sockname = "bound"
  /\ pc[Sockets!P] = 6 => sockname = "live"

ServListenCourse ==
  /\ Listening /\ Lone /\ Still
  /\ Running(1 .. 7, {}) \/ Ends(7, "done", {})

ClientCourse ==
  /\ Listening /\ Lone /\ wire = {}
  /\ Running(1 .. 9, {}) \/ Ends(9, "done", {})
  /\ pc[Sockets!P] = 6 => conn = "none"
  /\ pc[Sockets!P] = 7 => conn = "waiting"
  /\ pc[Sockets!P] > 7 => conn = "accepted"

CommunicationCourse ==
  /\ Listening
  /\ Running(1 .. 11, {}) \/ Ends(11, "done", {})
  /\ pc[Sockets!P] = 6 => Lone /\ Still
  /\ pc[Sockets!P] = 7 => /\ sockname = "live"
                          /\ \/ Child(1) /\ conn = "none" /\ wire = {}
                             \/ Child(2) /\ conn = "waiting" /\ wire = {}
                             \/ ChildGone(3) /\ conn = "waiting" /\ wire = {"msg"}
  /\ pc[Sockets!P] > 7 => conn = "accepted"
  /\ pc[Sockets!P] = 8 => (Child(2) /\ wire = {}) \/ (ChildGone(3) /\ wire = {"msg"})
  /\ pc[Sockets!P] > 8 => ChildGone(3) /\ wire = {}

(* The course of the test that is running                                  *)
Course ==
  /\ Sockets!Current = "template"                  => TemplateCourse
  /\ Sockets!Current = "send_fd"                   => SendFdCourse
  /\ Sockets!Current = "send_fd_with_sockpair"     => SendFdWithSockpairCourse
  /\ Sockets!Current = "fd_exchange"               => FdExchangeCourse
  /\ Sockets!Current = "fd_exchange_with_sockpair" => FdExchangeWithSockpairCourse
  /\ Sockets!Current = "serv_listen"               => ServListenCourse
  /\ Sockets!Current = "client"                    => ClientCourse
  /\ Sockets!Current = "communication"             => CommunicationCourse

(* The outcomes of the tests, and the reasons for them                     *)
Outcomes ==
  [test   : {"template", "send_fd", "send_fd_with_sockpair", "fd_exchange",
             "fd_exchange_with_sockpair", "serv_listen", "client", "communication"},
   result : {"done", "failed", "sigpipe", "timeout"},
   notes  : SUBSET {"noname", "nofile", "early", "noreader"}]

Reasoned(t, result, e) ==
  /\ result = "timeout" => "early" \in e
  /\ result = "sigpipe" => "noreader" \in e /\ t \in {"send_fd", "send_fd_with_sockpair"}
  /\ result = "failed"  => e \cap {"noname", "nofile"} # {}
  /\ result = "done"    => e = {}
  /\ "early" \in e      => t \in {"send_fd", "fd_exchange"}
  /\ suite # "unique" /\ ~first /\ result = "done" => t = "fd_exchange_with_sockpair"

(* No test is running.                                                     *)
Between ==
  /\ Lone /\ proc[Sockets!P] = "off" /\ Still /\ notes = {}
  /\ suite # "unique" => Kept

(* The types                                                               *)
TestsShape ==
  /\ suite \in {"streams", "exchange", "unique"} /\ hasfile \in BOOLEAN /\ first \in BOOLEAN
  /\ run \in 1 .. Executions /\ interrupts \in 0 .. Interrupts
  /\ at \in 1 .. Len(Sockets!Suites[suite]) + 1
  /\ pc \in [Sockets!Procs -> 1 .. 12]
  /\ proc \in [Sockets!Procs -> {"off", "run", "done", "failed", "sigpipe"}]
  /\ sockname \in {"none", "file", "dead", "bound", "live"}
  /\ results \in Seq(Outcomes) /\ Len(results) = at - 1

(* The invariant: the running test is on its course, and those that are    *)
(* over ended with a reason.                                               *)
TestsInv ==
  /\ TestsShape /\ Never
  /\ IF at > Len(Sockets!Suites[suite]) THEN Between ELSE Course
  /\ \A i \in DOMAIN results : Reasoned(results[i].test, results[i].result, results[i].notes)

(* A process that makes a step makes the call it has come to.              *)
LEMMA StepIs ==
  ASSUME NEW p \in Sockets!Procs, Sockets!Step(p)
  PROVE  /\ Sockets!Going(p) /\ Sockets!Ready(p)
         /\ Sockets!Op(p) = "remove" => Sockets!Remove(p)
         /\ Sockets!Op(p) = "unlink" => Sockets!Unlink(p)
         /\ Sockets!Op(p) = "create" => Sockets!Create(p)
         /\ Sockets!Op(p) = "bind" => Sockets!Bind(p)
         /\ Sockets!Op(p) = "listen" => Sockets!Listen(p)
         /\ Sockets!Op(p) = "open_file" => Sockets!OpenFile(p)
         /\ Sockets!Op(p) = "fork" => Sockets!Fork(p)
         /\ Sockets!Op(p) = "tell_parent" => Sockets!TellParent(p)
         /\ Sockets!Op(p) = "wait_child" => Sockets!WaitChild(p)
         /\ Sockets!Op(p) = "connect" => Sockets!Connect(p)
         /\ Sockets!Op(p) = "accept" => Sockets!Accept(p)
         /\ Sockets!Op(p) = "socketpair" => Sockets!Socketpair(p)
         /\ Sockets!Op(p) = "close" => Sockets!Close(p)
         /\ Sockets!Op(p) \in {"send_fd", "send_fd_fails", "write"} => Sockets!Send(p)
         /\ Sockets!Op(p) \in {"read", "recv_fd"} => Sockets!Receive(p)
         /\ Sockets!Op(p) = "waitpid" => Sockets!Waitpid(p)
         /\ Sockets!Op(p) = "check_waitpid" => Sockets!CheckWaitpid(p)
         /\ Sockets!Op(p) = "end" => Sockets!Return(p)
<1>1. /\ Sockets!Remove(p) => Sockets!Call(p, "remove")
      /\ Sockets!Unlink(p) => Sockets!Call(p, "unlink")
      /\ Sockets!Create(p) => Sockets!Call(p, "create")
      /\ Sockets!Bind(p) => Sockets!Call(p, "bind")
      /\ Sockets!Listen(p) => Sockets!Call(p, "listen")
      /\ Sockets!OpenFile(p) => Sockets!Call(p, "open_file")
      /\ Sockets!Fork(p) => Sockets!Call(p, "fork")
      /\ Sockets!TellParent(p) => Sockets!Call(p, "tell_parent")
      /\ Sockets!WaitChild(p) => Sockets!Call(p, "wait_child")
  BY Zenon DEF Sockets!Remove, Sockets!Unlink, Sockets!Create, Sockets!Bind, Sockets!Listen,
     Sockets!OpenFile, Sockets!Fork, Sockets!TellParent, Sockets!WaitChild
<1>2. /\ Sockets!Connect(p) => Sockets!Call(p, "connect")
      /\ Sockets!Accept(p) => Sockets!Call(p, "accept")
      /\ Sockets!Socketpair(p) => Sockets!Call(p, "socketpair")
      /\ Sockets!Close(p) => Sockets!Call(p, "close")
      /\ Sockets!Waitpid(p) => Sockets!Call(p, "waitpid")
      /\ Sockets!CheckWaitpid(p) => Sockets!Call(p, "check_waitpid")
      /\ Sockets!Return(p) => Sockets!Call(p, "end")
      /\ Sockets!Send(p) => \E op \in {"send_fd", "send_fd_fails", "write"} : Sockets!Call(p, op)
      /\ Sockets!Receive(p) => \E op \in {"read", "recv_fd"} : Sockets!Call(p, op)
  BY Zenon DEF Sockets!Connect, Sockets!Accept, Sockets!Socketpair, Sockets!Close,
     Sockets!Waitpid, Sockets!CheckWaitpid, Sockets!Return, Sockets!Send, Sockets!Receive
<1>3. \A op : Sockets!Call(p, op) => Sockets!Going(p) /\ Sockets!Ready(p) /\ Sockets!Op(p) = op
  BY Zenon DEF Sockets!Call, Sockets!Ready
<1> QED BY <1>1, <1>2, <1>3, SMT DEF Sockets!Step

(* Where a step leaves the two processes                                   *)
Stays(q)       == pc'[q] = pc[q] /\ proc'[q] = proc[q]
GoesOn(q)      == pc'[q] = pc[q] + 1 /\ proc'[q] = proc[q]
EndsAs(q, how) == pc'[q] = pc[q] /\ proc'[q] = how

LEMMA OnIs ==
  ASSUME TestsShape
  PROVE  /\ Sockets!On(Sockets!P) => GoesOn(Sockets!P) /\ Stays(Sockets!C)
         /\ Sockets!On(Sockets!C) => GoesOn(Sockets!C) /\ Stays(Sockets!P)
<1>1. pc \in [Sockets!Procs -> 1 .. 12] /\ Sockets!P \in Sockets!Procs
        /\ Sockets!C \in Sockets!Procs /\ Sockets!P # Sockets!C
  BY SMT DEF TestsShape, Sockets!Procs, Sockets!P, Sockets!C
<1>2. Sockets!On(Sockets!P) => GoesOn(Sockets!P) /\ Stays(Sockets!C)
  BY <1>1, SMT DEF Sockets!On, Stays, GoesOn
<1>3. Sockets!On(Sockets!C) => GoesOn(Sockets!C) /\ Stays(Sockets!P)
  BY <1>1, SMT DEF Sockets!On, Stays, GoesOn
<1> QED BY <1>2, <1>3

LEMMA ExitIs ==
  ASSUME TestsShape
  PROVE  /\ \A how : Sockets!Exit(Sockets!P, how) => EndsAs(Sockets!P, how) /\ Stays(Sockets!C)
         /\ \A how : Sockets!Exit(Sockets!C, how) => EndsAs(Sockets!C, how) /\ Stays(Sockets!P)
<1>1. /\ proc \in [Sockets!Procs -> {"off", "run", "done", "failed", "sigpipe"}]
      /\ Sockets!P \in Sockets!Procs /\ Sockets!C \in Sockets!Procs /\ Sockets!P # Sockets!C
  BY SMT DEF TestsShape, Sockets!Procs, Sockets!P, Sockets!C
<1>2. ASSUME NEW how
      PROVE  Sockets!Exit(Sockets!P, how) => EndsAs(Sockets!P, how) /\ Stays(Sockets!C)
  BY <1>1, SMT DEF Sockets!Exit, Stays, EndsAs
<1>3. ASSUME NEW how
      PROVE  Sockets!Exit(Sockets!C, how) => EndsAs(Sockets!C, how) /\ Stays(Sockets!P)
  BY <1>1, SMT DEF Sockets!Exit, Stays, EndsAs
<1> QED BY <1>2, <1>3

(* The calls of unique_connections.c                                       *)
Calls == {"unlink", "create", "remove", "bind", "listen", "connect", "accept", "fork", "read",
          "waitpid", "end"}

(* The tests of unique_connections.c begin with serv_listen.               *)
LEMMA ListensFirst ==
  ASSUME NEW n \in Nat, NEW t \in [1 .. n -> Calls]
  PROVE  LET s == Sockets!ServListen \o t
         IN  /\ s[1] = "unlink" /\ s[2] = "create" /\ s[3] = "remove" /\ s[4] = "bind"
                  /\ s[5] = "listen"
             /\ \A i \in 1 .. n : s[5 + i] = t[i]
<1> DEFINE l == Sockets!ServListen
<1>1. /\ l \in [1 .. 5 -> Calls] /\ Len(l) = 5
      /\ l[1] = "unlink" /\ l[2] = "create" /\ l[3] = "remove" /\ l[4] = "bind" /\ l[5] = "listen"
  BY SMT DEF Sockets!ServListen, Calls
<1> HIDE DEF l
<1>2. l \in Seq(Calls) /\ t \in Seq(Calls) /\ Len(t) = n
  <2>1. l \in Seq(Calls) /\ t \in Seq(Calls)
    BY <1>1, SeqDef
  <2> QED BY <2>1, LenProperties
<1>3. /\ \A i \in 1 .. 5 : (l \o t)[i] = l[i]
      /\ \A i \in 1 .. n : (l \o t)[5 + i] = t[i]
  <2>0. \A i \in 1 .. Len(l) + Len(t) :
          (l \o t)[i] = IF i <= Len(l) THEN l[i] ELSE t[i - Len(l)]
    BY <1>2, ConcatProperties
  <2>1. \A i \in 1 .. 5 + n : (l \o t)[i] = IF i <= 5 THEN l[i] ELSE t[i - 5]
    BY <1>1, <1>2, <2>0
  <2>2. \A i \in 1 .. n : 5 + i \in 1 .. 5 + n /\ ~(5 + i <= 5) /\ (5 + i) - 5 = i
    OBVIOUS
  <2>3. \A i \in 1 .. 5 : i \in 1 .. 5 + n /\ i <= 5
    OBVIOUS
  <2>4. ASSUME NEW i \in 1 .. n PROVE (l \o t)[5 + i] = t[i]
    BY <2>1, <2>2, Zenon
  <2>5. ASSUME NEW i \in 1 .. 5 PROVE (l \o t)[i] = l[i]
    BY <2>1, <2>3, Zenon
  <2> QED BY <2>4, <2>5
<1>4. 1 \in 1 .. 5 /\ 2 \in 1 .. 5 /\ 3 \in 1 .. 5 /\ 4 \in 1 .. 5 /\ 5 \in 1 .. 5
  OBVIOUS
<1> QED BY <1>1, <1>3, <1>4, Zenon DEF l

(* The calls of template                                                   *)
LEMMA TemplateOps ==
  ASSUME Sockets!Current = "template"
  PROVE  /\ pc[Sockets!P] = 1 => Sockets!Op(Sockets!P) = "remove"
         /\ pc[Sockets!P] = 2 => Sockets!Op(Sockets!P) = "fork"
         /\ pc[Sockets!P] = 3 => Sockets!Op(Sockets!P) = "wait_child"
         /\ pc[Sockets!P] = 4 => Sockets!Op(Sockets!P) = "connect"
         /\ pc[Sockets!P] = 5 => Sockets!Op(Sockets!P) = "read"
         /\ pc[Sockets!P] = 6 => Sockets!Op(Sockets!P) = "end"
         /\ pc[Sockets!C] = 1 => Sockets!Op(Sockets!C) = "bind"
         /\ pc[Sockets!C] = 2 => Sockets!Op(Sockets!C) = "listen"
         /\ pc[Sockets!C] = 3 => Sockets!Op(Sockets!C) = "tell_parent"
         /\ pc[Sockets!C] = 4 => Sockets!Op(Sockets!C) = "accept"
         /\ pc[Sockets!C] = 5 => Sockets!Op(Sockets!C) = "write"
         /\ pc[Sockets!C] = 6 => Sockets!Op(Sockets!C) = "end"
BY SMT DEF Sockets!Op, Sockets!Script, Sockets!Template, Sockets!P, Sockets!C

(* Each test stays on its course, call by call.                            *)
LEMMA TemplateStep ==
  ASSUME TestsShape, Never, Sockets!Current = "template", suite = "streams", TemplateCourse,
         NEW p \in Sockets!Procs, Sockets!Step(p)
  PROVE  TemplateCourse' /\ Never'
<1>0. Sockets!Going(p) /\ Sockets!Ready(p) /\ (p = Sockets!P \/ p = Sockets!C)
  BY StepIs, Zenon DEF Sockets!Procs
<1> USE DEF Sockets!Going, Sockets!Ended, Sockets!Other, Still, Running, Ends, Nameless, Child,
  ChildGone, Early, Connects, Lone, Listening, Interrupted, Kept, Sockets!outside, Stays, GoesOn,
    EndsAs
<1>1. CASE p = Sockets!P /\ pc[Sockets!P] = 1
  <2>1. Sockets!Remove(Sockets!P) BY <1>1, StepIs, TemplateOps
  <2> QED
    BY <1>0, <1>1, <2>1, OnIs, ExitIs, SMT DEF TemplateCourse, Never, Sockets!Remove,
       Sockets!Expect
<1>2. CASE p = Sockets!P /\ pc[Sockets!P] = 2
  <2>1. Sockets!Fork(Sockets!P) BY <1>2, StepIs, TemplateOps
  <2>2. pc'[Sockets!P] = 3 /\ pc'[Sockets!C] = pc[Sockets!C]
          /\ proc'[Sockets!P] = proc[Sockets!P] /\ proc'[Sockets!C] = "run"
    BY <1>2, <2>1, SMT DEF Sockets!Fork, TestsShape, Sockets!Procs, Sockets!P, Sockets!C
  <2> QED BY <1>0, <1>2, <2>1, <2>2, SMT DEF TemplateCourse, Never, Sockets!Fork
<1>3. CASE p = Sockets!P /\ pc[Sockets!P] = 3
  <2>1. Sockets!WaitChild(Sockets!P) BY <1>3, StepIs, TemplateOps
  <2> QED
    BY <1>0, <1>3, <2>1, OnIs, SMT DEF TemplateCourse, Never, Sockets!WaitChild, Sockets!Call,
       Sockets!Ready
<1>4. CASE p = Sockets!P /\ pc[Sockets!P] = 4
  <2>1. Sockets!Connect(Sockets!P) BY <1>4, StepIs, TemplateOps
  <2> QED
    BY <1>0, <1>4, <2>1, OnIs, ExitIs, SMT DEF TemplateCourse, Never, Sockets!Connect,
       Sockets!Expect
<1>5. CASE p = Sockets!P /\ pc[Sockets!P] = 5
  <2>1. Sockets!Receive(Sockets!P) BY <1>5, StepIs, TemplateOps
  <2>2. Sockets!Op(Sockets!P) = "read" BY <1>5, TemplateOps
  <2> QED
    BY <1>0, <1>5, <2>1, <2>2, OnIs, ExitIs, SMT DEF TemplateCourse, Never, Sockets!Receive,
       Sockets!Expect, Sockets!Call, Sockets!Ready, Sockets!P, Sockets!C
<1>6. CASE p = Sockets!P /\ pc[Sockets!P] = 6
  <2>1. Sockets!Return(Sockets!P) BY <1>6, StepIs, TemplateOps
  <2> QED BY <1>0, <1>6, <2>1, ExitIs, SMT DEF TemplateCourse, Never, Sockets!Return
<1>7. CASE p = Sockets!C /\ pc[Sockets!C] = 1
  <2>1. Sockets!Bind(Sockets!C) BY <1>7, StepIs, TemplateOps
  <2> QED
    BY <1>0, <1>7, <2>1, OnIs, ExitIs, SMT DEF TemplateCourse, Never, Sockets!Bind, Sockets!Expect
<1>8. CASE p = Sockets!C /\ pc[Sockets!C] = 2
  <2>1. Sockets!Listen(Sockets!C) BY <1>8, StepIs, TemplateOps
  <2> QED BY <1>0, <1>8, <2>1, OnIs, SMT DEF TemplateCourse, Never, Sockets!Listen
<1>9. CASE p = Sockets!C /\ pc[Sockets!C] = 3
  <2>1. Sockets!TellParent(Sockets!C) BY <1>9, StepIs, TemplateOps
  <2> QED BY <1>0, <1>9, <2>1, OnIs, SMT DEF TemplateCourse, Never, Sockets!TellParent
<1>10. CASE p = Sockets!C /\ pc[Sockets!C] = 4
  <2>1. Sockets!Accept(Sockets!C) BY <1>10, StepIs, TemplateOps
  <2> QED
    BY <1>0, <1>10, <2>1, OnIs, SMT DEF TemplateCourse, Never, Sockets!Accept, Sockets!Call,
       Sockets!Ready
<1>11. CASE p = Sockets!C /\ pc[Sockets!C] = 5
  <2>1. Sockets!Send(Sockets!C) BY <1>11, StepIs, TemplateOps
  <2>2. Sockets!Op(Sockets!C) = "write" BY <1>11, TemplateOps
  <2> QED
    BY <1>0, <1>11, <2>1, <2>2, OnIs, ExitIs, SMT DEF TemplateCourse, Never, Sockets!Send,
       Sockets!Expect, Sockets!Call, Sockets!Ready, Sockets!P, Sockets!C
<1>12. CASE p = Sockets!C /\ pc[Sockets!C] = 6
  <2>1. Sockets!Return(Sockets!C) BY <1>12, StepIs, TemplateOps
  <2> QED BY <1>0, <1>12, <2>1, ExitIs, SMT DEF TemplateCourse, Never, Sockets!Return
<1>13. pc[Sockets!P] \in 1 .. 6 /\ (p = Sockets!C => pc[Sockets!C] \in 1 .. 6)
  BY <1>0, SMT DEF TemplateCourse
<1> QED
  BY <1>0, <1>1, <1>2, <1>3, <1>4, <1>5, <1>6, <1>7, <1>8, <1>9, <1>10, <1>11, <1>12, <1>13, SMT

(* The calls of send_fd                                                    *)
LEMMA SendFdOps ==
  ASSUME Sockets!Current = "send_fd"
  PROVE  /\ pc[Sockets!P] = 1 => Sockets!Op(Sockets!P) = "remove"
         /\ pc[Sockets!P] = 2 => Sockets!Op(Sockets!P) = "fork"
         /\ pc[Sockets!P] = 3 => Sockets!Op(Sockets!P) = "bind"
         /\ pc[Sockets!P] = 4 => Sockets!Op(Sockets!P) = "listen"
         /\ pc[Sockets!P] = 5 => Sockets!Op(Sockets!P) = "accept"
         /\ pc[Sockets!P] = 6 => Sockets!Op(Sockets!P) = "send_fd"
         /\ pc[Sockets!P] = 7 => Sockets!Op(Sockets!P) = "check_waitpid"
         /\ pc[Sockets!C] = 1 => Sockets!Op(Sockets!C) = "connect"
         /\ pc[Sockets!C] = 2 => Sockets!Op(Sockets!C) = "end"
BY SMT DEF Sockets!Op, Sockets!Script, Sockets!SendFd, Sockets!P, Sockets!C

LEMMA SendFdStep ==
  ASSUME TestsShape, Never, Sockets!Current = "send_fd", suite = "exchange", SendFdCourse,
         NEW p \in Sockets!Procs, Sockets!Step(p)
  PROVE  SendFdCourse' /\ Never'
<1>0. Sockets!Going(p) /\ Sockets!Ready(p) /\ (p = Sockets!P \/ p = Sockets!C)
  BY StepIs, Zenon DEF Sockets!Procs
<1> USE DEF Sockets!Going, Sockets!Ended, Sockets!Other, Still, Running, Ends, Nameless, Child,
  ChildGone, Early, Connects, Lone, Listening, Interrupted, Kept, Sockets!outside, Stays, GoesOn,
    EndsAs
<1>1. CASE p = Sockets!P /\ pc[Sockets!P] = 1
  <2>1. Sockets!Remove(Sockets!P) BY <1>1, StepIs, SendFdOps
  <2> QED
    BY <1>0, <1>1, <2>1, OnIs, ExitIs, SMT DEF SendFdCourse, Never, Sockets!Remove, Sockets!Expect
<1>2. CASE p = Sockets!P /\ pc[Sockets!P] = 2
  <2>1. Sockets!Fork(Sockets!P) BY <1>2, StepIs, SendFdOps
  <2>2. pc'[Sockets!P] = 3 /\ pc'[Sockets!C] = pc[Sockets!C]
          /\ proc'[Sockets!P] = proc[Sockets!P] /\ proc'[Sockets!C] = "run"
    BY <1>2, <2>1, SMT DEF Sockets!Fork, TestsShape, Sockets!Procs, Sockets!P, Sockets!C
  <2> QED BY <1>0, <1>2, <2>1, <2>2, SMT DEF SendFdCourse, Never, Sockets!Fork
<1>3. CASE p = Sockets!P /\ pc[Sockets!P] = 3
  <2>1. Sockets!Bind(Sockets!P) BY <1>3, StepIs, SendFdOps
  <2> QED
    BY <1>0, <1>3, <2>1, OnIs, ExitIs, SMT DEF SendFdCourse, Never, Sockets!Bind, Sockets!Expect
<1>4. CASE p = Sockets!P /\ pc[Sockets!P] = 4
  <2>1. Sockets!Listen(Sockets!P) BY <1>4, StepIs, SendFdOps
  <2> QED BY <1>0, <1>4, <2>1, OnIs, SMT DEF SendFdCourse, Never, Sockets!Listen
<1>5. CASE p = Sockets!P /\ pc[Sockets!P] = 5
  <2>1. Sockets!Accept(Sockets!P) BY <1>5, StepIs, SendFdOps
  <2> QED
    BY <1>0, <1>5, <2>1, OnIs, SMT DEF SendFdCourse, Never, Sockets!Accept, Sockets!Call,
       Sockets!Ready
<1>6. CASE p = Sockets!P /\ pc[Sockets!P] = 6
  <2>1. Sockets!Send(Sockets!P) BY <1>6, StepIs, SendFdOps
  <2>2. Sockets!Op(Sockets!P) = "send_fd" BY <1>6, SendFdOps
  <2> QED
    BY <1>0, <1>6, <2>1, <2>2, OnIs, ExitIs, SMT DEF SendFdCourse, Never, Sockets!Send,
       Sockets!Expect, Sockets!Call, Sockets!Ready, Sockets!P, Sockets!C
<1>7. CASE p = Sockets!P /\ pc[Sockets!P] = 7
  <2>1. Sockets!CheckWaitpid(Sockets!P) BY <1>7, StepIs, SendFdOps
  <2> QED
    BY <1>0, <1>7, <2>1, ExitIs, SMT DEF SendFdCourse, Never, Sockets!CheckWaitpid, Sockets!Call,
       Sockets!Ready
<1>8. CASE p = Sockets!C /\ pc[Sockets!C] = 1
  <2>1. Sockets!Connect(Sockets!C) BY <1>8, StepIs, SendFdOps
  <2> QED
    BY <1>0, <1>8, <2>1, OnIs, ExitIs, SMT DEF SendFdCourse, Never, Sockets!Connect,
       Sockets!Expect
<1>9. CASE p = Sockets!C /\ pc[Sockets!C] = 2
  <2>1. Sockets!Return(Sockets!C) BY <1>9, StepIs, SendFdOps
  <2> QED BY <1>0, <1>9, <2>1, ExitIs, SMT DEF SendFdCourse, Never, Sockets!Return
<1>10. pc[Sockets!P] \in 1 .. 7 /\ (p = Sockets!C => pc[Sockets!C] \in 1 .. 2)
  BY <1>0, SMT DEF SendFdCourse
<1> QED BY <1>0, <1>1, <1>2, <1>3, <1>4, <1>5, <1>6, <1>7, <1>8, <1>9, <1>10, SMT

(* The calls of send_fd_with_sockpair                                      *)
LEMMA SendFdWithSockpairOps ==
  ASSUME Sockets!Current = "send_fd_with_sockpair"
  PROVE  /\ pc[Sockets!P] = 1 => Sockets!Op(Sockets!P) = "socketpair"
         /\ pc[Sockets!P] = 2 => Sockets!Op(Sockets!P) = "send_fd"
         /\ pc[Sockets!P] = 3 => Sockets!Op(Sockets!P) = "close"
         /\ pc[Sockets!P] = 4 => Sockets!Op(Sockets!P) = "send_fd_fails"
         /\ pc[Sockets!P] = 5 => Sockets!Op(Sockets!P) = "end"
BY SMT DEF Sockets!Op, Sockets!Script, Sockets!SendFdWithSockpair, Sockets!P, Sockets!C

LEMMA SendFdWithSockpairStep ==
  ASSUME TestsShape, Never, Sockets!Current = "send_fd_with_sockpair", suite = "exchange",
         SendFdWithSockpairCourse, NEW p \in Sockets!Procs, Sockets!Step(p)
  PROVE  SendFdWithSockpairCourse' /\ Never'
<1>0. Sockets!Going(p) /\ Sockets!Ready(p) /\ (p = Sockets!P \/ p = Sockets!C)
  BY StepIs, Zenon DEF Sockets!Procs
<1> USE DEF Sockets!Going, Sockets!Ended, Sockets!Other, Still, Running, Ends, Nameless, Child,
  ChildGone, Early, Connects, Lone, Listening, Interrupted, Kept, Sockets!outside, Stays, GoesOn,
    EndsAs
<1>1. CASE p = Sockets!P /\ pc[Sockets!P] = 1
  <2>1. Sockets!Socketpair(Sockets!P) BY <1>1, StepIs, SendFdWithSockpairOps
  <2> QED BY <1>0, <1>1, <2>1, OnIs, SMT DEF SendFdWithSockpairCourse, Never, Sockets!Socketpair
<1>2. CASE p = Sockets!P /\ pc[Sockets!P] = 2
  <2>1. Sockets!Send(Sockets!P) BY <1>2, StepIs, SendFdWithSockpairOps
  <2>2. Sockets!Op(Sockets!P) = "send_fd" BY <1>2, SendFdWithSockpairOps
  <2> QED
    BY <1>0, <1>2, <2>1, <2>2, OnIs, ExitIs, SMT DEF SendFdWithSockpairCourse, Never,
       Sockets!Send, Sockets!Expect, Sockets!Call, Sockets!Ready, Sockets!P, Sockets!C
<1>3. CASE p = Sockets!P /\ pc[Sockets!P] = 3
  <2>1. Sockets!Close(Sockets!P) BY <1>3, StepIs, SendFdWithSockpairOps
  <2> QED BY <1>0, <1>3, <2>1, OnIs, SMT DEF SendFdWithSockpairCourse, Never, Sockets!Close
<1>4. CASE p = Sockets!P /\ pc[Sockets!P] = 4
  <2>1. Sockets!Send(Sockets!P) BY <1>4, StepIs, SendFdWithSockpairOps
  <2>2. Sockets!Op(Sockets!P) = "send_fd_fails" BY <1>4, SendFdWithSockpairOps
  <2> QED
    BY <1>0, <1>4, <2>1, <2>2, OnIs, ExitIs, SMT DEF SendFdWithSockpairCourse, Never,
       Sockets!Send, Sockets!Expect, Sockets!Call, Sockets!Ready, Sockets!P, Sockets!C
<1>5. CASE p = Sockets!P /\ pc[Sockets!P] = 5
  <2>1. Sockets!Return(Sockets!P) BY <1>5, StepIs, SendFdWithSockpairOps
  <2> QED BY <1>0, <1>5, <2>1, ExitIs, SMT DEF SendFdWithSockpairCourse, Never, Sockets!Return
<1>6. pc[Sockets!P] \in 1 .. 5 /\ (p = Sockets!C => pc[Sockets!C] \in 1 .. 1)
  BY <1>0, SMT DEF SendFdWithSockpairCourse
<1>7. p # Sockets!C BY <1>0, SMT DEF SendFdWithSockpairCourse
<1> QED BY <1>0, <1>1, <1>2, <1>3, <1>4, <1>5, <1>6, <1>7, SMT

(* The calls of fd_exchange                                                *)
LEMMA FdExchangeOps ==
  ASSUME Sockets!Current = "fd_exchange"
  PROVE  /\ pc[Sockets!P] = 1 => Sockets!Op(Sockets!P) = "open_file"
         /\ pc[Sockets!P] = 2 => Sockets!Op(Sockets!P) = "remove"
         /\ pc[Sockets!P] = 3 => Sockets!Op(Sockets!P) = "fork"
         /\ pc[Sockets!P] = 4 => Sockets!Op(Sockets!P) = "bind"
         /\ pc[Sockets!P] = 5 => Sockets!Op(Sockets!P) = "listen"
         /\ pc[Sockets!P] = 6 => Sockets!Op(Sockets!P) = "accept"
         /\ pc[Sockets!P] = 7 => Sockets!Op(Sockets!P) = "send_fd"
         /\ pc[Sockets!P] = 8 => Sockets!Op(Sockets!P) = "check_waitpid"
         /\ pc[Sockets!C] = 1 => Sockets!Op(Sockets!C) = "connect"
         /\ pc[Sockets!C] = 2 => Sockets!Op(Sockets!C) = "recv_fd"
         /\ pc[Sockets!C] = 3 => Sockets!Op(Sockets!C) = "end"
BY SMT DEF Sockets!Op, Sockets!Script, Sockets!FdExchange, Sockets!P, Sockets!C

LEMMA FdExchangeStep ==
  ASSUME TestsShape, Never, Sockets!Current = "fd_exchange", suite = "exchange", FdExchangeCourse,
         NEW p \in Sockets!Procs, Sockets!Step(p)
  PROVE  FdExchangeCourse' /\ Never'
<1>0. Sockets!Going(p) /\ Sockets!Ready(p) /\ (p = Sockets!P \/ p = Sockets!C)
  BY StepIs, Zenon DEF Sockets!Procs
<1> USE DEF Sockets!Going, Sockets!Ended, Sockets!Other, Still, Running, Ends, Nameless, Child,
  ChildGone, Early, Connects, Lone, Listening, Interrupted, Kept, Sockets!outside, Stays, GoesOn,
    EndsAs
<1>1. CASE p = Sockets!P /\ pc[Sockets!P] = 1
  <2>1. Sockets!OpenFile(Sockets!P) BY <1>1, StepIs, FdExchangeOps
  <2> QED
    BY <1>0, <1>1, <2>1, OnIs, ExitIs, SMT DEF FdExchangeCourse, Never, Sockets!OpenFile,
       Sockets!Expect
<1>2. CASE p = Sockets!P /\ pc[Sockets!P] = 2
  <2>1. Sockets!Remove(Sockets!P) BY <1>2, StepIs, FdExchangeOps
  <2> QED
    BY <1>0, <1>2, <2>1, OnIs, ExitIs, SMT DEF FdExchangeCourse, Never, Sockets!Remove,
       Sockets!Expect
<1>3. CASE p = Sockets!P /\ pc[Sockets!P] = 3
  <2>1. Sockets!Fork(Sockets!P) BY <1>3, StepIs, FdExchangeOps
  <2>2. pc'[Sockets!P] = 4 /\ pc'[Sockets!C] = pc[Sockets!C]
          /\ proc'[Sockets!P] = proc[Sockets!P] /\ proc'[Sockets!C] = "run"
    BY <1>3, <2>1, SMT DEF Sockets!Fork, TestsShape, Sockets!Procs, Sockets!P, Sockets!C
  <2> QED BY <1>0, <1>3, <2>1, <2>2, SMT DEF FdExchangeCourse, Never, Sockets!Fork
<1>4. CASE p = Sockets!P /\ pc[Sockets!P] = 4
  <2>1. Sockets!Bind(Sockets!P) BY <1>4, StepIs, FdExchangeOps
  <2> QED
    BY <1>0, <1>4, <2>1, OnIs, ExitIs, SMT DEF FdExchangeCourse, Never, Sockets!Bind,
       Sockets!Expect
<1>5. CASE p = Sockets!P /\ pc[Sockets!P] = 5
  <2>1. Sockets!Listen(Sockets!P) BY <1>5, StepIs, FdExchangeOps
  <2> QED BY <1>0, <1>5, <2>1, OnIs, SMT DEF FdExchangeCourse, Never, Sockets!Listen
<1>6. CASE p = Sockets!P /\ pc[Sockets!P] = 6
  <2>1. Sockets!Accept(Sockets!P) BY <1>6, StepIs, FdExchangeOps
  <2> QED
    BY <1>0, <1>6, <2>1, OnIs, SMT DEF FdExchangeCourse, Never, Sockets!Accept, Sockets!Call,
       Sockets!Ready
<1>7. CASE p = Sockets!P /\ pc[Sockets!P] = 7
  <2>1. Sockets!Send(Sockets!P) BY <1>7, StepIs, FdExchangeOps
  <2>2. Sockets!Op(Sockets!P) = "send_fd" BY <1>7, FdExchangeOps
  <2> QED
    BY <1>0, <1>7, <2>1, <2>2, OnIs, ExitIs, SMT DEF FdExchangeCourse, Never, Sockets!Send,
       Sockets!Expect, Sockets!Call, Sockets!Ready, Sockets!P, Sockets!C
<1>8. CASE p = Sockets!P /\ pc[Sockets!P] = 8
  <2>1. Sockets!CheckWaitpid(Sockets!P) BY <1>8, StepIs, FdExchangeOps
  <2> QED
    BY <1>0, <1>8, <2>1, ExitIs, SMT DEF FdExchangeCourse, Never, Sockets!CheckWaitpid,
       Sockets!Call, Sockets!Ready
<1>9. CASE p = Sockets!C /\ pc[Sockets!C] = 1
  <2>1. Sockets!Connect(Sockets!C) BY <1>9, StepIs, FdExchangeOps
  <2> QED
    BY <1>0, <1>9, <2>1, OnIs, ExitIs, SMT DEF FdExchangeCourse, Never, Sockets!Connect,
       Sockets!Expect
<1>10. CASE p = Sockets!C /\ pc[Sockets!C] = 2
  <2>1. Sockets!Receive(Sockets!C) BY <1>10, StepIs, FdExchangeOps
  <2>2. Sockets!Op(Sockets!C) = "recv_fd" BY <1>10, FdExchangeOps
  <2> QED
    BY <1>0, <1>10, <2>1, <2>2, OnIs, ExitIs, SMT DEF FdExchangeCourse, Never, Sockets!Receive,
       Sockets!Expect, Sockets!Call, Sockets!Ready, Sockets!P, Sockets!C
<1>11. CASE p = Sockets!C /\ pc[Sockets!C] = 3
  <2>1. Sockets!Return(Sockets!C) BY <1>11, StepIs, FdExchangeOps
  <2> QED BY <1>0, <1>11, <2>1, ExitIs, SMT DEF FdExchangeCourse, Never, Sockets!Return
<1>12. pc[Sockets!P] \in 1 .. 8 /\ (p = Sockets!C => pc[Sockets!C] \in 1 .. 3)
  BY <1>0, SMT DEF FdExchangeCourse
<1> QED
  BY <1>0, <1>1, <1>2, <1>3, <1>4, <1>5, <1>6, <1>7, <1>8, <1>9, <1>10, <1>11, <1>12, SMT

(* The calls of fd_exchange_with_sockpair                                  *)
LEMMA FdExchangeWithSockpairOps ==
  ASSUME Sockets!Current = "fd_exchange_with_sockpair"
  PROVE  /\ pc[Sockets!P] = 1 => Sockets!Op(Sockets!P) = "socketpair"
         /\ pc[Sockets!P] = 2 => Sockets!Op(Sockets!P) = "send_fd"
         /\ pc[Sockets!P] = 3 => Sockets!Op(Sockets!P) = "recv_fd"
         /\ pc[Sockets!P] = 4 => Sockets!Op(Sockets!P) = "end"
BY SMT DEF Sockets!Op, Sockets!Script, Sockets!FdExchangeWithSockpair, Sockets!P, Sockets!C

LEMMA FdExchangeWithSockpairStep ==
  ASSUME TestsShape, Never, Sockets!Current = "fd_exchange_with_sockpair", suite = "exchange",
         FdExchangeWithSockpairCourse, NEW p \in Sockets!Procs, Sockets!Step(p)
  PROVE  FdExchangeWithSockpairCourse' /\ Never'
<1>0. Sockets!Going(p) /\ Sockets!Ready(p) /\ (p = Sockets!P \/ p = Sockets!C)
  BY StepIs, Zenon DEF Sockets!Procs
<1> USE DEF Sockets!Going, Sockets!Ended, Sockets!Other, Still, Running, Ends, Nameless, Child,
  ChildGone, Early, Connects, Lone, Listening, Interrupted, Kept, Sockets!outside, Stays, GoesOn,
    EndsAs
<1>1. CASE p = Sockets!P /\ pc[Sockets!P] = 1
  <2>1. Sockets!Socketpair(Sockets!P) BY <1>1, StepIs, FdExchangeWithSockpairOps
  <2> QED
    BY <1>0, <1>1, <2>1, OnIs, SMT DEF FdExchangeWithSockpairCourse, Never, Sockets!Socketpair
<1>2. CASE p = Sockets!P /\ pc[Sockets!P] = 2
  <2>1. Sockets!Send(Sockets!P) BY <1>2, StepIs, FdExchangeWithSockpairOps
  <2>2. Sockets!Op(Sockets!P) = "send_fd" BY <1>2, FdExchangeWithSockpairOps
  <2> QED
    BY <1>0, <1>2, <2>1, <2>2, OnIs, ExitIs, SMT DEF FdExchangeWithSockpairCourse, Never,
       Sockets!Send, Sockets!Expect, Sockets!Call, Sockets!Ready, Sockets!P, Sockets!C
<1>3. CASE p = Sockets!P /\ pc[Sockets!P] = 3
  <2>1. Sockets!Receive(Sockets!P) BY <1>3, StepIs, FdExchangeWithSockpairOps
  <2>2. Sockets!Op(Sockets!P) = "recv_fd" BY <1>3, FdExchangeWithSockpairOps
  <2> QED
    BY <1>0, <1>3, <2>1, <2>2, OnIs, ExitIs, SMT DEF FdExchangeWithSockpairCourse, Never,
       Sockets!Receive, Sockets!Expect, Sockets!Call, Sockets!Ready, Sockets!P, Sockets!C
<1>4. CASE p = Sockets!P /\ pc[Sockets!P] = 4
  <2>1. Sockets!Return(Sockets!P) BY <1>4, StepIs, FdExchangeWithSockpairOps
  <2> QED BY <1>0, <1>4, <2>1, ExitIs, SMT DEF FdExchangeWithSockpairCourse, Never, Sockets!Return
<1>5. pc[Sockets!P] \in 1 .. 4 /\ (p = Sockets!C => pc[Sockets!C] \in 1 .. 1)
  BY <1>0, SMT DEF FdExchangeWithSockpairCourse
<1>6. p # Sockets!C BY <1>0, SMT DEF FdExchangeWithSockpairCourse
<1> QED BY <1>0, <1>1, <1>2, <1>3, <1>4, <1>5, <1>6, SMT

(* The calls of serv_listen                                                *)
LEMMA ServListenOps ==
  ASSUME Sockets!Current = "serv_listen"
  PROVE  /\ pc[Sockets!P] = 1 => Sockets!Op(Sockets!P) = "unlink"
         /\ pc[Sockets!P] = 2 => Sockets!Op(Sockets!P) = "create"
         /\ pc[Sockets!P] = 3 => Sockets!Op(Sockets!P) = "remove"
         /\ pc[Sockets!P] = 4 => Sockets!Op(Sockets!P) = "bind"
         /\ pc[Sockets!P] = 5 => Sockets!Op(Sockets!P) = "listen"
         /\ pc[Sockets!P] = 6 => Sockets!Op(Sockets!P) = "unlink"
         /\ pc[Sockets!P] = 7 => Sockets!Op(Sockets!P) = "end"
<1> DEFINE t == <<"unlink", "end">>
           s == Sockets!Script[Sockets!Current][Sockets!P]
<1>1. t \in [1 .. 2 -> Calls] /\ t[1] = "unlink" /\ t[2] = "end"
  BY SMT DEF Calls
<1>2. s = Sockets!ServListen \o t
  BY SMT DEF Sockets!Script, Sockets!TestServListen, Sockets!P
<1> HIDE DEF s, t
<1>3. /\ s[1] = "unlink" /\ s[2] = "create" /\ s[3] = "remove" /\ s[4] = "bind" /\ s[5] = "listen"
      /\ \A i \in 1 .. 2 : s[5 + i] = t[i]
  <2>1. 2 \in Nat
    OBVIOUS
  <2> QED BY <1>1, <1>2, <2>1, ListensFirst, Zenon
<1>4. s[6] = "unlink" /\ s[7] = "end"
  BY <1>1, <1>3, SMT
<1>5. \A p \in Sockets!Procs : Sockets!Op(p) = Sockets!Script[Sockets!Current][p][pc[p]]
  BY DEF Sockets!Op
<1>6. Sockets!Op(Sockets!P) = s[pc[Sockets!P]]
  BY <1>5 DEF Sockets!Procs, s
<1> QED BY <1>3, <1>4, <1>6, SMT

LEMMA ServListenStep ==
  ASSUME TestsShape, Never, Sockets!Current = "serv_listen", suite = "unique", ServListenCourse,
         NEW p \in Sockets!Procs, Sockets!Step(p)
  PROVE  ServListenCourse' /\ Never'
<1>0. Sockets!Going(p) /\ Sockets!Ready(p) /\ (p = Sockets!P \/ p = Sockets!C)
  BY StepIs, Zenon DEF Sockets!Procs
<1> USE DEF Sockets!Going, Sockets!Ended, Sockets!Other, Still, Running, Ends, Nameless, Child,
  ChildGone, Early, Connects, Lone, Listening, Interrupted, Kept, Sockets!outside, Stays, GoesOn,
    EndsAs
<1>1. CASE p = Sockets!P /\ pc[Sockets!P] = 1
  <2>1. Sockets!Unlink(Sockets!P) BY <1>1, StepIs, ServListenOps
  <2> QED BY <1>0, <1>1, <2>1, OnIs, SMT DEF ServListenCourse, Never, Sockets!Unlink
<1>2. CASE p = Sockets!P /\ pc[Sockets!P] = 2
  <2>1. Sockets!Create(Sockets!P) BY <1>2, StepIs, ServListenOps
  <2> QED
    BY <1>0, <1>2, <2>1, OnIs, ExitIs, SMT DEF ServListenCourse, Never, Sockets!Create,
       Sockets!Expect
<1>3. CASE p = Sockets!P /\ pc[Sockets!P] = 3
  <2>1. Sockets!Remove(Sockets!P) BY <1>3, StepIs, ServListenOps
  <2> QED
    BY <1>0, <1>3, <2>1, OnIs, ExitIs, SMT DEF ServListenCourse, Never, Sockets!Remove,
       Sockets!Expect
<1>4. CASE p = Sockets!P /\ pc[Sockets!P] = 4
  <2>1. Sockets!Bind(Sockets!P) BY <1>4, StepIs, ServListenOps
  <2> QED
    BY <1>0, <1>4, <2>1, OnIs, ExitIs, SMT DEF ServListenCourse, Never, Sockets!Bind,
       Sockets!Expect
<1>5. CASE p = Sockets!P /\ pc[Sockets!P] = 5
  <2>1. Sockets!Listen(Sockets!P) BY <1>5, StepIs, ServListenOps
  <2> QED BY <1>0, <1>5, <2>1, OnIs, SMT DEF ServListenCourse, Never, Sockets!Listen
<1>6. CASE p = Sockets!P /\ pc[Sockets!P] = 6
  <2>1. Sockets!Unlink(Sockets!P) BY <1>6, StepIs, ServListenOps
  <2> QED BY <1>0, <1>6, <2>1, OnIs, SMT DEF ServListenCourse, Never, Sockets!Unlink
<1>7. CASE p = Sockets!P /\ pc[Sockets!P] = 7
  <2>1. Sockets!Return(Sockets!P) BY <1>7, StepIs, ServListenOps
  <2> QED BY <1>0, <1>7, <2>1, ExitIs, SMT DEF ServListenCourse, Never, Sockets!Return
<1>8. pc[Sockets!P] \in 1 .. 7 /\ (p = Sockets!C => pc[Sockets!C] \in 1 .. 1)
  BY <1>0, SMT DEF ServListenCourse
<1>9. p # Sockets!C BY <1>0, SMT DEF ServListenCourse
<1> QED BY <1>0, <1>1, <1>2, <1>3, <1>4, <1>5, <1>6, <1>7, <1>8, <1>9, SMT

(* The calls of client                                                     *)
LEMMA ClientOps ==
  ASSUME Sockets!Current = "client"
  PROVE  /\ pc[Sockets!P] = 1 => Sockets!Op(Sockets!P) = "unlink"
         /\ pc[Sockets!P] = 2 => Sockets!Op(Sockets!P) = "create"
         /\ pc[Sockets!P] = 3 => Sockets!Op(Sockets!P) = "remove"
         /\ pc[Sockets!P] = 4 => Sockets!Op(Sockets!P) = "bind"
         /\ pc[Sockets!P] = 5 => Sockets!Op(Sockets!P) = "listen"
         /\ pc[Sockets!P] = 6 => Sockets!Op(Sockets!P) = "connect"
         /\ pc[Sockets!P] = 7 => Sockets!Op(Sockets!P) = "accept"
         /\ pc[Sockets!P] = 8 => Sockets!Op(Sockets!P) = "unlink"
         /\ pc[Sockets!P] = 9 => Sockets!Op(Sockets!P) = "end"
<1> DEFINE t == <<"connect", "accept", "unlink", "end">>
           s == Sockets!Script[Sockets!Current][Sockets!P]
<1>1. t \in [1 .. 4 -> Calls] /\ t[1] = "connect" /\ t[2] = "accept" /\ t[3] = "unlink"
        /\ t[4] = "end"
  BY SMT DEF Calls
<1>2. s = Sockets!ServListen \o t
  BY SMT DEF Sockets!Script, Sockets!TestClient, Sockets!P
<1> HIDE DEF s, t
<1>3. /\ s[1] = "unlink" /\ s[2] = "create" /\ s[3] = "remove" /\ s[4] = "bind" /\ s[5] = "listen"
      /\ \A i \in 1 .. 4 : s[5 + i] = t[i]
  <2>1. 4 \in Nat
    OBVIOUS
  <2> QED BY <1>1, <1>2, <2>1, ListensFirst, Zenon
<1>4. s[6] = "connect" /\ s[7] = "accept" /\ s[8] = "unlink" /\ s[9] = "end"
  BY <1>1, <1>3, SMT
<1>5. \A p \in Sockets!Procs : Sockets!Op(p) = Sockets!Script[Sockets!Current][p][pc[p]]
  BY DEF Sockets!Op
<1>6. Sockets!Op(Sockets!P) = s[pc[Sockets!P]]
  BY <1>5 DEF Sockets!Procs, s
<1> QED BY <1>3, <1>4, <1>6, SMT

LEMMA ClientStep ==
  ASSUME TestsShape, Never, Sockets!Current = "client", suite = "unique", ClientCourse,
         NEW p \in Sockets!Procs, Sockets!Step(p)
  PROVE  ClientCourse' /\ Never'
<1>0. Sockets!Going(p) /\ Sockets!Ready(p) /\ (p = Sockets!P \/ p = Sockets!C)
  BY StepIs, Zenon DEF Sockets!Procs
<1> USE DEF Sockets!Going, Sockets!Ended, Sockets!Other, Still, Running, Ends, Nameless, Child,
  ChildGone, Early, Connects, Lone, Listening, Interrupted, Kept, Sockets!outside, Stays, GoesOn,
    EndsAs
<1>1. CASE p = Sockets!P /\ pc[Sockets!P] = 1
  <2>1. Sockets!Unlink(Sockets!P) BY <1>1, StepIs, ClientOps
  <2> QED BY <1>0, <1>1, <2>1, OnIs, SMT DEF ClientCourse, Never, Sockets!Unlink
<1>2. CASE p = Sockets!P /\ pc[Sockets!P] = 2
  <2>1. Sockets!Create(Sockets!P) BY <1>2, StepIs, ClientOps
  <2> QED
    BY <1>0, <1>2, <2>1, OnIs, ExitIs, SMT DEF ClientCourse, Never, Sockets!Create, Sockets!Expect
<1>3. CASE p = Sockets!P /\ pc[Sockets!P] = 3
  <2>1. Sockets!Remove(Sockets!P) BY <1>3, StepIs, ClientOps
  <2> QED
    BY <1>0, <1>3, <2>1, OnIs, ExitIs, SMT DEF ClientCourse, Never, Sockets!Remove, Sockets!Expect
<1>4. CASE p = Sockets!P /\ pc[Sockets!P] = 4
  <2>1. Sockets!Bind(Sockets!P) BY <1>4, StepIs, ClientOps
  <2> QED
    BY <1>0, <1>4, <2>1, OnIs, ExitIs, SMT DEF ClientCourse, Never, Sockets!Bind, Sockets!Expect
<1>5. CASE p = Sockets!P /\ pc[Sockets!P] = 5
  <2>1. Sockets!Listen(Sockets!P) BY <1>5, StepIs, ClientOps
  <2> QED BY <1>0, <1>5, <2>1, OnIs, SMT DEF ClientCourse, Never, Sockets!Listen
<1>6. CASE p = Sockets!P /\ pc[Sockets!P] = 6
  <2>1. Sockets!Connect(Sockets!P) BY <1>6, StepIs, ClientOps
  <2> QED
    BY <1>0, <1>6, <2>1, OnIs, ExitIs, SMT DEF ClientCourse, Never, Sockets!Connect,
       Sockets!Expect
<1>7. CASE p = Sockets!P /\ pc[Sockets!P] = 7
  <2>1. Sockets!Accept(Sockets!P) BY <1>7, StepIs, ClientOps
  <2> QED
    BY <1>0, <1>7, <2>1, OnIs, SMT DEF ClientCourse, Never, Sockets!Accept, Sockets!Call,
       Sockets!Ready
<1>8. CASE p = Sockets!P /\ pc[Sockets!P] = 8
  <2>1. Sockets!Unlink(Sockets!P) BY <1>8, StepIs, ClientOps
  <2> QED BY <1>0, <1>8, <2>1, OnIs, SMT DEF ClientCourse, Never, Sockets!Unlink
<1>9. CASE p = Sockets!P /\ pc[Sockets!P] = 9
  <2>1. Sockets!Return(Sockets!P) BY <1>9, StepIs, ClientOps
  <2> QED BY <1>0, <1>9, <2>1, ExitIs, SMT DEF ClientCourse, Never, Sockets!Return
<1>10. pc[Sockets!P] \in 1 .. 9 /\ (p = Sockets!C => pc[Sockets!C] \in 1 .. 1)
  BY <1>0, SMT DEF ClientCourse
<1>11. p # Sockets!C BY <1>0, SMT DEF ClientCourse
<1> QED BY <1>0, <1>1, <1>2, <1>3, <1>4, <1>5, <1>6, <1>7, <1>8, <1>9, <1>10, <1>11, SMT

(* The calls of communication                                              *)
LEMMA CommunicationOps ==
  ASSUME Sockets!Current = "communication"
  PROVE  /\ pc[Sockets!P] = 1 => Sockets!Op(Sockets!P) = "unlink"
         /\ pc[Sockets!P] = 2 => Sockets!Op(Sockets!P) = "create"
         /\ pc[Sockets!P] = 3 => Sockets!Op(Sockets!P) = "remove"
         /\ pc[Sockets!P] = 4 => Sockets!Op(Sockets!P) = "bind"
         /\ pc[Sockets!P] = 5 => Sockets!Op(Sockets!P) = "listen"
         /\ pc[Sockets!P] = 6 => Sockets!Op(Sockets!P) = "fork"
         /\ pc[Sockets!P] = 7 => Sockets!Op(Sockets!P) = "accept"
         /\ pc[Sockets!P] = 8 => Sockets!Op(Sockets!P) = "read"
         /\ pc[Sockets!P] = 9 => Sockets!Op(Sockets!P) = "waitpid"
         /\ pc[Sockets!P] = 10 => Sockets!Op(Sockets!P) = "unlink"
         /\ pc[Sockets!P] = 11 => Sockets!Op(Sockets!P) = "end"
         /\ pc[Sockets!C] = 1 => Sockets!Op(Sockets!C) = "connect"
         /\ pc[Sockets!C] = 2 => Sockets!Op(Sockets!C) = "write"
         /\ pc[Sockets!C] = 3 => Sockets!Op(Sockets!C) = "end"
<1> DEFINE t == <<"fork", "accept", "read", "waitpid", "unlink", "end">>
           s == Sockets!Script[Sockets!Current][Sockets!P]
<1>1. t \in [1 .. 6 -> Calls] /\ t[1] = "fork" /\ t[2] = "accept" /\ t[3] = "read"
        /\ t[4] = "waitpid" /\ t[5] = "unlink" /\ t[6] = "end"
  BY SMT DEF Calls
<1>2. s = Sockets!ServListen \o t
  BY SMT DEF Sockets!Script, Sockets!TestCommunication, Sockets!P
<1> HIDE DEF s, t
<1>3. /\ s[1] = "unlink" /\ s[2] = "create" /\ s[3] = "remove" /\ s[4] = "bind" /\ s[5] = "listen"
      /\ \A i \in 1 .. 6 : s[5 + i] = t[i]
  <2>1. 6 \in Nat
    OBVIOUS
  <2> QED BY <1>1, <1>2, <2>1, ListensFirst, Zenon
<1>4. s[6] = "fork" /\ s[7] = "accept" /\ s[8] = "read" /\ s[9] = "waitpid" /\ s[10] = "unlink"
        /\ s[11] = "end"
  BY <1>1, <1>3, SMT
<1>5. \A p \in Sockets!Procs : Sockets!Op(p) = Sockets!Script[Sockets!Current][p][pc[p]]
  BY DEF Sockets!Op
<1>6. Sockets!Script[Sockets!Current][Sockets!C] = <<"connect", "write", "end">>
  BY SMT DEF Sockets!Script, Sockets!TestCommunication, Sockets!C
<1>7. Sockets!Op(Sockets!P) = s[pc[Sockets!P]]
        /\ Sockets!Op(Sockets!C) = Sockets!Script[Sockets!Current][Sockets!C][pc[Sockets!C]]
  BY <1>5 DEF s, Sockets!Procs
<1> QED BY <1>3, <1>4, <1>6, <1>7, SMT

LEMMA CommunicationStep ==
  ASSUME TestsShape, Never, Sockets!Current = "communication", suite = "unique",
         CommunicationCourse, NEW p \in Sockets!Procs, Sockets!Step(p)
  PROVE  CommunicationCourse' /\ Never'
<1>0. Sockets!Going(p) /\ Sockets!Ready(p) /\ (p = Sockets!P \/ p = Sockets!C)
  BY StepIs, Zenon DEF Sockets!Procs
<1> USE DEF Sockets!Going, Sockets!Ended, Sockets!Other, Still, Running, Ends, Nameless, Child,
  ChildGone, Early, Connects, Lone, Listening, Interrupted, Kept, Sockets!outside, Stays, GoesOn,
    EndsAs
<1>1. CASE p = Sockets!P /\ pc[Sockets!P] = 1
  <2>1. Sockets!Unlink(Sockets!P) BY <1>1, StepIs, CommunicationOps
  <2> QED BY <1>0, <1>1, <2>1, OnIs, SMT DEF CommunicationCourse, Never, Sockets!Unlink
<1>2. CASE p = Sockets!P /\ pc[Sockets!P] = 2
  <2>1. Sockets!Create(Sockets!P) BY <1>2, StepIs, CommunicationOps
  <2> QED
    BY <1>0, <1>2, <2>1, OnIs, ExitIs, SMT DEF CommunicationCourse, Never, Sockets!Create,
       Sockets!Expect
<1>3. CASE p = Sockets!P /\ pc[Sockets!P] = 3
  <2>1. Sockets!Remove(Sockets!P) BY <1>3, StepIs, CommunicationOps
  <2> QED
    BY <1>0, <1>3, <2>1, OnIs, ExitIs, SMT DEF CommunicationCourse, Never, Sockets!Remove,
       Sockets!Expect
<1>4. CASE p = Sockets!P /\ pc[Sockets!P] = 4
  <2>1. Sockets!Bind(Sockets!P) BY <1>4, StepIs, CommunicationOps
  <2> QED
    BY <1>0, <1>4, <2>1, OnIs, ExitIs, SMT DEF CommunicationCourse, Never, Sockets!Bind,
       Sockets!Expect
<1>5. CASE p = Sockets!P /\ pc[Sockets!P] = 5
  <2>1. Sockets!Listen(Sockets!P) BY <1>5, StepIs, CommunicationOps
  <2> QED BY <1>0, <1>5, <2>1, OnIs, SMT DEF CommunicationCourse, Never, Sockets!Listen
<1>6. CASE p = Sockets!P /\ pc[Sockets!P] = 6
  <2>1. Sockets!Fork(Sockets!P) BY <1>6, StepIs, CommunicationOps
  <2>2. pc'[Sockets!P] = 7 /\ pc'[Sockets!C] = pc[Sockets!C]
          /\ proc'[Sockets!P] = proc[Sockets!P] /\ proc'[Sockets!C] = "run"
    BY <1>6, <2>1, SMT DEF Sockets!Fork, TestsShape, Sockets!Procs, Sockets!P, Sockets!C
  <2> QED BY <1>0, <1>6, <2>1, <2>2, SMT DEF CommunicationCourse, Never, Sockets!Fork
<1>7. CASE p = Sockets!P /\ pc[Sockets!P] = 7
  <2>1. Sockets!Accept(Sockets!P) BY <1>7, StepIs, CommunicationOps
  <2> QED
    BY <1>0, <1>7, <2>1, OnIs, SMT DEF CommunicationCourse, Never, Sockets!Accept, Sockets!Call,
       Sockets!Ready
<1>8. CASE p = Sockets!P /\ pc[Sockets!P] = 8
  <2>1. Sockets!Receive(Sockets!P) BY <1>8, StepIs, CommunicationOps
  <2>2. Sockets!Op(Sockets!P) = "read" BY <1>8, CommunicationOps
  <2> QED
    BY <1>0, <1>8, <2>1, <2>2, OnIs, ExitIs, SMT DEF CommunicationCourse, Never, Sockets!Receive,
       Sockets!Expect, Sockets!Call, Sockets!Ready, Sockets!P, Sockets!C
<1>9. CASE p = Sockets!P /\ pc[Sockets!P] = 9
  <2>1. Sockets!Waitpid(Sockets!P) BY <1>9, StepIs, CommunicationOps
  <2> QED
    BY <1>0, <1>9, <2>1, OnIs, SMT DEF CommunicationCourse, Never, Sockets!Waitpid, Sockets!Call,
       Sockets!Ready
<1>10. CASE p = Sockets!P /\ pc[Sockets!P] = 10
  <2>1. Sockets!Unlink(Sockets!P) BY <1>10, StepIs, CommunicationOps
  <2> QED BY <1>0, <1>10, <2>1, OnIs, SMT DEF CommunicationCourse, Never, Sockets!Unlink
<1>11. CASE p = Sockets!P /\ pc[Sockets!P] = 11
  <2>1. Sockets!Return(Sockets!P) BY <1>11, StepIs, CommunicationOps
  <2> QED BY <1>0, <1>11, <2>1, ExitIs, SMT DEF CommunicationCourse, Never, Sockets!Return
<1>12. CASE p = Sockets!C /\ pc[Sockets!C] = 1
  <2>1. Sockets!Connect(Sockets!C) BY <1>12, StepIs, CommunicationOps
  <2> QED
    BY <1>0, <1>12, <2>1, OnIs, ExitIs, SMT DEF CommunicationCourse, Never, Sockets!Connect,
       Sockets!Expect
<1>13. CASE p = Sockets!C /\ pc[Sockets!C] = 2
  <2>1. Sockets!Send(Sockets!C) BY <1>13, StepIs, CommunicationOps
  <2>2. Sockets!Op(Sockets!C) = "write" BY <1>13, CommunicationOps
  <2> QED
    BY <1>0, <1>13, <2>1, <2>2, OnIs, ExitIs, SMT DEF CommunicationCourse, Never, Sockets!Send,
       Sockets!Expect, Sockets!Call, Sockets!Ready, Sockets!P, Sockets!C
<1>14. CASE p = Sockets!C /\ pc[Sockets!C] = 3
  <2>1. Sockets!Return(Sockets!C) BY <1>14, StepIs, CommunicationOps
  <2> QED BY <1>0, <1>14, <2>1, ExitIs, SMT DEF CommunicationCourse, Never, Sockets!Return
<1>15. pc[Sockets!P] \in 1 .. 11 /\ (p = Sockets!C => pc[Sockets!C] \in 1 .. 3)
  BY <1>0, SMT DEF CommunicationCourse
<1> QED
  BY <1>0, <1>1, <1>2, <1>3, <1>4, <1>5, <1>6, <1>7, <1>8, <1>9, <1>10, <1>11, <1>12, <1>13,
     <1>14, <1>15, SMT

(* The library                                                             *)
Under == at \in 1 .. Len(Sockets!Suites[suite])

(* The test that is running is one of its suite.                           *)
LEMMA WhichTest ==
  ASSUME TestsShape, Under
  PROVE  \/ suite = "streams" /\ Sockets!Current = "template"
         \/ suite = "exchange"
              /\ Sockets!Current \in {"send_fd", "send_fd_with_sockpair", "fd_exchange",
                                                       "fd_exchange_with_sockpair"}
         \/ suite = "unique" /\ Sockets!Current \in {"serv_listen", "client", "communication"}
BY SMT DEF TestsShape, Sockets!Current, Sockets!Suites, Under

(* Where a test begins it is on its course.                                *)
Fresh ==
  /\ pc[Sockets!P] = 1 /\ proc[Sockets!P] = "run" /\ Lone /\ Still /\ notes = {}
  /\ suite # "unique" => Kept

LEMMA FreshCourse == ASSUME TestsShape, Under, Fresh PROVE Course
<1> USE DEF Fresh, Still, Running, Ends, Nameless, Child, ChildGone, Early, Connects, Lone,
  Listening, Interrupted, Kept
<1>1. ASSUME Sockets!Current = "template" PROVE TemplateCourse
  <2>1. suite # "unique" BY <1>1, WhichTest, SMT
  <2> QED BY <1>1, <2>1, SMT DEF TemplateCourse
<1>2. ASSUME Sockets!Current = "send_fd" PROVE SendFdCourse
  <2>1. suite # "unique" BY <1>2, WhichTest, SMT
  <2> QED BY <1>2, <2>1, SMT DEF SendFdCourse
<1>3. ASSUME Sockets!Current = "send_fd_with_sockpair" PROVE SendFdWithSockpairCourse
  <2>1. suite # "unique" BY <1>3, WhichTest, SMT
  <2> QED BY <1>3, <2>1, SMT DEF SendFdWithSockpairCourse
<1>4. ASSUME Sockets!Current = "fd_exchange" PROVE FdExchangeCourse
  <2>1. suite # "unique" BY <1>4, WhichTest, SMT
  <2> QED BY <1>4, <2>1, SMT DEF FdExchangeCourse
<1>5. ASSUME Sockets!Current = "fd_exchange_with_sockpair" PROVE FdExchangeWithSockpairCourse
  <2>1. suite # "unique" BY <1>5, WhichTest, SMT
  <2> QED BY <1>5, <2>1, SMT DEF FdExchangeWithSockpairCourse
<1>6. ASSUME Sockets!Current = "serv_listen" PROVE ServListenCourse
  <2>1. suite = "unique" BY <1>6, WhichTest, SMT
  <2> QED BY <1>6, <2>1, SMT DEF ServListenCourse
<1>7. ASSUME Sockets!Current = "client" PROVE ClientCourse
  <2>1. suite = "unique" BY <1>7, WhichTest, SMT
  <2> QED BY <1>7, <2>1, SMT DEF ClientCourse
<1>8. ASSUME Sockets!Current = "communication" PROVE CommunicationCourse
  <2>1. suite = "unique" BY <1>8, WhichTest, SMT
  <2> QED BY <1>8, <2>1, SMT DEF CommunicationCourse
<1> QED BY <1>1, <1>2, <1>3, <1>4, <1>5, <1>6, <1>7, <1>8 DEF Course

(* A course covers the rest of the state.                                  *)
LEMMA CourseTypes ==
  ASSUME TestsShape, Under, Course
  PROVE  /\ pc[Sockets!P] \in 1 .. 11 /\ pc[Sockets!C] \in 1 .. 11
         /\ conn \in {"none", "waiting", "accepted"} /\ told \in BOOLEAN /\ shut \in BOOLEAN
         /\ wire \in {{}, {"msg"}, {"fd"}}
         /\ notes \subseteq {"noname", "nofile", "early", "noreader"}
         /\ "noname" \in notes /\ first => interrupts > 0
<1> USE DEF Still, Running, Ends, Nameless, Child, ChildGone, Early, Connects, Lone, Listening,
  Interrupted, Kept
<1>1. CASE TemplateCourse
  <2>1. told = TRUE \/ told = FALSE BY <1>1, SMT DEF TemplateCourse
  <2>2. shut = TRUE \/ shut = FALSE BY <1>1, SMT DEF TemplateCourse
  <2>3. told \in BOOLEAN /\ shut \in BOOLEAN BY <2>1, <2>2, Zenon
  <2>4. pc[Sockets!P] \in 1 .. 11 /\ pc[Sockets!C] \in 1 .. 11 BY <1>1, SMT DEF TemplateCourse
  <2>5. /\ conn \in {"none", "waiting", "accepted"} /\ wire \in {{}, {"msg"}, {"fd"}}
        /\ notes \subseteq {"noname", "nofile", "early", "noreader"}
    BY <1>1, SMT DEF TemplateCourse
  <2>6. "noname" \in notes /\ first => interrupts > 0 BY <1>1, SMT DEF TemplateCourse
  <2> QED BY <2>3, <2>4, <2>5, <2>6
<1>2. CASE SendFdCourse
  <2>1. told = TRUE \/ told = FALSE BY <1>2, SMT DEF SendFdCourse
  <2>2. shut = TRUE \/ shut = FALSE BY <1>2, SMT DEF SendFdCourse
  <2>3. told \in BOOLEAN /\ shut \in BOOLEAN BY <2>1, <2>2, Zenon
  <2>4. pc[Sockets!P] \in 1 .. 11 /\ pc[Sockets!C] \in 1 .. 11 BY <1>2, SMT DEF SendFdCourse
  <2>5. /\ conn \in {"none", "waiting", "accepted"} /\ wire \in {{}, {"msg"}, {"fd"}}
        /\ notes \subseteq {"noname", "nofile", "early", "noreader"}
    BY <1>2, SMT DEF SendFdCourse
  <2>6. "noname" \in notes /\ first => interrupts > 0 BY <1>2, SMT DEF SendFdCourse
  <2> QED BY <2>3, <2>4, <2>5, <2>6
<1>3. CASE SendFdWithSockpairCourse
  <2>1. told = TRUE \/ told = FALSE BY <1>3, SMT DEF SendFdWithSockpairCourse
  <2>2. shut = TRUE \/ shut = FALSE BY <1>3, SMT DEF SendFdWithSockpairCourse
  <2>3. told \in BOOLEAN /\ shut \in BOOLEAN BY <2>1, <2>2, Zenon
  <2>4. pc[Sockets!P] \in 1 .. 11 /\ pc[Sockets!C] \in 1 .. 11
    BY <1>3, SMT DEF SendFdWithSockpairCourse
  <2>5. /\ conn \in {"none", "waiting", "accepted"} /\ wire \in {{}, {"msg"}, {"fd"}}
        /\ notes \subseteq {"noname", "nofile", "early", "noreader"}
    BY <1>3, SMT DEF SendFdWithSockpairCourse
  <2>6. "noname" \in notes /\ first => interrupts > 0
    BY <1>3, SMT DEF SendFdWithSockpairCourse
  <2> QED BY <2>3, <2>4, <2>5, <2>6
<1>4. CASE FdExchangeCourse
  <2>1. told = TRUE \/ told = FALSE BY <1>4, SMT DEF FdExchangeCourse
  <2>2. shut = TRUE \/ shut = FALSE BY <1>4, SMT DEF FdExchangeCourse
  <2>3. told \in BOOLEAN /\ shut \in BOOLEAN BY <2>1, <2>2, Zenon
  <2>4. pc[Sockets!P] \in 1 .. 11 /\ pc[Sockets!C] \in 1 .. 11 BY <1>4, SMT DEF FdExchangeCourse
  <2>5. /\ conn \in {"none", "waiting", "accepted"} /\ wire \in {{}, {"msg"}, {"fd"}}
        /\ notes \subseteq {"noname", "nofile", "early", "noreader"}
    BY <1>4, SMT DEF FdExchangeCourse
  <2>6. "noname" \in notes /\ first => interrupts > 0 BY <1>4, SMT DEF FdExchangeCourse
  <2> QED BY <2>3, <2>4, <2>5, <2>6
<1>5. CASE FdExchangeWithSockpairCourse
  <2>1. told = TRUE \/ told = FALSE BY <1>5, SMT DEF FdExchangeWithSockpairCourse
  <2>2. shut = TRUE \/ shut = FALSE BY <1>5, SMT DEF FdExchangeWithSockpairCourse
  <2>3. told \in BOOLEAN /\ shut \in BOOLEAN BY <2>1, <2>2, Zenon
  <2>4. pc[Sockets!P] \in 1 .. 11 /\ pc[Sockets!C] \in 1 .. 11
    BY <1>5, SMT DEF FdExchangeWithSockpairCourse
  <2>5. /\ conn \in {"none", "waiting", "accepted"} /\ wire \in {{}, {"msg"}, {"fd"}}
        /\ notes \subseteq {"noname", "nofile", "early", "noreader"}
    BY <1>5, SMT DEF FdExchangeWithSockpairCourse
  <2>6. "noname" \in notes /\ first => interrupts > 0
    BY <1>5, SMT DEF FdExchangeWithSockpairCourse
  <2> QED BY <2>3, <2>4, <2>5, <2>6
<1>6. CASE ServListenCourse
  <2>1. told = TRUE \/ told = FALSE BY <1>6, SMT DEF ServListenCourse
  <2>2. shut = TRUE \/ shut = FALSE BY <1>6, SMT DEF ServListenCourse
  <2>3. told \in BOOLEAN /\ shut \in BOOLEAN BY <2>1, <2>2, Zenon
  <2>4. pc[Sockets!P] \in 1 .. 11 /\ pc[Sockets!C] \in 1 .. 11 BY <1>6, SMT DEF ServListenCourse
  <2>5. /\ conn \in {"none", "waiting", "accepted"} /\ wire \in {{}, {"msg"}, {"fd"}}
        /\ notes \subseteq {"noname", "nofile", "early", "noreader"}
    BY <1>6, SMT DEF ServListenCourse
  <2>6. "noname" \in notes /\ first => interrupts > 0 BY <1>6, SMT DEF ServListenCourse
  <2> QED BY <2>3, <2>4, <2>5, <2>6
<1>7. CASE ClientCourse
  <2>1. told = TRUE \/ told = FALSE BY <1>7, SMT DEF ClientCourse
  <2>2. shut = TRUE \/ shut = FALSE BY <1>7, SMT DEF ClientCourse
  <2>3. told \in BOOLEAN /\ shut \in BOOLEAN BY <2>1, <2>2, Zenon
  <2>4. pc[Sockets!P] \in 1 .. 11 /\ pc[Sockets!C] \in 1 .. 11 BY <1>7, SMT DEF ClientCourse
  <2>5. /\ conn \in {"none", "waiting", "accepted"} /\ wire \in {{}, {"msg"}, {"fd"}}
        /\ notes \subseteq {"noname", "nofile", "early", "noreader"}
    BY <1>7, SMT DEF ClientCourse
  <2>6. "noname" \in notes /\ first => interrupts > 0 BY <1>7, SMT DEF ClientCourse
  <2> QED BY <2>3, <2>4, <2>5, <2>6
<1>8. CASE CommunicationCourse
  <2>1. told = TRUE \/ told = FALSE BY <1>8, SMT DEF CommunicationCourse
  <2>2. shut = TRUE \/ shut = FALSE BY <1>8, SMT DEF CommunicationCourse
  <2>3. told \in BOOLEAN /\ shut \in BOOLEAN BY <2>1, <2>2, Zenon
  <2>4. pc[Sockets!P] \in 1 .. 11 /\ pc[Sockets!C] \in 1 .. 11
    BY <1>8, SMT DEF CommunicationCourse
  <2>5. /\ conn \in {"none", "waiting", "accepted"} /\ wire \in {{}, {"msg"}, {"fd"}}
        /\ notes \subseteq {"noname", "nofile", "early", "noreader"}
    BY <1>8, SMT DEF CommunicationCourse
  <2>6. "noname" \in notes /\ first => interrupts > 0 BY <1>8, SMT DEF CommunicationCourse
  <2> QED BY <2>3, <2>4, <2>5, <2>6
<1> QED BY <1>1, <1>2, <1>3, <1>4, <1>5, <1>6, <1>7, <1>8, WhichTest DEF Course

(* What a test that is over, or cannot go on, has come to.                 *)
LEMMA Verdict ==
  ASSUME TestsShape, Never, Under, Course, Sockets!Ended(Sockets!P)
  PROVE  /\ proc[Sockets!P] \in {"done", "failed", "sigpipe"}
              /\ Reasoned(Sockets!Current, proc[Sockets!P], notes)
         /\ suite # "unique" => Kept
<1> USE DEF Sockets!Ended, Still, Running, Ends, Nameless, Child, ChildGone, Early, Connects,
  Lone, Listening, Interrupted, Kept
<1>1. CASE Sockets!Current = "template"
  <2>1. TemplateCourse BY <1>1, Zenon DEF Course
  <2>2. suite # "unique" BY <1>1, WhichTest, SMT
  <2> QED BY <1>1, <2>1, <2>2, SMT DEF TemplateCourse, Reasoned
<1>2. CASE Sockets!Current = "send_fd"
  <2>1. SendFdCourse BY <1>2, Zenon DEF Course
  <2>2. suite # "unique" BY <1>2, WhichTest, SMT
  <2> QED BY <1>2, <2>1, <2>2, SMT DEF SendFdCourse, Reasoned
<1>3. CASE Sockets!Current = "send_fd_with_sockpair"
  <2>1. SendFdWithSockpairCourse BY <1>3, Zenon DEF Course
  <2>2. suite # "unique" BY <1>3, WhichTest, SMT
  <2> QED BY <1>3, <2>1, <2>2, SMT DEF SendFdWithSockpairCourse, Reasoned
<1>4. CASE Sockets!Current = "fd_exchange"
  <2>1. FdExchangeCourse BY <1>4, Zenon DEF Course
  <2>2. suite # "unique" BY <1>4, WhichTest, SMT
  <2> QED BY <1>4, <2>1, <2>2, SMT DEF FdExchangeCourse, Reasoned
<1>5. CASE Sockets!Current = "fd_exchange_with_sockpair"
  <2>1. FdExchangeWithSockpairCourse BY <1>5, Zenon DEF Course
  <2>2. suite # "unique" BY <1>5, WhichTest, SMT
  <2> QED BY <1>5, <2>1, <2>2, SMT DEF FdExchangeWithSockpairCourse, Reasoned
<1>6. CASE Sockets!Current = "serv_listen"
  <2>1. ServListenCourse BY <1>6, Zenon DEF Course
  <2>2. suite = "unique" BY <1>6, WhichTest, SMT
  <2> QED BY <1>6, <2>1, <2>2, SMT DEF ServListenCourse, Reasoned
<1>7. CASE Sockets!Current = "client"
  <2>1. ClientCourse BY <1>7, Zenon DEF Course
  <2>2. suite = "unique" BY <1>7, WhichTest, SMT
  <2> QED BY <1>7, <2>1, <2>2, SMT DEF ClientCourse, Reasoned
<1>8. CASE Sockets!Current = "communication"
  <2>1. CommunicationCourse BY <1>8, Zenon DEF Course
  <2>2. suite = "unique" BY <1>8, WhichTest, SMT
  <2> QED BY <1>8, <2>1, <2>2, SMT DEF CommunicationCourse, Reasoned
<1> QED BY <1>1, <1>2, <1>3, <1>4, <1>5, <1>6, <1>7, <1>8, WhichTest

(* A test in which nobody can go on waits for a child that was too early.  *)
LEMMA Stuck ==
  ASSUME TestsShape, Never, Under, Course, Sockets!Going(Sockets!P),
         \A p \in Sockets!Procs : ~Sockets!Ready(p)
  PROVE  /\ Sockets!Current \in {"send_fd", "fd_exchange"} /\ "early" \in notes
         /\ suite # "unique" => Kept
<1>0. ~Sockets!Ready(Sockets!P) /\ ~Sockets!Ready(Sockets!C) BY DEF Sockets!Procs
<1> USE DEF Sockets!Going, Sockets!Ended, Sockets!Other, Still, Running, Ends, Nameless, Child,
  ChildGone, Early, Connects, Lone, Listening, Interrupted, Kept
<1>1. CASE Sockets!Current = "template"
  <2>1. TemplateCourse BY <1>1, Zenon DEF Course
  <2> QED
    BY <1>0, <1>1, <2>1, TemplateOps, SMT DEF TemplateCourse, Sockets!Ready, Sockets!P, Sockets!C
<1>2. CASE Sockets!Current = "send_fd"
  <2>1. SendFdCourse BY <1>2, Zenon DEF Course
  <2> QED
    BY <1>0, <1>2, <2>1, SendFdOps, SMT DEF SendFdCourse, Sockets!Ready, Sockets!P, Sockets!C
<1>3. CASE Sockets!Current = "send_fd_with_sockpair"
  <2>1. SendFdWithSockpairCourse BY <1>3, Zenon DEF Course
  <2> QED
    BY <1>0, <1>3, <2>1, SendFdWithSockpairOps, SMT DEF SendFdWithSockpairCourse, Sockets!Ready,
       Sockets!P, Sockets!C
<1>4. CASE Sockets!Current = "fd_exchange"
  <2>1. FdExchangeCourse BY <1>4, Zenon DEF Course
  <2> QED
    BY <1>0, <1>4, <2>1, FdExchangeOps, SMT DEF FdExchangeCourse, Sockets!Ready, Sockets!P,
       Sockets!C
<1>5. CASE Sockets!Current = "fd_exchange_with_sockpair"
  <2>1. FdExchangeWithSockpairCourse BY <1>5, Zenon DEF Course
  <2> QED
    BY <1>0, <1>5, <2>1, FdExchangeWithSockpairOps, SMT DEF FdExchangeWithSockpairCourse,
       Sockets!Ready, Sockets!P, Sockets!C
<1>6. CASE Sockets!Current = "serv_listen"
  <2>1. ServListenCourse BY <1>6, Zenon DEF Course
  <2> QED
    BY <1>0, <1>6, <2>1, ServListenOps, SMT DEF ServListenCourse, Sockets!Ready, Sockets!P,
       Sockets!C
<1>7. CASE Sockets!Current = "client"
  <2>1. ClientCourse BY <1>7, Zenon DEF Course
  <2> QED
    BY <1>0, <1>7, <2>1, ClientOps, SMT DEF ClientCourse, Sockets!Ready, Sockets!P, Sockets!C
<1>8. CASE Sockets!Current = "communication"
  <2>1. CommunicationCourse BY <1>8, Zenon DEF Course
  <2> QED
    BY <1>0, <1>8, <2>1, CommunicationOps, SMT DEF CommunicationCourse, Sockets!Ready, Sockets!P,
       Sockets!C
<1> QED BY <1>1, <1>2, <1>3, <1>4, <1>5, <1>6, <1>7, <1>8, WhichTest

(* A step of a process                                                     *)
LEMMA StepEffect ==
  ASSUME TestsShape, NEW p \in Sockets!Procs, Sockets!Step(p)
  PROVE  /\ UNCHANGED <<Sockets!outside, at, results>>
         /\ sockname' \in {sockname, "none", "file", "bound", "live"}
         /\ Sockets!On(p) \/ (\E how \in {"done", "failed", "sigpipe"} : Sockets!Exit(p, how))
              \/ Sockets!Fork(p)
<1> USE DEF Sockets!Expect
<1>1. CASE Sockets!Remove(p) BY <1>1, Zenon DEF Sockets!Remove
<1>2. CASE Sockets!Unlink(p) BY <1>2, Zenon DEF Sockets!Unlink
<1>3. CASE Sockets!Create(p) BY <1>3, Zenon DEF Sockets!Create
<1>4. CASE Sockets!Bind(p) BY <1>4, Zenon DEF Sockets!Bind
<1>5. CASE Sockets!Listen(p) BY <1>5, Zenon DEF Sockets!Listen
<1>6. CASE Sockets!OpenFile(p) BY <1>6, Zenon DEF Sockets!OpenFile
<1>7. CASE Sockets!Fork(p) BY <1>7, Zenon DEF Sockets!Fork
<1>8. CASE Sockets!TellParent(p) BY <1>8, Zenon DEF Sockets!TellParent
<1>9. CASE Sockets!WaitChild(p) BY <1>9, Zenon DEF Sockets!WaitChild
<1>10. CASE Sockets!Connect(p) BY <1>10, Zenon DEF Sockets!Connect
<1>11. CASE Sockets!Accept(p) BY <1>11, Zenon DEF Sockets!Accept
<1>12. CASE Sockets!Socketpair(p) BY <1>12, Zenon DEF Sockets!Socketpair
<1>13. CASE Sockets!Close(p) BY <1>13, Zenon DEF Sockets!Close
<1>14. CASE Sockets!Send(p) BY <1>14, Zenon DEF Sockets!Send
<1>15. CASE Sockets!Receive(p) BY <1>15, Zenon DEF Sockets!Receive
<1>16. CASE Sockets!Waitpid(p) BY <1>16, Zenon DEF Sockets!Waitpid
<1>17. CASE Sockets!CheckWaitpid(p) BY <1>17, Zenon DEF Sockets!CheckWaitpid
<1>18. CASE Sockets!Return(p) BY <1>18, Zenon DEF Sockets!Return
<1> QED
  BY <1>1, <1>2, <1>3, <1>4, <1>5, <1>6, <1>7, <1>8, <1>9, <1>10, <1>11, <1>12, <1>13,
     <1>14, <1>15, <1>16, <1>17, <1>18, Zenon DEF Sockets!Step

(* It changes neither the types nor what is over.                          *)
LEMMA StepShape ==
  ASSUME TestsShape, Under, Course, NEW p \in Sockets!Procs, Sockets!Step(p)
  PROVE  TestsShape'
<1>1. /\ UNCHANGED <<Sockets!outside, at, results>>
           /\ sockname' \in {sockname, "none", "file", "bound", "live"}
      /\ Sockets!On(p) \/ (\E how \in {"done", "failed", "sigpipe"} : Sockets!Exit(p, how))
           \/ Sockets!Fork(p)
  BY StepEffect
<1>2. pc[Sockets!P] \in 1 .. 11 /\ pc[Sockets!C] \in 1 .. 11 /\ (p = Sockets!P \/ p = Sockets!C)
  BY CourseTypes, Zenon DEF Sockets!Procs
<1>3. /\ pc' \in [Sockets!Procs -> 1 .. 12]
      /\ proc' \in [Sockets!Procs -> {"off", "run", "done", "failed", "sigpipe"}]
  <2>0. /\ pc \in [Sockets!Procs -> 1 .. 12]
        /\ proc \in [Sockets!Procs -> {"off", "run", "done", "failed", "sigpipe"}]
    BY DEF TestsShape
  <2>1. CASE Sockets!On(p)
    BY <1>2, <2>0, <2>1, SMT DEF Sockets!On
  <2>2. CASE \E how \in {"done", "failed", "sigpipe"} : Sockets!Exit(p, how)
    BY <1>2, <2>0, <2>2, SMT DEF Sockets!Exit
  <2>3. CASE Sockets!Fork(p)
    <3>1. pc' = [pc EXCEPT ![p] = @ + 1] /\ proc' = [proc EXCEPT ![Sockets!C] = "run"]
      BY <2>3, Zenon DEF Sockets!Fork
    <3>2. pc[p] \in 1 .. 11
      BY <1>2, SMT
    <3>3. pc' \in [Sockets!Procs -> 1 .. 12]
      BY <2>0, <3>1, <3>2, SMT
    <3>4. proc' \in [Sockets!Procs -> {"off", "run", "done", "failed", "sigpipe"}]
      BY <2>0, <3>1, Zenon
    <3> QED BY <3>3, <3>4
  <2> QED BY <1>1, <2>1, <2>2, <2>3
<1>4. /\ suite' = suite /\ hasfile' = hasfile /\ first' = first /\ run' = run
      /\ interrupts' = interrupts /\ at' = at /\ results' = results
  BY <1>1 DEF Sockets!outside
<1>5. sockname' \in {"none", "file", "dead", "bound", "live"}
  BY <1>1 DEF TestsShape
<1> QED BY <1>3, <1>4, <1>5, Zenon DEF TestsShape

(* and keeps the test on its course.                                       *)
LEMMA StepKeeps ==
  ASSUME TestsInv, NEW p \in Sockets!Procs, Sockets!Step(p)
  PROVE  TestsInv'
<1>0. /\ suite' = suite /\ hasfile' = hasfile /\ first' = first /\ run' = run
      /\ interrupts' = interrupts /\ at' = at /\ results' = results
  BY StepEffect DEF Sockets!outside, TestsInv
<1>1. Under
  <2>1. Sockets!Going(p) /\ (p = Sockets!P \/ p = Sockets!C) BY StepIs, Zenon DEF Sockets!Procs
  <2>2. ~Between BY <2>1, SMT DEF Between, Lone, Sockets!Going
  <2>3. ~(at > Len(Sockets!Suites[suite])) BY <2>2, Zenon DEF TestsInv
  <2>4. Len(Sockets!Suites[suite]) \in Nat BY SMT DEF TestsInv, TestsShape, Sockets!Suites
  <2> QED BY <2>3, <2>4, SMT DEF TestsInv, TestsShape, Under
<1>2. TestsShape /\ Never /\ Course /\ ~(at > Len(Sockets!Suites[suite]))
  <2>1. Len(Sockets!Suites[suite]) \in Nat BY SMT DEF TestsInv, TestsShape, Sockets!Suites
  <2>2. ~(at > Len(Sockets!Suites[suite])) BY <1>1, <2>1, SMT DEF Under
  <2> QED BY <2>2, Zenon DEF TestsInv
<1>3. TestsShape'
  BY <1>1, <1>2, StepShape
<1>4. Sockets!Current' = Sockets!Current
  BY <1>0 DEF Sockets!Current
<1>5. Course' /\ Never'
  <2>1. CASE Sockets!Current = "template"
    <3>1. TemplateCourse /\ suite = "streams"
      <4>1. TemplateCourse BY <1>2, <2>1, Zenon DEF Course
      <4>2. suite = "streams" BY <1>1, <1>2, <2>1, WhichTest, SMT
      <4> QED BY <4>1, <4>2
    <3>2. TemplateCourse' /\ Never' BY <1>2, <2>1, <3>1, TemplateStep
    <3> QED BY <1>4, <2>1, <3>2, SMT DEF Course
  <2>2. CASE Sockets!Current = "send_fd"
    <3>1. SendFdCourse /\ suite = "exchange"
      <4>1. SendFdCourse BY <1>2, <2>2, Zenon DEF Course
      <4>2. suite = "exchange" BY <1>1, <1>2, <2>2, WhichTest, SMT
      <4> QED BY <4>1, <4>2
    <3>2. SendFdCourse' /\ Never' BY <1>2, <2>2, <3>1, SendFdStep
    <3> QED BY <1>4, <2>2, <3>2, SMT DEF Course
  <2>3. CASE Sockets!Current = "send_fd_with_sockpair"
    <3>1. SendFdWithSockpairCourse /\ suite = "exchange"
      <4>1. SendFdWithSockpairCourse BY <1>2, <2>3, Zenon DEF Course
      <4>2. suite = "exchange" BY <1>1, <1>2, <2>3, WhichTest, SMT
      <4> QED BY <4>1, <4>2
    <3>2. SendFdWithSockpairCourse' /\ Never' BY <1>2, <2>3, <3>1, SendFdWithSockpairStep
    <3> QED BY <1>4, <2>3, <3>2, SMT DEF Course
  <2>4. CASE Sockets!Current = "fd_exchange"
    <3>1. FdExchangeCourse /\ suite = "exchange"
      <4>1. FdExchangeCourse BY <1>2, <2>4, Zenon DEF Course
      <4>2. suite = "exchange" BY <1>1, <1>2, <2>4, WhichTest, SMT
      <4> QED BY <4>1, <4>2
    <3>2. FdExchangeCourse' /\ Never' BY <1>2, <2>4, <3>1, FdExchangeStep
    <3> QED BY <1>4, <2>4, <3>2, SMT DEF Course
  <2>5. CASE Sockets!Current = "fd_exchange_with_sockpair"
    <3>1. FdExchangeWithSockpairCourse /\ suite = "exchange"
      <4>1. FdExchangeWithSockpairCourse BY <1>2, <2>5, Zenon DEF Course
      <4>2. suite = "exchange" BY <1>1, <1>2, <2>5, WhichTest, SMT
      <4> QED BY <4>1, <4>2
    <3>2. FdExchangeWithSockpairCourse' /\ Never'
      BY <1>2, <2>5, <3>1, FdExchangeWithSockpairStep
    <3> QED BY <1>4, <2>5, <3>2, SMT DEF Course
  <2>6. CASE Sockets!Current = "serv_listen"
    <3>1. ServListenCourse /\ suite = "unique"
      <4>1. ServListenCourse BY <1>2, <2>6, Zenon DEF Course
      <4>2. suite = "unique" BY <1>1, <1>2, <2>6, WhichTest, SMT
      <4> QED BY <4>1, <4>2
    <3>2. ServListenCourse' /\ Never' BY <1>2, <2>6, <3>1, ServListenStep
    <3> QED BY <1>4, <2>6, <3>2, SMT DEF Course
  <2>7. CASE Sockets!Current = "client"
    <3>1. ClientCourse /\ suite = "unique"
      <4>1. ClientCourse BY <1>2, <2>7, Zenon DEF Course
      <4>2. suite = "unique" BY <1>1, <1>2, <2>7, WhichTest, SMT
      <4> QED BY <4>1, <4>2
    <3>2. ClientCourse' /\ Never' BY <1>2, <2>7, <3>1, ClientStep
    <3> QED BY <1>4, <2>7, <3>2, SMT DEF Course
  <2>8. CASE Sockets!Current = "communication"
    <3>1. CommunicationCourse /\ suite = "unique"
      <4>1. CommunicationCourse BY <1>2, <2>8, Zenon DEF Course
      <4>2. suite = "unique" BY <1>1, <1>2, <2>8, WhichTest, SMT
      <4> QED BY <4>1, <4>2
    <3>2. CommunicationCourse' /\ Never' BY <1>2, <2>8, <3>1, CommunicationStep
    <3> QED BY <1>4, <2>8, <3>2, SMT DEF Course
  <2> QED BY <1>1, <1>2, <2>1, <2>2, <2>3, <2>4, <2>5, <2>6, <2>7, <2>8, WhichTest
<1>6. \A i \in DOMAIN results : Reasoned(results[i].test, results[i].result, results[i].notes)'
  BY <1>0 DEF TestsInv, Reasoned
<1> QED BY <1>0, <1>2, <1>3, <1>5, <1>6, Zenon DEF TestsInv

LEMMA FreshIsCourse == (TestsShape /\ Fresh /\ Under) => Course
BY FreshCourse

(* The library starts a test, or puts an end to the last one.              *)
LEMMA BeginIs ==
  ASSUME TestsShape, NEW n \in 1 .. Len(Sockets!Suites[suite]) + 1, Sockets!Begin(n), Never,
         suite' = suite, first' = first, hasfile' = hasfile,
         run' \in 1 .. Executions, interrupts' \in 0 .. Interrupts,
         results' \in Seq(Outcomes), Len(results') = n - 1, suite # "unique" => Kept'
  PROVE  /\ TestsShape' /\ Never'
         /\ IF at' > Len(Sockets!Suites[suite])' THEN Between' ELSE Course'
<1>0. Len(Sockets!Suites[suite]) \in Nat
  BY SMT DEF TestsShape, Sockets!Suites
<1>1. /\ at' = n /\ pc' = [p \in Sockets!Procs |-> 1] /\ conn' = "none" /\ told' = FALSE
           /\ wire' = {}
      /\ shut' = FALSE /\ notes' = {}
      /\ sockname' = IF sockname \in {"bound", "live"} THEN "dead" ELSE sockname
      /\ proc' = [p \in Sockets!Procs |-> IF p = Sockets!P
           /\ n <= Len(Sockets!Suites[suite]) THEN "run" ELSE "off"]
  BY DEF Sockets!Begin
<1>2. /\ pc'[Sockets!P] = 1 /\ pc'[Sockets!C] = 1 /\ proc'[Sockets!C] = "off"
      /\ proc'[Sockets!P] = IF n <= Len(Sockets!Suites[suite]) THEN "run" ELSE "off"
  BY <1>1, SMT DEF Sockets!Procs, Sockets!P, Sockets!C
<1>3. TestsShape'
  <2>1. pc' \in [Sockets!Procs -> 1 .. 12] BY <1>1, SMT
  <2>2. proc' \in [Sockets!Procs -> {"off", "run", "done", "failed", "sigpipe"}] BY <1>1, SMT
  <2>3. sockname' \in {"none", "file", "dead", "bound", "live"} BY <1>1, SMT DEF TestsShape
  <2>4. /\ suite' \in {"streams", "exchange", "unique"} /\ hasfile' \in BOOLEAN
             /\ first' \in BOOLEAN
        /\ at' \in 1 .. Len(Sockets!Suites[suite']) + 1
        /\ run' \in 1 .. Executions /\ interrupts' \in 0 .. Interrupts
        /\ results' \in Seq(Outcomes) /\ Len(results') = at' - 1
    BY <1>1, Zenon DEF TestsShape
  <2> QED BY <1>1, <2>1, <2>2, <2>3, <2>4, Zenon DEF TestsShape
<1>4. Never'
  BY <1>1, SMT DEF Never
<1>5. CASE n > Len(Sockets!Suites[suite])
  <2>1. proc'[Sockets!P] = "off" BY <1>0, <1>2, <1>5, SMT
  <2>2. Between' BY <1>1, <1>2, <2>1, Zenon DEF Between, Lone, Still
  <2> QED BY <1>1, <1>3, <1>4, <1>5, <2>2
<1>6. CASE ~(n > Len(Sockets!Suites[suite]))
  <2>1. proc'[Sockets!P] = "run" BY <1>0, <1>2, <1>6, SMT
  <2>2. Fresh' BY <1>1, <1>2, <2>1, Zenon DEF Fresh, Lone, Still
  <2>3. Under' BY <1>0, <1>1, <1>6, SMT DEF Under
  <2>4. (TestsShape /\ Fresh /\ Under => Course)' BY FreshIsCourse, PTL
  <2>5. Course' BY <1>3, <2>2, <2>3, <2>4
  <2> QED BY <1>1, <1>3, <1>4, <1>6, <2>5
<1> QED BY <1>5, <1>6

(* What ends with a reason leaves what the next test begins with.          *)
LEMMA FinishKeeps ==
  ASSUME TestsInv, Under, NEW how \in {"done", "failed", "sigpipe", "timeout"},
         Reasoned(Sockets!Current, how, notes), suite # "unique" => Kept, Sockets!Finish(how)
  PROVE  TestsInv'
<1> DEFINE r == [test |-> Sockets!Current, result |-> how, notes |-> notes]
<1>0. TestsShape /\ Never /\ Course /\ Len(Sockets!Suites[suite]) \in Nat
  <2>1. Len(Sockets!Suites[suite]) \in Nat BY SMT DEF TestsInv, TestsShape, Sockets!Suites
  <2>2. ~(at > Len(Sockets!Suites[suite])) BY <2>1, SMT DEF Under
  <2> QED BY <2>1, <2>2, Zenon DEF TestsInv
<1>1. /\ results' = Append(results, r) /\ Sockets!Begin(at + 1) /\ suite' = suite
           /\ first' = first
      /\ run' = run /\ interrupts' = interrupts /\ hasfile' = hasfile
  BY DEF Sockets!Finish, Sockets!outside
<1>2. r \in Outcomes
  <2>1. Sockets!Current \in {"template", "send_fd", "send_fd_with_sockpair", "fd_exchange",
        "fd_exchange_with_sockpair", "serv_listen", "client", "communication"}
    BY <1>0, WhichTest
  <2>2. notes \in SUBSET {"noname", "nofile", "early", "noreader"}
    BY <1>0, CourseTypes
  <2> QED BY <2>1, <2>2, Zenon DEF Outcomes
<1>3. results \in Seq(Outcomes) /\ Len(results) = at - 1 /\ DOMAIN results = 1 .. Len(results)
      /\ Len(results) \in Nat
  BY <1>0, LenProperties DEF TestsShape
<1>4. r.test = Sockets!Current /\ r.result = how /\ r.notes = notes
  OBVIOUS
<1> HIDE DEF r
<1>5. /\ results' \in Seq(Outcomes) /\ Len(results') = Len(results) + 1
      /\ \A i \in 1 .. Len(results) : results'[i] = results[i]
      /\ results'[Len(results) + 1] = r
  BY <1>1, <1>2, <1>3, AppendProperties
<1>6. suite # "unique" => Kept'
  BY <1>1, SMT DEF Kept, Interrupted, Sockets!Begin
<1>7. at + 1 \in 1 .. Len(Sockets!Suites[suite]) + 1 /\ Len(results') = (at + 1) - 1
  BY <1>0, <1>3, <1>5, SMT DEF Under
<1>8. /\ run' \in 1 .. Executions /\ interrupts' \in 0 .. Interrupts
  BY <1>0, <1>1 DEF TestsShape
<1>9. /\ TestsShape' /\ Never'
      /\ IF at' > Len(Sockets!Suites[suite])' THEN Between' ELSE Course'
  BY <1>0, <1>1, <1>5, <1>6, <1>7, <1>8, BeginIs
<1>10. \A i \in DOMAIN results' :
         Reasoned(results[i].test, results[i].result, results[i].notes)'
  <2> SUFFICES ASSUME NEW i \in DOMAIN results'
               PROVE  Reasoned(results[i].test, results[i].result, results[i].notes)'
    OBVIOUS
  <2>1. i \in 1 .. Len(results) + 1
    BY <1>5, LenProperties
  <2>2. CASE i = Len(results) + 1
    <3>1. results'[i] = r BY <1>5, <2>2
    <3> QED BY <1>1, <1>4, <3>1, SMT DEF Reasoned
  <2>3. CASE i # Len(results) + 1
    <3>1. i \in DOMAIN results /\ results'[i] = results[i] BY <1>3, <1>5, <2>1, <2>3
    <3>2. Reasoned(results[i].test, results[i].result, results[i].notes)
      BY <3>1 DEF TestsInv
    <3> QED BY <1>1, <3>1, <3>2, Zenon DEF Reasoned
  <2> QED BY <2>2, <2>3
<1> QED BY <1>9, <1>10, Zenon DEF TestsInv

(* The library ends a test only so.                                        *)
LEMMA LibraryKeeps == ASSUME TestsInv, Sockets!Library PROVE TestsInv'
<1>0. TestsShape /\ Never /\ Len(Sockets!Suites[suite]) \in Nat
  BY SMT DEF TestsInv, TestsShape, Sockets!Suites
<1>1. Sockets!Ended(Sockets!P) \/ Sockets!Going(Sockets!P)
  BY DEF Sockets!Library, Sockets!Over, Sockets!Timeout
<1>2. Under /\ Course
  <2>1. ~Between BY <1>1, SMT DEF Between, Sockets!Ended, Sockets!Going
  <2>2. ~(at > Len(Sockets!Suites[suite])) BY <2>1, Zenon DEF TestsInv
  <2>3. Under BY <1>0, <2>2, SMT DEF TestsShape, Under
  <2> QED BY <2>2, <2>3, Zenon DEF TestsInv
<1>3. CASE Sockets!Over
  BY <1>0, <1>2, <1>3, Verdict, FinishKeeps DEF Sockets!Over
<1>4. CASE Sockets!Timeout
  <2>1. Sockets!Going(Sockets!P) /\ (\A p \in Sockets!Procs : ~Sockets!Ready(p))
          /\ Sockets!Finish("timeout")
    BY <1>4 DEF Sockets!Timeout
  <2>2. Sockets!Current \in {"send_fd", "fd_exchange"} /\ "early" \in notes
          /\ (suite # "unique" => Kept)
    BY <1>0, <1>2, <2>1, Stuck
  <2>3. Reasoned(Sockets!Current, "timeout", notes) BY <2>2, SMT DEF Reasoned
  <2> QED BY <1>2, <2>1, <2>2, <2>3, FinishKeeps
<1> QED BY <1>3, <1>4 DEF Sockets!Library

(* An interrupt may lose the name; everything else begins anew.            *)
LEMMA AgainKeeps == ASSUME TestsInv, Sockets!Again PROVE TestsInv'
<1>0. TestsShape /\ Never /\ Len(Sockets!Suites[suite]) \in Nat
  BY SMT DEF TestsInv, TestsShape, Sockets!Suites
<1>1. /\ run < Executions /\ run' = run + 1 /\ Sockets!Begin(1) /\ results' = <<>>
           /\ suite' = suite
      /\ first' = first /\ hasfile' = hasfile
  BY DEF Sockets!Again
<1>2. run' \in 1 .. Executions
  BY <1>0, <1>1, TestsParameters, SMT DEF TestsShape, Sockets!TestsAssumption
<1>3. interrupts' \in 0 .. Interrupts /\ (suite # "unique" => Kept')
  <2>1. CASE at > Len(Sockets!Suites[suite]) /\ interrupts' = interrupts
    <3>1. suite # "unique" => Kept BY <2>1, Zenon DEF TestsInv, Between
    <3> QED BY <1>0, <1>1, <2>1, <3>1, SMT DEF TestsShape, Kept, Interrupted, Sockets!Begin
  <2>2. CASE interrupts < Interrupts /\ interrupts' = interrupts + 1
    BY <1>0, <2>2, TestsParameters, SMT DEF TestsShape, Kept, Interrupted, Sockets!TestsAssumption
  <2> QED BY <2>1, <2>2 DEF Sockets!Again
<1>4. results' \in Seq(Outcomes) /\ Len(results') = 1 - 1 /\ DOMAIN results' = {}
  BY <1>1, EmptySeq, SMT
<1>5. 1 \in 1 .. Len(Sockets!Suites[suite]) + 1
  BY <1>0, SMT
<1>6. /\ TestsShape' /\ Never'
      /\ IF at' > Len(Sockets!Suites[suite])' THEN Between' ELSE Course'
  BY <1>0, <1>1, <1>2, <1>3, <1>4, <1>5, BeginIs
<1> QED BY <1>4, <1>6, Zenon DEF TestsInv

(* Put together                                                            *)
LEMMA TestsInit == Sockets!Init => TestsInv
<1> SUFFICES ASSUME Sockets!Init PROVE TestsInv OBVIOUS
<1>1. /\ suite \in {"streams", "exchange", "unique"} /\ hasfile \in BOOLEAN /\ first \in BOOLEAN
      /\ sockname = IF first THEN "dead" ELSE "none"
      /\ run = 1 /\ interrupts = 0 /\ at = 1 /\ results = <<>>
      /\ pc = [p \in Sockets!Procs |-> 1]
           /\ proc = [p \in Sockets!Procs |-> IF p = Sockets!P THEN "run" ELSE "off"]
      /\ Still /\ notes = {}
  BY SMT DEF Sockets!Init, Sockets!Suites, Still
<1>2. Len(Sockets!Suites[suite]) \in Nat /\ 1 <= Len(Sockets!Suites[suite])
  BY <1>1, SMT DEF Sockets!Suites
<1>3. results \in Seq(Outcomes) /\ Len(results) = at - 1 /\ DOMAIN results = {}
  BY <1>1, EmptySeq, SMT
<1>4. TestsShape
  <2>1. pc \in [Sockets!Procs -> 1 .. 12]
          /\ proc \in [Sockets!Procs -> {"off", "run", "done", "failed", "sigpipe"}]
    BY <1>1, SMT
  <2>2. run \in 1 .. Executions /\ interrupts \in 0 .. Interrupts
          /\ at \in 1 .. Len(Sockets!Suites[suite]) + 1
    BY <1>1, <1>2, TestsParameters, SMT DEF Sockets!TestsAssumption
  <2>3. sockname \in {"none", "file", "dead", "bound", "live"}
    BY <1>1, SMT
  <2> QED BY <1>1, <1>3, <2>1, <2>2, <2>3, Zenon DEF TestsShape
<1>5. pc[Sockets!P] = 1 /\ pc[Sockets!C] = 1 /\ proc[Sockets!P] = "run" /\ proc[Sockets!C] = "off"
  BY <1>1, SMT DEF Sockets!Procs, Sockets!P, Sockets!C
<1>6. Fresh /\ Never
  BY <1>1, <1>5, SMT DEF Fresh, Lone, Kept, Interrupted, Never
<1>7. Under /\ ~(at > Len(Sockets!Suites[suite]))
  BY <1>1, <1>2, SMT DEF Under
<1>8. Course
  BY <1>4, <1>6, <1>7, FreshCourse
<1> QED BY <1>3, <1>4, <1>6, <1>7, <1>8, Zenon DEF TestsInv

LEMMA TestsStep == TestsInv /\ (Sockets!Next \/ UNCHANGED Sockets!stvars) => TestsInv'
<1> SUFFICES ASSUME TestsInv, Sockets!Next \/ UNCHANGED Sockets!stvars PROVE TestsInv' OBVIOUS
<1>1. CASE UNCHANGED Sockets!stvars
  <2>1. /\ suite' = suite /\ first' = first /\ run' = run /\ interrupts' = interrupts
        /\ hasfile' = hasfile /\ at' = at /\ pc' = pc /\ proc' = proc /\ sockname' = sockname
        /\ conn' = conn /\ told' = told /\ wire' = wire /\ shut' = shut /\ notes' = notes
        /\ results' = results
    BY <1>1, Zenon DEF Sockets!stvars, Sockets!outside, Sockets!inside
  <2>2. TestsShape' /\ Never' /\ (Between <=> Between')
    BY <2>1, Zenon DEF TestsInv, TestsShape, Never, Between, Lone, Still, Kept, Interrupted
  <2>3. Course => Course'
    <3> USE DEF Still, Running, Ends, Nameless, Child, ChildGone, Early, Connects, Lone,
      Listening, Interrupted, Kept
    <3>1. TemplateCourse <=> TemplateCourse' BY <2>1, SMT DEF TemplateCourse
    <3>2. SendFdCourse <=> SendFdCourse' BY <2>1, SMT DEF SendFdCourse
    <3>3. SendFdWithSockpairCourse <=> SendFdWithSockpairCourse'
      BY <2>1, SMT DEF SendFdWithSockpairCourse
    <3>4. FdExchangeCourse <=> FdExchangeCourse' BY <2>1, SMT DEF FdExchangeCourse
    <3>5. FdExchangeWithSockpairCourse <=> FdExchangeWithSockpairCourse'
      BY <2>1, SMT DEF FdExchangeWithSockpairCourse
    <3>6. ServListenCourse <=> ServListenCourse' BY <2>1, SMT DEF ServListenCourse
    <3>7. ClientCourse <=> ClientCourse' BY <2>1, SMT DEF ClientCourse
    <3>8. CommunicationCourse <=> CommunicationCourse' BY <2>1, SMT DEF CommunicationCourse
    <3>9. Sockets!Current' = Sockets!Current BY <2>1 DEF Sockets!Current
    <3> HIDE DEF Still, Running, Ends, Nameless, Child, ChildGone, Early, Connects, Lone,
      Listening, Interrupted, Kept
    <3> QED BY <3>1, <3>2, <3>3, <3>4, <3>5, <3>6, <3>7, <3>8, <3>9, Zenon DEF Course
  <2>4. \A i \in DOMAIN results : Reasoned(results[i].test, results[i].result, results[i].notes)'
    BY <2>1, Zenon DEF TestsInv, Reasoned
  <2> QED BY <2>1, <2>2, <2>3, <2>4, Zenon DEF TestsInv
<1>2. CASE Sockets!Next
  BY <1>2, StepKeeps, LibraryKeeps, AgainKeeps DEF Sockets!Next
<1> QED BY <1>1, <1>2

(* The types, the reasons and the name follow.                             *)
LEMMA TestsSafe == TestsInv => Sockets!TypeOK /\ Sockets!Explained /\ Sockets!NameLasts
<1> SUFFICES ASSUME TestsInv PROVE Sockets!TypeOK /\ Sockets!Explained /\ Sockets!NameLasts
  OBVIOUS
<1>0. TestsShape /\ Len(Sockets!Suites[suite]) \in Nat
  BY SMT DEF TestsInv, TestsShape, Sockets!Suites
<1>1. /\ conn \in {"none", "waiting", "accepted"} /\ told \in BOOLEAN /\ shut \in BOOLEAN
      /\ wire \in {{}, {"msg"}, {"fd"}}
      /\ notes \subseteq {"noname", "nofile", "early", "noreader"}
      /\ "noname" \in notes /\ first => interrupts > 0
  <2>1. CASE at > Len(Sockets!Suites[suite])
    <3>1. Between BY <2>1, Zenon DEF TestsInv
    <3>2. told \in BOOLEAN /\ shut \in BOOLEAN BY <3>1, Zenon DEF Between, Still
    <3>3. conn = "none" /\ wire = {} /\ notes = {} BY <3>1, Zenon DEF Between, Still
    <3> QED BY <3>2, <3>3
  <2>2. CASE ~(at > Len(Sockets!Suites[suite]))
    <3>1. Course BY <2>2, Zenon DEF TestsInv
    <3>2. Under BY <1>0, <2>2, SMT DEF TestsShape, Under
    <3> QED BY <1>0, <3>1, <3>2, CourseTypes
  <2> QED BY <2>1, <2>2
<1>2. suite \in DOMAIN Sockets!Suites
  BY <1>0, SMT DEF TestsShape, Sockets!Suites
<1>3. \A p \in Sockets!Procs : pc[p] \in 1 .. 12
  BY <1>0 DEF TestsShape
<1>4. Sockets!TypeOK
  BY <1>0, <1>1, <1>2, <1>3, Zenon DEF Sockets!TypeOK, TestsShape
<1>5. Sockets!Explained
  BY Zenon DEF TestsInv, Reasoned, Sockets!Explained
<1>6. ASSUME ~first, suite \in {"exchange", "streams"}, NEW i \in DOMAIN results,
             results[i].result = "done"
      PROVE  results[i].test = "fd_exchange_with_sockpair"
  <2>1. suite # "unique" BY <1>6
  <2> QED BY <1>6, <2>1, Zenon DEF TestsInv, Reasoned
<1>7. Sockets!NameLasts
  BY <1>1, <1>6, Zenon DEF Sockets!NameLasts
<1> QED BY <1>4, <1>5, <1>7
-----------------------------------------------------------------------------
(***************************************************************************)
(* One of the programs is there, and the others do nothing.                *)
(***************************************************************************)

ProgramsInv ==
  /\ IsQueue       => QueueInv
  /\ IsSignals     => SignalInv
  /\ IsTimers      => TimerInv
  /\ IsConnections => ConnInv
  /\ IsTerminal    => PtyInv
  /\ IsTty         => TtyInv
  /\ IsSockets     => TestsInv

LEMMA ProgramsInit == MCInit => ProgramsInv
BY QueueInit, SignalInit, TimerInit, ConnInit, PtyInit, TtyInit, TestsInit
   DEF MCInit, ProgramsInv

(* A step of one program is none of another.                               *)
LEMMA ProgramsStep == ProgramsInv /\ [MCNext]_vars => ProgramsInv'
<1> SUFFICES ASSUME ProgramsInv, [MCNext]_vars PROVE ProgramsInv' OBVIOUS
<1>0. UNCHANGED program BY DEF MCNext, vars
<1>1. (IsQueue => QueueInv)'
  <2> SUFFICES ASSUME IsQueue PROVE QueueInv' BY <1>0 DEF IsQueue
  <2>1. Queue!Next \/ UNCHANGED Queue!vars
    BY DEF MCNext, vars, queueVars, Queue!vars, Queue!queues
  <2> QED BY <2>1, QueueStep DEF ProgramsInv
<1>2. (IsSignals => SignalInv)'
  <2> SUFFICES ASSUME IsSignals PROVE SignalInv' BY <1>0 DEF IsSignals
  <2>1. Signals!Next \/ UNCHANGED Signals!rsvars
    BY DEF MCNext, vars, signalVars, Signals!rsvars
  <2> QED BY <2>1, SignalStep DEF ProgramsInv
<1>3. (IsTimers => TimerInv)'
  <2> SUFFICES ASSUME IsTimers PROVE TimerInv' BY <1>0 DEF IsTimers
  <2>1. Timers!Next \/ UNCHANGED Timers!rtvars BY DEF MCNext, vars, timerVars, Timers!rtvars
  <2> QED BY <2>1, TimerStep DEF ProgramsInv
<1>4. (IsConnections => ConnInv)'
  <2> SUFFICES ASSUME IsConnections PROVE ConnInv' BY <1>0 DEF IsConnections
  <2>1. Connections!Next \/ UNCHANGED Connections!ucvars
    BY DEF MCNext, vars, connVars, Connections!ucvars, Connections!who
  <2> QED BY <2>1, ConnStep DEF ProgramsInv
<1>5. (IsTerminal => PtyInv)'
  <2> SUFFICES ASSUME IsTerminal PROVE PtyInv' BY <1>0 DEF IsTerminal
  <2>1. Terminal!Next \/ UNCHANGED Terminal!ptyvars
    BY DEF MCNext, vars, ptyVars, Terminal!ptyvars, Terminal!program, Terminal!signals,
       Terminal!input, Terminal!setting
  <2> QED BY <2>1, PtyStep DEF ProgramsInv
<1>6. (IsTty => TtyInv)'
  <2> SUFFICES ASSUME IsTty PROVE TtyInv' BY <1>0 DEF IsTty
  <2>1. Tty!Next \/ UNCHANGED Tty!ttyvars BY DEF MCNext, vars, ttyVars, Tty!ttyvars
  <2> QED BY <2>1, TtyStep DEF ProgramsInv
<1>7. (IsSockets => TestsInv)'
  <2> SUFFICES ASSUME IsSockets PROVE TestsInv' BY <1>0 DEF IsSockets
  <2>1. Sockets!Next \/ UNCHANGED Sockets!stvars
    BY DEF MCNext, vars, socketVars, Sockets!stvars, Sockets!outside, Sockets!inside
  <2> QED BY <2>1, TestsStep DEF ProgramsInv
<1> QED BY <1>1, <1>2, <1>3, <1>4, <1>5, <1>6, <1>7 DEF ProgramsInv

(* What the processes are and hold in every program: the strengthening     *)
(* that the theorems below are read from.                                  *)
THEOREM ProgramsSafe == MCSpec => []ProgramsInv
<1>1. MCSpec => MCInit /\ [][MCNext]_vars BY PTL DEF MCSpec
<1> QED BY <1>1, ProgramsInit, ProgramsStep, PTL

(* The message of mqueue.c, the notifications of mqueue_sig.c and          *)
(* mqueue_thread.c, the signals of rt_signals.c and the expirations of     *)
(* rt_timers.c are taken: a run of the queue programs that nobody overlaps *)
(* or kills passes, the child of rt_signals.c takes the signals in their   *)
(* order, and the test of the timer ends when it should.                   *)
THEOREM NothingMissed == MCSpec => []NotifiedInTime
<1>1. ProgramsInv => NotifiedInTime
  BY QueueSafe, SignalSafe, TimerSafe DEF ProgramsInv, NotifiedInTime
<1> QED BY <1>1, ProgramsSafe, PTL

(* The tests of streams_pipe.c, exchange_fd.c and unique_connections.c     *)
(* hang only after a child that has connected too early, are killed by     *)
(* SIGPIPE only when nobody has the other end, and fail only where the     *)
(* name or the file they want is not there; and a name that was there at   *)
(* first is lost to an interrupt alone.                                    *)
THEOREM TestsAreExplained == MCSpec => []TestsExplained
<1>1. ProgramsInv => TestsExplained
  BY TestsSafe DEF ProgramsInv, TestsExplained
<1> QED BY <1>1, ProgramsSafe, PTL

(* serv_accept() of unique_connections.c takes a connection for the user   *)
(* whose client made it and turns down only one whose name another client  *)
(* or time has spoilt, and in the way of bind() is only what another user  *)
(* has left.                                                               *)
THEOREM UsersKnown == MCSpec => []TakenForTheirOwn
<1>1. ProgramsInv => TakenForTheirOwn
  BY ConnTypes DEF ProgramsInv, TakenForTheirOwn, ConnInv
<1> QED BY <1>1, ProgramsSafe, PTL

(* my_pty.c: what the program has written is shown, unless the relay has   *)
(* ended for a reason that is recorded, and its two processes end          *)
(* together. noncanonical_mode.c leaves the terminal as it was.            *)
THEOREM LeftInOrder == MCSpec => []TerminalsLeftInOrder
<1>1. ProgramsInv => TerminalsLeftInOrder
  BY TtyTypes DEF ProgramsInv, TerminalsLeftInOrder, PtyInv, TtyInv
<1> QED BY <1>1, ProgramsSafe, PTL
=============================================================================
