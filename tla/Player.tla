------------------------------- MODULE Player -------------------------------
(***************************************************************************)
(* player.c: the main thread reads a file line by line (read_data) and     *)
(* appends the lines to a linked list; a second thread takes them off the  *)
(* list, prints and frees them (process_data).  The list is guarded by a   *)
(* mutex and a condition variable -- except for lines 102-103, where       *)
(* read_data marks the end of the list without the lock.  Each access to   *)
(* shared memory made there, or racing with it, is a step of its own.      *)
(*                                                                         *)
(* Node k is the k-th one read_data allocates.  Memory that malloc reuses  *)
(* gets a new number: QueueOwned says that no pointer to it is left.  What *)
(* a line says is left out; after a final newline the last getline finds   *)
(* no line at all, and the last node prints an uninitialized buffer.       *)
(***************************************************************************)
EXTENDS Integers, Sequences

CONSTANT Nodes     \* how often getline is called until feof

ASSUME NodesAssumption == Nodes \in Nat \ {0}

NULL == 0
END  == -1         \* (void*)-1
Junk == -2         \* what is read from freed memory

VARIABLES
  ppc, cpc,        \* where read_data and process_data are
  mutex,           \* "free", or the thread that holds it
  start, current,  \* queue_start, queue_current
  next,            \* the next field of each node
  count,           \* nodes allocated so far
  cur,             \* queue_current, in a register of read_data
  release,         \* queue_release
  printed, freed,  \* lines printed; nodes freed
  outcome          \* "running", or how the process ended

vars == <<ppc, cpc, mutex, start, current, next, count, cur, release,
          printed, freed, outcome>>

Init ==
  /\ ppc = "lock" /\ cpc = "test" /\ mutex = "free"
  /\ start = NULL /\ current = NULL
  /\ next = [k \in 1 .. Nodes |-> NULL] /\ count = 0
  /\ cur = NULL /\ release = NULL
  /\ printed = <<>> /\ freed = {}
  /\ outcome = "running"

At(p) == outcome = "running" /\ ppc = p
In(c) == outcome = "running" /\ cpc = c
-----------------------------------------------------------------------------
(* read_data *)

(* Mutant of PLock: the list is changed without waiting for the mutex. *)
PLockNot ==
  /\ At("lock")
  /\ mutex' = "reader" /\ ppc' = "append"
  /\ UNCHANGED <<cpc, start, current, next, count, cur, release, printed, freed, outcome>>

PLock ==
  /\ At("lock") /\ mutex = "free"
  /\ mutex' = "reader" /\ ppc' = "append"
  /\ UNCHANGED <<cpc, start, current, next, count, cur, release, printed, freed, outcome>>

(* lines 62-85: a new node behind queue_current, or as the only one *)
PAppend ==
  /\ At("append")
  /\ count' = count + 1
  /\ IF current = NULL
       THEN start' = count + 1 /\ UNCHANGED next
       ELSE next' = [next EXCEPT ![current] = count + 1] /\ UNCHANGED start
  /\ current' = count + 1
  /\ ppc' = "unlock"
  /\ UNCHANGED <<cpc, mutex, cur, release, printed, freed, outcome>>

(* malloc or getline fails: main returns, whatever the other thread does *)
PFail ==
  /\ At("append")
  /\ outcome' = "failure"
  /\ UNCHANGED <<ppc, cpc, mutex, start, current, next, count, cur, release, printed, freed>>

(* Mutant of PUnlock: the mutex is kept. *)
PUnlockNot ==
  /\ At("unlock")
  /\ ppc' = "signal"
  /\ UNCHANGED <<cpc, mutex, start, current, next, count, cur, release, printed, freed, outcome>>

PUnlock ==
  /\ At("unlock")
  /\ mutex' = "free" /\ ppc' = "signal"
  /\ UNCHANGED <<cpc, start, current, next, count, cur, release, printed, freed, outcome>>

(* Mutant of PSignal: only the first line is signalled. *)
PSignalFirst ==
  /\ At("signal")
  /\ cpc' = IF cpc = "waiting" /\ count = 1 THEN "woken" ELSE cpc
  /\ ppc' = IF count < Nodes THEN "lock" ELSE "load"
  /\ UNCHANGED <<mutex, start, current, next, count, cur, release, printed, freed, outcome>>

(* pthread_cond_signal, and the test of feof *)
PSignal ==
  /\ At("signal")
  /\ cpc' = IF cpc = "waiting" THEN "woken" ELSE cpc
  /\ ppc' = IF count < Nodes THEN "lock" ELSE "load"
  /\ UNCHANGED <<mutex, start, current, next, count, cur, release, printed, freed, outcome>>

(* A store or load through a null pointer *)
Crash ==
  /\ outcome' = "segv"
  /\ UNCHANGED <<ppc, cpc, mutex, start, current, next, count, cur, release, printed, freed>>

(* line 102: load queue_current, then store through it.  A store into a    *)
(* freed node goes unnoticed.                                              *)
PLoad ==
  /\ At("load") /\ current # NULL
  /\ cur' = current /\ ppc' = "mark"
  /\ UNCHANGED <<cpc, mutex, start, current, next, count, release, printed, freed, outcome>>

PLoadNull == At("load") /\ current = NULL /\ Crash

PMark ==
  /\ At("mark")
  /\ next' = [next EXCEPT ![cur] = END]
  /\ ppc' = "reload"
  /\ UNCHANGED <<cpc, mutex, start, current, count, cur, release, printed, freed, outcome>>

(* line 103: queue_current again, which a compiler may have kept           *)
PReload ==
  /\ At("reload")
  /\ cur' \in {cur, current}
  /\ ppc' = "advance"
  /\ UNCHANGED <<cpc, mutex, start, current, next, count, release, printed, freed, outcome>>

PAdvance ==
  /\ At("advance") /\ cur # NULL
  /\ \/ current' = next[cur]
     \/ cur \in freed /\ current' = Junk
  /\ ppc' = "join"
  /\ UNCHANGED <<cpc, mutex, start, next, count, cur, release, printed, freed, outcome>>

PAdvanceNull == At("advance") /\ cur = NULL /\ Crash

(* pthread_join in main *)
PJoin ==
  /\ At("join") /\ cpc = "done"
  /\ outcome' = "ok"
  /\ UNCHANGED <<ppc, cpc, mutex, start, current, next, count, cur, release, printed, freed>>
-----------------------------------------------------------------------------
(* process_data *)

(* Mutant of CTest: an empty list is taken for the end of the file. *)
CTestEmpty ==
  /\ In("test")
  /\ cpc' = IF start \in {NULL, END} THEN "done" ELSE "lock"
  /\ UNCHANGED <<ppc, mutex, start, current, next, count, cur, release, printed, freed, outcome>>

CTest ==
  /\ In("test")
  /\ cpc' = IF start = END THEN "done" ELSE "lock"
  /\ UNCHANGED <<ppc, mutex, start, current, next, count, cur, release, printed, freed, outcome>>

(* pthread_mutex_lock, or the lock that pthread_cond_wait takes again *)
CLock ==
  /\ In("lock") \/ In("woken")
  /\ mutex = "free"
  /\ mutex' = "printer" /\ cpc' = "check"
  /\ UNCHANGED <<ppc, start, current, next, count, cur, release, printed, freed, outcome>>

(* line 120: pthread_cond_wait gives the lock up and waits, in one step *)
CCheck ==
  /\ In("check")
  /\ IF start = NULL
       THEN cpc' = "waiting" /\ mutex' = "free"
       ELSE cpc' = "take" /\ UNCHANGED mutex
  /\ UNCHANGED <<ppc, start, current, next, count, cur, release, printed, freed, outcome>>

(* a wakeup without a signal *)
CSpurious ==
  /\ In("waiting")
  /\ cpc' = "woken"
  /\ UNCHANGED <<ppc, mutex, start, current, next, count, cur, release, printed, freed, outcome>>

(* lines 128-129 *)
CTake ==
  /\ In("take")
  /\ release' = start
  /\ start' = next[start]
  /\ cpc' = "compare"
  /\ UNCHANGED <<ppc, mutex, current, next, count, cur, printed, freed, outcome>>

(* Mutants of CCompare: queue_current outlives its node; it is cleared     *)
(* though the list goes on.                                                *)
CCompareNot ==
  /\ In("compare")
  /\ cpc' = "unlock"
  /\ UNCHANGED <<ppc, mutex, start, current, next, count, cur, release, printed, freed, outcome>>
CCompareAlways ==
  /\ In("compare")
  /\ current' = NULL
  /\ cpc' = "unlock"
  /\ UNCHANGED <<ppc, mutex, start, next, count, cur, release, printed, freed, outcome>>

(* lines 130-133 *)
CCompare ==
  /\ In("compare")
  /\ current' = IF release = current THEN NULL ELSE current
  /\ cpc' = "unlock"
  /\ UNCHANGED <<ppc, mutex, start, next, count, cur, release, printed, freed, outcome>>

(* Mutant of CUnlock: the mutex is kept. *)
CUnlockNot ==
  /\ In("unlock")
  /\ cpc' = "print"
  /\ UNCHANGED <<ppc, mutex, start, current, next, count, cur, release, printed, freed, outcome>>

CUnlock ==
  /\ In("unlock")
  /\ mutex' = "free" /\ cpc' = "print"
  /\ UNCHANGED <<ppc, start, current, next, count, cur, release, printed, freed, outcome>>

CPrint ==
  /\ In("print")
  /\ printed' = Append(printed, release)
  /\ cpc' = "free"
  /\ UNCHANGED <<ppc, mutex, start, current, next, count, cur, release, freed, outcome>>

CFree ==
  /\ In("free")
  /\ freed' = freed \cup {release}
  /\ cpc' = "test"
  /\ UNCHANGED <<ppc, mutex, start, current, next, count, cur, release, printed, outcome>>
-----------------------------------------------------------------------------
Reader ==
  \/ PLock \/ PAppend \/ PUnlock \/ PSignal
  \/ PLoad \/ PLoadNull \/ PMark \/ PReload \/ PAdvance \/ PAdvanceNull \/ PJoin

Printer ==
  \/ CTest \/ CLock \/ CCheck \/ CTake \/ CCompare \/ CUnlock \/ CPrint \/ CFree

Next == Reader \/ PFail \/ Printer \/ CSpurious

Spec == Init /\ [][Next]_vars

(* Both threads run on, and a thread that finds the mutex free again and   *)
(* again gets it at last, though the other one takes it in between: the    *)
(* kernel wakes who waits in pthread_mutex_lock.  Failures and spurious    *)
(* wakeups need never happen, and may happen for ever.                     *)
FairSpec ==
  /\ Spec
  /\ WF_vars(Reader) /\ WF_vars(Printer)
  /\ SF_vars(PLock) /\ SF_vars(CLock)
-----------------------------------------------------------------------------
InHand == IF cpc \in {"compare", "unlock", "print"} THEN 1 ELSE 0
Taken  == Len(printed) + InHand

Reading == ppc \in {"lock", "append", "unlock", "signal", "load"}

(* The state variables have the values their comments promise, and each    *)
(* thread holds the mutex just where its program says.                     *)
TypeOK ==
  /\ ppc \in {"lock", "append", "unlock", "signal", "load", "mark", "reload",
              "advance", "join"}
  /\ cpc \in {"test", "lock", "check", "waiting", "woken", "take", "compare",
              "unlock", "print", "free", "done"}
  /\ mutex \in {"free", "reader", "printer"}
  /\ mutex = "reader" <=> ppc \in {"append", "unlock"}
  /\ mutex = "printer" <=> cpc \in {"check", "take", "compare", "unlock"}
  /\ start \in END .. Nodes /\ current \in Junk .. Nodes
  /\ next \in [1 .. Nodes -> END .. Nodes]
  /\ count \in 0 .. Nodes /\ cur \in END .. Nodes /\ release \in 0 .. Nodes
  /\ printed \in Seq(1 .. Nodes) /\ freed \subseteq 1 .. Nodes
  /\ outcome \in {"running", "ok", "failure", "segv"}

(* The lines come out in the order they went in, none twice and none left  *)
(* out: what has been printed, what the printer has in hand and what the   *)
(* list still holds are together all the lines read.                       *)
NothingLost ==
  /\ \A k \in 1 .. Len(printed) : printed[k] = k
  /\ InHand = 1 => release = Taken
  /\ Taken < count => start = Taken + 1 /\ \A k \in Taken + 1 .. count - 1 : next[k] = k + 1
  /\ Taken >= count => start \in {NULL, END}

(* As long as lines are read, what read_data appends to is a node that     *)
(* nobody has freed or is about to free, and there is none exactly if the  *)
(* list is empty.                                                          *)
QueueOwned ==
  Reading /\ cpc # "compare" =>
    /\ current = NULL <=> start = NULL
    /\ current # NULL => current \notin freed /\ current > Taken

(* The main thread gets as far as EXIT_SUCCESS only with all printed, ...  *)
OkComplete == outcome = "ok" => Len(printed) = Nodes

(* ... and the unlocked end of read_data, which dereferences a null        *)
(* pointer when the printer has emptied the list, loses one line at most.  *)
CrashLosesAtMostOne == outcome = "segv" => Len(printed) >= Nodes - 1

(* Whatever the order of the threads, all that is read gets printed: no    *)
(* wakeup is lost.  Only the end of the process can come first.            *)
AllPrinted == <>(outcome # "running" \/ Len(printed) = Nodes)

(* The process ends, with one exception: the end mark was written into a   *)
(* node already taken, and the printer waits for ever with all printed.    *)
Waiting == ppc = "join" /\ cpc = "waiting" /\ start = NULL /\ Len(printed) = Nodes
EndsOrWaits == <>(outcome # "running" \/ Waiting)
=============================================================================
