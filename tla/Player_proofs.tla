--------------------------- MODULE Player_proofs ---------------------------
(***************************************************************************)
(* Proofs about Player, for files of any length.  The argument: the list   *)
(* is the interval Taken + 1 .. count.  Both ends move one node at a time  *)
(* under the mutex, and by the time read_data touches the list without it, *)
(* only the next field of the last node and queue_current can still be     *)
(* written by both.                                                        *)
(***************************************************************************)
EXTENDS Player, TLAPS

Marked == ppc \in {"reload", "advance", "join"}
AtEnd  == Taken = Nodes /\ cpc # "compare"

(* Where each thread is tells what it has done so far. *)
Progress ==
  /\ ppc \in {"lock", "append"} => count < Nodes
  /\ ppc \in {"unlock", "signal"} => count > 0
  /\ ppc \in {"load", "mark", "reload", "advance", "join"} => count = Nodes
  /\ cpc \in {"lock", "check", "waiting", "woken", "take"} => start # END
  /\ cpc = "take" => Taken < count
  /\ cpc = "done" => Taken = Nodes

(* The list from queue_start on, and the node in the printer's hands *)
List ==
  /\ Taken \in 0 .. count
  /\ \/ Taken < count /\ start = Taken + 1
     \/ Taken = count /\ start = NULL
     \/ Taken = Nodes /\ start = END
  /\ \A k \in 1 .. Nodes :
       /\ k < count /\ k > Taken => next[k] = k + 1
       /\ k > count => next[k] = NULL
       /\ k = count => next[k] = NULL \/ (next[k] = END /\ Marked)
  /\ start = END => Marked
  /\ InHand = 1 => release = Taken
  /\ cpc = "free" => release = Len(printed) /\ Len(printed) > 0
  /\ \A k \in 1 .. Len(printed) : printed[k] = k
  /\ \A k \in freed : k <= IF cpc = "free" THEN Len(printed) - 1 ELSE Len(printed)

(* queue_current is the last node while the printer has not got past it *)
Current ==
  /\ Reading => current = IF Taken < count \/ (cpc = "compare" /\ Taken > 0)
                            THEN count ELSE NULL
  /\ ppc \in {"mark", "reload"} => current = Nodes \/ (current = NULL /\ AtEnd)
  /\ ppc \in {"mark", "reload"} => cur = Nodes
  /\ ppc = "advance" => cur = Nodes \/ (cur = NULL /\ AtEnd)

Ended ==
  /\ outcome = "ok" => cpc = "done"
  /\ outcome = "segv" => Taken = Nodes

PInv == TypeOK /\ Progress /\ List /\ Current /\ Ended
-----------------------------------------------------------------------------
(* Most steps keep the invariant once all it is built from is expanded.    *)
USE NodesAssumption DEF PInv, TypeOK, Progress, List, Current, Ended, Taken,
  InHand, Reading, Marked, AtEnd, NULL, END, Junk, At, In

LEMMA InitHolds == Init => PInv
BY SMTT(30) DEF Init

LEMMA PLockKeeps == ASSUME PInv, PLock PROVE PInv'
BY SMTT(30) DEF PLock

LEMMA PFailKeeps == ASSUME PInv, PFail PROVE PInv'
BY SMTT(30) DEF PFail

LEMMA PUnlockKeeps == ASSUME PInv, PUnlock PROVE PInv'
BY SMTT(30) DEF PUnlock

LEMMA PSignalKeeps == ASSUME PInv, PSignal PROVE PInv'
BY SMTT(30) DEF PSignal

LEMMA PLoadKeeps == ASSUME PInv, PLoad PROVE PInv'
BY SMTT(30) DEF PLoad

LEMMA PLoadNullKeeps == ASSUME PInv, PLoadNull PROVE PInv'
BY SMTT(30) DEF PLoadNull, Crash

LEMMA PMarkKeeps == ASSUME PInv, PMark PROVE PInv'
BY SMTT(30) DEF PMark

LEMMA PReloadKeeps == ASSUME PInv, PReload PROVE PInv'
BY SMTT(30) DEF PReload

LEMMA PAdvanceKeeps == ASSUME PInv, PAdvance PROVE PInv'
BY SMTT(30) DEF PAdvance

LEMMA PAdvanceNullKeeps == ASSUME PInv, PAdvanceNull PROVE PInv'
BY SMTT(30) DEF PAdvanceNull, Crash

LEMMA PJoinKeeps == ASSUME PInv, PJoin PROVE PInv'
BY SMTT(30) DEF PJoin

LEMMA CTestKeeps == ASSUME PInv, CTest PROVE PInv'
BY SMTT(30) DEF CTest

LEMMA CLockKeeps == ASSUME PInv, CLock PROVE PInv'
BY SMTT(30) DEF CLock

LEMMA CSpuriousKeeps == ASSUME PInv, CSpurious PROVE PInv'
BY SMTT(30) DEF CSpurious

LEMMA CUnlockKeeps == ASSUME PInv, CUnlock PROVE PInv'
BY SMTT(30) DEF CUnlock

LEMMA CPrintKeeps == ASSUME PInv, CPrint PROVE PInv'
BY SMTT(30) DEF CPrint

LEMMA CFreeKeeps == ASSUME PInv, CFree PROVE PInv'
BY SMTT(30) DEF CFree

LEMMA CCheckKeeps == ASSUME PInv, CCheck PROVE PInv'
BY SMTT(30) DEF CCheck

(* The printer takes the first node, which may be the last one too. *)
LEMMA CTakeKeeps == ASSUME PInv, CTake PROVE PInv'
<1>1. TypeOK'
  BY DEF CTake
<1>2. Progress'
  BY DEF CTake
<1>3. List'
  BY DEF CTake
<1>4. Current'
  BY DEF CTake
<1>5. Ended'
  BY DEF CTake
<1> QED BY <1>1, <1>2, <1>3, <1>4, <1>5

LEMMA CCompareKeeps == ASSUME PInv, CCompare PROVE PInv'
<1>1. TypeOK'
  BY SMTT(30) DEF CCompare
<1>2. Progress'
  BY DEF CCompare
<1>3. List'
  BY DEF CCompare
<1>4. Current'
  BY DEF CCompare
<1>5. Ended'
  BY DEF CCompare
<1> QED BY <1>1, <1>2, <1>3, <1>4, <1>5

HIDE NodesAssumption DEF PInv, TypeOK, Progress, List, Current, Ended, Taken,
  InHand, Reading, Marked, AtEnd, NULL, END, Junk, At, In
-----------------------------------------------------------------------------
(* The reader appends: the list may be empty, or end in a node the printer  *)
(* is not interested in yet.                                               *)
LEMMA PAppendKeeps == ASSUME PInv, PAppend PROVE PInv'
<1>1. /\ ppc = "append" /\ ppc' = "unlock" /\ cpc # "compare"
     /\ count + 1 \in 1 .. Nodes
  <2>1. ppc = "append" /\ ppc' = "unlock"
    BY DEF PAppend, At
  <2>2. cpc # "compare"
    BY <2>1 DEF PInv, TypeOK
  <2>3. count < Nodes /\ count \in 0 .. Nodes
    BY <2>1 DEF PInv, TypeOK, Progress
  <2> QED BY <2>1, <2>2, <2>3, NodesAssumption
<1>10. ~Marked /\ ~Marked'
  BY <1>1 DEF Marked
<1>2. current = IF Taken < count THEN count ELSE NULL
  BY <1>1 DEF PInv, Current, Reading
<1>3. Taken \in 0 .. count /\ Taken' = Taken /\ InHand' = InHand
  BY DEF PAppend, PInv, TypeOK, List, Taken, InHand
<1>4. next' \in [1 .. Nodes -> END .. Nodes]
  BY <1>1, <1>2, <1>3 DEF PAppend, PInv, TypeOK, NULL, END
<1>5. TypeOK'
  BY <1>1, <1>4 DEF PAppend, PInv, TypeOK, NULL, END, Junk
<1>6. Progress'
  BY <1>1 DEF PAppend, PInv, TypeOK, Progress, List, Current, Ended, Taken,
     InHand, Reading, Marked, AtEnd, NULL, END, Junk, At, In
<1>7. List'
  <2>1. CASE current = NULL
    <3>1. Taken = count /\ start' = count + 1 /\ next' = next
      BY <1>1, <1>2, <1>3, <2>1 DEF PAppend, PInv, TypeOK, NULL
    <3>2. \A k \in 1 .. Nodes : k > count => next[k] = NULL
      BY DEF PInv, List
    <3> QED BY <1>1, <1>10, <1>3, <3>1, <3>2 DEF PAppend, PInv, TypeOK, List, NULL, END
  <2>2. CASE current # NULL
    <3>1. Taken < count /\ start' = start /\ next' = [next EXCEPT ![count] = count + 1]
      BY <1>1, <1>2, <1>3, <2>2 DEF PAppend, PInv, TypeOK, NULL
    <3> QED BY <1>1, <1>10, <1>3, <1>4, <3>1 DEF PAppend, PInv, TypeOK, List, NULL, END
  <2> QED BY <2>1, <2>2
<1>8. Current'
  <2>1. current' = count + 1 /\ count' = count + 1 /\ Taken' < count'
    BY <1>1, <1>3 DEF PAppend, PInv, TypeOK
  <2> QED BY <1>1, <2>1 DEF Current, Reading
<1>9. Ended'
  BY <1>3 DEF PAppend, PInv, Ended
<1> QED BY <1>5, <1>6, <1>7, <1>8, <1>9 DEF PInv

LEMMA NextKeeps == PInv /\ [Next]_vars => PInv'
<1> SUFFICES ASSUME PInv, [Next]_vars PROVE PInv'
  OBVIOUS
<1>1. CASE Reader
  BY <1>1, PLockKeeps, PAppendKeeps, PUnlockKeeps, PSignalKeeps, PLoadKeeps,
     PLoadNullKeeps, PMarkKeeps, PReloadKeeps, PAdvanceKeeps, PAdvanceNullKeeps,
     PJoinKeeps DEF Reader
<1>2. CASE Printer
  BY <1>2, CTestKeeps, CLockKeeps, CCheckKeeps, CTakeKeeps, CCompareKeeps,
     CUnlockKeeps, CPrintKeeps, CFreeKeeps DEF Printer
<1>3. CASE UNCHANGED vars
  <2> USE <1>3 DEF vars
  <2>1. TypeOK'
    BY DEF PInv, TypeOK
  <2>2. Progress' /\ List' /\ Current' /\ Ended'
    BY DEF PInv, Progress, List, Current, Ended, Taken, InHand, Reading, Marked, AtEnd
  <2> QED BY <2>1, <2>2 DEF PInv
<1> QED BY <1>1, <1>2, <1>3, PFailKeeps, CSpuriousKeeps DEF Next

(* The invariant of every behaviour of the two threads *)
THEOREM PlayerInvariant == Spec => []PInv
BY InitHolds, NextKeeps, PTL DEF Spec
-----------------------------------------------------------------------------
(* Types, and the mutex is held where the two programs say *)
THEOREM PlayerTypes == Spec => []TypeOK
BY PlayerInvariant, PTL DEF PInv

(* process_data prints the lines in order, each one once, and whatever has *)
(* been read is printed, in its hands or in the list.                      *)
THEOREM NoLineLost == Spec => []NothingLost
<1>1. PInv => NothingLost
  BY NodesAssumption DEF PInv, TypeOK, List, NothingLost, Taken, InHand, NULL, END
<1> QED BY <1>1, PlayerInvariant, PTL

(* While it reads, read_data never appends to memory process_data freed. *)
THEOREM NoUseAfterFree == Spec => []QueueOwned
<1>1. PInv => QueueOwned
  <2> SUFFICES ASSUME PInv, Reading, cpc # "compare"
               PROVE  /\ current = NULL <=> start = NULL
                      /\ current # NULL => current \notin freed /\ current > Taken
    BY DEF QueueOwned
  <2>1. current = IF Taken < count THEN count ELSE NULL
    BY DEF PInv, Current
  <2>2. start # END /\ Taken \in 0 .. count
    BY DEF PInv, List, Reading, Marked
  <2>3. current = NULL <=> start = NULL
    BY <2>1, <2>2 DEF PInv, TypeOK, List, NULL
  <2>4. \A k \in freed : k <= Taken
    BY <2>2 DEF PInv, TypeOK, List, Taken, InHand
  <2> QED BY <2>1, <2>2, <2>3, <2>4 DEF PInv, TypeOK, NULL
<1> QED BY <1>1, PlayerInvariant, PTL

(* EXIT_SUCCESS means that the whole file has been printed. *)
THEOREM SuccessIsComplete == Spec => []OkComplete
<1>1. PInv => OkComplete
  BY DEF PInv, TypeOK, Ended, Progress, OkComplete, Taken, InHand
<1> QED BY <1>1, PlayerInvariant, PTL

(* The null pointer at the end of read_data costs one line at most. *)
THEOREM CrashIsLate == Spec => []CrashLosesAtMostOne
<1>1. PInv => CrashLosesAtMostOne
  BY NodesAssumption DEF PInv, TypeOK, Ended, CrashLosesAtMostOne, Taken, InHand
<1> QED BY <1>1, PlayerInvariant, PTL
=============================================================================
