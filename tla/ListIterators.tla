---------------------------- MODULE ListIterators ----------------------------
(***************************************************************************)
(* IteratorPattern.cpp: a list that grows, an iterator of either direction *)
(* (iterators do not see each other), and the internal iterator that runs  *)
(* through the list with it.  The user sets items (at no index below 0),   *)
(* moves the iterator and traverses in any order; what the traverser       *)
(* counts is left out.                                                     *)
(***************************************************************************)
EXTENDS Integers

CONSTANTS Items, Sizes, MaxSize, MaxPast   \* bounds on growth and on Next behind the end

ListAssumption ==
  MaxSize \in Nat /\ MaxPast \in Nat /\ Sizes \subseteq 0 .. MaxSize /\ Items # {}

VARIABLES
  pList,    \* the items, by index
  class,    \* of the iterator: forward or reverse
  current,
  crashed,
  put,      \* history: the items that Set has stored, by index
  seen,     \* history: the indices a loop has had the items of, since First
  from,     \* history: the size of the list at First
  strayed   \* history: it was moved by more than a loop from First on

listvars == <<pList, class, current, crashed, put, seen, from, strayed>>

Indices == DOMAIN pList
Count   == CHOOSE n \in 0 .. MaxSize : Indices = 0 .. n - 1

(* The iterator has not been sent to First; new Item[] is any items. *)
Init ==
  /\ \E n \in Sizes : pList \in [0 .. n - 1 -> Items]
  /\ class \in {"forward", "reverse"} /\ current = 0 /\ crashed = FALSE
  /\ put = <<>> /\ seen = {} /\ from = 0 /\ strayed = TRUE
-----------------------------------------------------------------------------
(* C's %, which has the sign of the dividend *)
Rem(a, b) == IF a < 0 THEN -((-a) % b) ELSE a % b

(* The index that Get reads, of a list that is not empty *)
Place(i) == Rem(IF i < 0 THEN Count - Rem(i, Count) ELSE i, Count)

IsDone == IF class = "forward" THEN current >= Count ELSE current < 0
Start  == IF class = "forward" THEN 0 ELSE Count - 1
Step   == IF class = "forward" THEN 1 ELSE -1

SetItem(i, item) ==
  /\ i \in Indices
  /\ pList' = [pList EXCEPT ![i] = item]
  /\ put' = [j \in DOMAIN put \cup {i} |-> IF j = i THEN item ELSE put[j]]
  /\ UNCHANGED <<class, current, crashed, seen, from, strayed>>

(* The doubled array: the old items, and behind them what was there *)
Grown == {p \in [0 .. 2 * Count - 1 -> Items] : \A j \in Indices : p[j] = pList[j]}

(* Behind the end Set doubles the list, and does not store the item. *)
SetBehind ==
  /\ 2 * Count <= MaxSize
  /\ pList' \in Grown
  /\ UNCHANGED <<class, current, crashed, put, seen, from, strayed>>

First ==
  /\ current' = Start /\ seen' = {} /\ from' = Count /\ strayed' = FALSE
  /\ UNCHANGED <<pList, class, crashed, put>>

(* A turn of a loop: CurrentItem, which is a Get, and Next.  Get divides   *)
(* by the size.                                                            *)
Visit ==
  /\ ~IsDone
  /\ IF Count = 0
     THEN crashed' = TRUE /\ UNCHANGED <<current, seen>>
     ELSE /\ seen' = seen \cup {Place(current)} /\ current' = current + Step
          /\ UNCHANGED crashed
  /\ UNCHANGED <<pList, class, put, from, strayed>>

(* Next alone, also behind the end, where CurrentItem throws *)
Move ==
  /\ current \in -MaxPast .. Count + MaxPast - 1
  /\ current' = current + Step /\ strayed' = TRUE
  /\ UNCHANGED <<pList, class, crashed, put, seen, from>>

(* Traverse, with the iterator that the user has too *)
Traverse ==
  /\ current' = IF class = "forward" THEN Count ELSE -1
  /\ strayed' = TRUE
  /\ UNCHANGED <<pList, class, crashed, put, seen, from>>

Next ==
  /\ ~crashed
  /\ \/ SetBehind
     \/ \E i \in Indices, item \in Items : SetItem(i, item)
     \/ First \/ Visit \/ Move \/ Traverse

Spec == Init /\ [][Next]_listvars
-----------------------------------------------------------------------------
TypeOK ==
  /\ pList \in [0 .. Count - 1 -> Items] /\ crashed \in BOOLEAN
  /\ class \in {"forward", "reverse"} /\ current \in -MaxPast - 1 .. MaxSize + MaxPast
  /\ seen \subseteq Indices /\ from \in 0 .. Count /\ strayed \in BOOLEAN

(* An item that Set has stored stays until it is set again, however often  *)
(* the list grows.                                                         *)
StoredStays == \A i \in DOMAIN put : i \in Indices /\ pList[i] = put[i]

(* A loop that begins with First has, when its iterator is done, had every *)
(* item: the forward one all that the list has by then, the reverse one    *)
(* all that it had at First, however the list has grown meanwhile, unless  *)
(* the iterator was moved by others.                                       *)
LoopsSeeAll ==
  IsDone /\ ~strayed => seen = IF class = "forward" THEN Indices ELSE 0 .. from - 1

(* Only a reverse iterator that was not sent to its first item reads an    *)
(* empty list.                                                             *)
EmptyReadUnstarted == crashed => class = "reverse" /\ strayed
=============================================================================
