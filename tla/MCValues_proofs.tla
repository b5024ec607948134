--------------------------- MODULE MCValues_proofs ---------------------------
(***************************************************************************)
(* Proofs about the pieces of MCValues, of any size: trim_string.cpp, the  *)
(* dates of Date.cpp, the fractions of Fraction.cpp, the clocks and timers *)
(* of observer_pattern.cpp, the expressions of Interpreter_Pattern.cpp,    *)
(* the list and iterators of IteratorPattern.cpp, and the mazes of         *)
(* Prototype.cpp, AbstractFactory.cpp and FactoryMethod.cpp.               *)
(*                                                                         *)
(* Each piece has an inductive invariant: TrimInv, DateInv, FracInv,       *)
(* ObsInv, ExpInv, ListInv, MazeInv. ValuesInv says that the piece which a *)
(* behaviour is about has its own, and a step of one piece is none of      *)
(* another. Dates and fractions change in one step; what is to be proved   *)
(* of them is about the calendar and about gcd.                            *)
(*                                                                         *)
(* Recursive functions are reasoned about by smallest counterexample       *)
(* (LeastOf, OneByOne, EachNext): that such a function exists, and what it *)
(* is at an argument once it is known at smaller ones.                     *)
(***************************************************************************)
EXTENDS MCValues, SequenceTheorems, FiniteSetTheorems, WellFoundedInduction, TLAPS

LEMMA ListParameters ==
  MaxSize \in Nat /\ MaxPast \in Nat /\ Sizes \subseteq 0 .. MaxSize /\ Items # {}
BY Assumptions DEF Lists!ListAssumption
-----------------------------------------------------------------------------
(* IteratorPattern.cpp *)

(* A list of n items: what was put in stays, and the iterator is near it.  *)
ListShape(n) ==
  /\ n \in 0 .. MaxSize /\ pList \in [0 .. n - 1 -> Items]
  /\ divided \in BOOLEAN /\ class \in {"forward", "reverse"}
  /\ current \in -MaxPast - 1 .. n + MaxPast
  /\ seen \subseteq 0 .. n - 1 /\ from \in 0 .. n /\ strayed \in BOOLEAN
  /\ DOMAIN put \subseteq 0 .. n - 1 /\ \A i \in DOMAIN put : pList[i] = put[i]
  /\ class = "forward" => current >= 0

(* What a loop has had: what is behind its iterator, as the iterator goes. *)
Looped ==
  ~strayed =>
    IF class = "forward" THEN seen = 0 .. current - 1 /\ current <= Lists!Count
    ELSE /\ current \in -1 .. from - 1
         /\ seen = current + 1 .. from - 1

ListInv ==
  /\ \E n \in 0 .. MaxSize : ListShape(n)
  /\ Looped
  /\ divided => class = "reverse" /\ strayed

LEMMA CountOf ==
  ASSUME NEW n \in Int, n >= 0, n <= MaxSize, NEW f, DOMAIN f = 0 .. n - 1
  PROVE  (CHOOSE k \in 0 .. MaxSize : DOMAIN f = 0 .. k - 1) = n
<1>1. n \in 0 .. MaxSize BY ListParameters
<1>2. \A k \in 0 .. MaxSize : (0 .. k - 1 = 0 .. n - 1) => k = n
  <2> SUFFICES ASSUME NEW k \in 0 .. MaxSize, 0 .. k - 1 = 0 .. n - 1 PROVE k = n
    OBVIOUS
  <2>1. k \in Int /\ k >= 0 BY ListParameters
  <2>2. CASE k < n
    <3>1. k \in 0 .. n - 1 BY <2>1, <2>2
    <3> QED BY <3>1, <2>1
  <2>3. CASE n < k
    <3>1. n \in 0 .. k - 1 BY <2>1, <2>3
    <3> QED BY <3>1, <2>1
  <2> QED BY <2>1, <2>2, <2>3
<1> QED BY <1>1, <1>2

LEMMA ListCount ==
  ASSUME NEW n \in 0 .. MaxSize, ListShape(n)
  PROVE  Lists!Count = n /\ Lists!Indices = 0 .. n - 1
<1>1. DOMAIN pList = 0 .. n - 1 BY DEF ListShape
<1> QED BY <1>1, CountOf, ListParameters DEF Lists!Count, Lists!Indices

LEMMA RemOf ==
  ASSUME NEW n \in Nat, n > 0, NEW i \in Nat
  PROVE  /\ i % n \in 0 .. n - 1
         /\ i < n => i % n = i
BY SMT

LEMMA PlaceOf ==
  ASSUME NEW n \in 0 .. MaxSize, ListShape(n), n > 0, current >= 0
  PROVE  /\ Lists!Place(current) \in 0 .. n - 1
         /\ current < n => Lists!Place(current) = current
<1>1. current \in Nat BY ListParameters DEF ListShape
<1>2. Lists!Place(current) = current % n
  BY <1>1, ListCount DEF Lists!Place, Lists!Rem
<1> QED BY <1>1, <1>2, RemOf, ListParameters

LEMMA ListsSafe ==
  ASSUME ListInv
  PROVE  /\ Lists!TypeOK /\ Lists!StoredStays /\ Lists!LoopsSeeAll
         /\ Lists!EmptyReadUnstarted
<1>1. PICK n \in 0 .. MaxSize : ListShape(n) BY DEF ListInv
<1>2. Lists!Count = n /\ Lists!Indices = 0 .. n - 1 BY <1>1, ListCount
<1>3. Lists!TypeOK BY <1>1, <1>2, ListParameters DEF ListShape, Lists!TypeOK
<1>4. Lists!StoredStays BY <1>1, <1>2 DEF ListShape, Lists!StoredStays
<1>5. Lists!LoopsSeeAll
  <2> SUFFICES ASSUME Lists!IsDone, ~strayed
               PROVE  seen = IF class = "forward" THEN Lists!Indices ELSE 0 .. from - 1
    BY DEF Lists!LoopsSeeAll
  <2>1. CASE class = "forward"
    <3>1. current = n
      BY <2>1, <1>1, <1>2, ListParameters DEF ListShape, ListInv, Looped, Lists!IsDone
    <3> QED BY <2>1, <3>1, <1>2 DEF ListInv, Looped
  <2>2. CASE class # "forward"
    <3>1. current = -1
      BY <2>2, <1>1, <1>2, ListParameters DEF ListShape, ListInv, Looped, Lists!IsDone
    <3> QED BY <2>2, <3>1, <1>1, ListParameters DEF ListInv, Looped, ListShape
  <2> QED BY <2>1, <2>2
<1>6. Lists!EmptyReadUnstarted BY DEF ListInv, Lists!EmptyReadUnstarted
<1> QED BY <1>3, <1>4, <1>5, <1>6

LEMMA ListsInit ==
  ASSUME Lists!Init
  PROVE  ListInv
<1>1. PICK n \in Sizes : pList \in [0 .. n - 1 -> Items] BY DEF Lists!Init
<1>2. n \in 0 .. MaxSize BY <1>1, ListParameters
<1>3. DOMAIN put = {} BY DEF Lists!Init
<1>4. n \in Nat /\ 0 \in -MaxPast - 1 .. n + MaxPast BY <1>2, ListParameters
<1>5. seen \subseteq 0 .. n - 1 /\ from \in 0 .. n BY <1>4 DEF Lists!Init
<1>6. /\ class \in {"forward", "reverse"} /\ current = 0
      /\ divided \in BOOLEAN /\ strayed \in BOOLEAN
  BY DEF Lists!Init
<1>7. ListShape(n) BY <1>1, <1>2, <1>3, <1>4, <1>5, <1>6 DEF ListShape
<1> QED BY <1>2, <1>7 DEF ListInv, Looped, Lists!Init

(* A step that leaves the list alone, and one that lets it grow, keep the  *)
(* shape and the number of its items.                                      *)
LEMMA ListsStep ==
  ASSUME ListInv, Lists!Next
  PROVE  ListInv'
<1>1. PICK n \in 0 .. MaxSize : ListShape(n) BY DEF ListInv
<1>2. n \in Nat /\ MaxSize \in Nat /\ MaxPast \in Nat BY ListParameters
<1>3. Lists!Count = n /\ Lists!Indices = 0 .. n - 1 BY <1>1, ListCount
<1>4. ASSUME NEW m \in 0 .. MaxSize, ListShape(m)' PROVE Lists!Count' = m
  <2>1. DOMAIN pList' = 0 .. m - 1 BY <1>4 DEF ListShape
  <2> QED BY <2>1, <1>4, CountOf, ListParameters DEF Lists!Count, Lists!Indices
<1>5. ASSUME ListShape(n)', Looped' , (divided => class = "reverse" /\ strayed)'
      PROVE  ListInv'
  BY <1>5 DEF ListInv
<1>6. ~divided BY DEF Lists!Next
<1>7. ASSUME Lists!SetBehind PROVE ListInv'
  <2>1. 2 * n \in 0 .. MaxSize BY <1>7, <1>2, <1>3 DEF Lists!SetBehind
  <2>2. pList' \in [0 .. 2 * n - 1 -> Items] /\ \A j \in 0 .. n - 1 : pList'[j] = pList[j]
    BY <1>7, <1>3 DEF Lists!SetBehind, Lists!Grown
  <2>3. UNCHANGED <<class, current, divided, put, seen, from, strayed>>
    BY <1>7 DEF Lists!SetBehind
  <2>4. ListShape(2 * n)'
    BY <1>1, <1>2, <2>1, <2>2, <2>3 DEF ListShape
  <2>5. Lists!Count' = 2 * n BY <2>1, <2>4, <1>4
  <2>6. Looped' BY <2>3, <2>5, <1>2, <1>3, <1>1 DEF ListInv, Looped, ListShape
  <2> QED BY <2>1, <2>3, <2>4, <2>6, <1>6 DEF ListInv
<1>8. ASSUME NEW i \in Lists!Indices, NEW item \in Items, Lists!SetItem(i, item)
      PROVE  ListInv'
  <2>1. /\ pList' = [pList EXCEPT ![i] = item] /\ i \in 0 .. n - 1
        /\ put' = [j \in DOMAIN put \cup {i} |-> IF j = i THEN item ELSE put[j]]
        /\ UNCHANGED <<class, current, divided, seen, from, strayed>>
    BY <1>8, <1>3 DEF Lists!SetItem
  <2>2. pList' \in [0 .. n - 1 -> Items] BY <1>1, <2>1 DEF ListShape
  <2>3. DOMAIN put' \subseteq 0 .. n - 1 BY <1>1, <2>1 DEF ListShape
  <2>4. \A j \in DOMAIN put' : pList'[j] = put'[j] BY <1>1, <2>1 DEF ListShape
  <2>5. ListShape(n)' BY <1>1, <2>1, <2>2, <2>3, <2>4 DEF ListShape
  <2>6. Lists!Count' = n BY <2>5, <1>4
  <2> QED BY <2>1, <2>5, <2>6, <1>3, <1>5, <1>6 DEF ListInv, Looped
<1>9. ASSUME Lists!First PROVE ListInv'
  <2>1. /\ current' = IF class = "forward" THEN 0 ELSE n - 1
        /\ seen' = {} /\ from' = n /\ strayed' = FALSE
        /\ UNCHANGED <<pList, class, divided, put>>
    BY <1>9, <1>3 DEF Lists!First, Lists!Start
  <2>2. ListShape(n)'
    <3>1. current' \in -MaxPast - 1 .. n + MaxPast /\ (class = "forward" => current' >= 0)
      <4>1. CASE class = "forward" BY <1>2, <2>1, <4>1
      <4>2. CASE class # "forward" BY <1>2, <2>1, <4>2
      <4> QED BY <4>1, <4>2
    <3>2. seen' \subseteq 0 .. n - 1 /\ strayed' \in BOOLEAN BY <2>1
    <3>3. from' \in 0 .. n BY <1>2, <2>1
    <3> QED BY <1>1, <2>1, <3>1, <3>2, <3>3 DEF ListShape
  <2>3. Lists!Count' = n BY <2>2, <1>4
  <2>4. Looped' BY <2>1, <2>3, <1>2 DEF Looped
  <2> QED BY <2>1, <2>2, <2>4, <1>5, <1>6
<1>10. ASSUME Lists!Visit PROVE ListInv'
  <2>1. UNCHANGED <<pList, class, put, from, strayed>> BY <1>10 DEF Lists!Visit
  <2>2. CASE n = 0
    <3>1. divided' = TRUE /\ UNCHANGED <<current, seen>>
      BY <1>10, <1>3, <2>2 DEF Lists!Visit
    <3>2. ListShape(n)' BY <1>1, <2>1, <3>1 DEF ListShape
    <3>3. Lists!Count' = n BY <3>2, <1>4
    <3>4. Looped' BY <2>1, <3>1, <3>3, <1>3 DEF ListInv, Looped
    <3>5. class = "reverse" /\ current >= 0
      BY <1>10, <1>1, <1>2, <1>3, <2>2 DEF Lists!Visit, Lists!IsDone, ListShape
    <3>6. strayed
      BY <3>5, <1>1, <1>2, <2>2 DEF ListInv, Looped, ListShape
    <3> QED BY <2>1, <3>2, <3>4, <3>5, <3>6, <1>5
  <2>3. CASE n > 0
    <3>1. seen' = seen \cup {Lists!Place(current)} /\ divided' = divided
      BY <1>10, <1>3, <2>3 DEF Lists!Visit
    <3>2. current' = IF class = "forward" THEN current + 1 ELSE current - 1
      BY <1>10, <1>1, <1>2, <1>3, <2>3 DEF Lists!Visit, Lists!Step, ListShape
    <3>3. IF class = "forward" THEN current < n ELSE current >= 0
      BY <1>10, <1>1, <1>2, <1>3 DEF Lists!Visit, Lists!IsDone, ListShape
    <3>4. current >= 0 BY <3>3, <1>1 DEF ListShape
    <3>5. /\ Lists!Place(current) \in 0 .. n - 1
          /\ current < n => Lists!Place(current) = current
      BY <3>4, <2>3, <1>1, PlaceOf
    <3>6. ListShape(n)'
      <4>1. seen' \subseteq 0 .. n - 1 BY <1>1, <3>1, <3>5 DEF ListShape
      <4>2. current' \in -MaxPast - 1 .. n + MaxPast /\ (class = "forward" => current' >= 0)
        BY <1>1, <1>2, <3>2, <3>3, <3>4 DEF ListShape
      <4> QED BY <1>1, <2>1, <3>1, <4>1, <4>2 DEF ListShape
    <3>7. Lists!Count' = n BY <3>6, <1>4
    <3>8. Looped'
      <4> SUFFICES ASSUME ~strayed PROVE Looped' BY <2>1 DEF Looped
      <4>1. CASE class = "forward"
        <5>1. seen' = (0 .. current - 1) \cup {current} /\ current' = current + 1
          BY <4>1, <3>1, <3>2, <3>3, <3>5 DEF ListInv, Looped
        <5>2. seen' = 0 .. current' - 1 BY <5>1, <3>4, <1>1 DEF ListShape
        <5> QED BY <4>1, <5>1, <5>2, <3>3, <3>7, <2>1, <1>1, <1>2 DEF Looped, ListShape
      <4>2. CASE class # "forward"
        <5>1. current < n /\ current <= from - 1 /\ seen = current + 1 .. from - 1
          BY <4>2, <3>3, <1>1, <1>2 DEF ListInv, Looped, ListShape
        <5>2. seen' = {current} \cup (current + 1 .. from - 1) /\ current' = current - 1
          BY <4>2, <5>1, <3>1, <3>2, <3>5
        <5>3. seen' = current' + 1 .. from - 1
          BY <5>1, <5>2, <1>1, <1>2 DEF ListShape
        <5> QED BY <4>2, <5>1, <5>2, <5>3, <3>3, <2>1, <1>1, <1>2 DEF Looped, ListShape
      <4> QED BY <4>1, <4>2
    <3> QED BY <3>1, <3>6, <3>8, <1>5, <1>6
  <2> QED BY <2>2, <2>3, <1>2
<1>11. ASSUME Lists!Move PROVE ListInv'
  <2>1. current \in -MaxPast .. n + MaxPast - 1 /\ strayed' = TRUE
    BY <1>11, <1>3 DEF Lists!Move
  <2>2. current' = IF class = "forward" THEN current + 1 ELSE current + (-1)
    BY <1>11 DEF Lists!Move, Lists!Step
  <2>3. UNCHANGED <<pList, class, divided, put, seen, from>> BY <1>11 DEF Lists!Move
  <2>4. ListShape(n)' BY <1>1, <1>2, <2>1, <2>2, <2>3 DEF ListShape
  <2> QED BY <2>1, <2>3, <2>4, <1>5, <1>6 DEF Looped
<1>12. ASSUME Lists!Traverse PROVE ListInv'
  <2>1. /\ current' = IF class = "forward" THEN n ELSE -1
        /\ strayed' = TRUE /\ UNCHANGED <<pList, class, divided, put, seen, from>>
    BY <1>12, <1>3 DEF Lists!Traverse
  <2>2. ListShape(n)' BY <1>1, <1>2, <2>1 DEF ListShape
  <2> QED BY <2>1, <2>2, <1>5, <1>6 DEF Looped
<1> QED BY <1>7, <1>8, <1>9, <1>10, <1>11, <1>12 DEF Lists!Next
-----------------------------------------------------------------------------
(* A set of numbers has a least one, and so what follows for each number   *)
(* from the ones before it holds of all.                                   *)
LEMMA LeastOf ==
  ASSUME NEW S, S \subseteq Nat, S # {}
  PROVE  \E x \in S : \A y \in S : x <= y
<1> DEFINE R == {ss \in Nat \X Nat : ss[1] < ss[2]}
<1>1. IsWellFoundedOn(R, Nat)
  BY NatLessThanWellFounded DEF OpToRel
<1> HIDE DEF R
<1>2. \E x \in S : \A y \in S : ~(<<y, x>> \in R)
  BY <1>1, WFMin
<1>3. ASSUME NEW x \in Nat, NEW y \in Nat, ~(<<y, x>> \in R) PROVE x <= y
  BY <1>3, SMT DEF R
<1> QED BY <1>2, <1>3

LEMMA OneByOne ==
  ASSUME NEW n \in Nat, NEW S, \A i \in 1 .. n : 1 .. i - 1 \subseteq S => i \in S
  PROVE  1 .. n \subseteq S
<1> DEFINE Bad == (1 .. n) \ S
<1>1. SUFFICES ASSUME Bad # {} PROVE FALSE OBVIOUS
<1>2. PICK i \in Bad : \A j \in Bad : i <= j
  <2> Bad \subseteq Nat OBVIOUS
  <2> HIDE DEF Bad
  <2> QED BY <1>1, LeastOf
<1>3. 1 .. i - 1 \subseteq S BY <1>2
<1> QED BY <1>3

LEMMA EachNext ==
  ASSUME NEW S, 0 \in S, \A k \in Nat : k \in S => k + 1 \in S
  PROVE  Nat \subseteq S
<1> SUFFICES ASSUME Nat \ S # {} PROVE FALSE OBVIOUS
<1> DEFINE Bad == Nat \ S
<1>1. PICK k \in Bad : \A j \in Bad : k <= j
  <2>1. Bad \subseteq Nat /\ Bad # {} OBVIOUS
  <2> HIDE DEF Bad
  <2> QED BY <2>1, LeastOf
<1>2. k \in Nat /\ k # 0 OBVIOUS
<1>3. k - 1 \in Nat /\ k - 1 \notin Bad BY <1>1, <1>2
<1>4. (k - 1) + 1 \in S BY <1>3
<1> QED BY <1>2, <1>4
-----------------------------------------------------------------------------
(* observer_pattern.cpp *)

LEMMA ObsParameters ==
  None \notin Timers /\ None \notin Clocks /\ Timers \cap Clocks = {} /\ MaxMeddle \in Nat
BY Assumptions DEF Observers!ObserverAssumption

Has(s, c)  == \E i \in 1 .. Len(s) : s[i] = c
Once(s, c) == \A i, j \in 1 .. Len(s) : s[i] = c /\ s[j] = c => i = j

(* attach() adds one entry, and none of another clock.                     *)
LEMMA AppendEntries ==
  ASSUME NEW S, NEW s \in Seq(S), NEW c \in S, NEW d \in S
  PROVE  /\ Append(s, c) \in Seq(S)
         /\ d # c => /\ Has(Append(s, c), d) <=> Has(s, d)
                     /\ Once(s, d) => Once(Append(s, c), d)
         /\ ~Has(s, c) => Has(Append(s, c), c) /\ Once(Append(s, c), c)
<1> DEFINE a == Append(s, c)
<1>1. /\ a \in Seq(S) /\ Len(a) = Len(s) + 1 /\ Len(s) \in Nat
      /\ \A i \in 1 .. Len(s) : a[i] = s[i]
      /\ a[Len(s) + 1] = c
  BY AppendProperties, LenProperties
<1> HIDE DEF a
<1>2. \A i \in 1 .. Len(a) : i \in 1 .. Len(s) \/ i = Len(s) + 1 BY <1>1
<1>3. \A i \in 1 .. Len(s) : i \in 1 .. Len(a) BY <1>1
<1>4. Len(s) + 1 \in 1 .. Len(a) BY <1>1
<1>5. ASSUME d # c PROVE (Has(a, d) <=> Has(s, d)) /\ (Once(s, d) => Once(a, d))
  BY <1>1, <1>2, <1>3, <1>5 DEF Has, Once
<1>6. ASSUME ~Has(s, c) PROVE Has(a, c) /\ Once(a, c)
  BY <1>1, <1>2, <1>4, <1>6 DEF Has, Once
<1> QED BY <1>1, <1>5, <1>6 DEF a

(* erase() of the first that is found *)
LEMMA RemovedAt ==
  ASSUME NEW S, NEW s \in Seq(S), NEW c \in S, Has(s, c)
  PROVE  \E k \in 1 .. Len(s) :
           /\ s[k] = c
           /\ Observers!RemoveFirst(s, c) = SubSeq(s, 1, k - 1) \o SubSeq(s, k + 1, Len(s))
<1> DEFINE I == {i \in 1 .. Len(s) : s[i] = c}
           k == CHOOSE x \in I : \A y \in I : x =< y
<1>1. I # {} /\ I \subseteq Nat BY LenProperties DEF Has
<1>2. k \in I BY <1>1, LeastOf
<1>3. Observers!RemoveFirst(s, c) = SubSeq(s, 1, k - 1) \o SubSeq(s, k + 1, Len(s))
  BY <1>1 DEF Has, Observers!RemoveFirst, Observers!RemoveAt, Observers!SelectInSeq,
              Observers!Min
<1> QED BY <1>2, <1>3

LEMMA RemoveEntries ==
  ASSUME NEW S, NEW s \in Seq(S), NEW c \in S, NEW d \in S
  PROVE  /\ Observers!RemoveFirst(s, c) \in Seq(S)
         /\ d # c => /\ Has(Observers!RemoveFirst(s, c), d) <=> Has(s, d)
                     /\ Once(s, d) => Once(Observers!RemoveFirst(s, c), d)
         /\ Once(s, c) => ~Has(Observers!RemoveFirst(s, c), c)
<1> DEFINE q == Observers!RemoveFirst(s, c)
<1>1. CASE ~Has(s, c)
  <2>1. q = s BY <1>1 DEF Has, Observers!RemoveFirst
  <2> QED BY <1>1, <2>1
<1>2. CASE Has(s, c)
  <2>1. PICK k \in 1 .. Len(s) :
               s[k] = c /\ q = SubSeq(s, 1, k - 1) \o SubSeq(s, k + 1, Len(s))
    BY <1>2, RemovedAt
  <2> DEFINE n == Len(s)
             a == SubSeq(s, 1, k - 1)
             b == SubSeq(s, k + 1, n)
  <2>2. n \in Nat /\ k \in 1 .. n /\ \A i \in 1 .. n : s[i] \in S
    BY LenProperties, ElementOfSeq
  <2>3. a \in Seq(S) /\ Len(a) = k - 1 /\ \A i \in 1 .. k - 1 : a[i] = s[i]
    <3>1. \A i \in 1 .. k - 1 : s[i] \in S BY <2>2
    <3>2. /\ a \in Seq(S) /\ Len(a) = IF 1 <= k - 1 THEN (k - 1) - 1 + 1 ELSE 0
          /\ \A i \in 1 .. (k - 1) - 1 + 1 : a[i] = s[1 + i - 1]
      BY <2>2, <3>1, SubSeqProperties
    <3> HIDE DEF a
    <3> QED BY <2>2, <3>2
  <2>4. b \in Seq(S) /\ Len(b) = n - k /\ \A i \in 1 .. n - k : b[i] = s[k + i]
    <3>1. \A i \in k + 1 .. n : s[i] \in S BY <2>2
    <3>2. /\ b \in Seq(S) /\ Len(b) = IF k + 1 <= n THEN n - (k + 1) + 1 ELSE 0
          /\ \A i \in 1 .. n - (k + 1) + 1 : b[i] = s[(k + 1) + i - 1]
      BY <2>2, <3>1, SubSeqProperties
    <3> HIDE DEF b
    <3> QED BY <2>2, <3>2
  <2> HIDE DEF a, b, q
  <2>5. /\ q \in Seq(S) /\ Len(q) = n - 1
        /\ \A i \in 1 .. n - 1 : q[i] = IF i < k THEN s[i] ELSE s[i + 1]
    <3>1. q = a \o b BY <2>1 DEF a, b
    <3>2. /\ a \o b \in Seq(S) /\ Len(a \o b) = Len(a) + Len(b)
          /\ \A i \in 1 .. Len(a) + Len(b) :
               (a \o b)[i] = IF i <= Len(a) THEN a[i] ELSE b[i - Len(a)]
      BY <2>3, <2>4, ConcatProperties
    <3>3. Len(q) = n - 1 /\ Len(a) + Len(b) = n - 1 BY <3>1, <3>2, <2>2, <2>3, <2>4
    <3>4. ASSUME NEW i \in 1 .. n - 1 PROVE q[i] = IF i < k THEN s[i] ELSE s[i + 1]
      <4>1. q[i] = IF i <= k - 1 THEN a[i] ELSE b[i - (k - 1)]
        BY <3>1, <3>2, <3>3, <2>3
      <4>2. CASE i < k
        <5>1. i <= k - 1 /\ i \in 1 .. k - 1 BY <2>2, <4>2
        <5> QED BY <4>1, <4>2, <5>1, <2>3
      <4>3. CASE ~(i < k)
        <5>1. /\ ~(i <= k - 1) /\ i - (k - 1) \in 1 .. n - k
              /\ k + (i - (k - 1)) = i + 1
          BY <2>2, <4>3
        <5> QED BY <4>1, <4>3, <5>1, <2>4
      <4> QED BY <4>2, <4>3
    <3> QED BY <3>1, <3>2, <3>3, <3>4
  <2>6. \A i \in 1 .. n : i # k => \E j \in 1 .. n - 1 : q[j] = s[i]
    <3> SUFFICES ASSUME NEW i \in 1 .. n, i # k PROVE \E j \in 1 .. n - 1 : q[j] = s[i]
      OBVIOUS
    <3>1. CASE i < k BY <2>2, <2>5, <3>1
    <3>2. CASE i > k
      <4>1. i - 1 \in 1 .. n - 1 /\ ~(i - 1 < k) /\ (i - 1) + 1 = i BY <2>2, <3>2
      <4> QED BY <2>5, <4>1
    <3> QED BY <2>2, <3>1, <3>2
  <2>7. \A i \in 1 .. n - 1 : \E j \in 1 .. n : j # k /\ q[i] = s[j]
    BY <2>2, <2>5
  <2>8. ASSUME d # c PROVE (Has(q, d) <=> Has(s, d)) /\ (Once(s, d) => Once(q, d))
    <3>1. Len(q) = n - 1 BY <2>5
    <3>2. s[k] = c BY <2>1
    <3>3. ASSUME Has(q, d) PROVE Has(s, d)
      <4>1. PICK i \in 1 .. n - 1 : q[i] = d BY <3>1, <3>3 DEF Has
      <4> QED BY <4>1, <2>7 DEF Has
    <3>4. ASSUME Has(s, d) PROVE Has(q, d)
      <4>1. PICK i \in 1 .. n : s[i] = d BY <3>4 DEF Has
      <4>2. i # k BY <4>1, <3>2, <2>8
      <4> QED BY <4>1, <4>2, <2>6, <3>1 DEF Has
    <3>5. ASSUME Once(s, d), NEW i \in 1 .. n - 1, NEW j \in 1 .. n - 1, q[i] = d, q[j] = d
          PROVE  i = j
      <4> DEFINE Back(x) == IF x < k THEN x ELSE x + 1
      <4>1. \A x \in 1 .. n - 1 : Back(x) \in 1 .. n /\ q[x] = s[Back(x)]
        BY <2>2, <2>5
      <4>2. Back(i) = Back(j) BY <3>5, <4>1 DEF Once
      <4> QED BY <2>2, <4>2
    <3> QED BY <3>1, <3>3, <3>4, <3>5 DEF Once
  <2>9. ASSUME Once(s, c) PROVE ~Has(q, c)
    BY <2>1, <2>2, <2>5, <2>7, <2>9 DEF Has, Once
  <2> QED BY <2>5, <2>8, <2>9 DEF q
<1> QED BY <1>1, <1>2

(* A clock that is left alone is in the list of its subject, once, and in  *)
(* no other.                                                               *)
Listed(c, t) ==
  IF life[c] = "alive" /\ life[t] = "alive" /\ subject[c] = t
  THEN Has(observers[t], c) /\ Once(observers[t], c)
  ELSE ~Has(observers[t], c)

(* Such a clock knows no subject that has ended. *)
ObsInv ==
  /\ life \in [Timers \cup Clocks -> {"unmade", "alive", "deleted"}]
  /\ observers \in [Timers -> Seq(Clocks)] /\ subject \in [Clocks -> Timers \cup {None}]
  /\ meddled \subseteq Clocks /\ meddling \in 0 .. MaxMeddle /\ crashed \in BOOLEAN
  /\ \A c \in Clocks \ meddled : \A t \in Timers : Listed(c, t)
  /\ \A c \in Clocks \ meddled :
       life[c] = "alive" /\ subject[c] # None => life[subject[c]] = "alive"
  /\ crashed => meddled # {}

LEMMA ObserversSafe ==
  ASSUME ObsInv
  PROVE  Observers!TypeOK /\ Observers!Registered /\ Observers!NoUseAfterDelete
<1>1. Observers!TypeOK BY DEF ObsInv, Observers!TypeOK
<1>2. ASSUME NEW c \in Clocks \ meddled, NEW t \in Timers
      PROVE  IF Observers!Alive(c) /\ subject[c] = t /\ Observers!Alive(t)
             THEN \E i \in DOMAIN observers[t] : Observers!Entries(c, t) = {i}
             ELSE Observers!Entries(c, t) = {}
  <2>1. DOMAIN observers[t] = 1 .. Len(observers[t])
    BY LenProperties DEF ObsInv
  <2>2. Listed(c, t) BY DEF ObsInv
  <2>3. ASSUME ~Has(observers[t], c) PROVE Observers!Entries(c, t) = {}
    BY <2>1, <2>3 DEF Has, Observers!Entries
  <2>4. ASSUME Has(observers[t], c), Once(observers[t], c)
        PROVE  \E i \in DOMAIN observers[t] : Observers!Entries(c, t) = {i}
    <3>1. PICK i \in 1 .. Len(observers[t]) : observers[t][i] = c BY <2>4 DEF Has
    <3>2. Observers!Entries(c, t) = {i} BY <3>1, <2>1, <2>4 DEF Once, Observers!Entries
    <3> QED BY <3>1, <3>2, <2>1
  <2> QED BY <2>2, <2>3, <2>4 DEF Listed, Observers!Alive
<1>3. Observers!Registered BY <1>2 DEF Observers!Registered
<1>4. Observers!NoUseAfterDelete BY DEF ObsInv, Observers!NoUseAfterDelete
<1> QED BY <1>1, <1>3, <1>4

LEMMA ObserversInit ==
  ASSUME Observers!Init
  PROVE  ObsInv
<1>1. /\ life = [x \in Timers \cup Clocks |-> "unmade"]
      /\ observers = [t \in Timers |-> <<>>] /\ subject = [c \in Clocks |-> None]
      /\ meddled = {} /\ meddling = 0 /\ crashed = FALSE
  BY DEF Observers!Init
<1>2. <<>> \in Seq(Clocks) /\ Len(<<>>) = 0 BY EmptySeq
<1>3. observers \in [Timers -> Seq(Clocks)] BY <1>1, <1>2
<1>4. \A x \in Timers \cup Clocks : life[x] # "alive" BY <1>1
<1>5. \A t \in Timers, c \in Clocks : ~Has(observers[t], c)
  BY <1>1, <1>2 DEF Has
<1>6. \A t \in Timers, c \in Clocks : Listed(c, t) BY <1>4, <1>5 DEF Listed
<1>7. meddling \in 0 .. MaxMeddle BY <1>1, ObsParameters
<1> QED BY <1>1, <1>3, <1>4, <1>6, <1>7 DEF ObsInv

(* Who hears of the end or of a tick of a timer *)
LEMMA Heard ==
  ASSUME ObsInv, NEW t \in Timers, NEW with \in Timers \cup {None}, Observers!Notify(t, with)
  PROVE  /\ subject' \in [Clocks -> Timers \cup {None}]
         /\ crashed' \in BOOLEAN /\ (crashed' => meddled # {})
         /\ \A c \in Clocks :
              subject'[c] = IF Has(observers[t], c) /\ subject[c] # with THEN None
                            ELSE subject[c]
<1>1. observers[t] \in Seq(Clocks) BY DEF ObsInv
<1>2. DOMAIN observers[t] = 1 .. Len(observers[t]) BY <1>1, LenProperties
<1>3. \A c \in Clocks :
        Has(observers[t], c) <=> \E i \in DOMAIN observers[t] : observers[t][i] = c
  BY <1>2 DEF Has
<1>4. subject' = [c \in Clocks |->
                    IF (\E i \in DOMAIN observers[t] : observers[t][i] = c) /\ subject[c] # with
                    THEN None ELSE subject[c]]
  BY DEF Observers!Notify
<1>5. \A c \in Clocks :
        subject'[c] = IF Has(observers[t], c) /\ subject[c] # with THEN None ELSE subject[c]
  BY <1>3, <1>4
<1>6. subject' \in [Clocks -> Timers \cup {None}] BY <1>4 DEF ObsInv
<1>7. ASSUME NEW i \in DOMAIN observers[t], ~Observers!Alive(observers[t][i])
      PROVE  meddled # {}
  <2> DEFINE c == observers[t][i]
  <2>1. c \in Clocks BY <1>1, <1>2, ElementOfSeq
  <2>2. Has(observers[t], c) BY <1>2 DEF Has
  <2>3. c \notin meddled => Listed(c, t) BY <2>1 DEF ObsInv
  <2> QED BY <2>2, <2>3, <1>7 DEF Listed, Observers!Alive
<1>8. crashed' = (crashed \/ \E i \in DOMAIN observers[t] : ~Observers!Alive(observers[t][i]))
  BY DEF Observers!Notify
<1>9. crashed' \in BOOLEAN BY <1>8
<1>10. crashed' => meddled # {} BY <1>7, <1>8 DEF ObsInv
<1> QED BY <1>5, <1>6, <1>9, <1>10

LEMMA ObserversStep ==
  ASSUME ObsInv, Observers!Next
  PROVE  ObsInv'
<1> DEFINE Living(x)  == life[x] = "alive"
           Objects == Timers \cup Clocks
<1>1. /\ life \in [Objects -> {"unmade", "alive", "deleted"}]
      /\ observers \in [Timers -> Seq(Clocks)] /\ subject \in [Clocks -> Timers \cup {None}]
      /\ meddled \subseteq Clocks /\ meddling \in 0 .. MaxMeddle /\ crashed \in BOOLEAN
  BY DEF ObsInv
<1>2. \A c \in Clocks \ meddled : \A t \in Timers : Listed(c, t) BY DEF ObsInv
<1>3. \A c \in Clocks \ meddled : Living(c) /\ subject[c] # None => Living(subject[c])
  BY DEF ObsInv
<1>4. ~crashed BY DEF Observers!Next
<1>5. None \notin Objects /\ Timers \cap Clocks = {} /\ MaxMeddle \in Nat BY ObsParameters
<1>6. ASSUME NEW o \in Objects, NEW st \in {"unmade", "alive", "deleted"},
             life' = [life EXCEPT ![o] = st]
      PROVE  /\ life' \in [Objects -> {"unmade", "alive", "deleted"}]
             /\ \A x \in Objects : Living(x)' <=> IF x = o THEN st = "alive" ELSE Living(x)
  BY <1>1, <1>6
<1>7. ASSUME UNCHANGED life PROVE \A x \in Objects : Living(x)' <=> Living(x)
  BY <1>7
<1>8. ASSUME NEW t \in Timers, Observers!NewTimer(t) PROVE ObsInv'
  <2>1. /\ ~Living(t) /\ life' = [life EXCEPT ![t] = "alive"]
        /\ UNCHANGED <<observers, subject, meddled, meddling, crashed>>
    BY <1>8 DEF Observers!NewTimer, Observers!Alive
  <2>2. /\ life' \in [Objects -> {"unmade", "alive", "deleted"}]
        /\ \A x \in Objects : Living(x)' <=> x = t \/ Living(x)
    BY <2>1, <1>6
  <2>3. ASSUME NEW c \in Clocks \ meddled PROVE Living(c)' <=> Living(c)
    BY <2>2, <1>5
  <2>4. ASSUME NEW c \in Clocks \ meddled, NEW u \in Timers PROVE Listed(c, u)'
    <3>1. Living(c) /\ subject[c] = u => Living(u) BY <1>3, <1>5
    <3>2. Living(c)' /\ subject[c] = u /\ Living(u)' <=> Living(c) /\ subject[c] = u /\ Living(u)
      BY <3>1, <2>2, <2>3
    <3> QED BY <1>2, <2>1, <3>2 DEF Listed
  <2>5. \A c \in Clocks \ meddled :
          Living(c)' /\ subject'[c] # None => life'[subject'[c]] = "alive"
    BY <1>1, <1>3, <2>1, <2>2, <2>3
  <2> QED BY <1>1, <1>4, <2>1, <2>2, <2>4, <2>5 DEF ObsInv
<1>9. ASSUME NEW c \in Clocks, NEW t \in Timers, Observers!NewClock(c, t) PROVE ObsInv'
  <2>1. /\ ~Living(c) /\ Living(t)
        /\ life' = [life EXCEPT ![c] = "alive"] /\ subject' = [subject EXCEPT ![c] = t]
        /\ observers' = [observers EXCEPT ![t] = Append(@, c)]
        /\ UNCHANGED <<meddled, meddling, crashed>>
    BY <1>9 DEF Observers!NewClock, Observers!Alive
  <2>2. /\ life' \in [Objects -> {"unmade", "alive", "deleted"}]
        /\ \A x \in Objects : Living(x)' <=> x = c \/ Living(x)
    BY <2>1, <1>6
  <2>3. observers[t] \in Seq(Clocks) BY <1>1
  <2>4. observers' \in [Timers -> Seq(Clocks)] BY <1>1, <2>1, <2>3, AppendEntries
  <2>5. subject' \in [Clocks -> Timers \cup {None}] BY <1>1, <2>1
  <2>6. ASSUME NEW d \in Clocks \ meddled, NEW u \in Timers PROVE Listed(d, u)'
    <3>1. Listed(d, u) BY <1>2
    <3>2. observers'[u] = IF u = t THEN Append(observers[t], c) ELSE observers[u]
      BY <1>1, <2>1
    <3>3. subject'[d] = IF d = c THEN t ELSE subject[d] BY <1>1, <2>1
    <3>4. CASE d = c
      <4>1. ~Has(observers[u], c) BY <3>1, <3>4, <2>1 DEF Listed
      <4>2. u # t => ~Has(observers'[u], c) BY <4>1, <3>2
      <4>3. u = t => Has(observers'[u], c) /\ Once(observers'[u], c)
        BY <4>1, <3>2, <2>3, AppendEntries
      <4>4. Living(c)' /\ Living(t)' BY <2>1, <2>2
      <4> QED BY <3>3, <3>4, <4>2, <4>3, <4>4 DEF Listed
    <3>5. CASE d # c
      <4>1. Living(d)' <=> Living(d) BY <2>2, <3>5
      <4>2. Living(u)' <=> Living(u) BY <2>2, <1>5
      <4>3. /\ Has(observers'[u], d) <=> Has(observers[u], d)
            /\ Once(observers[u], d) => Once(observers'[u], d)
        BY <3>2, <3>5, <2>3, AppendEntries
      <4> QED BY <3>1, <3>3, <3>5, <4>1, <4>2, <4>3 DEF Listed
    <3> QED BY <3>4, <3>5
  <2>7. ASSUME NEW d \in Clocks \ meddled, Living(d)', subject'[d] # None
        PROVE  life'[subject'[d]] = "alive"
    <3>1. subject'[d] = IF d = c THEN t ELSE subject[d] BY <1>1, <2>1
    <3> QED BY <3>1, <1>1, <1>3, <2>1, <2>2, <2>7
  <2> QED BY <1>1, <1>4, <2>1, <2>2, <2>4, <2>5, <2>6, <2>7 DEF ObsInv
<1>10. ASSUME NEW c \in Clocks, Observers!DeleteClock(c) PROVE ObsInv'
  <2> DEFINE t == subject[c]
  <2>1. /\ Living(c) /\ life' = [life EXCEPT ![c] = "deleted"]
        /\ observers' = IF t = None \/ ~Living(t) THEN observers
                        ELSE [observers EXCEPT ![t] = Observers!RemoveFirst(@, c)]
        /\ crashed' = (crashed \/ (t # None /\ ~Living(t)))
        /\ UNCHANGED <<subject, meddled, meddling>>
    BY <1>10 DEF Observers!DeleteClock, Observers!Alive
  <2>2. /\ life' \in [Objects -> {"unmade", "alive", "deleted"}]
        /\ \A x \in Objects : Living(x)' <=> x # c /\ Living(x)
    BY <2>1, <1>6
  <2>3. t \in Timers \cup {None} BY <1>1
  <2>4. crashed' \in BOOLEAN /\ (crashed' => meddled # {})
    <3>1. crashed' => t # None /\ ~Living(t) BY <2>1, <1>4
    <3>2. c \notin meddled => (t # None => Living(t)) BY <1>3, <2>1
    <3> QED BY <3>1, <3>2, <2>1
  <2>5. \A u \in Timers : observers'[u] = IF u = t /\ Living(t)
                            THEN Observers!RemoveFirst(observers[u], c) ELSE observers[u]
    BY <1>1, <1>5, <2>1, <2>3
  <2>6. observers' \in [Timers -> Seq(Clocks)]
    <3>1. CASE t = None \/ ~Living(t) BY <3>1, <2>1, <1>1
    <3>2. CASE ~(t = None \/ ~Living(t))
      <4>1. t \in Timers BY <2>3, <3>2
      <4>2. Observers!RemoveFirst(observers[t], c) \in Seq(Clocks)
        BY <4>1, <1>1, RemoveEntries
      <4> QED BY <3>2, <4>1, <4>2, <2>1, <1>1
    <3> QED BY <3>1, <3>2
  <2>7. ASSUME NEW d \in Clocks \ meddled, NEW u \in Timers PROVE Listed(d, u)'
    <3>1. Listed(d, u) BY <1>2
    <3>2. observers[u] \in Seq(Clocks) BY <1>1
    <3>3. subject'[d] = subject[d] BY <2>1
    <3>4. Living(u)' <=> Living(u) BY <2>2, <1>5
    <3>5. CASE d = c
      <4>1. ~Living(c)' BY <2>2
      <4>2. ~Has(observers'[u], c)
        <5>1. CASE u = t /\ Living(t)
          <6>1. Once(observers[u], c) BY <5>1, <3>1, <3>5, <2>1 DEF Listed
          <6> QED BY <5>1, <6>1, <2>5, <3>2, RemoveEntries
        <5>2. CASE ~(u = t /\ Living(t))
          <6>1. ~Has(observers[u], c) BY <5>2, <3>1, <3>5 DEF Listed
          <6> QED BY <5>2, <6>1, <2>5
        <5> QED BY <5>1, <5>2
      <4> QED BY <3>5, <4>1, <4>2 DEF Listed
    <3>6. CASE d # c
      <4>1. Living(d)' <=> Living(d) BY <2>2, <3>6
      <4>2. /\ Has(observers'[u], d) <=> Has(observers[u], d)
            /\ Once(observers[u], d) => Once(observers'[u], d)
        <5>1. CASE u = t /\ Living(t) BY <5>1, <2>5, <3>2, <3>6, RemoveEntries
        <5>2. CASE ~(u = t /\ Living(t)) BY <5>2, <2>5
        <5> QED BY <5>1, <5>2
      <4> QED BY <3>1, <3>3, <3>4, <4>1, <4>2 DEF Listed
    <3> QED BY <3>5, <3>6
  <2>8. ASSUME NEW d \in Clocks \ meddled, Living(d)', subject'[d] # None
        PROVE  life'[subject'[d]] = "alive"
    <3>1. subject'[d] = subject[d] /\ subject[d] \in Timers BY <2>1, <2>8, <1>1
    <3>2. subject[d] # c BY <3>1, <1>5
    <3> QED BY <3>1, <3>2, <1>3, <2>2, <2>8
  <2> QED BY <1>1, <2>1, <2>2, <2>4, <2>6, <2>7, <2>8 DEF ObsInv
<1>11. ASSUME NEW t \in Timers, Observers!Tick(t) PROVE ObsInv'
  <2>1. Living(t) /\ Observers!Notify(t, t) /\ UNCHANGED <<life, observers, meddled, meddling>>
    BY <1>11 DEF Observers!Tick, Observers!Alive
  <2>2. /\ subject' \in [Clocks -> Timers \cup {None}]
        /\ crashed' \in BOOLEAN /\ (crashed' => meddled # {})
        /\ \A c \in Clocks :
             subject'[c] = IF Has(observers[t], c) /\ subject[c] # t THEN None ELSE subject[c]
    BY <2>1, Heard
  <2>3. \A x \in Objects : Living(x)' <=> Living(x) BY <2>1, <1>7
  <2>4. ASSUME NEW c \in Clocks \ meddled PROVE subject'[c] = subject[c]
    <3>1. Listed(c, t) BY <1>2
    <3> QED BY <3>1, <2>2 DEF Listed
  <2>5. ASSUME NEW c \in Clocks \ meddled, NEW u \in Timers PROVE Listed(c, u)'
    BY <1>2, <2>1, <2>3, <2>4 DEF Listed
  <2>6. ASSUME NEW c \in Clocks \ meddled, Living(c)', subject'[c] # None
        PROVE  life'[subject'[c]] = "alive"
    BY <2>6, <1>1, <1>3, <2>3, <2>4
  <2> QED BY <1>1, <2>1, <2>2, <2>5, <2>6 DEF ObsInv
<1>12. ASSUME NEW t \in Timers, Observers!DeleteTimer(t) PROVE ObsInv'
  <2>1. /\ Living(t) /\ life' = [life EXCEPT ![t] = "deleted"] /\ Observers!Notify(t, None)
        /\ observers' = [observers EXCEPT ![t] = <<>>] /\ UNCHANGED <<meddled, meddling>>
    BY <1>12 DEF Observers!DeleteTimer, Observers!Alive
  <2>2. /\ subject' \in [Clocks -> Timers \cup {None}]
        /\ crashed' \in BOOLEAN /\ (crashed' => meddled # {})
        /\ \A c \in Clocks :
             subject'[c] = IF Has(observers[t], c) /\ subject[c] # None THEN None ELSE subject[c]
    BY <2>1, Heard
  <2>3. /\ life' \in [Objects -> {"unmade", "alive", "deleted"}]
        /\ \A x \in Objects : Living(x)' <=> x # t /\ Living(x)
    BY <2>1, <1>6
  <2>4. <<>> \in Seq(Clocks) /\ Len(<<>>) = 0 BY EmptySeq
  <2>5. observers' \in [Timers -> Seq(Clocks)] BY <1>1, <2>1, <2>4
  <2>6. ASSUME NEW c \in Clocks \ meddled
        PROVE  /\ Living(c)' <=> Living(c)
               /\ Living(c) => subject'[c] = IF subject[c] = t THEN None ELSE subject[c]
    <3>1. Listed(c, t) BY <1>2
    <3>2. Living(c)' <=> Living(c) BY <2>3, <1>5
    <3> QED BY <3>1, <3>2, <2>1, <2>2, <1>5 DEF Listed
  <2>7. ASSUME NEW c \in Clocks \ meddled, NEW u \in Timers PROVE Listed(c, u)'
    <3>1. Listed(c, u) BY <1>2
    <3>2. Living(u)' <=> u # t /\ Living(u) BY <2>3
    <3>3. CASE u = t
      <4>1. observers'[u] = <<>> BY <1>1, <2>1, <3>3
      <4>2. ~Has(observers'[u], c) BY <4>1, <2>4 DEF Has
      <4> QED BY <3>2, <3>3, <4>2 DEF Listed
    <3>4. CASE u # t
      <4>1. observers'[u] = observers[u] BY <1>1, <2>1, <3>4
      <4>2. Living(c) => (subject'[c] = u <=> subject[c] = u) BY <2>6, <3>4, <1>5
      <4> QED BY <3>1, <3>2, <3>4, <4>1, <4>2, <2>6 DEF Listed
    <3> QED BY <3>3, <3>4
  <2>8. ASSUME NEW c \in Clocks \ meddled, Living(c)', subject'[c] # None
        PROVE  life'[subject'[c]] = "alive"
    <3>1. subject'[c] = subject[c] /\ subject[c] # t BY <2>6, <2>8
    <3>2. subject[c] \in Timers /\ Living(subject[c]) BY <1>1, <1>3, <2>6, <2>8, <3>1
    <3> QED BY <3>1, <3>2, <2>3
  <2> QED BY <1>1, <2>1, <2>2, <2>3, <2>5, <2>7, <2>8 DEF ObsInv
<1>13. ASSUME NEW c \in Clocks, NEW t \in Timers, NEW q \in Seq(Clocks),
              /\ Observers!Meddle(c) /\ observers' = [observers EXCEPT ![t] = q]
              /\ UNCHANGED <<life, subject, crashed>>,
              \A d \in Clocks : d # c => /\ Has(q, d) <=> Has(observers[t], d)
                                         /\ Once(observers[t], d) => Once(q, d)
       PROVE  ObsInv'
  <2>1. meddled' = meddled \cup {c} /\ meddling' \in 0 .. MaxMeddle
    BY <1>13, <1>1, <1>5 DEF Observers!Meddle
  <2>2. \A x \in Objects : Living(x)' <=> Living(x) BY <1>13, <1>7
  <2>3. observers' \in [Timers -> Seq(Clocks)] BY <1>1, <1>13
  <2>4. ASSUME NEW d \in Clocks \ meddled', NEW u \in Timers PROVE Listed(d, u)'
    <3>1. d # c /\ Listed(d, u) BY <1>2, <2>1
    <3>2. /\ Has(observers'[u], d) <=> Has(observers[u], d)
          /\ Once(observers[u], d) => Once(observers'[u], d)
      BY <1>1, <1>13, <3>1
    <3> QED BY <1>13, <2>2, <3>1, <3>2 DEF Listed
  <2>5. ASSUME NEW d \in Clocks \ meddled', Living(d)', subject'[d] # None
        PROVE  life'[subject'[d]] = "alive"
    BY <2>1, <2>2, <2>5, <1>1, <1>3, <1>13
  <2> QED BY <1>1, <1>4, <1>13, <2>1, <2>3, <2>4, <2>5 DEF ObsInv
<1>14. ASSUME NEW c \in Clocks, NEW t \in Timers, Observers!UserAttach(c, t) PROVE ObsInv'
  <2>1. observers[t] \in Seq(Clocks) BY <1>1
  <2>2. /\ Append(observers[t], c) \in Seq(Clocks)
        /\ \A d \in Clocks : d # c =>
             /\ Has(Append(observers[t], c), d) <=> Has(observers[t], d)
             /\ Once(observers[t], d) => Once(Append(observers[t], c), d)
    BY <2>1, AppendEntries
  <2>3. /\ Observers!Meddle(c) /\ observers' = [observers EXCEPT ![t] = Append(observers[t], c)]
        /\ UNCHANGED <<life, subject, crashed>>
    BY <1>14 DEF Observers!UserAttach
  <2> QED BY <2>2, <2>3, <1>13
<1>15. ASSUME NEW c \in Clocks, NEW t \in Timers, Observers!UserDetach(c, t) PROVE ObsInv'
  <2> DEFINE q == Observers!RemoveFirst(observers[t], c)
  <2>1. observers[t] \in Seq(Clocks) BY <1>1
  <2>2. /\ q \in Seq(Clocks)
        /\ \A d \in Clocks : d # c => /\ Has(q, d) <=> Has(observers[t], d)
                                      /\ Once(observers[t], d) => Once(q, d)
    BY <2>1, RemoveEntries
  <2>3. /\ Observers!Meddle(c) /\ observers' = [observers EXCEPT ![t] = q]
        /\ UNCHANGED <<life, subject, crashed>>
    BY <1>15 DEF Observers!UserDetach
  <2> QED BY <2>2, <2>3, <1>13
<1> QED BY <1>8, <1>9, <1>10, <1>11, <1>12, <1>14, <1>15 DEF Observers!Next
-----------------------------------------------------------------------------
(* Prototype.cpp, AbstractFactory.cpp, FactoryMethod.cpp                    *)

LEMMA MazeParameters == MaxMazes \in Nat /\ MaxChanges \in Nat
BY Assumptions DEF Maze!MazeAssumption

RoomClass  == {"room", "room with bomb"}
Openable   == {"bombed wall", "door"}
RoomSort   == [class : RoomClass, no : Nat, sides : [Maze!Directions -> Nat]]
DoorSort   == [class : {"door"}, rooms : Nat \X Nat, open : BOOLEAN]
WallSort   == [class : {"wall"}]
BombedSort == [class : {"bombed wall"}, open : BOOLEAN]
Site       == RoomSort \cup DoorSort \cup WallSort \cup BombedSort

Size == Len(sites)

(* The heap, with the prototypes at its beginning *)
Heap(h) ==
  /\ h \in Seq(Site) /\ Len(h) >= 3
  /\ h[1].class \in RoomClass /\ h[2].class \in {"wall", "bombed wall"}
  /\ h[3].class = "door"
  /\ \A s \in 1 .. Len(h) :
       h[s].class \in RoomClass => h[s].sides \in [Maze!Directions -> 0 .. Len(h)]

IsRoom(h, s) == s \in 1 .. Len(h) /\ h[s].class \in RoomClass

(* Mazes are made of rooms, and walls that a bomb has opened are open.     *)
OfRooms == mazes \in Seq(Seq(Nat)) /\ Len(mazes) >= 1
           /\ \A m \in 1 .. Len(mazes) : \A i \in 1 .. Len(mazes[m]) : IsRoom(sites, mazes[m][i])

Opens == /\ tied \in BOOLEAN /\ touched \subseteq 1 .. Size /\ blown \subseteq 1 .. Size
         /\ \A s \in blown : sites[s].class \in Openable /\ sites[s].open = TRUE

(* The sites of a maze follow each other as CreateMaze makes them. *)
MazeAt(h, q, n) ==
  /\ q = <<n + 1, n + 2>> /\ n >= 3 /\ n + 9 <= Len(h)
  /\ h[n + 1].class \in RoomClass /\ h[n + 2].class \in RoomClass
  /\ h[n + 1].sides[1] = n + 4 /\ h[n + 1].sides[2] = n + 5
  /\ h[n + 1].sides[3] = n + 3 /\ h[n + 1].sides[4] = n + 6
  /\ h[n + 2].sides[1] = n + 7 /\ h[n + 2].sides[2] = n + 8
  /\ h[n + 2].sides[3] = n + 9 /\ h[n + 2].sides[4] = n + 3
  /\ h[n + 3].class = "door" /\ h[n + 3].open = TRUE
  /\ h[n + 3].rooms = <<n + 1, n + 2>>

(* While the user has rewired nothing, a maze is as it was made, and the   *)
(* sites of two mazes follow each other.                                   *)
Laid ==
  ~tied =>
    /\ mazes[1] = <<>>
    /\ \A m \in 1 .. Len(mazes) : mazes[m] = <<>> \/ \E n \in Nat : MazeAt(sites, mazes[m], n)
    /\ \A m, k \in 1 .. Len(mazes) :
         m < k /\ mazes[m] # <<>> /\ mazes[k] # <<>> => mazes[m][1] + 9 <= mazes[k][1]

(* And an open wall has been opened by the user or next to a room that he  *)
(* has touched, or is the copy of one.                                     *)
Reasoned ==
  ~tied => \A s \in 1 .. Size :
    sites[s].class = "bombed wall" /\ sites[s].open = TRUE =>
      \/ s \in touched
      \/ \E q \in touched : IsRoom(sites, q) /\ \E d \in Maze!Directions : sites[q].sides[d] = s

MazeInv == Heap(sites) /\ OfRooms /\ Opens /\ Laid /\ Reasoned

LEMMA FourWays == Maze!Directions = {1, 2, 3, 4}
BY DEF Maze!Directions, Maze!North, Maze!South, Maze!East, Maze!West

LEMMA SiteForms ==
  ASSUME NEW x \in Site
  PROVE  /\ x.class \in RoomClass \cup Openable \cup {"wall"}
         /\ x.class \in RoomClass => x \in RoomSort
         /\ x.class = "door" => x \in DoorSort
         /\ x.class = "bombed wall" => x \in BombedSort
         /\ x.class \in Openable => x.open \in BOOLEAN
BY DEF Site, RoomSort, DoorSort, WallSort, BombedSort, RoomClass, Openable

LEMMA SiteAt ==
  ASSUME Heap(sites)
  PROVE  /\ Size \in Nat /\ DOMAIN sites = 1 .. Size
         /\ \A s \in 1 .. Size : sites[s] \in Site
BY LenProperties, ElementOfSeq DEF Heap, Size

LEMMA RoomsAre ==
  ASSUME Heap(sites)
  PROVE  \A s : s \in Maze!Rooms <=> IsRoom(sites, s)
BY SiteAt DEF Maze!Rooms, IsRoom, RoomClass, Size

LEMMA PairOf ==
  ASSUME NEW a, NEW b
  PROVE  /\ DOMAIN <<a, b>> = 1 .. 2 /\ Len(<<a, b>>) = 2 /\ <<a, b>> # <<>>
         /\ <<a, b>>[1] = a /\ <<a, b>>[2] = b
OBVIOUS

LEMMA MazeOf ==
  ASSUME NEW n \in Nat, NEW q, MazeAt(sites, q, n)
  PROVE  /\ DOMAIN q = 1 .. 2 /\ Len(q) = 2 /\ q # <<>> /\ q[1] = n + 1 /\ q[2] = n + 2
         /\ Maze!Sides(n + 1) = {n + 3, n + 4, n + 5, n + 6}
         /\ Maze!Sides(n + 2) = {n + 3, n + 7, n + 8, n + 9}
<1>1. q = <<n + 1, n + 2>> BY DEF MazeAt
<1>2. /\ sites[n + 1].sides[1] = n + 4 /\ sites[n + 1].sides[2] = n + 5
      /\ sites[n + 1].sides[3] = n + 3 /\ sites[n + 1].sides[4] = n + 6
      /\ sites[n + 2].sides[1] = n + 7 /\ sites[n + 2].sides[2] = n + 8
      /\ sites[n + 2].sides[3] = n + 9 /\ sites[n + 2].sides[4] = n + 3
  BY DEF MazeAt
<1>3. \A x : Maze!Sides(x) = {sites[x].sides[1], sites[x].sides[2],
                             sites[x].sides[3], sites[x].sides[4]}
  BY FourWays DEF Maze!Sides
<1>4. Maze!Sides(n + 1) = {n + 3, n + 4, n + 5, n + 6} BY <1>2, <1>3
<1>5. Maze!Sides(n + 2) = {n + 3, n + 7, n + 8, n + 9} BY <1>2, <1>3
<1>6. DOMAIN q = 1 .. 2 /\ Len(q) = 2 /\ q # <<>> /\ q[1] = n + 1 /\ q[2] = n + 2
  BY <1>1, PairOf
<1> QED BY <1>4, <1>5, <1>6

LEMMA PartsOf ==
  ASSUME MazeInv, ~tied, NEW m \in 1 .. Len(mazes)
  PROVE  /\ mazes[m] = <<>> => Maze!Parts(m) = {}
         /\ \A n \in Nat : MazeAt(sites, mazes[m], n) => Maze!Parts(m) \subseteq n + 1 .. n + 9
<1>1. ASSUME mazes[m] = <<>> PROVE Maze!Parts(m) = {}
  BY <1>1 DEF Maze!Parts, Maze!RoomsOf
<1>2. ASSUME NEW n \in Nat, MazeAt(sites, mazes[m], n) PROVE Maze!Parts(m) \subseteq n + 1 .. n + 9
  <2>1. DOMAIN mazes[m] = 1 .. 2 /\ mazes[m][1] = n + 1 /\ mazes[m][2] = n + 2
    BY <1>2, MazeOf
  <2>2. Maze!RoomsOf(m) = {n + 1, n + 2} BY <2>1 DEF Maze!RoomsOf
  <2>3. Maze!Sides(n + 1) \subseteq n + 1 .. n + 9 BY <1>2, MazeOf
  <2>4. Maze!Sides(n + 2) \subseteq n + 1 .. n + 9 BY <1>2, MazeOf
  <2> QED BY <2>2, <2>3, <2>4 DEF Maze!Parts
<1> QED BY <1>1, <1>2

LEMMA MazesSafe ==
  ASSUME MazeInv
  PROVE  /\ Maze!TypeOK /\ Maze!Apart /\ Maze!DoorsLead
         /\ Maze!BlownOpen /\ Maze!OpenForAReason
<1>1. /\ Size \in Nat /\ DOMAIN sites = 1 .. Size
      /\ \A s \in 1 .. Size : sites[s] \in Site
      /\ \A s : s \in Maze!Rooms <=> IsRoom(sites, s)
  BY SiteAt, RoomsAre DEF MazeInv
<1>2. DOMAIN mazes = 1 .. Len(mazes) /\ Len(mazes) \in Nat
      /\ \A m \in 1 .. Len(mazes) : DOMAIN mazes[m] = 1 .. Len(mazes[m])
  BY LenProperties, ElementOfSeq DEF MazeInv, OfRooms
<1>3. Maze!TypeOK
  <2>1. ASSUME NEW s \in 1 .. Size
        PROVE  /\ sites[s].class \in {"room", "room with bomb", "wall", "bombed wall", "door"}
               /\ s \in Maze!Rooms => sites[s].sides \in [Maze!Directions -> {0} \cup DOMAIN sites]
               /\ sites[s].class \in {"bombed wall", "door"} => sites[s].open \in BOOLEAN
    <3>1. sites[s] \in Site BY <1>1
    <3>2. 0 .. Size = {0} \cup DOMAIN sites BY <1>1
    <3>3. s \in Maze!Rooms => sites[s].sides \in [Maze!Directions -> 0 .. Size]
      BY <1>1 DEF MazeInv, Heap, IsRoom, Size
    <3> QED BY <3>1, <3>2, <3>3, SiteForms DEF RoomClass, Openable
  <2>2. \A m \in DOMAIN mazes : \A i \in DOMAIN mazes[m] : mazes[m][i] \in Maze!Rooms
    BY <1>1, <1>2 DEF MazeInv, OfRooms
  <2>3. touched \cup blown \subseteq DOMAIN sites BY <1>1 DEF MazeInv, Opens
  <2> QED BY <2>1, <2>2, <2>3, <1>1 DEF Maze!TypeOK, Maze!Null
<1>4. Maze!Apart
  <2> SUFFICES ASSUME ~tied, NEW m \in 1 .. Len(mazes)
      PROVE  /\ Maze!Parts(m) \cap (Maze!Prototypes \cup {Maze!Null}) = {}
             /\ \A k \in 1 .. Len(mazes) \ {m} : Maze!Parts(m) \cap Maze!Parts(k) = {}
    BY <1>2 DEF Maze!Apart
  <2>1. CASE mazes[m] = <<>> BY <2>1, PartsOf
  <2>2. CASE mazes[m] # <<>>
    <3>1. PICK n \in Nat : MazeAt(sites, mazes[m], n) BY <2>2 DEF MazeInv, Laid
    <3>2. Maze!Parts(m) \subseteq n + 1 .. n + 9 /\ n >= 3 /\ mazes[m][1] = n + 1
      <4>1. Maze!Parts(m) \subseteq n + 1 .. n + 9 BY <3>1, PartsOf
      <4>2. mazes[m][1] = n + 1 BY <3>1, MazeOf
      <4> QED BY <3>1, <4>1, <4>2 DEF MazeAt
    <3>3. Maze!Parts(m) \cap (Maze!Prototypes \cup {Maze!Null}) = {}
      <4>1. Maze!Prototypes \cup {Maze!Null} = {0, 1, 2, 3}
        BY DEF Maze!Prototypes, Maze!Null, Maze!RoomPrototype, Maze!WallPrototype,
               Maze!DoorPrototype
      <4>2. \A x \in n + 1 .. n + 9 : x \notin {0, 1, 2, 3} BY <3>2
      <4> QED BY <3>2, <4>1, <4>2
    <3>4. ASSUME NEW k \in 1 .. Len(mazes) \ {m}
          PROVE  Maze!Parts(m) \cap Maze!Parts(k) = {}
      <4>1. CASE mazes[k] = <<>> BY <4>1, PartsOf
      <4>2. CASE mazes[k] # <<>>
        <5>1. PICK j \in Nat : MazeAt(sites, mazes[k], j) BY <4>2 DEF MazeInv, Laid
        <5>2. Maze!Parts(k) \subseteq j + 1 .. j + 9 /\ mazes[k][1] = j + 1
          <6>1. Maze!Parts(k) \subseteq j + 1 .. j + 9 BY <5>1, PartsOf
          <6>2. mazes[k][1] = j + 1 BY <5>1, MazeOf
          <6> QED BY <6>1, <6>2
        <5>3. m < k \/ k < m BY <1>2
        <5>4. n + 9 <= j \/ j + 9 <= n
          <6>1. m < k => mazes[m][1] + 9 <= mazes[k][1] BY <2>2, <4>2 DEF MazeInv, Laid
          <6>2. k < m => mazes[k][1] + 9 <= mazes[m][1] BY <2>2, <4>2 DEF MazeInv, Laid
          <6> QED BY <5>3, <6>1, <6>2, <3>2, <5>2
        <5> QED BY <3>2, <5>2, <5>4
      <4> QED BY <4>1, <4>2
    <3> QED BY <3>3, <3>4
  <2> QED BY <2>1, <2>2
<1>5. Maze!DoorsLead
  <2> SUFFICES ASSUME ~tied, NEW m \in 1 .. Len(mazes), mazes[m] # <<>>
      PROVE  LET a == mazes[m][1] b == mazes[m][2] d == sites[a].sides[Maze!East]
             IN /\ d = sites[b].sides[Maze!West] /\ sites[d].class = "door" /\ sites[d].open
                /\ Maze!Sides(a) \cap Maze!Sides(b) = {d}
                /\ Maze!OtherSideFrom(d, a) = b /\ Maze!OtherSideFrom(d, b) = a
    BY <1>2 DEF Maze!DoorsLead
  <2>1. PICK n \in Nat : MazeAt(sites, mazes[m], n) BY DEF MazeInv, Laid
  <2>2. mazes[m][1] = n + 1 /\ mazes[m][2] = n + 2 BY <2>1, MazeOf
  <2>3. sites[n + 1].sides[Maze!East] = n + 3 /\ sites[n + 2].sides[Maze!West] = n + 3
    BY <2>1 DEF MazeAt, Maze!East, Maze!West
  <2>4. sites[n + 3].class = "door" /\ sites[n + 3].open BY <2>1 DEF MazeAt
  <2>5. Maze!Sides(n + 1) = {n + 3, n + 4, n + 5, n + 6} BY <2>1, MazeOf
  <2>6. Maze!Sides(n + 2) = {n + 3, n + 7, n + 8, n + 9} BY <2>1, MazeOf
  <2>7. Maze!Sides(n + 1) \cap Maze!Sides(n + 2) = {n + 3} BY <2>5, <2>6
  <2>8. sites[n + 3].rooms[1] = n + 1 /\ sites[n + 3].rooms[2] = n + 2
    BY <2>1, PairOf DEF MazeAt
  <2>9. Maze!OtherSideFrom(n + 3, n + 1) = n + 2 /\ Maze!OtherSideFrom(n + 3, n + 2) = n + 1
    BY <2>8 DEF Maze!OtherSideFrom
  <2> QED BY <2>2, <2>3, <2>4, <2>7, <2>9
<1>6. Maze!BlownOpen BY DEF MazeInv, Opens, Maze!BlownOpen
<1>7. Maze!OpenForAReason
  <2> SUFFICES ASSUME ~tied, NEW s \in 1 .. Size, sites[s].class = "bombed wall",
                      Maze!IsOpen(s)
               PROVE  s \in touched \/ \E q \in touched \cap Maze!Rooms : s \in Maze!Sides(q)
    BY <1>1 DEF Maze!OpenForAReason
  <2>1. sites[s] \in Site /\ sites[s].open BY <1>1 DEF Maze!IsOpen
  <2>2. sites[s].open = TRUE BY <2>1, SiteForms DEF Openable
  <2>3. \/ s \in touched
        \/ \E q \in touched :
             IsRoom(sites, q) /\ \E d \in Maze!Directions : sites[q].sides[d] = s
    BY <2>2 DEF MazeInv, Reasoned
  <2>4. ASSUME NEW q \in touched, IsRoom(sites, q), NEW d \in Maze!Directions, sites[q].sides[d] = s
        PROVE  q \in touched \cap Maze!Rooms /\ s \in Maze!Sides(q)
    BY <2>4, <1>1 DEF Maze!Sides
  <2> QED BY <2>3, <2>4
<1> QED BY <1>3, <1>4, <1>5, <1>6, <1>7

(* What a step leaves of the sites that are there: the class, doors and    *)
(* open walls, and the sides of the rooms that are not in X.               *)
Kept(h, g, X) ==
  /\ Len(g) >= Len(h)
  /\ \A s \in 1 .. Len(h) :
       /\ g[s].class = h[s].class
       /\ h[s].class \in Openable /\ h[s].open = TRUE => g[s].open = TRUE
       /\ h[s].class = "door" => g[s].rooms = h[s].rooms
       /\ h[s].class \in RoomClass /\ s \notin X => g[s].sides = h[s].sides

LEMMA KeptMaze ==
  ASSUME NEW h, NEW g, NEW X, Heap(h), Heap(g), Kept(h, g, X), X \subseteq {1},
         NEW q, NEW n \in Nat, MazeAt(h, q, n)
  PROVE  MazeAt(g, q, n)
<1>1. Len(h) \in Nat /\ Len(g) \in Nat /\ Len(g) >= Len(h) BY LenProperties DEF Heap, Kept
<1>2. q = <<n + 1, n + 2>> /\ n >= 3 /\ n + 9 <= Len(h) BY DEF MazeAt
<1>3. /\ n + 1 \in 1 .. Len(h) /\ n + 2 \in 1 .. Len(h) /\ n + 3 \in 1 .. Len(h)
      /\ n + 1 \notin X /\ n + 2 \notin X
  BY <1>1, <1>2
<1>4. n + 9 <= Len(g) BY <1>1, <1>2
<1>5. g[n + 1].class \in RoomClass /\ g[n + 1].sides = h[n + 1].sides
  BY <1>3 DEF Kept, MazeAt
<1>6. g[n + 2].class \in RoomClass /\ g[n + 2].sides = h[n + 2].sides
  BY <1>3 DEF Kept, MazeAt
<1>7. g[n + 3].class = "door" /\ g[n + 3].open = TRUE /\ g[n + 3].rooms = <<n + 1, n + 2>>
  BY <1>3 DEF Kept, MazeAt, Openable
<1> QED BY <1>2, <1>4, <1>5, <1>6, <1>7 DEF MazeAt

LEMMA KeptRoom ==
  ASSUME NEW h, NEW g, NEW X, Heap(h), Heap(g), Kept(h, g, X), NEW s, IsRoom(h, s)
  PROVE  IsRoom(g, s)
<1>1. Len(h) \in Nat /\ Len(g) \in Nat /\ Len(g) >= Len(h) BY LenProperties DEF Heap, Kept
<1> QED BY <1>1 DEF IsRoom, Kept

LEMMA SameMazes ==
  ASSUME MazeInv, NEW X, Kept(sites, sites', X), Heap(sites'), mazes' = mazes,
         ~tied' => ~tied /\ X \subseteq {1}
  PROVE  OfRooms' /\ Laid'
<1>1. Heap(sites) BY DEF MazeInv
<1>2. OfRooms' BY <1>1, KeptRoom DEF MazeInv, OfRooms
<1>3. Laid'
  <2> SUFFICES ASSUME ~tied' PROVE Laid' BY DEF Laid
  <2>1. X \subseteq {1} OBVIOUS
  <2>2. \A q : \A n \in Nat : MazeAt(sites, q, n) => MazeAt(sites', q, n)
    BY <1>1, <2>1, KeptMaze
  <2> QED BY <2>2 DEF MazeInv, Laid
<1> QED BY <1>2, <1>3

LEMMA Wider == \A a, b \in Nat : a <= b => \A s \in 1 .. a : s \in 1 .. b
OBVIOUS

LEMMA MazeFrame ==
  ASSUME MazeInv, NEW X, Kept(sites, sites', X), Heap(sites'), OfRooms', Laid',
         tied' \in BOOLEAN, touched \subseteq touched', touched' \subseteq 1 .. Len(sites'),
         ~tied' => ~tied /\ X \cap touched = {},
         \A s \in blown' \ blown :
           s \in 1 .. Size /\ sites'[s].class \in Openable /\ sites'[s].open = TRUE,
         ~tied' => \A s \in 1 .. Len(sites') :
           sites'[s].class = "bombed wall" /\ sites'[s].open = TRUE =>
             \/ s \in touched'
             \/ \E q \in touched' : IsRoom(sites', q) /\ \E d \in Maze!Directions :
                                                            sites'[q].sides[d] = s
             \/ s \in 1 .. Size /\ sites[s].class = "bombed wall" /\ sites[s].open = TRUE
  PROVE  MazeInv'
<1>1. Heap(sites) BY DEF MazeInv
<1>2. Len(sites) \in Nat /\ Len(sites') \in Nat /\ Len(sites') >= Len(sites)
  BY <1>1, LenProperties DEF Heap, Kept
<1>3. Opens'
  <2>1. \A s \in 1 .. Size : s \in 1 .. Len(sites')
    <3>1. Size \in Nat /\ Size <= Len(sites') BY <1>2 DEF Size
    <3> QED BY <3>1, <1>2, Wider
  <2>2. ASSUME NEW s \in blown'
        PROVE  s \in 1 .. Len(sites') /\ sites'[s].class \in Openable /\ sites'[s].open = TRUE
    <3>1. CASE s \in blown
      <4>1. s \in 1 .. Size /\ sites[s].class \in Openable /\ sites[s].open = TRUE
        BY <3>1 DEF MazeInv, Opens
      <4>2. s \in 1 .. Len(sites') BY <4>1, <2>1
      <4>3. sites'[s].class = sites[s].class /\ sites'[s].open = TRUE BY <4>1 DEF Kept, Size
      <4> QED BY <4>1, <4>2, <4>3
    <3>2. CASE s \notin blown
      <4>1. s \in 1 .. Size /\ sites'[s].class \in Openable /\ sites'[s].open = TRUE
        BY <3>2
      <4> QED BY <4>1, <2>1
    <3> QED BY <3>1, <3>2
  <2> QED BY <2>2 DEF Opens, Size
<1>4. Reasoned'
  <2> SUFFICES ASSUME ~tied', NEW s \in 1 .. Len(sites'),
                      sites'[s].class = "bombed wall", sites'[s].open = TRUE
               PROVE  \/ s \in touched'
                      \/ \E q \in touched' : IsRoom(sites', q) /\ \E d \in Maze!Directions :
                                                                     sites'[q].sides[d] = s
    BY DEF Reasoned, Size
  <2>1. CASE s \in 1 .. Size /\ sites[s].class = "bombed wall" /\ sites[s].open = TRUE
    <3>1. \/ s \in touched
          \/ \E q \in touched : IsRoom(sites, q) /\ \E d \in Maze!Directions :
                                                       sites[q].sides[d] = s
      BY <2>1 DEF MazeInv, Reasoned
    <3>2. ASSUME NEW q \in touched, IsRoom(sites, q), NEW d \in Maze!Directions,
                 sites[q].sides[d] = s
          PROVE  q \in touched' /\ IsRoom(sites', q) /\ sites'[q].sides[d] = s
      <4>1. IsRoom(sites', q) BY <3>2, <1>1, KeptRoom
      <4>2. q \notin X OBVIOUS
      <4>3. sites'[q].sides = sites[q].sides BY <3>2, <4>2 DEF Kept, IsRoom
      <4> QED BY <3>2, <4>1, <4>3
    <3> QED BY <3>1, <3>2
  <2> QED BY <2>1
<1> QED BY <1>3, <1>4 DEF MazeInv

LEMMA OpenedSites ==
  ASSUME Heap(sites), NEW S, \A s \in S : s \in 1 .. Size /\ sites[s].class \in Openable,
         sites' = Maze!Opened(S)
  PROVE  /\ Heap(sites') /\ Kept(sites, sites', {}) /\ Len(sites') = Size
         /\ \A s \in S : sites'[s].class \in Openable /\ sites'[s].open = TRUE
         /\ \A s \in 1 .. Size \ S : sites'[s] = sites[s]
<1>1. Size \in Nat /\ DOMAIN sites = 1 .. Size /\ \A s \in 1 .. Size : sites[s] \in Site
  BY SiteAt
<1>2. sites' = [s \in 1 .. Size |-> IF s \in S THEN [sites[s] EXCEPT !.open = TRUE]
                                    ELSE sites[s]]
  BY <1>1 DEF Maze!Opened
<1>3. ASSUME NEW s \in S
      PROVE  /\ sites'[s] \in Site /\ sites'[s].class = sites[s].class
             /\ sites'[s].open = TRUE
             /\ sites[s].class = "door" => sites'[s].rooms = sites[s].rooms
  <2>1. sites[s] \in Site /\ sites[s].class \in Openable /\ s \in 1 .. Size BY <1>1
  <2>2. sites'[s] = [sites[s] EXCEPT !.open = TRUE] BY <1>2, <2>1
  <2>3. CASE sites[s].class = "door"
    <3>1. sites[s] \in DoorSort BY <2>1, <2>3, SiteForms
    <3> QED BY <2>2, <3>1 DEF DoorSort, Site
  <2>4. CASE sites[s].class = "bombed wall"
    <3>1. sites[s] \in BombedSort BY <2>1, <2>4, SiteForms
    <3> QED BY <2>2, <2>4, <3>1 DEF BombedSort, Site
  <2> QED BY <2>1, <2>3, <2>4 DEF Openable
<1>4. \A s \in 1 .. Size \ S : sites'[s] = sites[s] BY <1>2
<1>5. \A s \in 1 .. Size : sites'[s] \in Site /\ sites'[s].class = sites[s].class
  BY <1>1, <1>3, <1>4
<1>6. sites' \in [1 .. Size -> Site] BY <1>2, <1>5
<1>7. sites' \in Seq(Site) BY <1>1, <1>6, SeqDef
<1>8. Len(sites') = Size
  <2>1. DOMAIN sites' = 1 .. Len(sites') /\ Len(sites') \in Nat BY <1>7, LenProperties
  <2>2. 1 .. Len(sites') = 1 .. Size BY <2>1, <1>6
  <2>3. \A a, b \in Nat : (1 .. a = 1 .. b) => a = b
    <3> SUFFICES ASSUME NEW a \in Nat, NEW b \in Nat, 1 .. a = 1 .. b PROVE a = b
      OBVIOUS
    <3>1. a > 0 => a \in 1 .. b OBVIOUS
    <3>2. b > 0 => b \in 1 .. a OBVIOUS
    <3> QED BY <3>1, <3>2
  <2> QED BY <2>1, <2>2, <2>3, <1>1
<1>9. \A s \in 1 .. Size : sites[s].class \in RoomClass => sites'[s] = sites[s]
  BY <1>4 DEF RoomClass, Openable
<1>10. Heap(sites')
  <2>1. \A s \in 1 .. Size : sites'[s].class \in RoomClass =>
                               sites'[s].sides \in [Maze!Directions -> 0 .. Size]
    BY <1>5, <1>9 DEF Heap, Size
  <2>2. 1 \in 1 .. Size /\ 2 \in 1 .. Size /\ 3 \in 1 .. Size
    <3>1. Size >= 3 BY DEF Heap, Size
    <3> QED BY <3>1, <1>1
  <2>3. /\ sites'[1].class = sites[1].class /\ sites'[2].class = sites[2].class
        /\ sites'[3].class = sites[3].class
    BY <2>2, <1>5
  <2> QED BY <2>1, <2>3, <1>7, <1>8 DEF Heap, Size
<1>11. Kept(sites, sites', {})
  <2>1. ASSUME NEW s \in 1 .. Size
        PROVE  /\ sites'[s].class = sites[s].class
               /\ sites[s].class \in Openable /\ sites[s].open = TRUE => sites'[s].open = TRUE
               /\ sites[s].class = "door" => sites'[s].rooms = sites[s].rooms
               /\ sites[s].class \in RoomClass => sites'[s].sides = sites[s].sides
    BY <1>3, <1>4, <1>5, <1>9
  <2>2. Len(sites') >= Len(sites) BY <1>1, <1>8 DEF Size
  <2> QED BY <2>1, <2>2 DEF Kept, Size
<1> QED BY <1>3, <1>4, <1>8, <1>10, <1>11

(* New sites go behind those that are there. *)
LEMMA GrownSites ==
  ASSUME NEW h, Heap(h), NEW e \in Seq(Site),
         \A i \in 1 .. Len(e) : e[i].class \in RoomClass =>
           e[i].sides \in [Maze!Directions -> 0 .. Len(h) + Len(e)]
  PROVE  /\ Heap(h \o e) /\ Kept(h, h \o e, {}) /\ Len(h \o e) = Len(h) + Len(e)
         /\ \A s \in 1 .. Len(h) : (h \o e)[s] = h[s]
         /\ \A i \in 1 .. Len(e) : (h \o e)[Len(h) + i] = e[i]
<1> DEFINE g == h \o e
<1>1. Len(h) \in Nat /\ Len(e) \in Nat /\ h \in Seq(Site) /\ Len(h) >= 3
  BY LenProperties DEF Heap
<1>2. /\ g \in Seq(Site) /\ Len(g) = Len(h) + Len(e)
      /\ \A i \in 1 .. Len(h) + Len(e) : g[i] = IF i <= Len(h) THEN h[i] ELSE e[i - Len(h)]
  BY <1>1, ConcatProperties
<1> HIDE DEF g
<1>3. ASSUME NEW s \in 1 .. Len(h) PROVE g[s] = h[s]
  <2>1. s \in 1 .. Len(h) + Len(e) /\ s <= Len(h) BY <1>1
  <2> QED BY <1>2, <2>1
<1>4. ASSUME NEW i \in 1 .. Len(e) PROVE g[Len(h) + i] = e[i]
  <2>1. /\ Len(h) + i \in 1 .. Len(h) + Len(e) /\ ~(Len(h) + i <= Len(h))
        /\ (Len(h) + i) - Len(h) = i
    BY <1>1
  <2> QED BY <1>2, <2>1
<1>5. ASSUME NEW s \in 1 .. Len(g), g[s].class \in RoomClass
      PROVE  g[s].sides \in [Maze!Directions -> 0 .. Len(g)]
  <2>1. CASE s \in 1 .. Len(h)
    <3>1. g[s].sides \in [Maze!Directions -> 0 .. Len(h)] BY <2>1, <1>3, <1>5 DEF Heap, Size
    <3>2. 0 .. Len(h) \subseteq 0 .. Len(g) BY <1>1, <1>2
    <3> QED BY <3>1, <3>2
  <2>2. CASE s \notin 1 .. Len(h)
    <3>1. s - Len(h) \in 1 .. Len(e) /\ Len(h) + (s - Len(h)) = s BY <1>1, <1>2, <2>2
    <3>2. g[s] = e[s - Len(h)] BY <1>4, <3>1
    <3> QED BY <3>1, <3>2, <1>2, <1>5
  <2> QED BY <2>1, <2>2
<1>6. Heap(g)
  <2>1. Len(g) >= 3 /\ 1 \in 1 .. Len(h) /\ 2 \in 1 .. Len(h) /\ 3 \in 1 .. Len(h)
    BY <1>1, <1>2
  <2>2. g[1] = h[1] /\ g[2] = h[2] /\ g[3] = h[3] BY <1>3, <2>1
  <2> QED BY <1>2, <1>5, <2>1, <2>2 DEF Heap
<1>7. Kept(h, g, {})
  <2>1. Len(g) >= Len(h) BY <1>1, <1>2
  <2> QED BY <1>3, <2>1 DEF Kept
<1> QED BY <1>2, <1>3, <1>4, <1>6, <1>7 DEF g

LEMMA CopiedSite ==
  ASSUME Heap(sites), NEW s \in 1 .. Size
  PROVE  /\ Maze!Copied(s) \in Site /\ Maze!Copied(s).class = sites[s].class
         /\ sites[s].class \in Openable => Maze!Copied(s).open = sites[s].open
         /\ sites[s].class \in RoomClass =>
              /\ Maze!Copied(s) \in RoomSort
              /\ Maze!Copied(s).sides \in [Maze!Directions -> 0 .. Size]
<1>1. Size \in Nat /\ sites[s] \in Site BY SiteAt
<1>2. CASE sites[s].class = "room with bomb"
  <2>1. sites[s] \in RoomSort BY <1>1, <1>2, SiteForms DEF RoomClass
  <2>2. Maze!Copied(s) = [sites[s] EXCEPT !.sides = Maze!NoSides] BY <1>2 DEF Maze!Copied
  <2>3. /\ Maze!NoSides \in [Maze!Directions -> Nat]
        /\ Maze!NoSides \in [Maze!Directions -> 0 .. Size]
    BY <1>1 DEF Maze!NoSides, Maze!Null
  <2>4. /\ Maze!Copied(s) \in RoomSort /\ Maze!Copied(s).class = sites[s].class
        /\ Maze!Copied(s).sides = Maze!NoSides
    BY <2>1, <2>2, <2>3 DEF RoomSort
  <2> QED BY <1>2, <2>3, <2>4 DEF Site, Openable
<1>3. CASE sites[s].class # "room with bomb"
  <2>1. Maze!Copied(s) = sites[s] BY <1>3 DEF Maze!Copied
  <2> QED BY <2>1, <1>1, SiteForms DEF Heap, Size
<1> QED BY <1>2, <1>3

LEMMA MazesInit ==
  ASSUME Maze!Init
  PROVE  MazeInv
<1> DEFINE Begun(cl, wall) ==
      sites = <<Maze!Room(cl, 0, Maze!NoSides), wall, Maze!Door(Maze!Null, Maze!Null, FALSE)>>
<1>1. \E wall \in {Maze!Wall, Maze!BombedWall} : \E cl \in RoomClass : Begun(cl, wall)
  BY DEF Maze!Init, RoomClass
<1> HIDE DEF Begun
<1>2. PICK wall : /\ wall = Maze!Wall \/ wall = Maze!BombedWall
                  /\ \E cl \in RoomClass : Begun(cl, wall)
  BY <1>1
<1>3. PICK cl \in RoomClass : Begun(cl, wall) BY <1>2
<1> DEFINE room == Maze!Room(cl, 0, Maze!NoSides)
           door == Maze!Door(Maze!Null, Maze!Null, FALSE)
<1>4. room \in RoomSort /\ room.class = cl /\ room.sides \in [Maze!Directions -> 0 .. 3]
  <2>1. room = [class |-> cl, no |-> 0, sides |-> Maze!NoSides] BY DEF Maze!Room
  <2>2. /\ Maze!NoSides \in [Maze!Directions -> 0 .. 3]
        /\ Maze!NoSides \in [Maze!Directions -> Nat]
    BY DEF Maze!NoSides, Maze!Null
  <2> HIDE DEF room
  <2> QED BY <2>1, <2>2 DEF RoomSort
<1>5. /\ wall \in WallSort \cup BombedSort
      /\ wall.class = "wall" \/ (wall.class = "bombed wall" /\ wall.open = FALSE)
  <2>1. CASE wall = Maze!Wall
    <3>1. wall = [class |-> "wall"] BY <2>1 DEF Maze!Wall
    <3> QED BY <3>1 DEF WallSort
  <2>2. CASE wall = Maze!BombedWall
    <3>1. wall = [class |-> "bombed wall", open |-> FALSE] BY <2>2 DEF Maze!BombedWall
    <3> QED BY <3>1 DEF BombedSort
  <2> QED BY <1>2, <2>1, <2>2
<1>6. door \in DoorSort /\ door.class = "door"
  BY DEF Maze!Door, Maze!Null, DoorSort
<1> HIDE DEF room, door
<1>7. sites = <<room, wall, door>> BY <1>3 DEF Begun, room, door
<1>8. room \in Site /\ wall \in Site /\ door \in Site BY <1>4, <1>5, <1>6 DEF Site
<1>9. /\ sites \in Seq(Site) /\ Len(sites) = 3
      /\ sites[1] = room /\ sites[2] = wall /\ sites[3] = door
  BY <1>7, <1>8
<1>10. \A s \in 1 .. 3 : s = 1 \/ s = 2 \/ s = 3 OBVIOUS
<1>11. Heap(sites)
  <2>1. sites[1].class \in RoomClass BY <1>4, <1>9
  <2>2. sites[2].class \in {"wall", "bombed wall"} /\ sites[3].class = "door"
    BY <1>5, <1>6, <1>9
  <2>3. ASSUME NEW s \in 1 .. 3, sites[s].class \in RoomClass
        PROVE  sites[s].sides \in [Maze!Directions -> 0 .. 3]
    <3>1. s = 1 BY <2>2, <2>3, <1>10 DEF RoomClass
    <3> QED BY <3>1, <1>4, <1>9
  <2>4. sites \in Seq(Site) /\ Len(sites) >= 3 /\ 1 .. Len(sites) = 1 .. 3
        /\ 0 .. Len(sites) = 0 .. 3
    BY <1>9
  <2> QED BY <2>1, <2>2, <2>3, <2>4 DEF Heap
<1>12. /\ mazes = << <<>> >> /\ tied = FALSE /\ touched = {} /\ blown = {}
  BY DEF Maze!Init
<1>13. mazes \in Seq(Seq(Nat)) /\ Len(mazes) = 1 /\ mazes[1] = <<>> /\ Len(mazes[1]) = 0
  BY <1>12
<1>14. OfRooms BY <1>13 DEF OfRooms
<1>15. Opens BY <1>12 DEF Opens
<1>16. Laid BY <1>13 DEF Laid
<1>17. Reasoned
  <2>1. sites[1].class # "bombed wall" /\ sites[3].class # "bombed wall"
    BY <1>4, <1>6, <1>9 DEF RoomClass
  <2>2. sites[2].class = "bombed wall" => sites[2].open = FALSE BY <1>5, <1>9
  <2> QED BY <2>1, <2>2, <1>9, <1>10 DEF Reasoned, Size
<1> QED BY <1>11, <1>14, <1>15, <1>16, <1>17 DEF MazeInv

LEMMA EnterStep ==
  ASSUME MazeInv, NEW q \in Maze!Rooms, Maze!Enter(q)
  PROVE  MazeInv'
<1> DEFINE S == {sites[q].sides[d] : d \in Maze!Reached(q)}
<1>1. /\ Heap(sites) /\ Size \in Nat /\ DOMAIN sites = 1 .. Size /\ IsRoom(sites, q)
      /\ sites[q].sides \in [Maze!Directions -> 0 .. Size]
  BY SiteAt, RoomsAre DEF MazeInv, Heap, IsRoom, Size
<1>2. /\ sites' = Maze!Opened(S) /\ touched' = touched \cup {q}
      /\ blown' = IF Maze!Reached(q) = Maze!Directions THEN blown \cup Maze!Sides(q) ELSE blown
      /\ UNCHANGED <<mazes, tied>>
  BY DEF Maze!Enter
<1>3. \A s \in S : s \in 1 .. Size /\ sites[s].class \in Openable
  <2> SUFFICES ASSUME NEW d \in Maze!Reached(q)
               PROVE  /\ sites[q].sides[d] \in 1 .. Size
                      /\ sites[sites[q].sides[d]].class \in Openable
    OBVIOUS
  <2>1. d \in Maze!Directions /\ d \in 1 .. d BY FourWays DEF Maze!Reached
  <2>2. ~Maze!Foreign(sites[q].sides[d]) BY <2>1 DEF Maze!Reached
  <2>3. sites[q].sides[d] \in 0 .. Size BY <1>1, <2>1
  <2> DEFINE s == sites[q].sides[d]
  <2> HIDE DEF s
  <2>4. s # 0 /\ sites[s].class \in Openable
    BY <2>2 DEF s, Maze!Foreign, Maze!Null, Openable
  <2>5. s \in 1 .. Size BY <2>3, <2>4, <1>1 DEF s
  <2> QED BY <2>4, <2>5 DEF s
<1> HIDE DEF S
<1>4. /\ Heap(sites') /\ Kept(sites, sites', {}) /\ Len(sites') = Size
      /\ \A s \in S : sites'[s].class \in Openable /\ sites'[s].open = TRUE
      /\ \A s \in 1 .. Size \ S : sites'[s] = sites[s]
  BY <1>1, <1>2, <1>3, OpenedSites
<1>5. OfRooms' /\ Laid' BY <1>2, <1>4, SameMazes
<1>6. IsRoom(sites', q) /\ sites'[q].sides = sites[q].sides
  BY <1>1, <1>4, KeptRoom DEF Kept, IsRoom
<1>7. ASSUME NEW s \in blown' \ blown
      PROVE  s \in 1 .. Size /\ sites'[s].class \in Openable /\ sites'[s].open = TRUE
  <2>1. s \in Maze!Sides(q) /\ Maze!Reached(q) = Maze!Directions BY <1>2, <1>7
  <2>2. s \in S BY <2>1 DEF S, Maze!Sides
  <2> QED BY <2>2, <1>3, <1>4
<1>8. ASSUME NEW s \in S
      PROVE  \E d \in Maze!Directions : sites'[q].sides[d] = s
  BY <1>6, <1>8 DEF S, Maze!Reached
<1>9. touched' \subseteq 1 .. Len(sites') BY <1>1, <1>2, <1>4 DEF MazeInv, Opens, IsRoom, Size
<1>10. ASSUME NEW s \in 1 .. Len(sites'), sites'[s].class = "bombed wall", sites'[s].open = TRUE
       PROVE  \/ \E p \in touched' : IsRoom(sites', p) /\ \E d \in Maze!Directions :
                                                               sites'[p].sides[d] = s
              \/ s \in 1 .. Size /\ sites[s].class = "bombed wall" /\ sites[s].open = TRUE
  <2>1. q \in touched' BY <1>2
  <2>2. CASE s \in S BY <2>1, <2>2, <1>6, <1>8
  <2>3. CASE s \notin S BY <2>3, <1>4, <1>10
  <2> QED BY <2>2, <2>3
<1>11. tied' = tied /\ tied' \in BOOLEAN /\ touched \subseteq touched'
  BY <1>2 DEF MazeInv, Opens
<1> QED BY <1>4, <1>5, <1>7, <1>9, <1>10, <1>11, MazeFrame

LEMMA OpenStep ==
  ASSUME MazeInv, NEW o \in DOMAIN sites, Maze!Open(o)
  PROVE  MazeInv'
<1>1. Heap(sites) /\ Size \in Nat /\ DOMAIN sites = 1 .. Size BY SiteAt DEF MazeInv
<1>2. /\ sites[o].class \in Openable /\ sites' = Maze!Opened({o})
      /\ touched' = touched \cup {o} /\ UNCHANGED <<mazes, tied, blown>>
  BY DEF Maze!Open, Openable
<1> DEFINE S == {o}
<1>3. \A s \in S : s \in 1 .. Size /\ sites[s].class \in Openable BY <1>1, <1>2
<1>4. /\ Heap(sites') /\ Kept(sites, sites', {}) /\ Len(sites') = Size
      /\ \A s \in 1 .. Size \ S : sites'[s] = sites[s]
  <2>1. sites' = Maze!Opened(S) BY <1>2
  <2> HIDE DEF S
  <2> QED BY <1>1, <1>3, <2>1, OpenedSites
<1>5. OfRooms' /\ Laid' BY <1>2, <1>4, SameMazes
<1>6. touched' \subseteq 1 .. Len(sites') BY <1>1, <1>2, <1>4 DEF MazeInv, Opens
<1>7. ASSUME NEW s \in 1 .. Len(sites'), sites'[s].class = "bombed wall", sites'[s].open = TRUE
      PROVE  \/ s \in touched'
             \/ s \in 1 .. Size /\ sites[s].class = "bombed wall" /\ sites[s].open = TRUE
  BY <1>2, <1>4, <1>7
<1>8. tied' = tied /\ tied' \in BOOLEAN /\ touched \subseteq touched' /\ blown' \ blown = {}
  BY <1>2 DEF MazeInv, Opens
<1> QED BY <1>4, <1>5, <1>6, <1>7, <1>8, MazeFrame

LEMMA SetSideStep ==
  ASSUME MazeInv, NEW q \in Maze!Rooms, NEW d \in Maze!Directions, NEW o \in DOMAIN sites,
         Maze!SetSide(q, d, o)
  PROVE  MazeInv'
<1>1. /\ Heap(sites) /\ Size \in Nat /\ DOMAIN sites = 1 .. Size /\ IsRoom(sites, q)
      /\ sites[q].sides \in [Maze!Directions -> 0 .. Size] /\ sites[q] \in RoomSort
      /\ \A s \in 1 .. Size : sites[s] \in Site
  BY SiteAt, RoomsAre, SiteForms DEF MazeInv, Heap, IsRoom, Size
<1>2. /\ sites' = [sites EXCEPT ![q].sides[d] = o]
      /\ tied' = (tied \/ q # 1 \/ q \in touched) /\ UNCHANGED <<mazes, touched, blown>>
  BY DEF Maze!SetSide, Maze!RoomPrototype
<1> DEFINE x == [sites[q] EXCEPT !.sides = [sites[q].sides EXCEPT ![d] = o]]
<1>3. /\ x \in RoomSort /\ x.class = sites[q].class
      /\ x.sides \in [Maze!Directions -> 0 .. Size]
  <2>1. [sites[q].sides EXCEPT ![d] = o] \in [Maze!Directions -> 0 .. Size]
    BY <1>1
  <2>2. [sites[q].sides EXCEPT ![d] = o] \in [Maze!Directions -> Nat]
    BY <1>1, <2>1
  <2> QED BY <1>1, <2>1, <2>2 DEF RoomSort
<1>4. sites' = [sites EXCEPT ![q] = x] BY <1>1, <1>2
<1> HIDE DEF x
<1>5. q \in 1 .. Size /\ x \in Site BY <1>1, <1>3 DEF IsRoom, Site, Size
<1>6. /\ sites' \in Seq(Site) /\ Len(sites') = Size
      /\ \A s \in 1 .. Size : sites'[s] = IF s = q THEN x ELSE sites[s]
  <2>1. sites \in Seq(Site) /\ q \in 1 .. Len(sites) BY <1>1, <1>5 DEF Heap, Size
  <2> QED BY <1>4, <1>5, <2>1, ExceptSeq DEF Size
<1>7. \A s \in 1 .. Size : sites'[s].class = sites[s].class BY <1>3, <1>6
<1>8. Heap(sites')
  <2>1. 1 \in 1 .. Size /\ 2 \in 1 .. Size /\ 3 \in 1 .. Size /\ Size >= 3
    <3>1. Size >= 3 BY <1>1 DEF Heap, Size
    <3> QED BY <3>1, <1>1
  <2>2. \A s \in 1 .. Size : sites'[s].class \in RoomClass =>
                               sites'[s].sides \in [Maze!Directions -> 0 .. Size]
    BY <1>1, <1>3, <1>6 DEF Heap, Size
  <2> QED BY <2>1, <2>2, <1>1, <1>6, <1>7 DEF Heap
<1>9. Kept(sites, sites', {q})
  <2>1. Len(sites') >= Len(sites) BY <1>1, <1>6 DEF Size
  <2>2. ASSUME NEW s \in 1 .. Size
        PROVE  /\ sites'[s].class = sites[s].class
               /\ sites[s].class \notin RoomClass \/ s # q => sites'[s] = sites[s]
    BY <1>1, <1>6, <1>7 DEF IsRoom
  <2> QED BY <2>1, <2>2 DEF Kept, Size, RoomClass, Openable
<1>10. ~tied' => ~tied /\ {q} \subseteq {1} /\ {q} \cap touched = {} BY <1>2
<1>11. OfRooms' /\ Laid' BY <1>2, <1>8, <1>9, <1>10, SameMazes
<1>12. tied' \in BOOLEAN /\ touched \subseteq touched' /\ touched' \subseteq 1 .. Len(sites')
       /\ blown' \ blown = {}
  BY <1>2, <1>6 DEF MazeInv, Opens
<1>13. ASSUME NEW s \in 1 .. Len(sites'), sites'[s].class = "bombed wall", sites'[s].open = TRUE
       PROVE  s \in 1 .. Size /\ sites[s].class = "bombed wall" /\ sites[s].open = TRUE
  BY <1>1, <1>6, <1>7, <1>13 DEF IsRoom, RoomClass
<1> QED BY <1>8, <1>9, <1>10, <1>11, <1>12, <1>13, MazeFrame

LEMMA NoSiteChanges ==
  ASSUME Heap(sites), sites' = sites
  PROVE  Heap(sites') /\ Kept(sites, sites', {}) /\ Len(sites') = Size
<1>1. Len(sites) \in Nat BY LenProperties DEF Heap
<1>2. Len(sites') >= Len(sites) BY <1>1
<1> QED BY <1>2 DEF Kept, Size

LEMMA AddRoomStep ==
  ASSUME MazeInv, NEW m \in DOMAIN mazes, NEW q \in Maze!Rooms, Maze!AddRoom(m, q)
  PROVE  MazeInv'
<1>1. /\ mazes' = [mazes EXCEPT ![m] = Append(mazes[m], q)] /\ tied' = TRUE
      /\ UNCHANGED <<sites, touched, blown>>
  BY DEF Maze!AddRoom
<1>2. /\ Heap(sites) /\ Heap(sites') /\ Kept(sites, sites', {}) /\ Len(sites') = Size
      /\ IsRoom(sites, q)
  BY <1>1, NoSiteChanges, RoomsAre DEF MazeInv
<1>3. /\ mazes \in Seq(Seq(Nat)) /\ DOMAIN mazes = 1 .. Len(mazes)
      /\ mazes[m] \in Seq(Nat) /\ q \in Nat
  BY <1>2, SiteAt, LenProperties, ElementOfSeq DEF MazeInv, OfRooms, IsRoom, Size
<1> DEFINE e == Append(mazes[m], q)
<1>4. /\ e \in Seq(Nat) /\ Len(e) = Len(mazes[m]) + 1
      /\ \A i \in 1 .. Len(mazes[m]) : e[i] = mazes[m][i]
      /\ e[Len(mazes[m]) + 1] = q
  BY <1>3, AppendProperties
<1>5. \A i \in 1 .. Len(e) : i \in 1 .. Len(mazes[m]) \/ i = Len(mazes[m]) + 1
  BY <1>3, <1>4, LenProperties
<1> HIDE DEF e
<1>6. /\ mazes' \in Seq(Seq(Nat)) /\ Len(mazes') = Len(mazes)
      /\ \A k \in 1 .. Len(mazes) : mazes'[k] = IF k = m THEN e ELSE mazes[k]
  BY <1>1, <1>3, <1>4, ExceptSeq DEF e
<1>7. \A i \in 1 .. Len(e) : IsRoom(sites, e[i])
  BY <1>2, <1>3, <1>4, <1>5 DEF MazeInv, OfRooms
<1>8. OfRooms' BY <1>1, <1>6, <1>7 DEF MazeInv, OfRooms
<1>9. Laid' BY <1>1 DEF Laid
<1>10. touched \subseteq touched' /\ touched' \subseteq 1 .. Len(sites') /\ blown' \ blown = {}
  BY <1>1, <1>2 DEF MazeInv, Opens
<1> QED BY <1>1, <1>2, <1>8, <1>9, <1>10, MazeFrame

(* A step that only makes a new site, the copy of an open wall if one is   *)
(* copied.                                                                 *)
Appended(x) ==
  /\ x \in Site /\ (x.class \in RoomClass => x.sides \in [Maze!Directions -> 0 .. Size])
  /\ sites' = Append(sites, x) /\ UNCHANGED <<mazes, tied, blown>>
  /\ touched \subseteq touched' /\ touched' \subseteq 1 .. Size + 1
  /\ x.class = "bombed wall" /\ x.open = TRUE => Size + 1 \in touched'

LEMMA One == ASSUME NEW S, NEW x \in S PROVE <<x>> \in Seq(S) /\ Len(<<x>>) = 1 /\ <<x>>[1] = x
OBVIOUS

LEMMA AppendStep ==
  ASSUME MazeInv, NEW x, Appended(x)
  PROVE  MazeInv'
<1> DEFINE e == <<x>>
<1>1. Heap(sites) /\ Size \in Nat /\ sites \in Seq(Site) BY SiteAt DEF MazeInv, Heap
<1>2. x \in Site /\ sites' = Append(sites, x) /\ UNCHANGED <<mazes, tied, blown>>
  BY DEF Appended
<1>3. touched \subseteq touched' /\ touched' \subseteq 1 .. Size + 1 BY DEF Appended
<1>4. e \in Seq(Site) /\ Len(e) = 1 /\ e[1] = x BY <1>2, One
<1>5. sites' = sites \o e BY <1>1, <1>2, AppendIsConcat
<1> HIDE DEF e
<1>6. ASSUME NEW i \in 1 .. Len(e), e[i].class \in RoomClass
      PROVE  e[i].sides \in [Maze!Directions -> 0 .. Len(sites) + Len(e)]
  <2>1. i = 1 /\ e[i] = x BY <1>4
  <2>2. x.sides \in [Maze!Directions -> 0 .. Size] BY <2>1, <1>6 DEF Appended
  <2>3. 0 .. Size \subseteq 0 .. Len(sites) + Len(e) BY <1>1, <1>4 DEF Size
  <2> QED BY <2>1, <2>2, <2>3
<1>7. /\ Heap(sites') /\ Kept(sites, sites', {}) /\ Len(sites') = Len(sites) + Len(e)
      /\ \A s \in 1 .. Len(sites) : sites'[s] = sites[s]
      /\ \A i \in 1 .. Len(e) : sites'[Len(sites) + i] = e[i]
  <2>1. /\ Heap(sites \o e) /\ Kept(sites, sites \o e, {})
        /\ Len(sites \o e) = Len(sites) + Len(e)
        /\ \A s \in 1 .. Len(sites) : (sites \o e)[s] = sites[s]
        /\ \A i \in 1 .. Len(e) : (sites \o e)[Len(sites) + i] = e[i]
    BY <1>1, <1>4, <1>6, GrownSites
  <2> QED BY <2>1, <1>5
<1>8. Len(sites') = Size + 1 /\ sites'[Size + 1] = x /\ \A s \in 1 .. Size : sites'[s] = sites[s]
  BY <1>4, <1>7 DEF Size
<1>9. OfRooms' /\ Laid' BY <1>7, <1>2, SameMazes
<1>10. ASSUME NEW s \in 1 .. Len(sites'), sites'[s].class = "bombed wall", sites'[s].open = TRUE
      PROVE  \/ s \in touched'
             \/ s \in 1 .. Size /\ sites[s].class = "bombed wall" /\ sites[s].open = TRUE
  <2>1. s \in 1 .. Size \/ s = Size + 1 BY <1>1, <1>8
  <2>2. CASE s \in 1 .. Size BY <2>2, <1>8, <1>10
  <2>3. CASE s = Size + 1 BY <2>3, <1>8, <1>10 DEF Appended
  <2> QED BY <2>1, <2>2, <2>3
<1>11. touched' \subseteq 1 .. Len(sites') BY <1>8, <1>3
<1>12. tied' = tied /\ tied' \in BOOLEAN /\ blown' \ blown = {} BY <1>2 DEF MazeInv, Opens
<1> QED BY <1>3, <1>7, <1>9, <1>10, <1>11, <1>12, MazeFrame

LEMMA CloneStep ==
  ASSUME MazeInv, NEW o \in DOMAIN sites, Maze!Clone(o)
  PROVE  MazeInv'
<1> DEFINE x == Maze!Copied(o)
<1>1. Heap(sites) /\ Size \in Nat /\ o \in 1 .. Size /\ sites[o] \in Site
  BY SiteAt DEF MazeInv
<1>2. /\ x \in Site /\ x.class = sites[o].class
      /\ sites[o].class \in Openable => x.open = sites[o].open
      /\ sites[o].class \in RoomClass => x.sides \in [Maze!Directions -> 0 .. Size]
  BY <1>1, CopiedSite
<1>3. /\ sites' = Append(sites, x) /\ UNCHANGED <<mazes, tied, blown>>
      /\ touched' = IF o \in touched \/ Maze!IsOpen(o) THEN touched \cup {Len(sites) + 1}
                    ELSE touched
  BY DEF Maze!Clone
<1> HIDE DEF x
<1>4. touched \subseteq 1 .. Size BY DEF MazeInv, Opens
<1>5. touched \subseteq touched' /\ touched' \subseteq 1 .. Size + 1
  <2>1. 1 .. Size \subseteq 1 .. Size + 1 /\ Size + 1 \in 1 .. Size + 1 BY <1>1
  <2> QED BY <1>3, <1>4, <2>1 DEF Size
<1>6. ASSUME x.class = "bombed wall", x.open = TRUE PROVE Size + 1 \in touched'
  <2>1. sites[o].class = "bombed wall" /\ sites[o].open = TRUE
    BY <1>2, <1>6 DEF Openable
  <2>2. Maze!IsOpen(o) BY <2>1 DEF Maze!IsOpen
  <2> QED BY <2>2, <1>3 DEF Size
<1>7. Appended(x) BY <1>2, <1>3, <1>5, <1>6 DEF Appended
<1> QED BY <1>7, AppendStep

LEMMA DoorBetween ==
  ASSUME NEW x \in DoorSort, NEW a \in Nat, NEW b \in Nat
  PROVE  /\ [x EXCEPT !.rooms = <<a, b>>, !.open = FALSE] \in DoorSort
         /\ [x EXCEPT !.rooms = <<a, b>>, !.open = FALSE].class = "door"
BY DEF DoorSort

LEMMA NewDoorStep ==
  ASSUME MazeInv, NEW q1 \in Maze!Rooms, NEW q2 \in Maze!Rooms, Maze!NewDoor(q1, q2)
  PROVE  MazeInv'
<1> DEFINE x == Maze!CloneDoor(q1, q2)
<1>1. Heap(sites) /\ Size \in Nat BY SiteAt DEF MazeInv
<1>2. 3 \in 1 .. Size
  <2>1. Size >= 3 BY <1>1 DEF Heap, Size
  <2> QED BY <2>1, <1>1
<1>3. q1 \in Nat /\ q2 \in Nat BY <1>1, RoomsAre DEF IsRoom, Size
<1>4. Maze!Copied(3) \in DoorSort
  BY <1>1, <1>2, CopiedSite, SiteForms DEF Heap
<1>5. x = [Maze!Copied(3) EXCEPT !.rooms = <<q1, q2>>, !.open = FALSE]
  BY DEF Maze!CloneDoor, Maze!DoorPrototype
<1> DEFINE y == Maze!Copied(3)
<1> HIDE DEF y
<1>6. x \in DoorSort /\ x.class = "door"
  <2>1. y \in DoorSort BY <1>4 DEF y
  <2>2. /\ [y EXCEPT !.rooms = <<q1, q2>>, !.open = FALSE] \in DoorSort
        /\ [y EXCEPT !.rooms = <<q1, q2>>, !.open = FALSE].class = "door"
    BY <2>1, <1>3, DoorBetween
  <2> QED BY <2>2, <1>5 DEF y
<1>7. sites' = Append(sites, x) /\ UNCHANGED <<mazes, tied, touched, blown>>
  BY DEF Maze!NewDoor
<1> HIDE DEF x
<1>8. x \in Site /\ x.class \notin RoomClass /\ x.class # "bombed wall"
  BY <1>6 DEF Site, RoomClass
<1>9. touched' \subseteq 1 .. Size + 1
  <2>1. 1 .. Size \subseteq 1 .. Size + 1 BY <1>1
  <2> QED BY <2>1, <1>7 DEF MazeInv, Opens
<1>10. Appended(x) BY <1>7, <1>8, <1>9 DEF Appended
<1> QED BY <1>10, AppendStep

LEMMA CloneMazeStep ==
  ASSUME MazeInv, NEW m \in DOMAIN mazes, Maze!CloneMaze(m)
  PROVE  MazeInv'
<1>1. /\ mazes' = Append(mazes, mazes[m]) /\ tied' = (tied \/ mazes[m] # <<>>)
      /\ UNCHANGED <<sites, touched, blown>>
  BY DEF Maze!CloneMaze
<1>2. Heap(sites) /\ Heap(sites') /\ Kept(sites, sites', {}) /\ Len(sites') = Size
  BY <1>1, NoSiteChanges DEF MazeInv
<1>3. /\ mazes \in Seq(Seq(Nat)) /\ m \in 1 .. Len(mazes) /\ Len(mazes) \in Nat
      /\ Len(mazes) >= 1 /\ mazes[m] \in Seq(Nat)
  BY LenProperties, ElementOfSeq DEF MazeInv, OfRooms
<1>4. /\ mazes' \in Seq(Seq(Nat)) /\ Len(mazes') = Len(mazes) + 1
      /\ \A k \in 1 .. Len(mazes) : mazes'[k] = mazes[k]
      /\ mazes'[Len(mazes) + 1] = mazes[m]
  BY <1>1, <1>3, AppendProperties
<1>5. \A k \in 1 .. Len(mazes') : k \in 1 .. Len(mazes) \/ k = Len(mazes) + 1
  BY <1>3, <1>4
<1>6. OfRooms'
  <2>1. \A k \in 1 .. Len(mazes) : \A i \in 1 .. Len(mazes[k]) : IsRoom(sites, mazes[k][i])
    BY DEF MazeInv, OfRooms
  <2>2. \A k \in 1 .. Len(mazes') : \A i \in 1 .. Len(mazes'[k]) : IsRoom(sites, mazes'[k][i])
    BY <2>1, <1>3, <1>4, <1>5
  <2>3. Len(mazes') >= 1 BY <1>3, <1>4
  <2> QED BY <2>2, <2>3, <1>1, <1>4 DEF OfRooms
<1>7. Laid'
  <2> SUFFICES ASSUME ~tied' PROVE Laid' BY DEF Laid
  <2>1. ~tied /\ mazes[m] = <<>> BY <1>1
  <2>2. mazes'[1] = <<>>
    <3>1. 1 \in 1 .. Len(mazes) BY <1>3
    <3> QED BY <3>1, <2>1, <1>4 DEF MazeInv, Laid
  <2>3. ASSUME NEW k \in 1 .. Len(mazes')
        PROVE  mazes'[k] = <<>> \/ (k \in 1 .. Len(mazes) /\ mazes'[k] = mazes[k])
    BY <2>1, <1>4, <1>5
  <2>4. \A k \in 1 .. Len(mazes') : mazes'[k] = <<>> \/ \E n \in Nat : MazeAt(sites, mazes'[k], n)
    BY <2>1, <2>3 DEF MazeInv, Laid
  <2>5. \A k, j \in 1 .. Len(mazes') :
          k < j /\ mazes'[k] # <<>> /\ mazes'[j] # <<>> => mazes'[k][1] + 9 <= mazes'[j][1]
    BY <2>1, <2>3 DEF MazeInv, Laid
  <2> QED BY <2>2, <2>4, <2>5, <1>1 DEF Laid
<1>8. /\ tied' \in BOOLEAN /\ (~tied' => ~tied) /\ touched \subseteq touched'
      /\ touched' \subseteq 1 .. Len(sites') /\ blown' \ blown = {}
  BY <1>1, <1>2 DEF MazeInv, Opens
<1>9. \A s \in 1 .. Len(sites') : s \in 1 .. Size /\ sites'[s] = sites[s] BY <1>1, <1>2
<1> QED BY <1>2, <1>6, <1>7, <1>8, <1>9, MazeFrame

LEMMA MadeRoom ==
  ASSUME Heap(sites), NEW f \in Maze!Factories, NEW no \in Nat
  PROVE  Maze!MakeRoom(f, no) \in RoomSort
<1>1. Maze!NoSides \in [Maze!Directions -> Nat] BY DEF Maze!NoSides, Maze!Null
<1>2. \A cl \in RoomClass : Maze!Room(cl, no, Maze!NoSides) \in RoomSort
  BY <1>1 DEF Maze!Room, RoomSort
<1>3. CASE f = "standard"
  <2>1. Maze!MakeRoom(f, no) = Maze!Room("room", no, Maze!NoSides) BY <1>3 DEF Maze!MakeRoom
  <2> QED BY <2>1, <1>2 DEF RoomClass
<1>4. CASE f = "bombed"
  <2>1. Maze!MakeRoom(f, no) = Maze!Room("room with bomb", no, Maze!NoSides)
    BY <1>4 DEF Maze!MakeRoom
  <2> QED BY <2>1, <1>2 DEF RoomClass
<1>5. CASE f = "prototype"
  <2> DEFINE x == Maze!Copied(1)
  <2>1. Maze!MakeRoom(f, no) = [x EXCEPT !.no = no]
    BY <1>5 DEF Maze!MakeRoom, Maze!RoomPrototype
  <2>2. 1 \in 1 .. Size
    <3>1. Size >= 3 /\ Size \in Nat BY SiteAt DEF Heap, Size
    <3> QED BY <3>1
  <2>3. x \in RoomSort BY <2>2, CopiedSite DEF Heap
  <2> HIDE DEF x
  <2> QED BY <2>1, <2>3 DEF RoomSort
<1> QED BY <1>3, <1>4, <1>5 DEF Maze!Factories

Sided(y, d1, d2, d3, d4) ==
  /\ y \in RoomSort /\ y.class \in RoomClass
  /\ y.sides[1] = d1 /\ y.sides[2] = d2 /\ y.sides[3] = d3 /\ y.sides[4] = d4
  /\ y.sides \in [Maze!Directions -> {d1, d2, d3, d4}]

LEMMA RoomWithSides ==
  ASSUME NEW x \in RoomSort, NEW d1 \in Nat, NEW d2 \in Nat, NEW d3 \in Nat, NEW d4 \in Nat
  PROVE  Sided(Maze!SetSides(x, d1, d2, d3, d4), d1, d2, d3, d4)
<1> DEFINE F == [d \in Maze!Directions |->
                   CASE d = 1 -> d1 [] d = 2 -> d2 [] d = 3 -> d3 [] d = 4 -> d4]
           y == Maze!SetSides(x, d1, d2, d3, d4)
<1>1. y = [x EXCEPT !.sides = F]
  BY DEF Maze!SetSides, Maze!North, Maze!South, Maze!East, Maze!West
<1>2. /\ F[1] = d1 /\ F[2] = d2 /\ F[3] = d3 /\ F[4] = d4
      /\ \A d \in Maze!Directions : F[d] \in {d1, d2, d3, d4}
      /\ DOMAIN F = Maze!Directions /\ F = [d \in Maze!Directions |-> F[d]]
  BY FourWays
<1> HIDE DEF F, y
<1>3. F \in [Maze!Directions -> Nat] BY <1>2
<1>4. F \in [Maze!Directions -> {d1, d2, d3, d4}] BY <1>2
<1>5. y \in RoomSort /\ y.class \in RoomClass /\ y.sides = F BY <1>1, <1>3 DEF RoomSort
<1>6. Sided(y, d1, d2, d3, d4) BY <1>2, <1>4, <1>5 DEF Sided
<1> QED BY <1>6 DEF y

LEMMA ABombedWall ==
  LET x == [class |-> "bombed wall", open |-> FALSE]
  IN  x \in BombedSort /\ x.class = "bombed wall" /\ x.open = FALSE
BY DEF BombedSort

LEMMA MadeWall ==
  ASSUME Heap(sites), NEW f \in Maze!Factories, NEW x, x = Maze!MakeWall(f)
  PROVE  /\ x \in Site /\ x.class \in {"wall", "bombed wall"}
         /\ x.class = "bombed wall" /\ x.open = TRUE => f = "prototype" /\ Maze!IsOpen(2)
<1>1. CASE f = "standard"
  <2>1. x = [class |-> "wall"] BY <1>1 DEF Maze!MakeWall, Maze!Wall
  <2> QED BY <2>1 DEF WallSort, Site
<1>2. CASE f = "bombed"
  <2>1. x = [class |-> "bombed wall", open |-> FALSE]
    BY <1>2 DEF Maze!MakeWall, Maze!BombedWall
  <2>2. x \in BombedSort /\ x.class = "bombed wall" /\ x.open = FALSE
    BY <2>1, ABombedWall
  <2> QED BY <2>2 DEF Site
<1>3. CASE f = "prototype"
  <2>1. x = Maze!Copied(2) BY <1>3 DEF Maze!MakeWall, Maze!WallPrototype
  <2>2. 2 \in 1 .. Size
    <3>1. Size >= 3 /\ Size \in Nat BY SiteAt DEF Heap, Size
    <3> QED BY <3>1
  <2>3. /\ x \in Site /\ x.class = sites[2].class /\ x.class \in {"wall", "bombed wall"}
        /\ sites[2].class \in Openable => x.open = sites[2].open
    BY <2>1, <2>2, CopiedSite DEF Heap
  <2>4. ASSUME x.class = "bombed wall", x.open = TRUE PROVE Maze!IsOpen(2)
    BY <2>3, <2>4 DEF Maze!IsOpen, Openable
  <2> QED BY <1>3, <2>3, <2>4
<1> QED BY <1>1, <1>2, <1>3 DEF Maze!Factories

(* The nine sites of a new maze *)
NineSites(e, n, f) ==
  /\ e \in Seq(Site) /\ Len(e) = 9
  /\ \A i \in 1 .. 2 : /\ e[i].class \in RoomClass
                       /\ e[i].sides \in [Maze!Directions -> 0 .. n + 9]
  /\ e[1].sides[1] = n + 4 /\ e[1].sides[2] = n + 5
  /\ e[1].sides[3] = n + 3 /\ e[1].sides[4] = n + 6
  /\ e[2].sides[1] = n + 7 /\ e[2].sides[2] = n + 8
  /\ e[2].sides[3] = n + 9 /\ e[2].sides[4] = n + 3
  /\ e[3].class = "door" /\ e[3].open = TRUE /\ e[3].rooms = <<n + 1, n + 2>>
  /\ \A i \in 4 .. 9 : /\ e[i].class \in {"wall", "bombed wall"}
                       /\ e[i].class = "bombed wall" /\ e[i].open = TRUE =>
                            f = "prototype" /\ Maze!IsOpen(2)

(* Two rooms and a door, and six walls                                     *)
LEMMA Three ==
  ASSUME NEW S, NEW x \in S, NEW y \in S, NEW z \in S
  PROVE  /\ <<x, y, z>> \in Seq(S) /\ Len(<<x, y, z>>) = 3
         /\ <<x, y, z>>[1] = x /\ <<x, y, z>>[2] = y /\ <<x, y, z>>[3] = z
OBVIOUS

LEMMA SixOf ==
  ASSUME NEW S, NEW x \in S
  PROVE  /\ [i \in 1 .. 6 |-> x] \in Seq(S) /\ Len([i \in 1 .. 6 |-> x]) = 6
         /\ \A i \in 1 .. 6 : [j \in 1 .. 6 |-> x][i] = x
OBVIOUS

LEMMA NewSites ==
  ASSUME MazeInv, NEW f \in Maze!Factories, Maze!CreateMaze(f)
  PROVE  \E e : sites' = sites \o e /\ NineSites(e, Size, f)
<1> DEFINE n == Size
           a  == Maze!SetSides(Maze!MakeRoom(f, 1), n + 4, n + 5, n + 3, n + 6)
           b  == Maze!SetSides(Maze!MakeRoom(f, 2), n + 7, n + 8, n + 9, n + 3)
           c  == Maze!MakeDoor(n + 1, n + 2)
           z  == Maze!MakeWall(f)
           S3 == <<a, b, c>>
           S6 == [i \in 1 .. 6 |-> z]
           e  == S3 \o S6
<1>1. Heap(sites) /\ n \in Nat /\ sites \in Seq(Site) BY SiteAt DEF MazeInv, Heap
<1>2. sites' = (sites \o S3) \o S6 BY DEF Maze!CreateMaze, Size
<1> HIDE DEF n
<1>3. /\ a \in RoomSort /\ a.class \in RoomClass
      /\ a.sides[1] = n + 4 /\ a.sides[2] = n + 5 /\ a.sides[3] = n + 3 /\ a.sides[4] = n + 6
      /\ a.sides \in [Maze!Directions -> 0 .. n + 9]
  <2> DEFINE x == Maze!MakeRoom(f, 1)
  <2>1. x \in RoomSort BY <1>1, MadeRoom
  <2> HIDE DEF x, a
  <2>2. a = Maze!SetSides(x, n + 4, n + 5, n + 3, n + 6) BY DEF a, x
  <2> DEFINE d1 == n + 4
             d2 == n + 5
             d3 == n + 3
             d4 == n + 6
             k  == n + 9
  <2>3. /\ d1 \in Nat /\ d2 \in Nat /\ d3 \in Nat /\ d4 \in Nat /\ k \in Nat
        /\ d1 <= k /\ d2 <= k /\ d3 <= k /\ d4 <= k
    BY <1>1
  <2>4. a = Maze!SetSides(x, d1, d2, d3, d4) BY <2>2
  <2> HIDE DEF d1, d2, d3, d4, k
  <2>5. Sided(Maze!SetSides(x, d1, d2, d3, d4), d1, d2, d3, d4) BY <2>1, <2>3, RoomWithSides
  <2>6. Sided(a, d1, d2, d3, d4) BY <2>4, <2>5
  <2>7. a.sides \in [Maze!Directions -> 0 .. k]
    <3>1. a.sides \in [Maze!Directions -> {d1, d2, d3, d4}] BY <2>6 DEF Sided
    <3>2. {d1, d2, d3, d4} \subseteq 0 .. k BY <2>3
    <3> QED BY <3>1, <3>2
  <2>8. /\ a \in RoomSort /\ a.class \in RoomClass
        /\ a.sides[1] = d1 /\ a.sides[2] = d2 /\ a.sides[3] = d3 /\ a.sides[4] = d4
    BY <2>6 DEF Sided
  <2> QED BY <2>7, <2>8 DEF d1, d2, d3, d4, k
<1>4. /\ b \in RoomSort /\ b.class \in RoomClass
      /\ b.sides[1] = n + 7 /\ b.sides[2] = n + 8 /\ b.sides[3] = n + 9 /\ b.sides[4] = n + 3
      /\ b.sides \in [Maze!Directions -> 0 .. n + 9]
  <2> DEFINE x == Maze!MakeRoom(f, 2)
  <2>1. x \in RoomSort BY <1>1, MadeRoom
  <2> HIDE DEF x, b
  <2>2. b = Maze!SetSides(x, n + 7, n + 8, n + 9, n + 3) BY DEF b, x
  <2> DEFINE d1 == n + 7
             d2 == n + 8
             d3 == n + 9
             d4 == n + 3
             k  == n + 9
  <2>3. /\ d1 \in Nat /\ d2 \in Nat /\ d3 \in Nat /\ d4 \in Nat /\ k \in Nat
        /\ d1 <= k /\ d2 <= k /\ d3 <= k /\ d4 <= k
    BY <1>1
  <2>4. b = Maze!SetSides(x, d1, d2, d3, d4) BY <2>2
  <2> HIDE DEF d1, d2, d3, d4, k
  <2>5. Sided(Maze!SetSides(x, d1, d2, d3, d4), d1, d2, d3, d4) BY <2>1, <2>3, RoomWithSides
  <2>6. Sided(b, d1, d2, d3, d4) BY <2>4, <2>5
  <2>7. b.sides \in [Maze!Directions -> 0 .. k]
    <3>1. b.sides \in [Maze!Directions -> {d1, d2, d3, d4}] BY <2>6 DEF Sided
    <3>2. {d1, d2, d3, d4} \subseteq 0 .. k BY <2>3
    <3> QED BY <3>1, <3>2
  <2>8. /\ b \in RoomSort /\ b.class \in RoomClass
        /\ b.sides[1] = d1 /\ b.sides[2] = d2 /\ b.sides[3] = d3 /\ b.sides[4] = d4
    BY <2>6 DEF Sided
  <2> QED BY <2>7, <2>8 DEF d1, d2, d3, d4, k
<1>5. c \in DoorSort /\ c.class = "door" /\ c.open = TRUE /\ c.rooms = <<n + 1, n + 2>>
  <2>1. c = [class |-> "door", rooms |-> <<n + 1, n + 2>>, open |-> TRUE]
    BY DEF Maze!MakeDoor, Maze!Door
  <2> HIDE DEF c
  <2> QED BY <1>1, <2>1 DEF DoorSort
<1>6. /\ z \in Site /\ z.class \in {"wall", "bombed wall"}
      /\ z.class = "bombed wall" /\ z.open = TRUE => f = "prototype" /\ Maze!IsOpen(2)
  <2> HIDE DEF z
  <2>1. z = Maze!MakeWall(f) BY DEF z
  <2> QED BY <1>1, <2>1, MadeWall
<1> HIDE DEF a, b, c, z
<1>7. a \in Site /\ b \in Site /\ c \in Site BY <1>3, <1>4, <1>5 DEF Site
<1>8. S3 \in Seq(Site) /\ Len(S3) = 3 /\ S3[1] = a /\ S3[2] = b /\ S3[3] = c
  BY <1>7, Three
<1>9. S6 \in Seq(Site) /\ Len(S6) = 6 /\ \A i \in 1 .. 6 : S6[i] = z BY <1>6, SixOf
<1> HIDE DEF S3, S6
<1>10. sites' = sites \o e
  <2>1. sites \in Seq(Site) /\ S3 \in Seq(Site) /\ S6 \in Seq(Site) BY <1>1, <1>8, <1>9
  <2>2. (sites \o S3) \o S6 = sites \o (S3 \o S6) BY <2>1, ConcatAssociative
  <2> QED BY <1>2, <2>2
<1>11. /\ e \in Seq(Site) /\ Len(e) = Len(S3) + Len(S6)
       /\ \A i \in 1 .. Len(S3) + Len(S6) :
            e[i] = IF i <= Len(S3) THEN S3[i] ELSE S6[i - Len(S3)]
  BY <1>8, <1>9, ConcatProperties
<1> HIDE DEF e
<1>12. Len(e) = 9 /\ e[1] = a /\ e[2] = b /\ e[3] = c BY <1>8, <1>9, <1>11
<1>13. ASSUME NEW i \in 4 .. 9 PROVE e[i] = z
  <2>1. i \in 1 .. Len(S3) + Len(S6) /\ ~(i <= Len(S3)) /\ i - Len(S3) \in 1 .. 6
    BY <1>8, <1>9
  <2> QED BY <2>1, <1>9, <1>11
<1>14. \A i \in 1 .. 2 : i = 1 \/ i = 2 OBVIOUS
<1>15. NineSites(e, n, f)
  BY <1>3, <1>4, <1>5, <1>6, <1>11, <1>12, <1>13, <1>14 DEF NineSites
<1> QED BY <1>10, <1>15 DEF n

LEMMA CreateStep ==
  ASSUME MazeInv, NEW f \in Maze!Factories, Maze!CreateMaze(f)
  PROVE  MazeInv'
<1> DEFINE n == Size
           q == Maze!MakeMaze(f) \o <<n + 1, n + 2>>
<1>1. Heap(sites) /\ n \in Nat /\ sites \in Seq(Site) /\ n >= 3 /\ n = Len(sites)
  BY SiteAt DEF MazeInv, Heap, Size
<1>2. PICK e : sites' = sites \o e /\ NineSites(e, n, f) BY NewSites
<1>3. /\ mazes' = Append(mazes, q) /\ UNCHANGED <<tied, blown>>
      /\ touched' = IF f = "prototype" /\ Maze!IsOpen(2) THEN touched \cup (n + 4 .. n + 9)
                    ELSE touched
  BY DEF Maze!CreateMaze, Size, Maze!WallPrototype
<1> HIDE DEF n
<1>4. /\ Heap(sites') /\ Kept(sites, sites', {}) /\ Len(sites') = n + 9
      /\ \A s \in 1 .. n : sites'[s] = sites[s]
      /\ \A i \in 1 .. 9 : sites'[n + i] = e[i]
  <2>1. e \in Seq(Site) /\ Len(e) = 9 BY <1>2 DEF NineSites
  <2>2. ASSUME NEW i \in 1 .. 9, e[i].class \in RoomClass
        PROVE  e[i].sides \in [Maze!Directions -> 0 .. n + 9]
    <3>1. i \in 1 .. 2 \/ i = 3 \/ i \in 4 .. 9 OBVIOUS
    <3>2. i # 3 /\ i \notin 4 .. 9 BY <2>2, <1>2 DEF NineSites, RoomClass
    <3> QED BY <3>1, <3>2, <1>2 DEF NineSites
  <2>3. /\ Heap(sites \o e) /\ Kept(sites, sites \o e, {})
        /\ Len(sites \o e) = Len(sites) + Len(e)
        /\ \A s \in 1 .. Len(sites) : (sites \o e)[s] = sites[s]
        /\ \A i \in 1 .. Len(e) : (sites \o e)[Len(sites) + i] = e[i]
    BY <1>1, <2>1, <2>2, GrownSites
  <2> QED BY <1>1, <1>2, <2>1, <2>3
<1>5. /\ sites'[n + 1] = e[1] /\ sites'[n + 2] = e[2] /\ sites'[n + 3] = e[3]
  BY <1>4
<1>6. MazeAt(sites', <<n + 1, n + 2>>, n)
  <2>1. n + 9 <= Len(sites') BY <1>1, <1>4
  <2>2. 1 \in 1 .. 2 /\ 2 \in 1 .. 2 OBVIOUS
  <2>3. e[1].class \in RoomClass /\ e[2].class \in RoomClass BY <1>2, <2>2 DEF NineSites
  <2>4. /\ e[1].sides[1] = n + 4 /\ e[1].sides[2] = n + 5
        /\ e[1].sides[3] = n + 3 /\ e[1].sides[4] = n + 6
        /\ e[2].sides[1] = n + 7 /\ e[2].sides[2] = n + 8
        /\ e[2].sides[3] = n + 9 /\ e[2].sides[4] = n + 3
        /\ e[3].class = "door" /\ e[3].open = TRUE /\ e[3].rooms = <<n + 1, n + 2>>
    BY <1>2 DEF NineSites
  <2> QED BY <1>1, <1>5, <2>1, <2>3, <2>4 DEF MazeAt
<1>7. IsRoom(sites', n + 1) /\ IsRoom(sites', n + 2)
  <2>1. n + 1 \in 1 .. Len(sites') /\ n + 2 \in 1 .. Len(sites') BY <1>1, <1>4
  <2> QED BY <2>1, <1>6 DEF MazeAt, IsRoom
<1>8. /\ mazes \in Seq(Seq(Nat)) /\ Len(mazes) \in Nat /\ Len(mazes) >= 1
      /\ 1 \in 1 .. Len(mazes) /\ mazes[1] \in Seq(Nat)
      /\ \A k \in 1 .. Len(mazes) : \A i \in 1 .. Len(mazes[k]) : IsRoom(sites, mazes[k][i])
  BY LenProperties, ElementOfSeq DEF MazeInv, OfRooms
<1>9. /\ q \in Seq(Nat) /\ (~tied => q = <<n + 1, n + 2>>)
      /\ \A i \in 1 .. Len(q) : IsRoom(sites', q[i])
  <2> DEFINE pair == <<n + 1, n + 2>>
             old == Maze!MakeMaze(f)
  <2>1. old = mazes[1] \/ old = <<>> BY DEF Maze!MakeMaze
  <2>2. pair \in Seq(Nat) /\ Len(pair) = 2 /\ pair[1] = n + 1 /\ pair[2] = n + 2
    BY <1>1
  <2>3. old \in Seq(Nat) /\ Len(old) \in Nat BY <1>8, <2>1, EmptySeq, LenProperties
  <2>4. \A i \in 1 .. Len(old) : IsRoom(sites, old[i]) BY <1>8, <2>1, EmptySeq
  <2>5. ~tied => old = <<>> BY <2>1 DEF MazeInv, Laid
  <2> HIDE DEF pair, old
  <2>6. /\ old \o pair \in Seq(Nat) /\ Len(old \o pair) = Len(old) + Len(pair)
        /\ \A i \in 1 .. Len(old) + Len(pair) :
             (old \o pair)[i] = IF i <= Len(old) THEN old[i] ELSE pair[i - Len(old)]
    BY <2>2, <2>3, ConcatProperties
  <2>7. q = old \o pair BY DEF old, pair
  <2>8. ~tied => q = pair BY <2>2, <2>5, <2>7, ConcatEmptySeq
  <2> HIDE DEF q
  <2>9. ASSUME NEW i \in 1 .. Len(q) PROVE IsRoom(sites', q[i])
    <3>1. i \in 1 .. Len(old) + 2 BY <2>2, <2>6, <2>7
    <3>2. CASE i <= Len(old)
      <4>1. q[i] = old[i] /\ i \in 1 .. Len(old) BY <3>1, <3>2, <2>2, <2>3, <2>6, <2>7
      <4>2. IsRoom(sites, old[i]) BY <4>1, <2>4
      <4> QED BY <4>1, <4>2, <1>1, <1>4, KeptRoom
    <3>3. CASE ~(i <= Len(old))
      <4>1. q[i] = pair[i - Len(old)] BY <3>1, <3>3, <2>2, <2>6, <2>7
      <4>2. i - Len(old) = 1 \/ i - Len(old) = 2 BY <3>1, <3>3, <2>3
      <4> QED BY <4>1, <4>2, <2>2, <1>7
    <3> QED BY <3>2, <3>3
  <2> QED BY <2>6, <2>7, <2>8, <2>9 DEF pair
<1> HIDE DEF q
<1>10. /\ mazes' \in Seq(Seq(Nat)) /\ Len(mazes') = Len(mazes) + 1
       /\ \A k \in 1 .. Len(mazes) : mazes'[k] = mazes[k]
       /\ mazes'[Len(mazes) + 1] = q
  BY <1>3, <1>8, <1>9, AppendProperties
<1>11. \A k \in 1 .. Len(mazes') : k \in 1 .. Len(mazes) \/ k = Len(mazes) + 1
  BY <1>8, <1>10
<1>12. OfRooms'
  <2>1. \A k \in 1 .. Len(mazes) : \A i \in 1 .. Len(mazes[k]) : IsRoom(sites', mazes[k][i])
    BY <1>1, <1>4, <1>8, KeptRoom
  <2>2. \A k \in 1 .. Len(mazes') : \A i \in 1 .. Len(mazes'[k]) : IsRoom(sites', mazes'[k][i])
    BY <2>1, <1>9, <1>10, <1>11
  <2>3. Len(mazes') >= 1 BY <1>8, <1>10
  <2> QED BY <2>2, <2>3, <1>10 DEF OfRooms
<1>13. Laid'
  <2> SUFFICES ASSUME ~tied' PROVE Laid' BY DEF Laid
  <2>1. ~tied /\ q = <<n + 1, n + 2>> /\ q[1] = n + 1 BY <1>3, <1>9, PairOf
  <2>2. /\ mazes[1] = <<>>
        /\ \A m \in 1 .. Len(mazes) : mazes[m] = <<>> \/ \E k \in Nat : MazeAt(sites, mazes[m], k)
        /\ \A m, k \in 1 .. Len(mazes) :
             m < k /\ mazes[m] # <<>> /\ mazes[k] # <<>> => mazes[m][1] + 9 <= mazes[k][1]
    BY <2>1 DEF MazeInv, Laid
  <2>3. mazes'[1] = <<>> BY <2>2, <1>8, <1>10
  <2>4. ASSUME NEW m \in 1 .. Len(mazes')
        PROVE  mazes'[m] = <<>> \/ \E k \in Nat : MazeAt(sites', mazes'[m], k)
    <3>1. CASE m \in 1 .. Len(mazes)
      <4>1. mazes'[m] = mazes[m] BY <3>1, <1>10
      <4>2. \A k \in Nat : MazeAt(sites, mazes[m], k) => MazeAt(sites', mazes[m], k)
        BY <1>1, <1>4, KeptMaze
      <4> QED BY <3>1, <4>1, <4>2, <2>2
    <3>2. CASE m = Len(mazes) + 1 BY <3>2, <2>1, <1>1, <1>6, <1>10
    <3> QED BY <3>1, <3>2, <1>11
  <2>5. ASSUME NEW m \in 1 .. Len(mazes), mazes[m] # <<>> PROVE mazes[m][1] + 9 <= n + 1
    <3>1. PICK k \in Nat : MazeAt(sites, mazes[m], k) BY <2>2, <2>5
    <3>2. mazes[m][1] = k + 1 /\ k + 9 <= n BY <3>1, <1>1, PairOf DEF MazeAt
    <3> QED BY <3>2, <1>1
  <2>6. ASSUME NEW m \in 1 .. Len(mazes'), NEW k \in 1 .. Len(mazes'),
               m < k, mazes'[m] # <<>>, mazes'[k] # <<>>
        PROVE  mazes'[m][1] + 9 <= mazes'[k][1]
    <3>1. m \in 1 .. Len(mazes) /\ mazes'[m] = mazes[m] BY <2>6, <1>8, <1>10
    <3>2. CASE k \in 1 .. Len(mazes) BY <3>1, <3>2, <2>2, <2>6, <1>10
    <3>3. CASE k = Len(mazes) + 1
      <4>1. mazes'[k][1] = n + 1 BY <3>3, <2>1, <1>10
      <4> QED BY <3>1, <4>1, <2>5, <2>6
    <3> QED BY <3>2, <3>3, <1>11
  <2> QED BY <2>3, <2>4, <2>6 DEF Laid
<1>14. touched \subseteq touched' /\ touched' \subseteq 1 .. Len(sites')
  <2>1. touched \subseteq 1 .. n BY DEF MazeInv, Opens, n
  <2>2. 1 .. n \subseteq 1 .. n + 9 /\ n + 4 .. n + 9 \subseteq 1 .. n + 9 BY <1>1
  <2> QED BY <2>1, <2>2, <1>3, <1>4
<1>15. ASSUME NEW s \in 1 .. Len(sites'), sites'[s].class = "bombed wall", sites'[s].open = TRUE
       PROVE  \/ s \in touched'
              \/ s \in 1 .. Size /\ sites[s].class = "bombed wall" /\ sites[s].open = TRUE
  <2>1. CASE s \in 1 .. n BY <2>1, <1>4, <1>15 DEF n
  <2>2. CASE s \notin 1 .. n
    <3>1. s - n \in 1 .. 9 /\ n + (s - n) = s BY <2>2, <1>1, <1>4
    <3>2. e[s - n].class = "bombed wall" /\ e[s - n].open = TRUE BY <3>1, <1>4, <1>15
    <3>3. s - n \notin 1 .. 2 /\ s - n # 3 BY <3>2, <1>2 DEF NineSites, RoomClass
    <3>4. s - n \in 4 .. 9 BY <3>1, <3>3
    <3>5. f = "prototype" /\ Maze!IsOpen(2) BY <3>2, <3>4, <1>2 DEF NineSites
    <3>6. s \in n + 4 .. n + 9 BY <3>1, <3>4, <1>1
    <3> QED BY <3>5, <3>6, <1>3
  <2> QED BY <2>1, <2>2
<1>16. tied' = tied /\ tied' \in BOOLEAN /\ blown' \ blown = {}
  BY <1>3 DEF MazeInv, Opens
<1> QED BY <1>4, <1>12, <1>13, <1>14, <1>15, <1>16, MazeFrame

LEMMA MazesStep ==
  ASSUME MazeInv, Maze!Next
  PROVE  MazeInv'
BY EnterStep, OpenStep, CloneStep, SetSideStep, AddRoomStep, NewDoorStep, CloneMazeStep,
   CreateStep
   DEF Maze!Next, Maze!Change
-----------------------------------------------------------------------------
(* Interpreter_Pattern.cpp *)

Ops   == {"const", "var", "not", "and", "or"}
Duals == {"and", "or"}

Node == [op : {"const"}, value : BOOLEAN] \cup [op : {"var"}, name : Names]
          \cup [op : {"not"}, left : Nat] \cup [op : Duals, left : Nat, right : Nat]

(* The operands of a node are nodes before it.                             *)
Operands(n) ==
  IF n.op \in Duals THEN {n.left, n.right} ELSE IF n.op = "not" THEN {n.left} ELSE {}

Dag(N) == N \in Seq(Node) /\ \A i \in 1 .. Len(N) : Operands(N[i]) \subseteq 1 .. i - 1

(* Evaluate, for any nodes N                                               *)
Values(N, c) == CHOOSE f : f = [i \in 1 .. Len(N) |-> Expressions!ValueOf(N[i], f, c)]

LEMMA NodeOps ==
  ASSUME NEW n \in Node
  PROVE  /\ n.op \in Ops
         /\ n.op = "const" => n.value \in BOOLEAN
         /\ n.op = "var" => n.name \in Names
         /\ Expressions!Inner(n) <=> n.op = "not" \/ n.op \in Duals
         /\ n.op = "not" \/ n.op \in Duals => n.left \in Nat
         /\ n.op \in Duals => n.right \in Nat
BY DEF Node, Ops, Duals, Expressions!Inner

LEMMA SameValue ==
  ASSUME NEW n \in Node, NEW f, NEW g, NEW c, \A j \in Operands(n) : f[j] = g[j]
  PROVE  Expressions!ValueOf(n, f, c) = Expressions!ValueOf(n, g, c)
BY NodeOps DEF Expressions!ValueOf, Operands, Ops, Duals

LEMMA ValuesExist ==
  ASSUME NEW N, Dag(N), NEW c
  PROVE  Values(N, c) = [i \in 1 .. Len(N) |-> Expressions!ValueOf(N[i], Values(N, c), c)]
<1> DEFINE Some(k) == \E f : f = [i \in 1 .. k |-> Expressions!ValueOf(N[i], f, c)]
           Bad == {k \in 0 .. Len(N) : ~Some(k)}
<1>1. N \in Seq(Node) /\ Len(N) \in Nat /\ \A i \in 1 .. Len(N) : N[i] \in Node BY DEF Dag
<1>2. ASSUME Bad # {} PROVE FALSE
  <2>1. PICK k \in Bad : \A j \in Bad : k <= j
    <3> Bad \subseteq Nat BY <1>1
    <3> HIDE DEF Bad
    <3> QED BY <1>2, LeastOf
  <2>2. k \in 0 .. Len(N) /\ ~Some(k) OBVIOUS
  <2>3. k # 0
    <3>1. [i \in {} |-> 0] = [i \in 1 .. 0 |-> Expressions!ValueOf(N[i], [j \in {} |-> 0], c)]
      OBVIOUS
    <3> QED BY <2>2, <3>1
  <2>4. k - 1 \in 0 .. Len(N) /\ k \in 1 .. Len(N) /\ k - 1 \notin Bad BY <1>1, <2>1, <2>2, <2>3
  <2>5. PICK f : f = [i \in 1 .. k - 1 |-> Expressions!ValueOf(N[i], f, c)] BY <2>4
  <2> DEFINE g == [i \in 1 .. k |-> Expressions!ValueOf(N[i], f, c)]
  <2>6. ASSUME NEW i \in 1 .. k
        PROVE  Expressions!ValueOf(N[i], f, c) = Expressions!ValueOf(N[i], g, c)
    <3>1. N[i] \in Node /\ Operands(N[i]) \subseteq 1 .. i - 1 BY <1>1, <2>4 DEF Dag
    <3>2. \A j \in Operands(N[i]) : f[j] = g[j]
      <4>1. Operands(N[i]) \subseteq 1 .. k - 1 BY <2>4, <3>1
      <4>2. \A j \in 1 .. k - 1 : g[j] = Expressions!ValueOf(N[j], f, c) BY <2>4
      <4>3. \A j \in 1 .. k - 1 : f[j] = Expressions!ValueOf(N[j], f, c) BY <2>5
      <4> QED BY <4>1, <4>2, <4>3
    <3> HIDE DEF g
    <3> QED BY <3>1, <3>2, SameValue
  <2>7. g = [i \in 1 .. k |-> Expressions!ValueOf(N[i], g, c)] BY <2>6
  <2> HIDE DEF g
  <2> QED BY <2>2, <2>7
<1>3. Some(Len(N)) BY <1>1, <1>2
<1> QED BY <1>3 DEF Values

LEMMA EvaluateIs ==
  ASSUME NEW e, NEW c
  PROVE  Expressions!Evaluate(e, c) = Values(nodes, c)[e]
BY DEF Expressions!Evaluate, Values

LEMMA ValueAt ==
  ASSUME NEW N, Dag(N), NEW c, NEW i \in 1 .. Len(N)
  PROVE  Values(N, c)[i] = Expressions!ValueOf(N[i], Values(N, c), c)
BY ValuesExist

LEMMA NodeAt ==
  ASSUME NEW N, Dag(N), NEW i \in 1 .. Len(N)
  PROVE  /\ Len(N) \in Nat /\ i \in Nat /\ N[i] \in Node
         /\ Operands(N[i]) \subseteq 1 .. i - 1
         /\ \A j \in Operands(N[i]) : j \in 1 .. i - 1 /\ j \in 1 .. Len(N)
<1>1. Len(N) \in Nat /\ i \in Nat /\ N[i] \in Node BY DEF Dag
<1>2. Operands(N[i]) \subseteq 1 .. i - 1 BY DEF Dag
<1>3. 1 .. i - 1 \subseteq 1 .. Len(N) BY <1>1
<1> QED BY <1>1, <1>2, <1>3

(* Nodes whose operands are the same in two heaps have the same values. *)
Agree(N, M, K) ==
  \A i \in K : /\ i \in 1 .. Len(N) /\ i \in 1 .. Len(M) /\ M[i] = N[i]
               /\ Operands(N[i]) \subseteq K

LEMMA SameMeaning ==
  ASSUME NEW N, NEW M, Dag(N), Dag(M), NEW c, NEW K, Agree(N, M, K)
  PROVE  \A i \in K : Values(M, c)[i] = Values(N, c)[i]
<1> DEFINE S == {i \in 1 .. Len(N) : i \in K => Values(M, c)[i] = Values(N, c)[i]}
<1>1. Len(N) \in Nat BY DEF Dag
<1>2. ASSUME NEW i \in 1 .. Len(N), 1 .. i - 1 \subseteq S PROVE i \in S
  <2>1. SUFFICES ASSUME i \in K PROVE Values(M, c)[i] = Values(N, c)[i] OBVIOUS
  <2>2. /\ Values(M, c)[i] = Expressions!ValueOf(M[i], Values(M, c), c)
        /\ Values(N, c)[i] = Expressions!ValueOf(N[i], Values(N, c), c)
    BY <2>1, ValueAt DEF Agree
  <2>3. \A j \in Operands(N[i]) : Values(M, c)[j] = Values(N, c)[j]
    BY <1>2, <2>1, NodeAt DEF Agree
  <2>4. N[i] \in Node BY NodeAt
  <2>5. Expressions!ValueOf(N[i], Values(M, c), c) = Expressions!ValueOf(N[i], Values(N, c), c)
    <3> DEFINE f == Values(M, c)
               g == Values(N, c)
    <3>1. \A j \in Operands(N[i]) : f[j] = g[j] BY <2>3
    <3> HIDE DEF f, g
    <3>2. Expressions!ValueOf(N[i], f, c) = Expressions!ValueOf(N[i], g, c)
      BY <2>4, <3>1, SameValue
    <3> QED BY <3>2 DEF f, g
  <2>6. M[i] = N[i] BY <2>1 DEF Agree
  <2> QED BY <2>2, <2>5, <2>6
<1> HIDE DEF S
<1>3. 1 .. Len(N) \subseteq S BY <1>1, <1>2, OneByOne
<1> QED BY <1>3 DEF S, Agree

Told == {"yes", "no"}

LEMMA LookedUp ==
  ASSUME NEW c \in Expressions!Contexts, NEW x \in Names
  PROVE  /\ c \in Expressions!Total \/ DOMAIN c = {} => Expressions!Lookup(c, x) \in Told
         /\ Expressions!Lookup(c, x) \in Told \cup {"throws"}
         /\ DOMAIN c = {} => Expressions!Lookup(c, x) = "no"
         /\ DOMAIN c # {} /\ Expressions!Lookup(c, x) # "throws" =>
              x \in DOMAIN c /\ Expressions!Lookup(c, x) = Expressions!Truth(c[x])
         /\ c \in Expressions!Total => Expressions!Lookup(c, x) = Expressions!Truth(c[x])
BY DEF Expressions!Contexts, Expressions!Total, Expressions!Lookup, Expressions!Truth, Told

LEMMA ValueCases ==
  ASSUME NEW n \in Node, NEW f, NEW c
  PROVE  /\ n.op = "const" => Expressions!ValueOf(n, f, c) = Expressions!Truth(n.value)
         /\ n.op = "var" => Expressions!ValueOf(n, f, c) = Expressions!Lookup(c, n.name)
         /\ n.op = "not" => /\ Operands(n) = {n.left}
                            /\ Expressions!ValueOf(n, f, c) = Expressions!Not(f[n.left])
         /\ n.op \in Duals => Operands(n) = {n.left, n.right}
         /\ n.op = "and" =>
              Expressions!ValueOf(n, f, c) = Expressions!And(f[n.left], f[n.right])
         /\ n.op = "or" =>
              Expressions!ValueOf(n, f, c) = Expressions!Or(f[n.left], f[n.right])
BY NodeOps DEF Expressions!ValueOf, Operands, Duals, Ops

(* In an empty context, and in one with every name, nothing throws. *)
LEMMA AllTold ==
  ASSUME NEW N, Dag(N), NEW c \in Expressions!Contexts,
         c \in Expressions!Total \/ DOMAIN c = {}
  PROVE  \A i \in 1 .. Len(N) : Values(N, c)[i] \in Told
<1> DEFINE f == Values(N, c)
           S == {i \in 1 .. Len(N) : f[i] \in Told}
<1>1. Len(N) \in Nat BY DEF Dag
<1>2. ASSUME NEW i \in 1 .. Len(N), 1 .. i - 1 \subseteq S PROVE i \in S
  <2> DEFINE n == N[i]
  <2>1. f[i] = Expressions!ValueOf(n, f, c) BY ValueAt
  <2>2. n \in Node /\ \A j \in Operands(n) : f[j] \in Told BY <1>2, NodeAt
  <2> HIDE DEF n, f
  <2>3. CASE n.op = "const"
    BY <2>1, <2>2, <2>3, ValueCases DEF Expressions!Truth, Told
  <2>4. CASE n.op = "var"
    BY <2>1, <2>2, <2>4, ValueCases, NodeOps, LookedUp
  <2>5. CASE n.op = "not"
    BY <2>1, <2>2, <2>5, ValueCases DEF Expressions!Not, Told
  <2>6. CASE n.op = "and"
    BY <2>1, <2>2, <2>6, ValueCases DEF Expressions!And, Told, Duals
  <2>7. CASE n.op = "or"
    BY <2>1, <2>2, <2>7, ValueCases DEF Expressions!Or, Told, Duals
  <2> QED BY <2>2, <2>3, <2>4, <2>5, <2>6, <2>7, NodeOps DEF Ops
<1> HIDE DEF S
<1>3. 1 .. Len(N) \subseteq S BY <1>1, <1>2, OneByOne
<1> QED BY <1>3 DEF S

(* A value told without some names is the same with them.                  *)
LEMMA InPart ==
  ASSUME NEW N, Dag(N), NEW c \in Expressions!Contexts, NEW d \in Expressions!Total,
         \/ DOMAIN c = {} /\ d = [x \in Names |-> FALSE]
         \/ DOMAIN c # {} /\ Expressions!Extends(d, c)
  PROVE  \A i \in 1 .. Len(N) :
           \/ DOMAIN c # {} /\ Values(N, c)[i] = "throws"
           \/ Values(N, c)[i] \in Told /\ Values(N, d)[i] = Values(N, c)[i]
<1> DEFINE f == Values(N, c)
           g == Values(N, d)
           Fine(i) == \/ DOMAIN c # {} /\ f[i] = "throws"
                      \/ f[i] \in Told /\ g[i] = f[i]
           S == {i \in 1 .. Len(N) : Fine(i)}
<1>1. Len(N) \in Nat BY DEF Dag
<1>2. ASSUME NEW i \in 1 .. Len(N), 1 .. i - 1 \subseteq S PROVE i \in S
  <2> DEFINE n == N[i]
  <2>1. f[i] = Expressions!ValueOf(n, f, c) /\ g[i] = Expressions!ValueOf(n, g, d) BY ValueAt
  <2>2. n \in Node /\ \A j \in Operands(n) : Fine(j) BY <1>2, NodeAt
  <2> HIDE DEF n, f, g
  <2>3. CASE n.op = "const"
    BY <2>1, <2>2, <2>3, ValueCases DEF Expressions!Truth, Told
  <2>4. CASE n.op = "var"
    <3> DEFINE x == n.name
    <3>1. x \in Names /\ f[i] = Expressions!Lookup(c, x) /\ g[i] = Expressions!Lookup(d, x)
      BY <2>1, <2>2, <2>4, ValueCases, NodeOps
    <3> HIDE DEF x
    <3>2. d \in Expressions!Contexts BY DEF Expressions!Total, Expressions!Contexts
    <3>3. Expressions!Lookup(d, x) = Expressions!Truth(d[x]) BY <3>1, <3>2, LookedUp
    <3>4. CASE DOMAIN c = {}
      <4>1. d[x] = FALSE BY <3>1, <3>4
      <4>2. f[i] = "no" BY <3>1, <3>4, LookedUp
      <4> QED BY <3>1, <3>3, <4>1, <4>2 DEF Expressions!Truth, Told
    <3>5. CASE DOMAIN c # {} /\ f[i] # "throws"
      <4>1. x \in DOMAIN c /\ f[i] = Expressions!Truth(c[x]) BY <3>1, <3>5, LookedUp
      <4>2. d[x] = c[x] BY <3>5, <4>1 DEF Expressions!Extends
      <4> QED BY <3>1, <3>3, <4>1, <4>2 DEF Expressions!Truth, Told
    <3> QED BY <3>4, <3>5
  <2>5. CASE n.op = "not"
    BY <2>1, <2>2, <2>5, ValueCases DEF Expressions!Not, Told
  <2>6. CASE n.op = "and"
    BY <2>1, <2>2, <2>6, ValueCases DEF Expressions!And, Told, Duals
  <2>7. CASE n.op = "or"
    BY <2>1, <2>2, <2>7, ValueCases DEF Expressions!Or, Told, Duals
  <2> QED BY <2>2, <2>3, <2>4, <2>5, <2>6, <2>7, NodeOps DEF Ops
<1> HIDE DEF S
<1>3. 1 .. Len(N) \subseteq S BY <1>1, <1>2, OneByOne
<1> QED BY <1>3 DEF S

LEMMA RightInPartOf ==
  ASSUME Dag(nodes)
  PROVE  Expressions!RightInPart
<1> DEFINE No == [x \in Names |-> FALSE]
<1>1. No \in Expressions!Total BY DEF Expressions!Total
<1>2. DOMAIN nodes = 1 .. Len(nodes) BY DEF Dag
<1> HIDE DEF No
<1>3. SUFFICES ASSUME NEW e \in 1 .. Len(nodes), NEW c \in Expressions!Contexts
      PROVE  /\ c \in Expressions!Total \/ DOMAIN c = {} => Values(nodes, c)[e] # "throws"
             /\ DOMAIN c = {} => Values(nodes, c)[e] = Values(nodes, No)[e]
             /\ DOMAIN c # {} /\ Values(nodes, c)[e] # "throws" =>
                  \A d \in Expressions!Total : Expressions!Extends(d, c) =>
                    Values(nodes, d)[e] = Values(nodes, c)[e]
  BY <1>2, EvaluateIs DEF Expressions!RightInPart, No
<1>4. c \in Expressions!Total \/ DOMAIN c = {} => Values(nodes, c)[e] # "throws"
  BY AllTold DEF Told
<1>5. ASSUME DOMAIN c = {} PROVE Values(nodes, c)[e] = Values(nodes, No)[e]
  BY <1>1, <1>5, InPart DEF No
<1>6. ASSUME DOMAIN c # {}, Values(nodes, c)[e] # "throws",
             NEW d \in Expressions!Total, Expressions!Extends(d, c)
      PROVE  Values(nodes, d)[e] = Values(nodes, c)[e]
  BY <1>6, InPart
<1> QED BY <1>4, <1>5, <1>6
-----------------------------------------------------------------------------
(* The copies *)

(* A copy of node n from a + 1 on, where f has those of its operands       *)
Grown(n, f, a, leaf) ==
  IF Expressions!Inner(n)
  THEN Expressions!Joined(n, f[n.left][a], f[n.right][a + Len(f[n.left][a])], a) ELSE leaf

LEMMA SameGrown ==
  ASSUME NEW n \in Node, NEW f, NEW g, NEW a, NEW leaf, \A j \in Operands(n) : f[j] = g[j]
  PROVE  Grown(n, f, a, leaf) = Grown(n, g, a, leaf)
<1>1. CASE n.op = "not"
  <2>1. f[n.left] = g[n.left] BY <1>1, NodeOps DEF Operands, Duals
  <2> QED BY <1>1, <2>1 DEF Grown, Expressions!Joined
<1>2. CASE n.op \in Duals
  <2>1. f[n.left] = g[n.left] /\ f[n.right] = g[n.right]
    BY <1>2, NodeOps DEF Operands
  <2> QED BY <1>2, <2>1 DEF Grown
<1>3. CASE ~Expressions!Inner(n) BY <1>3 DEF Grown
<1> QED BY <1>1, <1>2, <1>3, NodeOps

CanGrow(N, L) ==
  \E f : f = [i \in DOMAIN N |-> [a \in Nat |-> Grown(N[i], f, a, L[i][a])]]

LEMMA GrownExist ==
  ASSUME NEW N, Dag(N), NEW L
  PROVE  CanGrow(N, L)
<1> DEFINE Some(k) ==
             \E f : f = [i \in 1 .. k |-> [a \in Nat |-> Grown(N[i], f, a, L[i][a])]]
           S == {k \in 0 .. Len(N) : Some(k)}
<1>1. Len(N) \in Nat /\ DOMAIN N = 1 .. Len(N) BY DEF Dag
<1>2. 0 \in S
  <2>1. [i \in {} |-> 0] =
          [i \in 1 .. 0 |-> [a \in Nat |-> Grown(N[i], [j \in {} |-> 0], a, L[i][a])]]
    OBVIOUS
  <2>2. Some(0) BY <2>1
  <2>3. 0 \in 0 .. Len(N) BY <1>1
  <2> HIDE DEF Some
  <2> QED BY <2>2, <2>3
<1>3. ASSUME NEW k \in 1 .. Len(N), k - 1 \in S PROVE k \in S
  <2>1. PICK f : f = [i \in 1 .. k - 1 |-> [a \in Nat |-> Grown(N[i], f, a, L[i][a])]] BY <1>3
  <2> DEFINE g == [i \in 1 .. k |-> [a \in Nat |-> Grown(N[i], f, a, L[i][a])]]
  <2>2. ASSUME NEW i \in 1 .. k, NEW a \in Nat
        PROVE  Grown(N[i], f, a, L[i][a]) = Grown(N[i], g, a, L[i][a])
    <3>1. i \in 1 .. Len(N) /\ i - 1 <= k - 1 /\ i \in Nat BY <1>1
    <3>2. N[i] \in Node /\ Operands(N[i]) \subseteq 1 .. k - 1
      <4>1. N[i] \in Node /\ Operands(N[i]) \subseteq 1 .. i - 1 BY <3>1, NodeAt
      <4>2. 1 .. i - 1 \subseteq 1 .. k - 1 BY <3>1, <1>1
      <4> QED BY <4>1, <4>2
    <3>3. \A j \in 1 .. k - 1 : g[j] = f[j]
      <4>1. \A j \in 1 .. k - 1 : g[j] = [b \in Nat |-> Grown(N[j], f, b, L[j][b])] OBVIOUS
      <4>2. \A j \in 1 .. k - 1 : f[j] = [b \in Nat |-> Grown(N[j], f, b, L[j][b])] BY <2>1
      <4> QED BY <4>1, <4>2
    <3> HIDE DEF g
    <3> QED BY <3>2, <3>3, SameGrown
  <2>3. g = [i \in 1 .. k |-> [a \in Nat |-> Grown(N[i], g, a, L[i][a])]] BY <2>2
  <2> HIDE DEF g
  <2>4. Some(k) BY <2>3
  <2> QED BY <2>4, <1>1
<1> HIDE DEF S
<1>4. Len(N) \in S
  <2> DEFINE T == {k \in Nat : k \in S}
  <2>1. ASSUME NEW k \in 1 .. Len(N), 1 .. k - 1 \subseteq T PROVE k \in T
    <3>1. k = 1 \/ k - 1 \in 1 .. k - 1 BY <1>1
    <3>2. k - 1 \in S BY <1>2, <2>1, <3>1
    <3> QED BY <1>3, <3>2
  <2> HIDE DEF T
  <2>2. 1 .. Len(N) \subseteq T BY <1>1, <2>1, OneByOne
  <2> QED BY <1>1, <1>2, <2>2 DEF T
<1> QED BY <1>1, <1>4 DEF S, CanGrow

(* Copied and Replaced are functions that grow in this way.                *)
CopiesOf(N) ==
  CHOOSE f : f = [i \in DOMAIN N |-> [a \in Nat |->
    LET n == N[i] left == f[n.left][a]
    IN IF Expressions!Inner(n)
       THEN Expressions!Joined(n, left, f[n.right][a + Len(left)], a) ELSE <<n>>]]

Replacing(x, e) ==
  CHOOSE f : f = [i \in DOMAIN nodes |-> [a \in Nat |->
    LET n == nodes[i] left == f[n.left][a]
    IN IF Expressions!Inner(n)
       THEN Expressions!Joined(n, left, f[n.right][a + Len(left)], a)
       ELSE IF Expressions!Hit(n, x) THEN Expressions!Copied(e, a) ELSE <<n>>]]

LEMMA CopiedIs ==
  ASSUME NEW e, NEW b
  PROVE  Expressions!Copied(e, b) = CopiesOf(nodes)[e][b]
BY DEF Expressions!Copied, CopiesOf

LEMMA ReplacedIs ==
  ASSUME NEW e, NEW x, NEW s, NEW b
  PROVE  Expressions!Replaced(e, x, s, b) = Replacing(x, s)[e][b]
BY DEF Expressions!Replaced, Replacing

LEMMA CopiesGrow ==
  ASSUME NEW N, Dag(N)
  PROVE  \A i \in 1 .. Len(N), a \in Nat :
           CopiesOf(N)[i][a] = Grown(N[i], CopiesOf(N), a, <<N[i]>>)
<1> DEFINE L == [i \in DOMAIN N |-> [a \in Nat |-> <<N[i]>>]]
           F(f) == [i \in DOMAIN N |-> [a \in Nat |-> Grown(N[i], f, a, <<N[i]>>)]]
<1>1. DOMAIN N = 1 .. Len(N) BY DEF Dag
<1>2. PICK f : f = [i \in DOMAIN N |-> [a \in Nat |-> Grown(N[i], f, a, L[i][a])]]
  <2> HIDE DEF L
  <2>1. CanGrow(N, L) BY GrownExist
  <2> QED BY <2>1 DEF CanGrow
<1>3. f = F(f) BY <1>2
<1> DEFINE C == CopiesOf(N)
<1>4. C = F(C) BY <1>3 DEF CopiesOf, Grown
<1> HIDE DEF C
<1>5. ASSUME NEW i \in 1 .. Len(N), NEW a \in Nat
      PROVE  C[i][a] = Grown(N[i], C, a, <<N[i]>>)
  <2> DEFINE G(j, b) == Grown(N[j], C, b, <<N[j]>>)
  <2>1. C = [j \in DOMAIN N |-> [b \in Nat |-> G(j, b)]] BY <1>4
  <2> HIDE DEF G
  <2>2. C[i][a] = G(i, a) BY <1>1, <2>1
  <2> QED BY <2>2 DEF G
<1> QED BY <1>5 DEF C

LEMMA ReplacingGrow ==
  ASSUME Dag(nodes), NEW x, NEW e
  PROVE  \A i \in 1 .. Len(nodes), a \in Nat :
           Replacing(x, e)[i][a] =
             Grown(nodes[i], Replacing(x, e), a,
                   IF Expressions!Hit(nodes[i], x) THEN Expressions!Copied(e, a) ELSE <<nodes[i]>>)
<1> DEFINE Leaf(i, a) ==
             IF Expressions!Hit(nodes[i], x) THEN Expressions!Copied(e, a) ELSE <<nodes[i]>>
           L == [i \in DOMAIN nodes |-> [a \in Nat |-> Leaf(i, a)]]
           F(f) == [i \in DOMAIN nodes |-> [a \in Nat |-> Grown(nodes[i], f, a, Leaf(i, a))]]
<1>1. DOMAIN nodes = 1 .. Len(nodes) BY DEF Dag
<1>2. PICK f : f = [i \in DOMAIN nodes |-> [a \in Nat |-> Grown(nodes[i], f, a, L[i][a])]]
  <2> HIDE DEF L
  <2>1. CanGrow(nodes, L) BY GrownExist
  <2> QED BY <2>1 DEF CanGrow
<1>3. f = F(f) BY <1>2
<1> DEFINE C == Replacing(x, e)
<1>4. C = F(C) BY <1>3 DEF Replacing, Grown
<1> HIDE DEF C
<1>5. ASSUME NEW i \in 1 .. Len(nodes), NEW a \in Nat
      PROVE  C[i][a] = Grown(nodes[i], C, a, Leaf(i, a))
  <2> DEFINE G(j, b) == Grown(nodes[j], C, b, Leaf(j, b))
  <2>1. C = [j \in DOMAIN nodes |-> [b \in Nat |-> G(j, b)]] BY <1>4
  <2> HIDE DEF G
  <2>2. C[i][a] = G(i, a) BY <1>1, <2>1
  <2> QED BY <2>2 DEF G
<1> QED BY <1>5 DEF C

(* What a copy lays down from a + 1 on: its operands lie there, before it. *)
Piece(s, a) ==
  /\ s \in Seq(Node) /\ Len(s) >= 1
  /\ \A j \in 1 .. Len(s) : Operands(s[j]) \subseteq a + 1 .. a + j - 1

Placed(M, s, a) == \A j \in 1 .. Len(s) : a + j \in 1 .. Len(M) /\ M[a + j] = s[j]

LEMMA JoinedNot ==
  ASSUME NEW n \in Node, n.op = "not", NEW l \in Seq(Node), NEW u, NEW a \in Nat
  PROVE  LET J == Expressions!Joined(n, l, u, a)
             k == Len(l) + 1
         IN  /\ J \in Seq(Node) /\ Len(J) = k
             /\ \A j \in 1 .. Len(l) : J[j] = l[j]
             /\ J[k] \in Node /\ J[k].op = "not" /\ J[k].left = a + Len(l)
<1> DEFINE t == [n EXCEPT !.left = a + Len(l)]
<1>1. t \in Node /\ t.op = "not" /\ t.left = a + Len(l)
  <2>1. n \in [op : {"not"}, left : Nat] BY DEF Node, Duals
  <2>2. a + Len(l) \in Nat OBVIOUS
  <2>3. t \in [op : {"not"}, left : Nat] /\ t.left = a + Len(l) BY <2>1, <2>2
  <2> QED BY <2>3 DEF Node
<1>2. Expressions!Joined(n, l, u, a) = l \o <<t>> BY DEF Expressions!Joined
<1> HIDE DEF t
<1>3. <<t>> \in Seq(Node) /\ Len(<<t>>) = 1 /\ <<t>>[1] = t BY <1>1
<1>4. /\ l \o <<t>> \in Seq(Node) /\ Len(l \o <<t>>) = Len(l) + 1
      /\ \A j \in 1 .. Len(l) : (l \o <<t>>)[j] = l[j]
      /\ (l \o <<t>>)[Len(l) + 1] = t
  BY <1>1, <1>3
<1> QED BY <1>1, <1>2, <1>4

(* An operator on top of the copies of its two operands                    *)
OnTop(J, op, l, u, a) ==
  LET k == Len(l) + Len(u) + 1
  IN  /\ J \in Seq(Node) /\ Len(J) = k
      /\ \A j \in 1 .. Len(l) : J[j] = l[j]
      /\ \A j \in 1 .. Len(u) : J[Len(l) + j] = u[j]
      /\ J[k] \in Node /\ J[k].op = op
      /\ J[k].left = a + Len(l) /\ J[k].right = a + Len(l) + Len(u)

LEMMA JoinedDual ==
  ASSUME NEW n \in Node, n.op \in Duals, NEW l \in Seq(Node), NEW u \in Seq(Node), NEW a \in Nat
  PROVE  OnTop(Expressions!Joined(n, l, u, a), n.op, l, u, a)
<1> DEFINE b == a + Len(l)
           d == b + Len(u)
           t == [n EXCEPT !.left = b, !.right = d]
<1>1. Len(l) \in Nat /\ Len(u) \in Nat /\ b \in Nat /\ d \in Nat OBVIOUS
<1>2. t \in Node /\ t.op = n.op /\ t.left = b /\ t.right = d
  <2> HIDE DEF b, d
  <2>1. n \in [op : Duals, left : Nat, right : Nat] BY DEF Node, Duals
  <2>2. t \in [op : Duals, left : Nat, right : Nat] /\ t.left = b /\ t.right = d /\ t.op = n.op
    BY <2>1, <1>1
  <2> QED BY <2>2 DEF Node
<1>3. Expressions!Joined(n, l, u, a) = (l \o u) \o <<t>>
  BY DEF Expressions!Joined, Duals
<1> HIDE DEF t
<1>4. <<t>> \in Seq(Node) /\ Len(<<t>>) = 1 /\ <<t>>[1] = t BY <1>2
<1> DEFINE v == l \o u
<1>5. /\ v \in Seq(Node) /\ Len(v) = Len(l) + Len(u)
      /\ \A j \in 1 .. Len(l) : v[j] = l[j]
      /\ \A j \in 1 .. Len(u) : v[Len(l) + j] = u[j]
  OBVIOUS
<1> HIDE DEF v
<1>6. /\ v \o <<t>> \in Seq(Node) /\ Len(v \o <<t>>) = Len(v) + 1
      /\ \A j \in 1 .. Len(v) : (v \o <<t>>)[j] = v[j]
      /\ (v \o <<t>>)[Len(v) + 1] = t
  BY <1>2, <1>4, <1>5
<1>7. Expressions!Joined(n, l, u, a) = v \o <<t>> BY <1>3 DEF v
<1>8. /\ \A j \in 1 .. Len(l) : j \in 1 .. Len(v)
      /\ \A j \in 1 .. Len(u) : Len(l) + j \in 1 .. Len(v)
  BY <1>1, <1>5
<1> QED BY <1>2, <1>5, <1>6, <1>7, <1>8 DEF OnTop

LEMMA JoinedPiece ==
  ASSUME NEW n \in Node, Expressions!Inner(n), NEW a \in Nat, NEW l, Piece(l, a),
         NEW u, n.op \in Duals => Piece(u, a + Len(l))
  PROVE  Piece(Expressions!Joined(n, l, u, a), a)
<1> DEFINE J == Expressions!Joined(n, l, u, a)
<1>1. CASE n.op = "not"
  <2> DEFINE k == Len(l) + 1
  <2>1. /\ J \in Seq(Node) /\ Len(J) = k /\ \A j \in 1 .. Len(l) : J[j] = l[j]
        /\ J[k] \in Node /\ J[k].op = "not" /\ J[k].left = a + Len(l)
    BY <1>1, JoinedNot DEF Piece
  <2>2. Len(l) \in Nat /\ Len(l) >= 1
        /\ \A j \in 1 .. Len(l) : Operands(l[j]) \subseteq a + 1 .. a + j - 1
    BY DEF Piece
  <2> HIDE DEF J
  <2>3. Operands(J[k]) = {a + Len(l)} BY <2>1 DEF Operands, Duals
  <2>4. ASSUME NEW j \in 1 .. k PROVE Operands(J[j]) \subseteq a + 1 .. a + j - 1
    <3>1. CASE j = k
      <4>1. a + Len(l) \in a + 1 .. a + k - 1 BY <2>2
      <4> HIDE DEF k
      <4> QED BY <2>3, <3>1, <4>1
    <3>2. CASE j # k
      <4>1. j \in 1 .. Len(l) BY <2>2, <3>2
      <4> QED BY <2>1, <2>2, <4>1
    <3> QED BY <3>1, <3>2
  <2>5. Piece(J, a) BY <2>1, <2>2, <2>4 DEF Piece
  <2> QED BY <2>5 DEF J
<1>2. CASE n.op \in Duals
  <2> DEFINE k == Len(l) + Len(u) + 1
  <2>1. /\ J \in Seq(Node) /\ Len(J) = k /\ \A j \in 1 .. Len(l) : J[j] = l[j]
        /\ \A j \in 1 .. Len(u) : J[Len(l) + j] = u[j]
        /\ J[k] \in Node /\ J[k].op = n.op
        /\ J[k].left = a + Len(l) /\ J[k].right = a + Len(l) + Len(u)
    <3>1. l \in Seq(Node) BY DEF Piece
    <3>2. u \in Seq(Node) BY <1>2 DEF Piece
    <3>3. OnTop(J, n.op, l, u, a) BY <1>2, <3>1, <3>2, JoinedDual
    <3> HIDE DEF J
    <3> QED BY <3>3 DEF OnTop
  <2>2. /\ Len(l) \in Nat /\ Len(l) >= 1 /\ Len(u) \in Nat /\ Len(u) >= 1
        /\ \A j \in 1 .. Len(l) : Operands(l[j]) \subseteq a + 1 .. a + j - 1
        /\ \A j \in 1 .. Len(u) :
             Operands(u[j]) \subseteq a + Len(l) + 1 .. a + Len(l) + j - 1
    <3>1. Piece(u, a + Len(l)) BY <1>2
    <3>2. /\ u \in Seq(Node) /\ Len(u) >= 1
          /\ \A j \in 1 .. Len(u) :
               Operands(u[j]) \subseteq a + Len(l) + 1 .. a + Len(l) + j - 1
      BY <3>1 DEF Piece
    <3>3. /\ l \in Seq(Node) /\ Len(l) >= 1
          /\ \A j \in 1 .. Len(l) : Operands(l[j]) \subseteq a + 1 .. a + j - 1
      BY DEF Piece
    <3> QED BY <3>2, <3>3
  <2> HIDE DEF J
  <2>3. Operands(J[k]) = {a + Len(l), a + Len(l) + Len(u)} BY <1>2, <2>1 DEF Operands
  <2>4. ASSUME NEW j \in 1 .. k PROVE Operands(J[j]) \subseteq a + 1 .. a + j - 1
    <3>1. CASE j = k
      <4>1. {a + Len(l), a + Len(l) + Len(u)} \subseteq a + 1 .. a + k - 1 BY <2>2
      <4> HIDE DEF k
      <4> QED BY <2>3, <3>1, <4>1
    <3>2. CASE j \in 1 .. Len(l)
      BY <2>1, <2>2, <3>2
    <3>3. CASE j # k /\ j \notin 1 .. Len(l)
      <4> DEFINE i == j - Len(l)
      <4>1. i \in 1 .. Len(u) /\ j = Len(l) + i BY <2>2, <3>3
      <4>2. J[j] = u[i] BY <2>1, <4>1
      <4>3. Operands(u[i]) \subseteq a + Len(l) + 1 .. a + Len(l) + i - 1 BY <2>2, <4>1
      <4>4. a + Len(l) + 1 .. a + Len(l) + i - 1 \subseteq a + 1 .. a + j - 1 BY <2>2, <4>1
      <4> QED BY <4>2, <4>3, <4>4
    <3> QED BY <3>1, <3>2, <3>3
  <2>5. Piece(J, a) BY <2>1, <2>2, <2>4 DEF Piece
  <2> QED BY <2>5 DEF J
<1> QED BY <1>1, <1>2, NodeOps

LEMMA PlacedParts ==
  ASSUME NEW n \in Node, Expressions!Inner(n), NEW a \in Nat, NEW l, Piece(l, a),
         NEW u, n.op \in Duals => Piece(u, a + Len(l)),
         NEW M, Dag(M), NEW J, J = Expressions!Joined(n, l, u, a), Placed(M, J, a)
  PROVE  LET t == M[a + Len(J)]
         IN  /\ a + Len(J) \in 1 .. Len(M)
             /\ t.op = n.op /\ t.left = a + Len(l) /\ Placed(M, l, a)
             /\ n.op \in Duals => /\ t.right = a + Len(l) + Len(u)
                                  /\ Placed(M, u, a + Len(l))
<1>1. CASE n.op = "not"
  <2> DEFINE k == Len(l) + 1
  <2>1. /\ J \in Seq(Node) /\ Len(J) = k /\ \A j \in 1 .. Len(l) : J[j] = l[j]
        /\ J[k] \in Node /\ J[k].op = "not" /\ J[k].left = a + Len(l)
    BY <1>1, JoinedNot DEF Piece
  <2>2. Len(l) \in Nat /\ k \in 1 .. k /\ \A j \in 1 .. Len(l) : j \in 1 .. k BY DEF Piece
  <2>3. \A j \in 1 .. k : a + j \in 1 .. Len(M) /\ M[a + j] = J[j] BY <2>1 DEF Placed
  <2>4. Placed(M, l, a) BY <2>1, <2>2, <2>3 DEF Placed
  <2>5. n.op \notin Duals BY <1>1 DEF Duals
  <2> QED BY <1>1, <2>1, <2>2, <2>3, <2>4, <2>5
<1>2. CASE n.op \in Duals
  <2> DEFINE k == Len(l) + Len(u) + 1
  <2>1. /\ J \in Seq(Node) /\ Len(J) = k /\ \A j \in 1 .. Len(l) : J[j] = l[j]
        /\ \A j \in 1 .. Len(u) : J[Len(l) + j] = u[j]
        /\ J[k] \in Node /\ J[k].op = n.op
        /\ J[k].left = a + Len(l) /\ J[k].right = a + Len(l) + Len(u)
    <3>1. l \in Seq(Node) BY DEF Piece
    <3>2. u \in Seq(Node) BY <1>2 DEF Piece
    <3>3. OnTop(J, n.op, l, u, a) BY <1>2, <3>1, <3>2, JoinedDual
    <3> QED BY <3>3 DEF OnTop
  <2>2. /\ Len(l) \in Nat /\ Len(u) \in Nat /\ k \in 1 .. k
        /\ \A j \in 1 .. Len(l) : j \in 1 .. k
        /\ \A j \in 1 .. Len(u) : Len(l) + j \in 1 .. k
    <3>1. Len(l) \in Nat BY DEF Piece
    <3>2. Len(u) \in Nat BY <1>2 DEF Piece
    <3> QED BY <3>1, <3>2
  <2>3. \A j \in 1 .. k : a + j \in 1 .. Len(M) /\ M[a + j] = J[j] BY <2>1 DEF Placed
  <2>4. Placed(M, l, a) BY <2>1, <2>2, <2>3 DEF Placed
  <2>5. Placed(M, u, a + Len(l))
    <3>1. ASSUME NEW j \in 1 .. Len(u)
          PROVE  a + Len(l) + j \in 1 .. Len(M) /\ M[a + Len(l) + j] = u[j]
      <4>1. a + (Len(l) + j) \in 1 .. Len(M) /\ M[a + (Len(l) + j)] = J[Len(l) + j]
        BY <2>2, <2>3
      <4>2. a + (Len(l) + j) = a + Len(l) + j BY <2>2
      <4> QED BY <2>1, <4>1, <4>2
    <3> QED BY <3>1 DEF Placed
  <2> QED BY <1>2, <2>1, <2>2, <2>3, <2>4, <2>5
<1> QED BY <1>1, <1>2, NodeOps

(* A function f that grows copies of the nodes N, with leaves L            *)
Grows(N, f, L) ==
  /\ Dag(N)
  /\ \A i \in 1 .. Len(N), a \in Nat : f[i][a] = Grown(N[i], f, a, L[i][a])
  /\ \A i \in 1 .. Len(N), a \in Nat : ~Expressions!Inner(N[i]) => Piece(L[i][a], a)

LEMMA AllPieces ==
  ASSUME NEW N, NEW f, NEW L, Grows(N, f, L)
  PROVE  \A i \in 1 .. Len(N), a \in Nat : Piece(f[i][a], a)
<1> DEFINE S == {i \in 1 .. Len(N) : \A a \in Nat : Piece(f[i][a], a)}
<1>1. Len(N) \in Nat BY DEF Grows, Dag
<1>2. ASSUME NEW i \in 1 .. Len(N), 1 .. i - 1 \subseteq S PROVE i \in S
  <2>1. SUFFICES ASSUME NEW a \in Nat PROVE Piece(f[i][a], a) OBVIOUS
  <2> DEFINE n == N[i]
             l == f[n.left][a]
             u == f[n.right][a + Len(l)]
  <2>2. f[i][a] = Grown(n, f, a, L[i][a]) BY DEF Grows
  <2>3. n \in Node /\ \A j \in Operands(n), b \in Nat : Piece(f[j][b], b)
    BY <1>2, NodeAt DEF Grows
  <2>4. CASE ~Expressions!Inner(n)
    <3>1. Piece(L[i][a], a) BY <2>4 DEF Grows
    <3> QED BY <2>2, <2>4, <3>1 DEF Grown
  <2>5. CASE Expressions!Inner(n)
    <3>1. n.left \in Operands(n) /\ (n.op \in Duals => n.right \in Operands(n))
      BY <2>3, <2>5, NodeOps DEF Operands, Duals
    <3>2. f[i][a] = Expressions!Joined(n, l, u, a) BY <2>2, <2>5 DEF Grown
    <3>3. Piece(l, a) BY <2>3, <3>1
    <3>4. Len(l) \in Nat BY <3>3 DEF Piece
    <3>5. n.op \in Duals => Piece(u, a + Len(l))
      <4> DEFINE b == a + Len(l)
      <4>1. b \in Nat BY <3>4
      <4> HIDE DEF l, b
      <4>2. n.op \in Duals => Piece(f[n.right][b], b) BY <2>3, <3>1, <4>1
      <4> QED BY <4>2 DEF b
    <3> HIDE DEF n, l, u
    <3> QED BY <2>3, <2>5, <3>2, <3>3, <3>5, JoinedPiece
  <2> QED BY <2>4, <2>5
<1> HIDE DEF S
<1>3. 1 .. Len(N) \subseteq S BY <1>1, <1>2, OneByOne
<1> QED BY <1>3 DEF S

(* Laid down in the nodes M, a copy means in the context c what its        *)
(* original means in d, if its leaves do.                                  *)
LeavesMean(N, L, M, c, d) ==
  \A i \in 1 .. Len(N), a \in Nat :
    ~Expressions!Inner(N[i]) /\ Placed(M, L[i][a], a) =>
      Values(M, c)[a + Len(L[i][a])] = Values(N, d)[i]

Means(N, f, M, c, d) ==
  \A i \in 1 .. Len(N), a \in Nat :
    Placed(M, f[i][a], a) => Values(M, c)[a + Len(f[i][a])] = Values(N, d)[i]

LEMMA SameMeant ==
  ASSUME NEW N, NEW f, NEW L, Grows(N, f, L), NEW M, Dag(M), NEW c, NEW d,
         LeavesMean(N, L, M, c, d)
  PROVE  Means(N, f, M, c, d)
<1> DEFINE Same(i, a) == Placed(M, f[i][a], a) =>
                           Values(M, c)[a + Len(f[i][a])] = Values(N, d)[i]
           S == {i \in 1 .. Len(N) : \A a \in Nat : Same(i, a)}
<1>1. Len(N) \in Nat /\ Dag(N) BY DEF Grows, Dag
<1>2. ASSUME NEW i \in 1 .. Len(N), 1 .. i - 1 \subseteq S PROVE i \in S
  <2>1. SUFFICES ASSUME NEW a \in Nat, Placed(M, f[i][a], a)
        PROVE  Values(M, c)[a + Len(f[i][a])] = Values(N, d)[i]
    OBVIOUS
  <2> DEFINE n == N[i]
             l == f[n.left][a]
             u == f[n.right][a + Len(l)]
             J == f[i][a]
  <2>2. f[i][a] = Grown(n, f, a, L[i][a]) BY DEF Grows
  <2>3. n \in Node /\ \A j \in Operands(n), b \in Nat : Same(j, b) /\ Piece(f[j][b], b)
    <3>1. n \in Node /\ \A j \in Operands(n) : j \in 1 .. i - 1 /\ j \in 1 .. Len(N)
      BY <1>1, NodeAt
    <3> QED BY <1>2, <3>1, AllPieces
  <2>4. CASE ~Expressions!Inner(n)
    <3>1. J = L[i][a] BY <2>2, <2>4 DEF Grown
    <3> QED BY <2>1, <2>4, <3>1 DEF LeavesMean
  <2>5. CASE Expressions!Inner(n)
    <3>1. n.left \in Operands(n) /\ (n.op \in Duals => n.right \in Operands(n))
      BY <2>3, <2>5, NodeOps DEF Operands, Duals
    <3>2. J = Expressions!Joined(n, l, u, a) BY <2>2, <2>5 DEF Grown
    <3>3. Piece(l, a) BY <2>3, <3>1
    <3>4. Len(l) \in Nat BY <3>3 DEF Piece
    <3>5. n.op \in Duals => Piece(u, a + Len(l))
      <4> DEFINE b == a + Len(l)
      <4>1. b \in Nat BY <3>4
      <4> HIDE DEF l, b
      <4>2. n.op \in Duals => Piece(f[n.right][b], b) BY <2>3, <3>1, <4>1
      <4> QED BY <4>2 DEF b
    <3> DEFINE k == a + Len(J)
               t == M[k]
    <3>6. /\ k \in 1 .. Len(M) /\ t.op = n.op /\ t.left = a + Len(l) /\ Placed(M, l, a)
          /\ n.op \in Duals => t.right = a + Len(l) + Len(u) /\ Placed(M, u, a + Len(l))
      <4> HIDE DEF n, l, u, J
      <4> QED BY <2>1, <2>3, <2>5, <3>2, <3>3, <3>5, PlacedParts DEF J
    <3>7. /\ Values(M, c)[a + Len(l)] = Values(N, d)[n.left]
          /\ n.op \in Duals => Values(M, c)[a + Len(l) + Len(u)] = Values(N, d)[n.right]
      <4> DEFINE b == a + Len(l)
      <4>1. b \in Nat BY <3>4
      <4>2. Values(M, c)[b] = Values(N, d)[n.left] BY <2>3, <3>1, <3>6
      <4> HIDE DEF b
      <4>3. n.op \in Duals => Same(n.right, b) /\ Len(f[n.right][b]) = Len(u)
        BY <2>3, <3>1, <4>1 DEF b
      <4>4. n.op \in Duals => Placed(M, f[n.right][b], b) BY <3>6 DEF b
      <4>5. n.op \in Duals => Values(M, c)[b + Len(u)] = Values(N, d)[n.right]
        BY <4>3, <4>4
      <4> QED BY <4>2, <4>5 DEF b
    <3>8. /\ Values(M, c)[k] = Expressions!ValueOf(t, Values(M, c), c)
          /\ Values(N, d)[i] = Expressions!ValueOf(n, Values(N, d), d)
      BY <1>1, <3>6, ValueAt
    <3>9. t \in Node BY <3>6, NodeAt
    <3> HIDE DEF n, t, l, u, k
    <3>10. Values(M, c)[k] = Values(N, d)[i]
      <4>1. CASE n.op = "not" BY <2>3, <3>6, <3>7, <3>8, <3>9, <4>1, ValueCases
      <4>2. CASE n.op = "and" BY <2>3, <3>6, <3>7, <3>8, <3>9, <4>2, ValueCases DEF Duals
      <4>3. CASE n.op = "or" BY <2>3, <3>6, <3>7, <3>8, <3>9, <4>3, ValueCases DEF Duals
      <4> QED BY <2>3, <2>5, <4>1, <4>2, <4>3, NodeOps DEF Duals
    <3> QED BY <3>10 DEF k
  <2> QED BY <2>4, <2>5
<1> HIDE DEF S
<1>3. 1 .. Len(N) \subseteq S BY <1>1, <1>2, OneByOne
<1> QED BY <1>3 DEF S, Means

Leaves(N) == [i \in 1 .. Len(N) |-> [a \in Nat |-> <<N[i]>>]]

LEMMA LeafPiece ==
  ASSUME NEW n \in Node, ~Expressions!Inner(n), NEW a \in Nat
  PROVE  Piece(<<n>>, a) /\ Operands(n) = {} /\ n.op \in {"const", "var"}
<1>1. n.op \in {"const", "var"} BY NodeOps DEF Ops, Duals
<1>2. Operands(n) = {} BY <1>1 DEF Operands, Duals
<1>3. <<n>> \in Seq(Node) /\ Len(<<n>>) = 1 /\ \A j \in 1 .. 1 : <<n>>[j] = n OBVIOUS
<1> QED BY <1>1, <1>2, <1>3 DEF Piece

LEMMA LeafPlaced ==
  ASSUME NEW n, NEW a \in Nat, NEW M, Dag(M), Placed(M, <<n>>, a)
  PROVE  a + 1 \in 1 .. Len(M) /\ M[a + 1] = n
<1>1. Len(<<n>>) = 1 /\ <<n>>[1] = n /\ 1 \in 1 .. 1 OBVIOUS
<1> QED BY <1>1 DEF Placed

LEMMA CopiesOfGrow ==
  ASSUME NEW N, Dag(N)
  PROVE  Grows(N, CopiesOf(N), Leaves(N))
<1>1. \A i \in 1 .. Len(N), a \in Nat : Leaves(N)[i][a] = <<N[i]>> BY DEF Leaves
<1>2. ASSUME NEW i \in 1 .. Len(N), NEW a \in Nat
      PROVE  CopiesOf(N)[i][a] = Grown(N[i], CopiesOf(N), a, Leaves(N)[i][a])
  BY <1>1, CopiesGrow
<1>3. ASSUME NEW i \in 1 .. Len(N), NEW a \in Nat, ~Expressions!Inner(N[i])
      PROVE  Piece(Leaves(N)[i][a], a)
  <2>1. N[i] \in Node BY NodeAt
  <2> QED BY <1>1, <1>3, <2>1, LeafPiece
<1> QED BY <1>2, <1>3 DEF Grows

(* A copy means what its original means. *)
LEMMA CopyMeans ==
  ASSUME NEW N, Dag(N), NEW M, Dag(M), NEW c
  PROVE  Means(N, CopiesOf(N), M, c, c)
<1> DEFINE f == CopiesOf(N)
           L == Leaves(N)
<1>1. Grows(N, f, L) BY CopiesOfGrow
<1>2. ASSUME NEW i \in 1 .. Len(N), NEW a \in Nat,
             ~Expressions!Inner(N[i]), Placed(M, L[i][a], a)
      PROVE  Values(M, c)[a + Len(L[i][a])] = Values(N, c)[i]
  <2>1. L[i][a] = <<N[i]>> /\ Len(L[i][a]) = 1 BY DEF Leaves
  <2>2. a + 1 \in 1 .. Len(M) /\ M[a + 1] = N[i] BY <1>2, <2>1, LeafPlaced
  <2>3. N[i] \in Node BY NodeAt
  <2>4. Operands(N[i]) = {} BY <1>2, <2>3, LeafPiece
  <2> DEFINE g == Values(M, c)
             h == Values(N, c)
  <2>5. /\ g[a + 1] = Expressions!ValueOf(N[i], g, c)
        /\ h[i] = Expressions!ValueOf(N[i], h, c)
    BY <2>2, ValueAt
  <2> HIDE DEF g, h
  <2>6. Expressions!ValueOf(N[i], g, c) = Expressions!ValueOf(N[i], h, c)
    BY <2>3, <2>4, SameValue
  <2>7. g[a + 1] = h[i] BY <2>5, <2>6
  <2> QED BY <2>1, <2>7 DEF g, h
<1> HIDE DEF f, L
<1>3. LeavesMean(N, L, M, c, c) BY <1>2 DEF LeavesMean
<1>4. Means(N, f, M, c, c) BY <1>1, <1>3, SameMeant
<1> QED BY <1>4 DEF f

Changed(c, x, e) ==
  [y \in Names |-> IF <<y, x>> \in Begins THEN Expressions!Evaluate(e, c) = "yes" ELSE c[y]]

Put(x, e) ==
  [i \in 1 .. Len(nodes) |-> [a \in Nat |->
    IF Expressions!Hit(nodes[i], x) THEN Expressions!Copied(e, a) ELSE <<nodes[i]>>]]

LEMMA ReplacingGrows ==
  ASSUME Dag(nodes), NEW x, NEW e \in 1 .. Len(nodes)
  PROVE  Grows(nodes, Replacing(x, e), Put(x, e))
<1>1. \A i \in 1 .. Len(nodes), a \in Nat :
        Put(x, e)[i][a] = IF Expressions!Hit(nodes[i], x) THEN Expressions!Copied(e, a)
                          ELSE <<nodes[i]>>
  BY DEF Put
<1>2. ASSUME NEW i \in 1 .. Len(nodes), NEW a \in Nat
      PROVE  Replacing(x, e)[i][a] = Grown(nodes[i], Replacing(x, e), a, Put(x, e)[i][a])
  <2> DEFINE leaf == IF Expressions!Hit(nodes[i], x) THEN Expressions!Copied(e, a)
                     ELSE <<nodes[i]>>
  <2>1. Replacing(x, e)[i][a] = Grown(nodes[i], Replacing(x, e), a, leaf) BY ReplacingGrow
  <2>2. Put(x, e)[i][a] = leaf BY <1>1
  <2> HIDE DEF leaf
  <2> QED BY <2>1, <2>2
<1>3. ASSUME NEW i \in 1 .. Len(nodes), NEW a \in Nat, ~Expressions!Inner(nodes[i])
      PROVE  Piece(Put(x, e)[i][a], a)
  <2>1. nodes[i] \in Node BY NodeAt
  <2>2. CASE Expressions!Hit(nodes[i], x)
    <3>1. Put(x, e)[i][a] = CopiesOf(nodes)[e][a] BY <1>1, <2>2, CopiedIs
    <3> QED BY <3>1, CopiesOfGrow, AllPieces
  <2>3. CASE ~Expressions!Hit(nodes[i], x)
    <3>1. Put(x, e)[i][a] = <<nodes[i]>> BY <1>1, <2>3
    <3> QED BY <1>3, <2>1, <3>1, LeafPiece
  <2> QED BY <2>2, <2>3
<1> QED BY <1>2, <1>3 DEF Grows

(* And a copy with a name replaced means what the original means in the    *)
(* context changed at that name and at those that begin it.                *)
LEMMA ReplacedMeans ==
  ASSUME Dag(nodes), NEW M, Dag(M), NEW c \in Expressions!Total, NEW x \in Names,
         NEW e \in 1 .. Len(nodes)
  PROVE  Means(nodes, Replacing(x, e), M, c, Changed(c, x, e))
<1> DEFINE f == Replacing(x, e)
           L == Put(x, e)
           d == Changed(c, x, e)
<1>1. Grows(nodes, f, L) BY ReplacingGrows
<1>2. ASSUME NEW i \in 1 .. Len(nodes), NEW a \in Nat,
             ~Expressions!Inner(nodes[i]), Placed(M, L[i][a], a)
      PROVE  Values(M, c)[a + Len(L[i][a])] = Values(nodes, d)[i]
  <2> DEFINE n == nodes[i]
             g == Values(M, c)
             h == Values(nodes, d)
  <2>1. n \in Node BY NodeAt
  <2>2. Operands(n) = {} /\ n.op \in {"const", "var"} BY <1>2, <2>1, LeafPiece
  <2>3. h[i] = Expressions!ValueOf(n, h, d) BY ValueAt
  <2>4. d \in Expressions!Total /\ c \in Expressions!Contexts /\ d \in Expressions!Contexts
    <3>1. \A y \in Names : d[y] \in BOOLEAN BY DEF Changed, Expressions!Total
    <3>2. d = [y \in Names |-> d[y]] BY DEF Changed
    <3> HIDE DEF d
    <3>3. d \in Expressions!Total BY <3>1, <3>2 DEF Expressions!Total
    <3> QED BY <3>3 DEF Expressions!Total, Expressions!Contexts
  <2>5. CASE Expressions!Hit(n, x)
    <3>1. L[i][a] = CopiesOf(nodes)[e][a] BY <2>5, CopiedIs DEF Put
    <3>2. Values(M, c)[a + Len(L[i][a])] = Values(nodes, c)[e]
      <4>1. Means(nodes, CopiesOf(nodes), M, c, c) BY CopyMeans
      <4> QED BY <1>2, <3>1, <4>1 DEF Means
    <3>3. n.op = "var" /\ <<n.name, x>> \in Begins /\ n.name \in Names
      BY <2>1, <2>5, NodeOps DEF Expressions!Hit
    <3>4. h[i] = Expressions!Truth(d[n.name])
      <4> HIDE DEF n, h, d
      <4> QED BY <2>1, <2>3, <2>4, <3>3, ValueCases, LookedUp
    <3>5. d[n.name] = (Values(nodes, c)[e] = "yes") BY <3>3, EvaluateIs DEF Changed
    <3>6. Values(nodes, c)[e] \in Told BY <2>4, AllTold
    <3> QED BY <3>2, <3>4, <3>5, <3>6 DEF Expressions!Truth, Told
  <2>6. CASE ~Expressions!Hit(n, x)
    <3>1. L[i][a] = <<n>> /\ Len(L[i][a]) = 1 BY <2>6 DEF Put
    <3>2. a + 1 \in 1 .. Len(M) /\ M[a + 1] = n BY <1>2, <3>1, LeafPlaced
    <3>3. g[a + 1] = Expressions!ValueOf(n, g, c) BY <3>2, ValueAt
    <3>4. g[a + 1] = h[i]
      <4>1. CASE n.op = "const"
        <5> HIDE DEF n, g, h, d
        <5> QED BY <2>1, <2>3, <3>3, <4>1, ValueCases
      <4>2. CASE n.op = "var"
        <5>1. n.name \in Names /\ <<n.name, x>> \notin Begins
          BY <2>1, <2>6, <4>2, NodeOps DEF Expressions!Hit
        <5>2. d[n.name] = c[n.name] BY <5>1 DEF Changed
        <5> HIDE DEF n, g, h, d
        <5>3. g[a + 1] = Expressions!Truth(c[n.name])
          BY <2>1, <2>4, <3>3, <4>2, <5>1, ValueCases, LookedUp
        <5>4. h[i] = Expressions!Truth(d[n.name])
          BY <2>1, <2>3, <2>4, <4>2, <5>1, ValueCases, LookedUp
        <5> QED BY <5>2, <5>3, <5>4
      <4> QED BY <2>2, <4>1, <4>2
    <3> QED BY <3>1, <3>4
  <2> QED BY <2>5, <2>6
<1> HIDE DEF f, L, d
<1>3. LeavesMean(nodes, L, M, c, d) BY <1>2 DEF LeavesMean
<1>4. Means(nodes, f, M, c, d) BY <1>1, <1>3, SameMeant
<1> QED BY <1>4 DEF f, d
-----------------------------------------------------------------------------
(* What is built of copies never leads to a node that the user assigns to. *)
Unshared == \A i \in 1 .. Len(nodes) : i \notin built => Operands(nodes[i]) \cap built = {}

(* And each copy means what is in its table.                               *)
Meant ==
  \A m \in meant : /\ m.root \in 1 .. Len(nodes) /\ m.root \notin built
                   /\ m.table = [c \in Expressions!Total |-> Values(nodes, c)[m.root]]

ExpInv ==
  /\ Dag(nodes) /\ Len(nodes) <= MaxNodes /\ built \subseteq 1 .. Len(nodes)
  /\ Unshared /\ Meant

LEMMA ExpParameters == MaxNodes \in Nat /\ MaxBuilt \in Nat /\ MaxBuilt <= MaxNodes
BY Assumptions DEF Expressions!InterpreterAssumption

LEMMA ExpressionsSafe ==
  ASSUME ExpInv
  PROVE  Expressions!TypeOK /\ Expressions!CopiesKeepMeaning /\ Expressions!RightInPart
<1>1. Dag(nodes) /\ DOMAIN nodes = 1 .. Len(nodes) /\ Len(nodes) \in Nat BY DEF ExpInv, Dag
<1>2. Expressions!TypeOK
  <2>1. ASSUME NEW i \in 1 .. Len(nodes)
        PROVE  /\ nodes[i].op \in Ops
               /\ nodes[i].op \in {"not", "and", "or"} => nodes[i].left \in 1 .. i - 1
               /\ nodes[i].op \in Duals => nodes[i].right \in 1 .. i - 1
    <3>1. nodes[i] \in Node /\ Operands(nodes[i]) \subseteq 1 .. i - 1 BY <1>1, NodeAt
    <3>2. nodes[i].op \in Ops BY <3>1, NodeOps
    <3>3. nodes[i].op \in {"not", "and", "or"} => nodes[i].left \in Operands(nodes[i])
      BY DEF Operands, Duals
    <3>4. nodes[i].op \in Duals => nodes[i].right \in Operands(nodes[i])
      BY DEF Operands
    <3> QED BY <3>1, <3>2, <3>3, <3>4
  <2>2. \A m \in meant : m.root \in 1 .. Len(nodes) BY DEF ExpInv, Meant
  <2> QED BY <1>1, <2>1, <2>2 DEF ExpInv, Expressions!TypeOK, Ops, Duals
<1>3. Expressions!CopiesKeepMeaning
  <2>1. SUFFICES ASSUME NEW m \in meant PROVE Expressions!Table(m.root) = m.table
    BY DEF Expressions!CopiesKeepMeaning
  <2>2. m.table = [c \in Expressions!Total |-> Values(nodes, c)[m.root]] BY DEF ExpInv, Meant
  <2>3. Expressions!Table(m.root) = [c \in Expressions!Total |-> Values(nodes, c)[m.root]]
    BY EvaluateIs DEF Expressions!Table
  <2> QED BY <2>2, <2>3
<1> QED BY <1>1, <1>2, <1>3, RightInPartOf

LEMMA ExpressionsInit ==
  ASSUME Expressions!Init
  PROVE  ExpInv
<1>1. nodes = <<>> /\ built = {} /\ meant = {} BY DEF Expressions!Init
<1>2. Dag(nodes) /\ Len(nodes) = 0 BY <1>1 DEF Dag
<1> QED BY <1>1, <1>2, ExpParameters DEF ExpInv, Unshared, Meant

(* New nodes leave the values of the old ones. *)
LEMMA Lengthened ==
  ASSUME Dag(nodes), NEW s \in Seq(Node), nodes' = nodes \o s,
         \A j \in 1 .. Len(s) : Operands(s[j]) \subseteq 1 .. Len(nodes) + j - 1
  PROVE  /\ Dag(nodes') /\ Len(nodes') = Len(nodes) + Len(s)
         /\ \A i \in 1 .. Len(nodes) : nodes'[i] = nodes[i]
         /\ \A j \in 1 .. Len(s) : nodes'[Len(nodes) + j] = s[j]
         /\ \A c : \A i \in 1 .. Len(nodes) : Values(nodes', c)[i] = Values(nodes, c)[i]
<1> DEFINE k == Len(nodes)
<1>1. nodes \in Seq(Node) /\ k \in Nat /\ Len(s) \in Nat BY DEF Dag
<1>2. /\ nodes' \in Seq(Node) /\ Len(nodes') = k + Len(s)
      /\ \A i \in 1 .. k : nodes'[i] = nodes[i]
      /\ \A j \in 1 .. Len(s) : nodes'[k + j] = s[j]
  BY <1>1
<1> HIDE DEF k
<1>3. ASSUME NEW i \in 1 .. k + Len(s) PROVE Operands(nodes'[i]) \subseteq 1 .. i - 1
  <2>1. CASE i \in 1 .. k
    BY <1>2, <2>1 DEF Dag, k
  <2>2. CASE i \notin 1 .. k
    <3> DEFINE j == i - k
    <3>1. j \in 1 .. Len(s) /\ i = k + j BY <1>1, <2>2
    <3>2. Operands(s[j]) \subseteq 1 .. k + j - 1 BY <3>1 DEF k
    <3>3. nodes'[i] = s[j] BY <1>2, <3>1
    <3>4. k + j - 1 = i - 1 BY <3>1, <1>1
    <3> QED BY <3>2, <3>3, <3>4
  <2> QED BY <2>1, <2>2
<1>4. Dag(nodes') BY <1>2, <1>3 DEF Dag
<1>5. ASSUME NEW c PROVE \A i \in 1 .. k : Values(nodes', c)[i] = Values(nodes, c)[i]
  <2> DEFINE M == nodes'
             K == 1 .. k
  <2>1. Agree(nodes, M, K)
    <3>1. ASSUME NEW i \in K PROVE Operands(nodes[i]) \subseteq K
      <4>1. Operands(nodes[i]) \subseteq 1 .. i - 1 BY DEF k, Dag
      <4>2. 1 .. i - 1 \subseteq 1 .. k BY <1>1
      <4> QED BY <4>1, <4>2
    <3>2. ASSUME NEW i \in K PROVE i \in 1 .. Len(M) BY <1>1, <1>2
    <3>3. ASSUME NEW i \in K PROVE i \in 1 .. Len(nodes) BY DEF k
    <3> QED BY <1>2, <3>1, <3>2, <3>3 DEF Agree
  <2>2. Dag(M) BY <1>4
  <2> HIDE DEF M, K
  <2>3. \A i \in K : Values(M, c)[i] = Values(nodes, c)[i] BY <2>1, <2>2, SameMeaning
  <2> QED BY <2>3 DEF M, K
<1> QED BY <1>2, <1>4, <1>5 DEF k

LEMMA BuildStep ==
  ASSUME ExpInv, NEW n \in Node, Operands(n) \subseteq 1 .. Len(nodes), Expressions!Build(n)
  PROVE  ExpInv'
<1> DEFINE k == Len(nodes)
<1>1. /\ k < MaxBuilt /\ nodes' = Append(nodes, n) /\ built' = built \cup {k + 1}
      /\ meant' = meant
  BY DEF Expressions!Build
<1>2. /\ Dag(nodes) /\ k \in Nat /\ built \subseteq 1 .. k
      /\ \A i \in 1 .. k : Operands(nodes[i]) \subseteq 1 .. k
  <2>1. Dag(nodes) /\ k \in Nat /\ built \subseteq 1 .. k BY DEF ExpInv, Dag
  <2>2. ASSUME NEW i \in 1 .. k PROVE Operands(nodes[i]) \subseteq 1 .. k
    BY <2>1, NodeAt
  <2> QED BY <2>1, <2>2
<1>3. /\ Dag(nodes') /\ Len(nodes') = k + 1
      /\ \A i \in 1 .. k : nodes'[i] = nodes[i]
      /\ \A c : \A i \in 1 .. k : Values(nodes', c)[i] = Values(nodes, c)[i]
  <2>1. nodes' = nodes \o <<n>> BY <1>1, <1>2, AppendIsConcat DEF Dag
  <2>2. <<n>> \in Seq(Node) /\ Len(<<n>>) = 1 /\ \A j \in 1 .. 1 : <<n>>[j] = n OBVIOUS
  <2>3. \A j \in 1 .. Len(<<n>>) : Operands(<<n>>[j]) \subseteq 1 .. Len(nodes) + j - 1
    BY <1>2, <2>2
  <2> DEFINE s == <<n>>
  <2> HIDE DEF s
  <2>4. /\ s \in Seq(Node) /\ nodes' = nodes \o s /\ Len(s) = 1
        /\ \A j \in 1 .. Len(s) : Operands(s[j]) \subseteq 1 .. Len(nodes) + j - 1
    BY <2>1, <2>2, <2>3 DEF s
  <2> QED BY <1>2, <2>4, Lengthened
<1> HIDE DEF k
<1>4. \A i \in 1 .. k + 1 : i = k + 1 \/ i \in 1 .. k BY <1>2
<1>5. k + 1 \notin 1 .. k BY <1>2
<1>6. Unshared'
  <2>1. ASSUME NEW i \in 1 .. k + 1, i \notin built'
        PROVE  Operands(nodes'[i]) \cap built' = {}
    <3>1. i \in 1 .. k /\ i \notin built BY <1>1, <1>4, <2>1
    <3>2. Operands(nodes[i]) \cap built = {} BY <3>1 DEF ExpInv, Unshared, k
    <3> QED BY <1>1, <1>2, <1>3, <1>5, <3>1, <3>2
  <2> QED BY <1>3, <2>1 DEF Unshared
<1>7. Meant'
  <2>1. ASSUME NEW m \in meant
        PROVE  /\ m.root \in 1 .. Len(nodes') /\ m.root \notin built'
               /\ m.table = [c \in Expressions!Total |-> Values(nodes', c)[m.root]]
    <3>1. /\ m.root \in 1 .. k /\ m.root \notin built
          /\ m.table = [c \in Expressions!Total |-> Values(nodes, c)[m.root]]
      BY DEF ExpInv, Meant, k
    <3>2. m.root \in 1 .. k + 1 /\ m.root # k + 1 BY <1>2, <3>1
    <3> QED BY <1>1, <1>3, <3>1, <3>2
  <2> QED BY <1>1, <2>1 DEF Meant, Expressions!Total
<1> QED BY <1>1, <1>2, <1>3, <1>6, <1>7, ExpParameters DEF ExpInv

LEMMA NewStep ==
  ASSUME ExpInv, Expressions!New
  PROVE  ExpInv'
<1>1. DOMAIN nodes = 1 .. Len(nodes) /\ Len(nodes) \in Nat BY DEF ExpInv, Dag
<1>2. ASSUME NEW v \in BOOLEAN, Expressions!Build([op |-> "const", value |-> v])
      PROVE  ExpInv'
  <2> DEFINE n == [op |-> "const", value |-> v]
  <2>1. n \in Node /\ n.op = "const" BY DEF Node
  <2>2. Operands(n) = {} BY <2>1 DEF Operands, Duals
  <2> HIDE DEF n
  <2>3. Expressions!Build(n) BY <1>2 DEF n
  <2> QED BY <2>1, <2>2, <2>3, BuildStep
<1>3. ASSUME NEW x \in Names, Expressions!Build([op |-> "var", name |-> x])
      PROVE  ExpInv'
  <2> DEFINE n == [op |-> "var", name |-> x]
  <2>1. n \in Node /\ n.op = "var" BY DEF Node
  <2>2. Operands(n) = {} BY <2>1 DEF Operands, Duals
  <2> HIDE DEF n
  <2>3. Expressions!Build(n) BY <1>3 DEF n
  <2> QED BY <2>1, <2>2, <2>3, BuildStep
<1>4. ASSUME NEW e \in DOMAIN nodes, Expressions!Build([op |-> "not", left |-> e])
      PROVE  ExpInv'
  <2> DEFINE n == [op |-> "not", left |-> e]
  <2>1. n \in Node /\ n.op = "not" /\ n.left = e BY <1>1 DEF Node
  <2>2. Operands(n) \subseteq 1 .. Len(nodes) BY <1>1, <2>1 DEF Operands, Duals
  <2> HIDE DEF n
  <2>3. Expressions!Build(n) BY <1>4 DEF n
  <2> QED BY <2>1, <2>2, <2>3, BuildStep
<1>5. ASSUME NEW e \in DOMAIN nodes, NEW f \in DOMAIN nodes, NEW op \in {"and", "or"},
             Expressions!Build([op |-> op, left |-> e, right |-> f])
      PROVE  ExpInv'
  <2> DEFINE n == [op |-> op, left |-> e, right |-> f]
  <2>1. n \in Node /\ n.op = op /\ n.left = e /\ n.right = f BY <1>1 DEF Node, Duals
  <2>2. Operands(n) \subseteq 1 .. Len(nodes) BY <1>1, <2>1 DEF Operands, Duals
  <2> HIDE DEF n
  <2>3. Expressions!Build(n) BY <1>5 DEF n
  <2> QED BY <2>1, <2>2, <2>3, BuildStep
<1> QED BY <1>2, <1>3, <1>4, <1>5 DEF Expressions!New

LEMMA AssignStep ==
  ASSUME ExpInv, NEW e \in DOMAIN nodes, NEW v \in BOOLEAN, Expressions!Assign(e, v)
  PROVE  ExpInv'
<1>1. /\ e \in built /\ nodes[e].op = "const" /\ nodes' = [nodes EXCEPT ![e].value = v]
      /\ built' = built /\ meant' = meant
  BY DEF Expressions!Assign
<1>2. /\ Dag(nodes) /\ nodes \in Seq(Node) /\ Len(nodes) \in Nat
      /\ DOMAIN nodes = 1 .. Len(nodes) /\ e \in 1 .. Len(nodes)
  BY DEF ExpInv, Dag
<1> DEFINE n == [nodes[e] EXCEPT !.value = v]
<1>3. n \in Node /\ Operands(n) = {} /\ Operands(nodes[e]) = {}
  <2>1. nodes[e] \in [op : {"const"}, value : BOOLEAN] BY <1>1, <1>2 DEF Node, Duals
  <2>2. n \in [op : {"const"}, value : BOOLEAN] BY <2>1
  <2>3. n \in Node BY <2>2 DEF Node
  <2>4. n.op = "const" BY <2>2
  <2> HIDE DEF n
  <2> QED BY <1>1, <2>3, <2>4 DEF Operands, Duals
<1>4. nodes' = [nodes EXCEPT ![e] = n] BY <1>1
<1> HIDE DEF n
<1>5. /\ nodes' \in Seq(Node) /\ Len(nodes') = Len(nodes)
      /\ \A i \in 1 .. Len(nodes) : i # e => nodes'[i] = nodes[i]
      /\ nodes'[e] = n
  BY <1>2, <1>3, <1>4
<1>6. \A i \in 1 .. Len(nodes) : Operands(nodes'[i]) = Operands(nodes[i])
  BY <1>3, <1>5
<1>7. Dag(nodes') BY <1>2, <1>5, <1>6 DEF Dag
<1> DEFINE M == nodes'
           K == {i \in 1 .. Len(nodes) : i \notin built}
<1>8. Agree(nodes, M, K)
  <2>1. ASSUME NEW i \in K PROVE M[i] = nodes[i] BY <1>1, <1>5
  <2>2. ASSUME NEW i \in K PROVE Operands(nodes[i]) \subseteq K
    <3>1. Operands(nodes[i]) \cap built = {} BY DEF ExpInv, Unshared
    <3>2. \A j \in Operands(nodes[i]) : j \in 1 .. Len(nodes) BY <1>2, NodeAt
    <3> QED BY <3>1, <3>2
  <2> QED BY <1>5, <2>1, <2>2 DEF Agree
<1>9. \A c : \A i \in K : Values(M, c)[i] = Values(nodes, c)[i]
  <2>1. Dag(M) BY <1>7
  <2> HIDE DEF M, K
  <2> QED BY <1>2, <1>8, <2>1, SameMeaning
<1>10. Unshared' BY <1>1, <1>5, <1>6 DEF ExpInv, Unshared
<1>11. Meant'
  <2>1. ASSUME NEW m \in meant
        PROVE  m.table = [c \in Expressions!Total |-> Values(nodes', c)[m.root]]
    <3>1. /\ m.root \in K
          /\ m.table = [c \in Expressions!Total |-> Values(nodes, c)[m.root]]
      BY DEF ExpInv, Meant
    <3>2. \A c : Values(nodes', c)[m.root] = Values(nodes, c)[m.root] BY <1>9, <3>1
    <3> HIDE DEF K, M
    <3> QED BY <3>1, <3>2
  <2>2. ASSUME NEW m \in meant PROVE m.root \in 1 .. Len(nodes') /\ m.root \notin built'
    BY <1>1, <1>5 DEF ExpInv, Meant
  <2> QED BY <1>1, <2>1, <2>2 DEF Meant, Expressions!Total
<1> QED BY <1>1, <1>5, <1>7, <1>10, <1>11 DEF ExpInv

(* A copy that is laid down at the end, with the table it has to have *)
LEMMA AddStep ==
  ASSUME ExpInv, NEW s, Piece(s, Len(nodes)), NEW table, Expressions!Add(s, table),
         ASSUME Dag(nodes'), Placed(nodes', s, Len(nodes))
         PROVE  table = [c \in Expressions!Total |-> Values(nodes', c)[Len(nodes) + Len(s)]]
  PROVE  ExpInv'
<1> DEFINE k == Len(nodes)
           z == k + Len(s)
<1>1. /\ z <= MaxNodes /\ nodes' = nodes \o s /\ built' = built
      /\ meant' = meant \cup {[root |-> z, table |-> table]}
  BY DEF Expressions!Add
<1>2. /\ Dag(nodes) /\ k \in Nat /\ built \subseteq 1 .. k
      /\ s \in Seq(Node) /\ Len(s) \in Nat /\ Len(s) >= 1
      /\ \A j \in 1 .. Len(s) : Operands(s[j]) \subseteq k + 1 .. k + j - 1
  <2>1. Dag(nodes) /\ k \in Nat /\ built \subseteq 1 .. k BY DEF ExpInv, Dag
  <2> HIDE DEF k
  <2>2. Piece(s, k) BY DEF k
  <2>3. s \in Seq(Node) /\ Len(s) \in Nat /\ Len(s) >= 1 BY <2>2 DEF Piece
  <2>4. \A j \in 1 .. Len(s) : Operands(s[j]) \subseteq k + 1 .. k + j - 1
    BY <2>2 DEF Piece
  <2> QED BY <2>1, <2>3, <2>4
<1>3. /\ Dag(nodes') /\ Len(nodes') = z
      /\ \A i \in 1 .. k : nodes'[i] = nodes[i]
      /\ \A j \in 1 .. Len(s) : nodes'[k + j] = s[j]
      /\ \A c : \A i \in 1 .. k : Values(nodes', c)[i] = Values(nodes, c)[i]
  <2>1. ASSUME NEW j \in 1 .. Len(s) PROVE Operands(s[j]) \subseteq 1 .. k + j - 1
    <3>1. k + 1 .. k + j - 1 \subseteq 1 .. k + j - 1 BY <1>2
    <3> QED BY <1>2, <3>1
  <2> QED BY <1>1, <1>2, <2>1, Lengthened
<1>4. Placed(nodes', s, k)
  <2>1. \A j \in 1 .. Len(s) : k + j \in 1 .. z BY <1>2
  <2> QED BY <1>3, <2>1 DEF Placed
<1>5. table = [c \in Expressions!Total |-> Values(nodes', c)[z]] BY <1>3, <1>4
<1> HIDE DEF k, z
<1>6. z \in Nat /\ k < z /\ z \notin built BY <1>2 DEF z
<1>7. Unshared'
  <2>1. ASSUME NEW i \in 1 .. z, i \notin built
        PROVE  Operands(nodes'[i]) \cap built = {}
    <3>1. CASE i \in 1 .. k
      BY <1>3, <2>1, <3>1 DEF ExpInv, Unshared, k
    <3>2. CASE i \notin 1 .. k
      <4> DEFINE j == i - k
      <4>1. j \in 1 .. Len(s) /\ i = k + j BY <1>2, <3>2 DEF z
      <4>2. nodes'[i] = s[j] BY <1>3, <4>1
      <4>3. Operands(s[j]) \subseteq k + 1 .. k + j - 1 BY <1>2, <4>1
      <4>4. \A q \in k + 1 .. k + j - 1 : q \notin built BY <1>2
      <4> QED BY <4>2, <4>3, <4>4
    <3> QED BY <3>1, <3>2
  <2> QED BY <1>1, <1>3, <2>1 DEF Unshared
<1>8. Meant'
  <2>1. ASSUME NEW m \in meant
        PROVE  /\ m.root \in 1 .. z /\ m.root \notin built
               /\ m.table = [c \in Expressions!Total |-> Values(nodes', c)[m.root]]
    <3>1. /\ m.root \in 1 .. k /\ m.root \notin built
          /\ m.table = [c \in Expressions!Total |-> Values(nodes, c)[m.root]]
      BY DEF ExpInv, Meant, k
    <3>2. m.root \in 1 .. z BY <1>2, <1>6, <3>1
    <3> QED BY <1>3, <3>1, <3>2
  <2> DEFINE q == [root |-> z, table |-> table]
  <2>2. q.root = z /\ q.table = table OBVIOUS
  <2> HIDE DEF q
  <2>3. z \in 1 .. z BY <1>2, <1>6
  <2>4. \A m \in meant' : m \in meant \/ m = q BY <1>1 DEF q
  <2>5. /\ q.root \in 1 .. z /\ q.root \notin built
        /\ q.table = [c \in Expressions!Total |-> Values(nodes', c)[q.root]]
    BY <1>5, <1>6, <2>2, <2>3
  <2>6. ASSUME NEW m \in meant'
        PROVE  /\ m.root \in 1 .. z /\ m.root \notin built
               /\ m.table = [c \in Expressions!Total |-> Values(nodes', c)[m.root]]
    BY <2>1, <2>4, <2>5
  <2> QED BY <1>1, <1>3, <2>6 DEF Meant, Expressions!Total
<1>9. built' \subseteq 1 .. Len(nodes') BY <1>1, <1>2, <1>3, <1>6
<1> QED BY <1>1, <1>3, <1>7, <1>8, <1>9 DEF ExpInv

LEMMA CopyStep ==
  ASSUME ExpInv, NEW e \in DOMAIN nodes, Expressions!Copy(e)
  PROVE  ExpInv'
<1> DEFINE k == Len(nodes)
           s == CopiesOf(nodes)[e][k]
           t == Expressions!Table(e)
<1>1. Dag(nodes) /\ k \in Nat /\ e \in 1 .. k BY DEF ExpInv, Dag
<1>2. Expressions!Add(s, t) BY CopiedIs DEF Expressions!Copy
<1>3. Piece(s, k) BY <1>1, CopiesOfGrow, AllPieces
<1>4. ASSUME Dag(nodes'), Placed(nodes', s, k)
      PROVE  t = [c \in Expressions!Total |-> Values(nodes', c)[k + Len(s)]]
  <2> DEFINE M == nodes'
  <2>1. Dag(M) /\ Placed(M, s, k) BY <1>4
  <2> HIDE DEF M, k
  <2>2. ASSUME NEW c PROVE Values(M, c)[k + Len(s)] = Values(nodes, c)[e]
    <3>1. Means(nodes, CopiesOf(nodes), M, c, c) BY <1>1, <2>1, CopyMeans
    <3>2. e \in 1 .. Len(nodes) BY <1>1 DEF k
    <3> QED BY <1>1, <2>1, <3>1, <3>2 DEF Means
  <2>3. t = [c \in Expressions!Total |-> Values(nodes, c)[e]]
    BY EvaluateIs DEF Expressions!Table
  <2> HIDE DEF s, t
  <2> QED BY <2>2, <2>3 DEF M
<1> HIDE DEF s, t
<1> QED BY <1>2, <1>3, <1>4, AddStep

LEMMA ReplaceStep ==
  ASSUME ExpInv, NEW e \in DOMAIN nodes, NEW x \in Names, NEW g \in DOMAIN nodes,
         Expressions!Replace(e, x, g)
  PROVE  ExpInv'
<1> DEFINE k == Len(nodes)
           s == Replacing(x, g)[e][k]
           t == [c \in Expressions!Total |-> Expressions!Evaluate(e, Changed(c, x, g))]
<1>1. Dag(nodes) /\ k \in Nat /\ e \in 1 .. k /\ g \in 1 .. k BY DEF ExpInv, Dag
<1>2. Expressions!Add(s, t) BY ReplacedIs DEF Expressions!Replace, Changed
<1>3. Piece(s, k)
  BY <1>1, ReplacingGrows, AllPieces
<1>4. ASSUME Dag(nodes'), Placed(nodes', s, k)
      PROVE  t = [c \in Expressions!Total |-> Values(nodes', c)[k + Len(s)]]
  <2> DEFINE M == nodes'
  <2>1. Dag(M) /\ Placed(M, s, k) BY <1>4
  <2> HIDE DEF M, k
  <2>2. ASSUME NEW c \in Expressions!Total
        PROVE  Values(M, c)[k + Len(s)] = Values(nodes, Changed(c, x, g))[e]
    <3>1. e \in 1 .. Len(nodes) /\ g \in 1 .. Len(nodes) BY <1>1 DEF k
    <3>2. Means(nodes, Replacing(x, g), M, c, Changed(c, x, g))
      BY <1>1, <2>1, <3>1, ReplacedMeans
    <3> QED BY <1>1, <2>1, <3>1, <3>2 DEF Means
  <2>3. t = [c \in Expressions!Total |-> Values(nodes, Changed(c, x, g))[e]]
    BY EvaluateIs
  <2> HIDE DEF s, t
  <2> QED BY <2>2, <2>3 DEF M
<1> HIDE DEF s, t
<1> QED BY <1>2, <1>3, <1>4, AddStep

LEMMA ExpressionsStep ==
  ASSUME ExpInv, Expressions!Next
  PROVE  ExpInv'
<1>1. CASE Expressions!New BY <1>1, NewStep
<1>2. ASSUME NEW e \in DOMAIN nodes, NEW v \in BOOLEAN, Expressions!Assign(e, v)
      PROVE  ExpInv'
  BY <1>2, AssignStep
<1>3. ASSUME NEW e \in DOMAIN nodes, Expressions!Copy(e) PROVE ExpInv' BY <1>3, CopyStep
<1>4. ASSUME NEW e \in DOMAIN nodes, NEW g \in DOMAIN nodes, NEW x \in Names,
             Expressions!Replace(e, x, g)
      PROVE  ExpInv'
  BY <1>4, ReplaceStep
<1> QED BY <1>1, <1>2, <1>3, <1>4 DEF Expressions!Next
-----------------------------------------------------------------------------
(* trim_string.cpp *)

KeptOf(s) ==
  CHOOSE f : f = [i \in 0 .. Len(s) |->
    IF i = 0 THEN <<>> ELSE IF Keeps(s, i) THEN Append(f[i-1], s[i]) ELSE f[i-1]]

LEMMA TrimmedIs ==
  ASSUME NEW s
  PROVE  Trimmed(s) = KeptOf(s)[Len(s)]
BY DEF Trimmed, KeptOf

LEMMA KeptExists ==
  ASSUME NEW s, Len(s) \in Nat
  PROVE  /\ KeptOf(s)[0] = <<>>
         /\ \A i \in 1 .. Len(s) :
              KeptOf(s)[i] = IF Keeps(s, i) THEN Append(KeptOf(s)[i-1], s[i]) ELSE KeptOf(s)[i-1]
<1> DEFINE Item(f, i) ==
             IF i = 0 THEN <<>> ELSE IF Keeps(s, i) THEN Append(f[i-1], s[i]) ELSE f[i-1]
           Some(k) == \E f : f = [i \in 0 .. k |-> Item(f, i)]
           S == {k \in Nat : Some(k)}
<1>1. 0 \in S
  <2> DEFINE f == [i \in {0} |-> <<>>]
  <2>1. f = [i \in 0 .. 0 |-> Item(f, i)] OBVIOUS
  <2> HIDE DEF f
  <2>2. Some(0) BY <2>1
  <2> QED BY <2>2
<1>2. ASSUME NEW k \in Nat, k # 0, k - 1 \in S PROVE k \in S
  <2>1. PICK f : f = [i \in 0 .. k - 1 |-> Item(f, i)] BY <1>2
  <2> DEFINE g == [i \in 0 .. k |-> Item(f, i)]
  <2>2. \A i \in 0 .. k - 1 : g[i] = f[i]
    <3>1. \A i \in 0 .. k - 1 : f[i] = Item(f, i) BY <2>1
    <3>2. \A i \in 0 .. k : g[i] = Item(f, i) OBVIOUS
    <3> QED BY <3>1, <3>2
  <2>3. \A i \in 0 .. k : Item(f, i) = Item(g, i)
    <3> HIDE DEF g
    <3> QED BY <2>2
  <2>4. g = [i \in 0 .. k |-> Item(g, i)] BY <2>3
  <2> HIDE DEF g
  <2>5. Some(k) BY <2>4
  <2> QED BY <2>5
<1> HIDE DEF S
<1>3. Len(s) \in S
  <2>1. ASSUME NEW k \in 1 .. Len(s), 1 .. k - 1 \subseteq S PROVE k \in S
    <3>1. k = 1 \/ k - 1 \in 1 .. k - 1 OBVIOUS
    <3> QED BY <1>1, <1>2, <2>1, <3>1
  <2>2. 1 .. Len(s) \subseteq S BY <2>1, OneByOne
  <2> QED BY <1>1, <2>2
<1>4. PICK f : f = [i \in 0 .. Len(s) |-> Item(f, i)] BY <1>3 DEF S
<1> DEFINE K == KeptOf(s)
<1>5. K = [i \in 0 .. Len(s) |-> Item(K, i)] BY <1>4 DEF KeptOf
<1> HIDE DEF K
<1>6. \A i \in 0 .. Len(s) : K[i] = Item(K, i) BY <1>5
<1> QED BY <1>6 DEF K

LEMMA TextIs ==
  ASSUME NEW s \in Texts
  PROVE  /\ s \in Seq(Chars) /\ Len(s) \in Nat /\ Len(s) <= MaxLen
         /\ \A i \in 1 .. Len(s) : s[i] \in Chars
<1>1. PICK n \in 0 .. MaxLen : s \in [1 .. n -> Chars] BY DEF Texts
<1>2. n \in Nat BY CharAssumption
<1> QED BY <1>1, <1>2

LEMMA KeptSeq ==
  ASSUME NEW s \in Texts
  PROVE  \A i \in 0 .. Len(s) : KeptOf(s)[i] \in Seq(Chars)
<1> DEFINE K == KeptOf(s)
           S == {i \in Nat : K[i] \in Seq(Chars)}
<1>1. /\ K[0] = <<>>
      /\ \A i \in 1 .. Len(s) : K[i] = IF Keeps(s, i) THEN Append(K[i-1], s[i]) ELSE K[i-1]
  BY TextIs, KeptExists
<1> HIDE DEF K
<1>2. 0 \in S
  <2>1. <<>> \in Seq(Chars) OBVIOUS
  <2> QED BY <1>1, <2>1
<1>3. ASSUME NEW i \in 1 .. Len(s), 1 .. i - 1 \subseteq S PROVE i \in S
  <2>1. i - 1 \in S BY <1>2, <1>3, TextIs
  <2>2. s[i] \in Chars BY TextIs
  <2>3. Append(K[i-1], s[i]) \in Seq(Chars) BY <2>1, <2>2, AppendProperties
  <2>4. K[i] \in Seq(Chars) BY <1>1, <2>1, <2>3
  <2> QED BY <2>4, TextIs
<1> HIDE DEF S
<1>4. 1 .. Len(s) \subseteq S BY <1>3, TextIs, OneByOne
<1>5. 0 .. Len(s) \subseteq S BY <1>2, <1>4, TextIs
<1> QED BY <1>5 DEF S, K

(* The first n characters of an array. *)
Front(a, n) == [i \in 1 .. n |-> a[i-1]]

(* No space at the start, and no two in a row, of the first n.             *)
Clean(a, n) ==
  /\ n > 0 => a[0] # SP
  /\ \A i \in 1 .. n - 1 : a[i] = SP => a[i-1] # SP

(* The first n are the text of a.                                          *)
Ends(a, n) == a[n] = NUL /\ \A i \in 0 .. n - 1 : a[i] \in Chars

LEMMA FrontText ==
  ASSUME NEW a, NEW n \in Nat, NEW m \in Nat, DOMAIN a = 0 .. m, n <= m, Ends(a, n)
  PROVE  AsText(a) = Front(a, n)
<1>1. NUL \notin Chars BY CharAssumption DEF Chars
<1> DEFINE First(i) == a[i] = NUL /\ \A j \in 0 .. i-1 : a[j] # NUL
<1>2. n \in DOMAIN a /\ First(n) BY <1>1 DEF Ends
<1>3. ASSUME NEW i \in DOMAIN a, First(i) PROVE i = n
  <2>1. i \in Nat OBVIOUS
  <2>2. ~(i < n) BY <1>1, <1>3, <2>1 DEF Ends
  <2>3. ~(n < i) BY <1>2, <1>3, <2>1
  <2> QED BY <2>1, <2>2, <2>3
<1> HIDE DEF First
<1>4. (CHOOSE i \in DOMAIN a : First(i)) = n BY <1>2, <1>3
<1> QED BY <1>4 DEF AsText, Front, First

LEMMA FrontLonger ==
  ASSUME NEW a, NEW n \in Nat, NEW k \in 0 .. n, NEW S, a \in [0 .. n -> S], NEW c,
         NEW b, b = [a EXCEPT ![k] = c]
  PROVE  Front(b, k + 1) = Append(Front(a, k), c)
<1>1. Len(Front(a, k)) = k BY DEF Front
<1>2. \A i \in 1 .. k + 1 : b[i-1] = IF i = k + 1 THEN c ELSE a[i-1] OBVIOUS
<1>3. Append(Front(a, k), c) = [i \in 1 .. k + 1 |-> IF i = k + 1 THEN c ELSE Front(a, k)[i]]
  BY <1>1 DEF Front
<1>4. \A i \in 1 .. k + 1 : b[i-1] = IF i = k + 1 THEN c ELSE Front(a, k)[i]
  BY <1>2 DEF Front
<1> QED BY <1>3, <1>4 DEF Front

LEMMA FrontSame ==
  ASSUME NEW a, NEW b, NEW k \in Nat, \A i \in 0 .. k - 1 : a[i] = b[i]
  PROVE  Front(a, k) = Front(b, k)
BY DEF Front

LEMMA FrontShorter ==
  ASSUME NEW a, NEW k \in Nat, k > 0, NEW S, NEW s \in Seq(S), NEW c \in S,
         Front(a, k) = Append(s, c)
  PROVE  Front(a, k - 1) = s /\ a[k-1] = c /\ Len(s) = k - 1
<1> DEFINE F == Front(a, k)
           A == Append(s, c)
<1>1. Len(F) = k BY DEF Front
<1>2. Len(A) = Len(s) + 1 /\ A[Len(s) + 1] = c /\ \A i \in 1 .. Len(s) : A[i] = s[i]
  BY AppendProperties
<1>3. \A i \in 1 .. k : F[i] = a[i-1] BY DEF Front
<1>4. F = A OBVIOUS
<1> HIDE DEF F, A
<1>5. Len(s) \in Nat OBVIOUS
<1>6. Len(s) = k - 1 BY <1>1, <1>2, <1>4, <1>5
<1>7. \A i \in 1 .. k - 1 : s[i] = a[i-1] BY <1>2, <1>3, <1>4, <1>6
<1>8. a[k-1] = c BY <1>2, <1>3, <1>4, <1>6
<1>9. s = [i \in 1 .. k - 1 |-> s[i]] BY <1>6
<1> QED BY <1>6, <1>7, <1>8, <1>9 DEF Front


(* Of the first k characters of text, the last is a space after a word, and no word follows. *)
Trailing(k) ==
  /\ k > 0 /\ text[k] = SP
  /\ \E j \in 1 .. k - 1 : text[j] # SP
  /\ \A j \in k + 1 .. Len(text) : text[j] = SP

(* What is written is what is kept of what was read, and the space after   *)
(* the last word if that has been read.                                    *)
Written ==
  Front(io_str, w) =
    IF Trailing(r) THEN Append(KeptOf(text)[r], SP) ELSE KeptOf(text)[r]

FirstCall ==
  /\ buf = AsArray(text) /\ io_str \in [0 .. Len(text) -> Chars \cup {NUL}]
  /\ r \in 0 .. Len(text) /\ w \in 0 .. r /\ found_space \in BOOLEAN
  /\ \A i \in 0 .. w - 1 : io_str[i] \in Chars
  /\ \A i \in w .. Len(text) : io_str[i] = buf[i]
  /\ found_space <=> r > 0 /\ text[r] = SP
  /\ w = 0 <=> \A j \in 1 .. r : text[j] = SP
  /\ Clean(io_str, w)
  /\ w > 0 => (io_str[w-1] = SP <=> found_space)
  /\ Written

FirstDone ==
  /\ io_str \in [0 .. Len(text) -> Chars \cup {NUL}] /\ DOMAIN buf = 0 .. Len(text)
  /\ r \in 0 .. Len(text) /\ w \in 0 .. r
  /\ Ends(io_str, w) /\ Clean(io_str, w)
  /\ \/ /\ Front(io_str, w) = Trimmed(text)
        /\ w > 0 => io_str[w-1] # SP
     \/ /\ w > 0 /\ w < Len(text)
        /\ io_str[w-1] = SP /\ text[Len(text)] = SP
        /\ Front(io_str, w - 1) = Trimmed(text)

(* The second call reads n characters, and writes each back to its place.  *)
SecondOf(n) ==
  /\ io_str = buf /\ buf \in [0 .. n -> Chars \cup {NUL}]
  /\ r \in 0 .. n /\ w = r
  /\ Ends(buf, n) /\ Clean(buf, n)
  /\ found_space <=> r > 0 /\ buf[r-1] = SP
  /\ Front(buf, IF n > 0 /\ buf[n-1] = SP THEN n - 1 ELSE n) = Trimmed(text)

DoneOf(n) ==
  /\ DOMAIN io_str = 0 .. n /\ DOMAIN buf = 0 .. n
  /\ r \in 0 .. n /\ w \in 0 .. r
  /\ Ends(io_str, w) /\ Front(io_str, w) = Trimmed(text)

TrimInv ==
  /\ text \in Texts
  /\ \/ calls = 1 /\ pc = "loop" /\ FirstCall
     \/ calls = 1 /\ pc = "idle" /\ FirstDone
     \/ calls = 2 /\ pc = "loop" /\ \E n \in Nat : SecondOf(n)
     \/ calls = 2 /\ pc = "idle" /\ \E n \in Nat : DoneOf(n)

LEMMA ArrayIs ==
  ASSUME NEW s \in Texts
  PROVE  /\ AsArray(s) \in [0 .. Len(s) -> Chars \cup {NUL}]
         /\ AsArray(s)[Len(s)] = NUL
         /\ \A i \in 0 .. Len(s) - 1 : AsArray(s)[i] = s[i+1] /\ AsArray(s)[i] \in Chars
BY TextIs DEF AsArray

LEMMA NoNul == NUL \notin Chars /\ SP \in Chars /\ SP # NUL
BY CharAssumption DEF Chars

LEMMA StringInit == Init => TrimInv
<1> SUFFICES ASSUME Init PROVE TrimInv OBVIOUS
<1>1. text \in Texts BY DEF Init
<1>2. Len(text) \in Nat BY <1>1, TextIs
<1>3. KeptOf(text)[0] = <<>> BY <1>2, KeptExists
<1>4. Front(io_str, 0) = <<>> BY DEF Front
<1>5. ~Trailing(0) BY DEF Trailing
<1>6. r = 0 /\ w = 0 BY DEF Init
<1>7. Written BY <1>3, <1>4, <1>5, <1>6 DEF Written
<1>8. Clean(io_str, w) BY <1>6 DEF Clean
<1>9. io_str = AsArray(text) /\ buf = AsArray(text) /\ found_space = FALSE BY DEF Init
<1>10. AsArray(text) \in [0 .. Len(text) -> Chars \cup {NUL}] BY <1>1, ArrayIs
<1>11. r \in 0 .. Len(text) /\ w \in 0 .. r BY <1>2, <1>6
<1>12. /\ \A i \in 0 .. w - 1 : io_str[i] \in Chars
       /\ \A i \in w .. Len(text) : io_str[i] = buf[i]
       /\ \A j \in 1 .. r : text[j] = SP
  BY <1>6, <1>9
<1>13. FirstCall BY <1>6, <1>7, <1>8, <1>9, <1>10, <1>11, <1>12 DEF FirstCall
<1> QED BY <1>1, <1>13 DEF Init, TrimInv

LEMMA StringSafe == TrimInv => InBounds /\ TrimmedButTheEnd /\ TrimmedTwice
<1> SUFFICES ASSUME TrimInv PROVE InBounds /\ TrimmedButTheEnd /\ TrimmedTwice OBVIOUS
<1>1. text \in Texts BY DEF TrimInv
<1>2. Len(text) \in Nat BY <1>1, TextIs
<1> DEFINE T == Trimmed(text)
<1>3. T \in Seq(Chars)
  <2>1. T = KeptOf(text)[Len(text)] BY TrimmedIs
  <2> HIDE DEF T
  <2> QED BY <1>1, <1>2, <2>1, KeptSeq
<1> HIDE DEF T
<1>4. CASE calls = 1 /\ pc = "loop" /\ FirstCall
  <2>1. /\ DOMAIN io_str = 0 .. Len(text) /\ DOMAIN buf = 0 .. Len(text)
        /\ r \in 0 .. Len(text) /\ w \in 0 .. r
    BY <1>1, <1>4, ArrayIs DEF FirstCall
  <2> QED BY <1>2, <1>4, <2>1 DEF InBounds, TrimmedButTheEnd, TrimmedTwice, Done
<1>5. CASE calls = 1 /\ pc = "idle" /\ FirstDone
  <2>1. /\ DOMAIN io_str = 0 .. Len(text) /\ DOMAIN buf = 0 .. Len(text)
        /\ r \in 0 .. Len(text) /\ w \in 0 .. r
    BY <1>5 DEF FirstDone
  <2>2. InBounds BY <1>2, <2>1 DEF InBounds
  <2>3. Result = Front(io_str, w)
    <3>1. w \in Nat /\ w <= Len(text) /\ Ends(io_str, w) BY <1>2, <1>5, <2>1 DEF FirstDone
    <3> QED BY <1>2, <2>1, <3>1, FrontText DEF Result
  <2>4. CASE Front(io_str, w) = T
    BY <1>5, <2>2, <2>3, <2>4 DEF TrimmedButTheEnd, TrimmedTwice, T
  <2>5. CASE /\ w > 0 /\ w < Len(text)
             /\ io_str[w-1] = SP /\ text[Len(text)] = SP
             /\ Front(io_str, w - 1) = T
    <3>1. w - 1 \in Nat /\ w - 1 \in 0 .. Len(text) BY <1>2, <2>1, <2>5
    <3> DEFINE b == [io_str EXCEPT ![w-1] = SP]
    <3>2. b = io_str BY <1>5, <2>5, <3>1 DEF FirstDone
    <3>3. io_str \in [0 .. Len(text) -> Chars \cup {NUL}] BY <1>5 DEF FirstDone
    <3> HIDE DEF b
    <3>4. Front(io_str, w) = Append(T, SP)
      <4>1. Front(b, (w - 1) + 1) = Append(Front(io_str, w - 1), SP)
        BY <1>2, <3>1, <3>3, FrontLonger DEF b
      <4>2. (w - 1) + 1 = w BY <1>2, <2>1
      <4>3. Front(b, w) = Append(Front(io_str, w - 1), SP) BY <4>1, <4>2
      <4> QED BY <2>5, <3>2, <4>3
    <3>5. Len(T) = w - 1
      <4>1. Len(Front(io_str, w - 1)) = w - 1 BY <3>1 DEF Front
      <4> QED BY <2>5, <4>1
    <3>6. Len(text) > Len(T) + 1 BY <1>2, <2>1, <2>5, <3>5
    <3> QED BY <1>5, <2>2, <2>3, <2>5, <3>4, <3>6 DEF TrimmedButTheEnd, TrimmedTwice, T
  <2> QED BY <1>5, <2>4, <2>5 DEF FirstDone, T
<1>6. CASE calls = 2 /\ pc = "loop" /\ \E n \in Nat : SecondOf(n)
  <2>1. PICK n \in Nat : SecondOf(n) BY <1>6
  <2> QED BY <1>6, <2>1 DEF SecondOf, InBounds, TrimmedButTheEnd, TrimmedTwice, Done
<1>7. CASE calls = 2 /\ pc = "idle" /\ \E n \in Nat : DoneOf(n)
  <2>1. PICK n \in Nat : DoneOf(n) BY <1>7
  <2>2. w \in Nat /\ w <= n BY <2>1 DEF DoneOf
  <2>3. Result = Front(io_str, w) BY <2>1, <2>2, FrontText DEF DoneOf, Result
  <2> QED BY <1>7, <2>1, <2>2, <2>3 DEF DoneOf, InBounds, TrimmedButTheEnd, TrimmedTwice
<1> QED BY <1>4, <1>5, <1>6, <1>7 DEF TrimInv


(* A loop of the first call is at a character of text, or at the terminator. *)
LEMMA FirstReads ==
  ASSUME text \in Texts, FirstCall
  PROVE  /\ buf[r] = NUL <=> r = Len(text)
         /\ r < Len(text) => buf[r] = text[r+1] /\ r + 1 \in 1 .. Len(text)
<1>1. buf = AsArray(text) /\ r \in 0 .. Len(text) BY DEF FirstCall
<1>2. Len(text) \in Nat BY TextIs
<1> QED BY <1>1, <1>2, ArrayIs, NoNul

(* What one more character of text adds to what is kept. *)
LEMMA FirstKeeps ==
  ASSUME text \in Texts, FirstCall, r < Len(text),
         NEW K, K = KeptOf(text)
  PROVE  K[r+1] = IF Keeps(text, r + 1) THEN Append(K[r], text[r+1]) ELSE K[r]
<1>1. Len(text) \in Nat BY TextIs
<1>2. r + 1 \in 1 .. Len(text) /\ (r + 1) - 1 = r BY <1>1 DEF FirstCall
<1>3. \A i \in 1 .. Len(text) : K[i] = IF Keeps(text, i) THEN Append(K[i-1], text[i]) ELSE K[i-1]
  BY <1>1, KeptExists
<1> QED BY <1>2, <1>3

LEMMA FirstSkips ==
  ASSUME text \in Texts, FirstCall, calls = 1, SkipSpace
  PROVE  FirstCall'
<1> DEFINE K == KeptOf(text)
<1>1. Len(text) \in Nat /\ r \in 0 .. Len(text) /\ w \in 0 .. r BY TextIs DEF FirstCall
<1>2. r < Len(text) /\ buf[r] = SP /\ text[r+1] = SP /\ r + 1 \in 1 .. Len(text)
  BY <1>1, FirstReads DEF SkipSpace, More
<1>3. r' = r + 1 /\ found_space' = TRUE /\ io_str' = io_str /\ buf' = buf /\ w' = w /\ text' = text
  BY DEF SkipSpace
<1>4. r = 0 \/ text[r] = SP BY DEF SkipSpace, FirstCall
<1>5. ~Keeps(text, r + 1)
  <2>1. CASE r = 0 BY <1>2, <2>1 DEF Keeps
  <2>2. CASE text[r] = SP
    <3>1. (r + 1) - 1 = r BY <1>1
    <3> QED BY <1>2, <2>2, <3>1 DEF Keeps
  <2> QED BY <1>4, <2>1, <2>2
<1>6. K[r+1] = K[r] BY <1>2, <1>5, FirstKeeps
<1>7. Trailing(r + 1) <=> Trailing(r)
  <2>1. (\E j \in 1 .. r : text[j] # SP) <=> (r > 0 /\ \E j \in 1 .. r - 1 : text[j] # SP)
    BY <1>1, <1>4
  <2>2. (\A j \in r + 1 .. Len(text) : text[j] = SP) <=>
          (\A j \in r + 2 .. Len(text) : text[j] = SP)
    BY <1>1, <1>2
  <2>3. (r + 1) - 1 = r /\ (r + 1) + 1 = r + 2 /\ r + 1 > 0 BY <1>1
  <2> QED BY <1>2, <1>4, <2>1, <2>2, <2>3 DEF Trailing
<1>8. Written' 
  <2>1. Front(io_str, w) = IF Trailing(r + 1) THEN Append(K[r+1], SP) ELSE K[r+1]
    BY <1>6, <1>7 DEF FirstCall, Written
  <2>2. Trailing(r)' <=> Trailing(r + 1) BY <1>3 DEF Trailing
  <2> QED BY <1>3, <2>1, <2>2 DEF Written
<1>9. w = 0 <=> \A j \in 1 .. r + 1 : text[j] = SP
  BY <1>1, <1>2 DEF FirstCall
<1>10. w > 0 => io_str[w-1] = SP
  <2>1. SUFFICES ASSUME w > 0 PROVE io_str[w-1] = SP OBVIOUS
  <2>2. found_space BY <1>1, <2>1 DEF SkipSpace, FirstCall
  <2> QED BY <2>1, <2>2 DEF FirstCall
<1>11. Clean(io_str, w)' BY <1>3 DEF FirstCall, Clean
<1>12. r' \in 0 .. Len(text') /\ w' \in 0 .. r' BY <1>1, <1>2, <1>3
<1>13. found_space' /\ r' > 0 /\ text'[r'] = SP BY <1>1, <1>2, <1>3
<1>14. w' = 0 <=> \A j \in 1 .. r' : text'[j] = SP BY <1>3, <1>9
<1>15. w' > 0 => (io_str'[w'-1] = SP <=> found_space') BY <1>3, <1>10
<1>16. /\ buf' = AsArray(text') /\ io_str' \in [0 .. Len(text') -> Chars \cup {NUL}]
       /\ \A i \in 0 .. w' - 1 : io_str'[i] \in Chars
       /\ \A i \in w' .. Len(text') : io_str'[i] = buf'[i]
  BY <1>3 DEF FirstCall
<1> QED
  BY <1>3, <1>8, <1>11, <1>12, <1>13, <1>14, <1>15, <1>16 DEF FirstCall

LEMMA FirstCopies ==
  ASSUME text \in Texts, FirstCall, calls = 1, Copy
  PROVE  FirstCall'
<1> DEFINE K == KeptOf(text)
           c == text[r+1]
<1>1. Len(text) \in Nat /\ r \in 0 .. Len(text) /\ w \in 0 .. r BY TextIs DEF FirstCall
<1>2. r < Len(text) /\ buf[r] = c /\ r + 1 \in 1 .. Len(text)
  BY <1>1, FirstReads DEF Copy, More
<1>3. c \in Chars BY <1>2, TextIs
<1> HIDE DEF c
<1>4. /\ r' = r + 1 /\ w' = w + 1 /\ buf' = buf /\ text' = text
      /\ io_str' = [io_str EXCEPT ![w] = c] /\ found_space' = (c = SP)
  BY <1>2 DEF Copy
<1>5. c = SP => r > 0 /\ text[r] # SP BY <1>1, <1>2 DEF Copy, FirstCall
<1>6. ~Trailing(r)
  <2>1. CASE c = SP BY <1>5, <2>1 DEF Trailing
  <2>2. CASE c # SP BY <1>2, <2>2 DEF Trailing, c
  <2> QED BY <2>1, <2>2
<1>7. Front(io_str, w) = K[r] BY <1>6 DEF FirstCall, Written
<1>8. io_str \in [0 .. Len(text) -> Chars \cup {NUL}] BY DEF FirstCall
<1>9. Front(io_str', w + 1) = Append(K[r], c)
  <2>1. w \in 0 .. Len(text) BY <1>1
  <2>2. Front(io_str', w + 1) = Append(Front(io_str, w), c)
    BY <1>1, <1>4, <1>8, <2>1, FrontLonger
  <2> QED BY <1>7, <2>2
<1>10. K[r+1] = IF Keeps(text, r + 1) THEN Append(K[r], c) ELSE K[r]
  BY <1>2, FirstKeeps DEF c
<1> HIDE DEF K
<1>11. (IF Trailing(r + 1) THEN Append(K[r+1], SP) ELSE K[r+1]) = Append(K[r], c)
  <2>1. CASE c # SP
    <3>1. Keeps(text, r + 1) BY <2>1 DEF Keeps, c
    <3>2. ~Trailing(r + 1) BY <2>1 DEF Trailing, c
    <3> QED BY <1>10, <3>1, <3>2
  <2>2. CASE c = SP
    <3>1. r > 0 /\ text[r] # SP BY <1>5, <2>2
    <3>2. (r + 1) - 1 = r /\ r + 1 > 0 BY <1>1
    <3>3. \E j \in 1 .. r : text[j] # SP BY <1>1, <3>1
    <3>4. CASE \E j \in (r + 1) + 1 .. Len(text) : text[j] # SP
      <4>1. Keeps(text, r + 1) BY <3>1, <3>2, <3>3, <3>4 DEF Keeps
      <4>2. ~Trailing(r + 1) BY <3>4 DEF Trailing
      <4> QED BY <1>10, <4>1, <4>2
    <3>5. CASE \A j \in (r + 1) + 1 .. Len(text) : text[j] = SP
      <4>1. ~Keeps(text, r + 1) BY <2>2, <3>5 DEF Keeps, c
      <4>2. Trailing(r + 1) BY <2>2, <3>2, <3>3, <3>5 DEF Trailing, c
      <4> QED BY <1>10, <2>2, <4>1, <4>2
    <3> QED BY <3>4, <3>5
  <2> QED BY <2>1, <2>2
<1>12. Written'
  <2>1. Trailing(r)' <=> Trailing(r + 1) BY <1>4 DEF Trailing
  <2>2. K' = K BY <1>4 DEF K
  <2>3. Front(io_str, w)' = Front(io_str', w + 1) BY <1>4 DEF Front
  <2>4. Front(io_str, w)' = IF Trailing(r + 1) THEN Append(K[r+1], SP) ELSE K[r+1]
    BY <1>9, <1>11, <2>3
  <2> QED BY <1>4, <2>1, <2>2, <2>4 DEF Written, K
<1>13. \A i \in 0 .. Len(text) : io_str'[i] = IF i = w THEN c ELSE io_str[i]
  BY <1>1, <1>4, <1>8
<1>14. io_str' \in [0 .. Len(text) -> Chars \cup {NUL}] BY <1>3, <1>4, <1>8
<1>15. \A i \in 0 .. w : io_str'[i] \in Chars
  BY <1>1, <1>3, <1>13 DEF FirstCall
<1>16. \A i \in w + 1 .. Len(text) : io_str'[i] = buf[i]
  BY <1>1, <1>13 DEF FirstCall
<1>17. ~(\A j \in 1 .. r + 1 : text[j] = SP)
  <2>1. CASE c = SP BY <1>1, <1>5, <2>1
  <2>2. CASE c # SP BY <1>1, <2>2 DEF c
  <2> QED BY <2>1, <2>2
<1>18. Clean(io_str', w + 1)
  <2>1. w > 0 => io_str'[0] # SP BY <1>1, <1>13 DEF FirstCall, Clean
  <2>2. w = 0 => io_str'[0] # SP
    <3>1. SUFFICES ASSUME w = 0 PROVE io_str'[0] # SP OBVIOUS
    <3>2. \A j \in 1 .. r : text[j] = SP BY <3>1 DEF FirstCall
    <3>3. c # SP BY <1>1, <1>5, <3>2
    <3> QED BY <1>1, <1>13, <3>1, <3>3
  <2>3. ASSUME NEW i \in 1 .. w, io_str'[i] = SP PROVE io_str'[i-1] # SP
    <3>1. i - 1 \in 0 .. Len(text) /\ i - 1 # w /\ i \in 0 .. Len(text) BY <1>1, <1>2
    <3>2. io_str'[i-1] = io_str[i-1] BY <1>13, <3>1
    <3>3. CASE i = w
      <4>1. c = SP BY <1>13, <2>3, <3>1, <3>3
      <4>2. ~found_space BY <1>5, <4>1 DEF FirstCall
      <4> QED BY <1>1, <3>2, <3>3, <4>2 DEF FirstCall
    <3>4. CASE i # w
      <4>1. i \in 1 .. w - 1 /\ io_str[i] = SP BY <1>1, <1>13, <2>3, <3>1, <3>4
      <4> QED BY <3>2, <4>1 DEF FirstCall, Clean
    <3> QED BY <3>3, <3>4
  <2>4. (w + 1) - 1 = w BY <1>1
  <2> QED BY <1>1, <2>1, <2>2, <2>3, <2>4 DEF Clean
<1>19. Clean(io_str, w)' BY <1>4, <1>18 DEF Clean
<1>20. (w + 1) - 1 = w /\ io_str'[w] = c BY <1>1, <1>13
<1>21. buf' = AsArray(text') BY <1>4 DEF FirstCall
<1>22. r' \in 0 .. Len(text') /\ w' \in 0 .. r' BY <1>1, <1>2, <1>4
<1>23. found_space' <=> r' > 0 /\ text'[r'] = SP
  <2>1. text'[r'] = c /\ r' > 0 BY <1>1, <1>4 DEF c
  <2> QED BY <1>4, <2>1
<1>24. w' = 0 <=> \A j \in 1 .. r' : text'[j] = SP BY <1>1, <1>4, <1>17
<1>25. w' > 0 => (io_str'[w'-1] = SP <=> found_space') BY <1>4, <1>20
<1>26. /\ \A i \in 0 .. w' - 1 : io_str'[i] \in Chars
       /\ \A i \in w' .. Len(text') : io_str'[i] = buf'[i]
  BY <1>4, <1>15, <1>16, <1>20
<1> QED
  BY <1>4, <1>12, <1>14, <1>19, <1>21, <1>22, <1>23, <1>24, <1>25, <1>26 DEF FirstCall


LEMMA FirstFinishes ==
  ASSUME text \in Texts, FirstCall, calls = 1, Finish
  PROVE  FirstDone'
<1> DEFINE T == Trimmed(text)
           K == KeptOf(text)
           v == w - Steps
<1>1. Len(text) \in Nat /\ r \in 0 .. Len(text) /\ w \in 0 .. r BY TextIs DEF FirstCall
<1>2. r = Len(text) BY FirstReads DEF Finish
<1>3. T = K[r] BY <1>2, TrimmedIs
<1>4. T \in Seq(Chars) BY <1>1, <1>3, KeptSeq
<1>5. io_str \in [0 .. Len(text) -> Chars \cup {NUL}] BY DEF FirstCall
<1>6. ~found_space \/ w = 0 => Front(io_str, w) = T /\ (w > 0 => io_str[w-1] # SP)
  <2>1. SUFFICES ASSUME ~found_space \/ w = 0
                 PROVE  Front(io_str, w) = T /\ (w > 0 => io_str[w-1] # SP)
    OBVIOUS
  <2>2. w > 0 => io_str[w-1] # SP BY <2>1 DEF FirstCall
  <2>3. ~Trailing(r) BY <1>1, <2>1 DEF FirstCall, Trailing
  <2> QED BY <1>3, <2>2, <2>3 DEF FirstCall, Written
<1>7. found_space /\ w > 0 => /\ Front(io_str, w - 1) = T /\ io_str[w-1] = SP
                              /\ text[Len(text)] = SP
  <2>1. SUFFICES ASSUME found_space, w > 0
                 PROVE  Front(io_str, w - 1) = T /\ io_str[w-1] = SP /\ text[Len(text)] = SP
    OBVIOUS
  <2>2. r > 0 /\ text[r] = SP BY <2>1 DEF FirstCall
  <2>3. \E j \in 1 .. r : text[j] # SP BY <1>1, <2>1 DEF FirstCall
  <2>4. \E j \in 1 .. r - 1 : text[j] # SP BY <1>1, <2>2, <2>3
  <2>5. Trailing(r) BY <1>1, <1>2, <2>2, <2>4 DEF Trailing
  <2>6. Front(io_str, w) = Append(T, SP) BY <1>3, <2>5 DEF FirstCall, Written
  <2> HIDE DEF T
  <2>7. w \in Nat /\ SP \in Chars BY <1>1, NoNul
  <2>8. Front(io_str, w - 1) = T /\ io_str[w-1] = SP BY <1>4, <2>1, <2>6, <2>7, FrontShorter
  <2> QED BY <1>2, <2>2, <2>8
<1>8. w = 0 => Steps = 0
  <2>1. SUFFICES ASSUME w = 0, found_space PROVE io_str[w] = SP BY DEF Steps
  <2>2. r > 0 /\ \A j \in 1 .. r : text[j] = SP BY <2>1 DEF FirstCall
  <2>3. text[1] = SP BY <1>1, <2>2
  <2>4. io_str[0] = buf[0] BY <1>1, <2>1 DEF FirstCall
  <2>5. AsArray(text)[0] = text[1] BY <1>1, <1>2, <2>2, ArrayIs
  <2> QED BY <2>1, <2>3, <2>4, <2>5 DEF FirstCall
<1>9. v \in Nat /\ v <= w /\ v \in 0 .. Len(text) BY <1>1, <1>8 DEF Steps
<1>10. \A i \in 0 .. v - 1 : io_str[i] \in Chars BY <1>1, <1>9 DEF FirstCall
<1>11. w' = v /\ io_str' = [io_str EXCEPT ![v] = NUL] /\ text' = text /\ buf' = buf /\ r' = r
  BY DEF Finish
<1>12. Clean(io_str, v) BY <1>1, <1>9 DEF FirstCall, Clean
<1>13. \/ /\ Front(io_str, v) = T
          /\ v > 0 => io_str[v-1] # SP
       \/ /\ v > 0 /\ v < Len(text)
          /\ io_str[v-1] = SP /\ text[Len(text)] = SP
          /\ Front(io_str, v - 1) = T
  <2>1. CASE ~found_space \/ w = 0
    <3>1. v = w BY <1>1, <1>8, <2>1 DEF Steps
    <3> QED BY <1>6, <2>1, <3>1
  <2>2. CASE found_space /\ w > 0 /\ io_str[w] # SP
    <3>1. v = w - 1 BY <2>2 DEF Steps
    <3>2. Front(io_str, v) = T BY <1>7, <2>2, <3>1
    <3>3. v > 0 => io_str[v-1] # SP
      <4>1. SUFFICES ASSUME v > 0 PROVE io_str[v-1] # SP OBVIOUS
      <4>2. v \in 1 .. w - 1 /\ io_str[v] = SP BY <1>1, <1>7, <1>9, <2>2, <3>1, <4>1
      <4> QED BY <4>2 DEF FirstCall, Clean
    <3> QED BY <3>2, <3>3
  <2>3. CASE found_space /\ w > 0 /\ io_str[w] = SP
    <3>1. v = w BY <1>1, <2>3 DEF Steps
    <3>2. w < Len(text)
      <4>1. SUFFICES ASSUME w = Len(text) PROVE FALSE BY <1>1, <1>2
      <4>2. io_str[w] = buf[w] BY <1>1, <4>1 DEF FirstCall
      <4>3. buf[w] = NUL BY <4>1, ArrayIs DEF FirstCall
      <4> QED BY <2>3, <4>2, <4>3, NoNul
    <3> QED BY <1>7, <2>3, <3>1, <3>2
  <2> QED BY <1>1, <2>1, <2>2, <2>3
<1> HIDE DEF v
<1>14. /\ io_str' \in [0 .. Len(text) -> Chars \cup {NUL}] /\ Ends(io_str', v)
       /\ \A i \in 0 .. v - 1 : io_str'[i] = io_str[i]
  <2>1. io_str' = [io_str EXCEPT ![v] = NUL] BY <1>11
  <2>2. v \in 0 .. Len(text) BY <1>9
  <2> QED BY <1>1, <1>5, <1>10, <2>1, <2>2 DEF Ends
<1>15. Clean(io_str', v) BY <1>9, <1>12, <1>14 DEF Clean
<1>16. Front(io_str', v) = Front(io_str, v) BY <1>9, <1>14 DEF Front
<1>17. v > 0 => Front(io_str', v - 1) = Front(io_str, v - 1) /\ io_str'[v-1] = io_str[v-1]
  BY <1>9, <1>14 DEF Front
<1>18. \/ /\ Front(io_str', v) = T
          /\ v > 0 => io_str'[v-1] # SP
       \/ /\ v > 0 /\ v < Len(text)
          /\ io_str'[v-1] = SP /\ text[Len(text)] = SP
          /\ Front(io_str', v - 1) = T
  BY <1>13, <1>16, <1>17
<1>19. DOMAIN buf = 0 .. Len(text) BY ArrayIs DEF FirstCall
<1>20. T' = T BY <1>11
<1> HIDE DEF T
<1>21. v \in 0 .. r BY <1>1, <1>9
<1>22. /\ Ends(io_str, w)' <=> Ends(io_str', v)
       /\ Clean(io_str, w)' <=> Clean(io_str', v)
       /\ Front(io_str, w)' = Front(io_str', v)
       /\ Front(io_str, w - 1)' = Front(io_str', v - 1)
  BY <1>11 DEF Ends, Clean, Front
<1> QED
  BY <1>1, <1>11, <1>14, <1>15, <1>18, <1>19, <1>20, <1>21, <1>22 DEF FirstDone, T

LEMMA SecondBegins ==
  ASSUME text \in Texts, FirstDone, Again
  PROVE  \E n \in Nat : SecondOf(n)'
<1> DEFINE T == Trimmed(text)
           t == Front(io_str, w)
<1>1. Len(text) \in Nat /\ w \in Nat /\ w <= Len(text) BY TextIs DEF FirstDone
<1>2. DOMAIN io_str = 0 .. Len(text) /\ Ends(io_str, w) /\ Clean(io_str, w) BY DEF FirstDone
<1>3. AsText(io_str) = t BY <1>1, <1>2, FrontText
<1>4. /\ io_str' = AsArray(t) /\ buf' = AsArray(t) /\ text' = text
      /\ r' = 0 /\ w' = 0 /\ found_space' = FALSE
  BY <1>3 DEF Again
<1>5. /\ Len(t) = w /\ \A i \in 1 .. w : t[i] = io_str[i-1]
  BY <1>1 DEF Front
<1>6. \A i \in 0 .. w - 1 : t[i+1] = io_str[i] BY <1>1, <1>5
<1> HIDE DEF t
<1> DEFINE b == AsArray(t)
<1>7. /\ b = [i \in 0 .. w |-> IF i < w THEN t[i+1] ELSE NUL]
  BY <1>5 DEF AsArray
<1> HIDE DEF b
<1>8. b[w] = NUL /\ \A i \in 0 .. w - 1 : b[i] = io_str[i] BY <1>1, <1>6, <1>7
<1>9. \A i \in 0 .. w - 1 : io_str[i] \in Chars BY <1>2 DEF Ends
<1>10. b \in [0 .. w -> Chars \cup {NUL}]
  <2>1. \A i \in 0 .. w : b[i] \in Chars \cup {NUL} BY <1>1, <1>8, <1>9
  <2> QED BY <1>7, <2>1
<1>11. Ends(b, w) BY <1>8, <1>9 DEF Ends
<1>12. Clean(b, w) BY <1>1, <1>2, <1>8 DEF Clean
<1>13. Front(b, IF w > 0 /\ b[w-1] = SP THEN w - 1 ELSE w) = T
  <2>1. Front(b, w) = Front(io_str, w) BY <1>1, <1>8 DEF Front
  <2>2. w > 0 => Front(b, w - 1) = Front(io_str, w - 1) /\ b[w-1] = io_str[w-1]
    BY <1>1, <1>8 DEF Front
  <2> QED BY <1>1, <2>1, <2>2 DEF FirstDone
<1>14. T' = T BY <1>4
<1> HIDE DEF T
<1> PICK n \in Nat : n = w BY <1>1
<1>15. 0 \in 0 .. n /\ n = w BY <1>1
<1>16. SecondOf(n)'
  BY <1>4, <1>10, <1>11, <1>12, <1>13, <1>14, <1>15 DEF SecondOf, b, T
<1> QED BY <1>16


LEMMA SecondReads ==
  ASSUME NEW n \in Nat, SecondOf(n)
  PROVE  /\ buf[r] = NUL <=> r = n
         /\ r < n => buf[r] \in Chars /\ r + 1 \in 1 .. n
<1>1. r \in 0 .. n /\ Ends(buf, n) BY DEF SecondOf
<1> QED BY <1>1, NoNul DEF Ends

(* After one call no space is skipped. *)
LEMMA SecondSkipsNot ==
  ASSUME NEW n \in Nat, SecondOf(n), SkipSpace
  PROVE  FALSE
<1>1. r \in 0 .. n /\ Clean(buf, n) BY DEF SecondOf
<1>2. r < n /\ buf[r] = SP BY <1>1, SecondReads DEF SkipSpace, More
<1>3. CASE r = 0 BY <1>1, <1>2, <1>3 DEF Clean
<1>4. CASE r > 0 /\ buf[r-1] = SP
  <2>1. r \in 1 .. n - 1 BY <1>1, <1>2, <1>4
  <2> QED BY <1>1, <1>2, <1>4, <2>1 DEF Clean
<1> QED BY <1>3, <1>4 DEF SkipSpace, SecondOf

LEMMA SecondCopies ==
  ASSUME NEW n \in Nat, SecondOf(n), Copy
  PROVE  SecondOf(n)'
<1>1. r \in 0 .. n /\ w = r /\ io_str = buf /\ buf \in [0 .. n -> Chars \cup {NUL}]
  BY DEF SecondOf
<1>2. r < n /\ r + 1 \in 0 .. n BY <1>1, SecondReads DEF Copy, More
<1>3. [io_str EXCEPT ![w] = buf[r]] = io_str BY <1>1
<1>4. /\ io_str' = io_str /\ buf' = buf /\ text' = text
      /\ r' = r + 1 /\ w' = w + 1 /\ found_space' = (buf[r] = SP)
  BY <1>3 DEF Copy
<1>5. Ends(buf, n)' /\ Clean(buf, n)'
  BY <1>4 DEF SecondOf, Ends, Clean
<1>6. (r + 1) - 1 = r /\ r + 1 > 0 BY <1>1
<1>7. found_space' <=> r' > 0 /\ buf'[r'-1] = SP BY <1>4, <1>6
<1>8. (Front(buf, IF n > 0 /\ buf[n-1] = SP THEN n - 1 ELSE n) = Trimmed(text))'
  BY <1>4 DEF SecondOf
<1>9. /\ io_str' = buf' /\ buf' \in [0 .. n -> Chars \cup {NUL}]
      /\ r' \in 0 .. n /\ w' = r'
  BY <1>1, <1>2, <1>4
<1> QED BY <1>5, <1>7, <1>8, <1>9 DEF SecondOf

LEMMA SecondFinishes ==
  ASSUME NEW n \in Nat, SecondOf(n), Finish
  PROVE  DoneOf(n)'
<1> DEFINE v == w - Steps
<1>1. r \in 0 .. n /\ w = r /\ io_str = buf /\ buf \in [0 .. n -> Chars \cup {NUL}]
  BY DEF SecondOf
<1>2. r = n /\ io_str[w] = NUL BY <1>1, SecondReads DEF Finish
<1>3. v = IF n > 0 /\ buf[n-1] = SP THEN n - 1 ELSE n
  BY <1>1, <1>2, NoNul DEF Steps, SecondOf
<1>4. Front(buf, v) = Trimmed(text) BY <1>3 DEF SecondOf
<1>5. v \in 0 .. n /\ v \in Nat /\ v <= r BY <1>1, <1>2, <1>3
<1>6. w' = v /\ io_str' = [buf EXCEPT ![v] = NUL] /\ text' = text /\ buf' = buf /\ r' = r
  BY <1>1 DEF Finish
<1>7. \A i \in 0 .. v - 1 : buf[i] \in Chars BY <1>5 DEF SecondOf, Ends
<1> HIDE DEF v
<1>8. /\ io_str' \in [0 .. n -> Chars \cup {NUL}] /\ io_str'[v] = NUL
      /\ \A i \in 0 .. v - 1 : io_str'[i] = buf[i]
  BY <1>1, <1>5, <1>6
<1>9. Ends(io_str, w)' BY <1>6, <1>7, <1>8 DEF Ends
<1>10. Front(io_str', v) = Front(buf, v) BY <1>5, <1>8 DEF Front
<1>11. (Front(io_str, w) = Trimmed(text))'
  <2>1. Front(io_str, w)' = Front(io_str', v) BY <1>6 DEF Front
  <2>2. Trimmed(text)' = Trimmed(text) BY <1>6
  <2> QED BY <1>4, <1>10, <2>1, <2>2
<1> QED BY <1>1, <1>5, <1>6, <1>8, <1>9, <1>11 DEF DoneOf

LEMMA StringStep == TrimInv /\ Next => TrimInv'
<1> SUFFICES ASSUME TrimInv, Next PROVE TrimInv' OBVIOUS
<1>1. text \in Texts /\ text' = text
  BY DEF TrimInv, Next, SkipSpace, Copy, Finish, Again
<1>2. CASE calls = 1 /\ pc = "loop" /\ FirstCall
  <2>1. CASE SkipSpace
    BY <1>1, <1>2, <2>1, FirstSkips DEF TrimInv, SkipSpace
  <2>2. CASE Copy
    BY <1>1, <1>2, <2>2, FirstCopies DEF TrimInv, Copy
  <2>3. CASE Finish
    BY <1>1, <1>2, <2>3, FirstFinishes DEF TrimInv, Finish
  <2> QED BY <1>2, <2>1, <2>2, <2>3 DEF Next, Again
<1>3. CASE calls = 1 /\ pc = "idle" /\ FirstDone
  <2>1. Again BY <1>3 DEF Next, SkipSpace, Copy, Finish, More
  <2>2. \E n \in Nat : SecondOf(n)' BY <1>1, <1>3, <2>1, SecondBegins
  <2> QED BY <1>1, <2>1, <2>2 DEF TrimInv, Again
<1>4. CASE calls = 2 /\ pc = "loop" /\ \E n \in Nat : SecondOf(n)
  <2>1. PICK n \in Nat : SecondOf(n) BY <1>4
  <2>2. ~SkipSpace BY <2>1, SecondSkipsNot
  <2>3. CASE Copy
    <3>1. SecondOf(n)' BY <2>1, <2>3, SecondCopies
    <3> QED BY <1>1, <1>4, <2>3, <3>1 DEF TrimInv, Copy
  <2>4. CASE Finish
    <3>1. DoneOf(n)' BY <2>1, <2>4, SecondFinishes
    <3> QED BY <1>1, <1>4, <2>4, <3>1 DEF TrimInv, Finish
  <2> QED BY <1>4, <2>2, <2>3, <2>4 DEF Next, Again
<1>5. CASE calls = 2 /\ pc = "idle" /\ \E n \in Nat : DoneOf(n)
  BY <1>5 DEF Next, SkipSpace, Copy, Finish, Again, More
<1> QED BY <1>2, <1>3, <1>4, <1>5 DEF TrimInv

LEMMA StringIdle == TrimInv /\ UNCHANGED vars => TrimInv'
<1> SUFFICES ASSUME TrimInv, UNCHANGED vars PROVE TrimInv' OBVIOUS
<1>1. /\ io_str' = io_str /\ buf' = buf /\ r' = r /\ w' = w /\ found_space' = found_space
      /\ pc' = pc /\ text' = text /\ calls' = calls
  BY DEF vars
<1>2. FirstCall => FirstCall'
  BY <1>1 DEF FirstCall, Written, Trailing, Clean, Front
<1>3. FirstDone => FirstDone'
  BY <1>1 DEF FirstDone, Ends, Clean, Front
<1>4. ASSUME NEW n \in Nat PROVE /\ SecondOf(n) => SecondOf(n)'
                                 /\ DoneOf(n) => DoneOf(n)'
  BY <1>1 DEF SecondOf, DoneOf, Ends, Clean, Front
<1> QED BY <1>1, <1>2, <1>3, <1>4 DEF TrimInv
-----------------------------------------------------------------------------
(* Date.cpp *)

(* The days before each month, of a common year and of a leap year. *)
Before(m, leap) ==
  IF m = 1 THEN 0 ELSE IF m = 2 THEN 31
  ELSE (IF leap THEN 1 ELSE 0) +
       (IF m = 3 THEN 59 ELSE IF m = 4 THEN 90 ELSE IF m = 5 THEN 120 ELSE
        IF m = 6 THEN 151 ELSE IF m = 7 THEN 181 ELSE IF m = 8 THEN 212 ELSE
        IF m = 9 THEN 243 ELSE IF m = 10 THEN 273 ELSE IF m = 11 THEN 304 ELSE 334)

LEMMA MonthsAre ==
  ASSUME NEW y, NEW m \in 1 .. 12
  PROVE  Dates!daysOfMonths(m, y) = Before(m, Dates!leapYear(y))
<1> DEFINE leap == Dates!leapYear(y)
           Item(f, n) == IF n = 1 THEN 0 ELSE f[n - 1] + Dates!monthDays(n - 1, y)
           Is(f) == f = [n \in 1 .. 12 |-> Item(f, n)]
           B == [n \in 1 .. 12 |-> Before(n, leap)]
           D == CHOOSE f : Is(f)
<1>1. Dates!daysOfMonths(m, y) = D[m] BY DEF Dates!daysOfMonths
<1>2. Is(B)
  <2>1. ASSUME NEW n \in 1 .. 12 PROVE Before(n, leap) = Item(B, n)
    <3>1. n # 1 => B[n-1] = Before(n - 1, leap) OBVIOUS
    <3> HIDE DEF B
    <3> QED BY <3>1, SMTT(30) DEF Before, Dates!monthDays
  <2> QED BY <2>1
<1>3. Is(D)
  <2> HIDE DEF Is
  <2> QED BY <1>2
<1> HIDE DEF D, B
<1>4. \A n \in 1 .. 12 : D[n] = Item(D, n) BY <1>3
<1>5. D[1] = 0 BY <1>4
<1>6. \A n \in 2 .. 12 : D[n] = D[n-1] + Dates!monthDays(n - 1, y) BY <1>4
<1>7. /\ D[2] = D[1] + Dates!monthDays(1, y) /\ D[3] = D[2] + Dates!monthDays(2, y)
      /\ D[4] = D[3] + Dates!monthDays(3, y) /\ D[5] = D[4] + Dates!monthDays(4, y)
      /\ D[6] = D[5] + Dates!monthDays(5, y) /\ D[7] = D[6] + Dates!monthDays(6, y)
      /\ D[8] = D[7] + Dates!monthDays(7, y) /\ D[9] = D[8] + Dates!monthDays(8, y)
      /\ D[10] = D[9] + Dates!monthDays(9, y) /\ D[11] = D[10] + Dates!monthDays(10, y)
      /\ D[12] = D[11] + Dates!monthDays(11, y)
  <2> HIDE DEF Is
  <2> QED BY <1>6
<1>8. /\ D[1] = 0 /\ D[2] = 31 /\ D[3] = 59 + (IF leap THEN 1 ELSE 0)
      /\ D[4] = 90 + (IF leap THEN 1 ELSE 0) /\ D[5] = 120 + (IF leap THEN 1 ELSE 0)
      /\ D[6] = 151 + (IF leap THEN 1 ELSE 0) /\ D[7] = 181 + (IF leap THEN 1 ELSE 0)
      /\ D[8] = 212 + (IF leap THEN 1 ELSE 0) /\ D[9] = 243 + (IF leap THEN 1 ELSE 0)
      /\ D[10] = 273 + (IF leap THEN 1 ELSE 0) /\ D[11] = 304 + (IF leap THEN 1 ELSE 0)
      /\ D[12] = 334 + (IF leap THEN 1 ELSE 0)
  <2> HIDE DEF leap
  <2> QED BY <1>5, <1>7 DEF Dates!monthDays, leap
<1> QED BY <1>1, <1>8 DEF Before

(* The instance of the calendar counts as every module does. *)
LEMMA Counted == \A S : Dates!Cardinality(S) = Cardinality(S)
BY DEF Dates!Cardinality, Cardinality

LEMMA YearLonger ==
  ASSUME NEW y \in Nat, y >= Dates!baseYear
  PROVE  Dates!daysOfYears(y + 1) = Dates!daysOfYears(y) + Dates!yearDays(y)
<1> DEFINE Leaps(z) == {n \in Dates!baseYear .. z - 1 : Dates!leapYear(n)}
<1>1. IsFiniteSet(Leaps(y))
  <2>1. IsFiniteSet(Dates!baseYear .. y - 1) BY FS_Interval DEF Dates!baseYear
  <2> QED BY <2>1, FS_Subset
<1>2. Leaps(y + 1) = IF Dates!leapYear(y) THEN Leaps(y) \cup {y} ELSE Leaps(y)
  BY DEF Dates!baseYear
<1>3. y \notin Leaps(y) OBVIOUS
<1>4. Cardinality(Leaps(y)) \in Nat BY <1>1, FS_CardinalityType
<1>5. Cardinality(Leaps(y) \cup {y}) = Cardinality(Leaps(y)) + 1
  BY <1>1, <1>3, FS_AddElement
<1>6. ASSUME NEW z
      PROVE  Dates!daysOfYears(z) = 365 * (z - Dates!baseYear) + Cardinality(Leaps(z))
  BY Counted, Zenon DEF Dates!daysOfYears
<1> HIDE DEF Leaps
<1> QED BY <1>2, <1>4, <1>5, <1>6 DEF Dates!yearDays, Dates!baseYear

LEMMA NoYears == Dates!daysOfYears(Dates!baseYear) = 0
<1>1. {n \in Dates!baseYear .. Dates!baseYear - 1 : Dates!leapYear(n)} = {} BY DEF Dates!baseYear
<1>2. Cardinality({}) = 0 BY FS_EmptySet
<1>3. Dates!daysOfYears(Dates!baseYear) = 365 * (Dates!baseYear - Dates!baseYear) + 0
  BY <1>1, <1>2, Counted, Zenon DEF Dates!daysOfYears
<1> QED BY <1>3 DEF Dates!baseYear

(* Years have 365 days or 366. *)
LEMMA YearsGrow ==
  ASSUME NEW y \in Nat, y >= Dates!baseYear
  PROVE  /\ Dates!daysOfYears(y) \in Nat
         /\ 365 * (y - Dates!baseYear) <= Dates!daysOfYears(y)
         /\ Dates!daysOfYears(y) <= 366 * (y - Dates!baseYear)
<1> DEFINE Y(k) == Dates!daysOfYears(1000 + k)
           S == {k \in Nat : Y(k) \in Nat /\ 365 * k <= Y(k) /\ Y(k) <= 366 * k}
<1>1. Dates!baseYear = 1000 BY DEF Dates!baseYear
<1>2. 0 \in S BY <1>1, NoYears
<1>3. ASSUME NEW k \in Nat, k \in S PROVE k + 1 \in S
  <2>1. 1000 + k \in Nat /\ 1000 + k >= Dates!baseYear /\ (1000 + k) + 1 = 1000 + (k + 1) BY <1>1
  <2>2. Y(k + 1) = Y(k) + Dates!yearDays(1000 + k) BY <2>1, YearLonger
  <2>3. Dates!yearDays(1000 + k) \in {365, 366} BY DEF Dates!yearDays
  <2> HIDE DEF Y
  <2> QED BY <1>3, <2>2, <2>3
<1> HIDE DEF S
<1>4. y - 1000 \in S BY <1>1, <1>2, <1>3, EachNext
<1>5. 1000 + (y - 1000) = y OBVIOUS
<1> QED BY <1>1, <1>4, <1>5 DEF S

LEMMA YearsApart ==
  ASSUME NEW y \in Nat, y >= Dates!baseYear, NEW z \in Nat, y < z
  PROVE  Dates!daysOfYears(y + 1) <= Dates!daysOfYears(z)
<1> DEFINE Y(k) == Dates!daysOfYears((y + 1) + k)
           S == {k \in Nat : Y(0) <= Y(k)}
<1>1. Dates!baseYear \in Nat BY DEF Dates!baseYear
<1>2. Y(0) \in Nat BY <1>1, YearsGrow
<1>3. 0 \in S BY <1>2
<1>4. ASSUME NEW k \in Nat, k \in S PROVE k + 1 \in S
  <2>1. /\ (y + 1) + k \in Nat /\ (y + 1) + k >= Dates!baseYear
        /\ ((y + 1) + k) + 1 = (y + 1) + (k + 1)
    BY <1>1
  <2>2. Y(k + 1) = Y(k) + Dates!yearDays((y + 1) + k) BY <2>1, YearLonger
  <2>3. Dates!yearDays((y + 1) + k) \in {365, 366} BY DEF Dates!yearDays
  <2>4. Y(k) \in Nat BY <2>1, YearsGrow
  <2> HIDE DEF Y
  <2> QED BY <1>2, <1>4, <2>2, <2>3, <2>4
<1> HIDE DEF S
<1>5. z - (y + 1) \in S BY <1>3, <1>4, EachNext
<1>6. (y + 1) + (z - (y + 1)) = z /\ (y + 1) + 0 = y + 1 OBVIOUS
<1> QED BY <1>5, <1>6 DEF S

(* The year that a day is in. *)
InYear(days, y) == Dates!daysOfYears(y) <= days /\ days < Dates!daysOfYears(y + 1)

LEMMA OneYear ==
  ASSUME NEW days \in Int, NEW y \in Nat, NEW z \in Nat,
         y >= Dates!baseYear, z >= Dates!baseYear, InYear(days, y), InYear(days, z)
  PROVE  y = z
<1>1. y < z => Dates!daysOfYears(y + 1) <= Dates!daysOfYears(z) BY YearsApart
<1>2. z < y => Dates!daysOfYears(z + 1) <= Dates!daysOfYears(y) BY YearsApart
<1>3. Dates!baseYear \in Nat BY DEF Dates!baseYear
<1>4. /\ Dates!daysOfYears(y) \in Nat /\ Dates!daysOfYears(z) \in Nat
      /\ Dates!daysOfYears(y + 1) \in Nat /\ Dates!daysOfYears(z + 1) \in Nat
  BY <1>3, YearsGrow
<1> QED BY <1>1, <1>2, <1>4 DEF InYear

LEMMA YearFound ==
  ASSUME NEW days \in Nat
  PROVE  /\ Dates!walkYears(days) \in Nat /\ Dates!walkYears(days) >= Dates!baseYear
         /\ InYear(days, Dates!walkYears(days))
<1> DEFINE Y(k) == Dates!daysOfYears(1000 + k)
           Some == {k \in Nat : days < Y(k + 1)}
<1>1. Dates!baseYear = 1000 BY DEF Dates!baseYear
<1>2. ASSUME NEW k \in Nat PROVE Y(k) \in Nat /\ 365 * k <= Y(k) /\ Y(k) <= 366 * k
  <2>1. 1000 + k \in Nat /\ 1000 + k >= Dates!baseYear /\ (1000 + k) - Dates!baseYear = k BY <1>1
  <2> QED BY <2>1, YearsGrow
<1>3. Y(0) = 0 BY <1>1, NoYears
<1>4. \A k \in Nat : (1000 + k) + 1 = 1000 + (k + 1) OBVIOUS
<1>5. \A k \in Nat : InYear(days, 1000 + k) <=> Y(k) <= days /\ days < Y(k + 1)
  BY <1>4 DEF InYear
<1> HIDE DEF Y
<1>6. PICK k \in Some : \A j \in Some : k <= j
  <2>1. days \in Some
    <3>1. 365 * (days + 1) <= Y(days + 1) /\ Y(days + 1) \in Nat BY <1>2
    <3> QED BY <3>1
  <2>2. Some \subseteq Nat /\ Some # {} BY <2>1
  <2> HIDE DEF Some
  <2> QED BY <2>2, LeastOf
<1>7. k \in Nat /\ days < Y(k + 1) OBVIOUS
<1>8. Y(k) <= days
  <2>1. CASE k = 0 BY <1>3, <2>1
  <2>2. CASE k # 0
    <3>1. k - 1 \in Nat /\ k - 1 \notin Some BY <1>6, <1>7, <2>2
    <3>2. (k - 1) + 1 = k BY <1>7
    <3>3. ~(days < Y(k)) BY <3>1, <3>2
    <3> QED BY <1>2, <1>7, <3>3
  <2> QED BY <2>1, <2>2
<1>9. k <= days \div 365 /\ days \div 366 <= k
  <2>1. 365 * k <= Y(k) /\ Y(k) \in Nat BY <1>2, <1>7
  <2>2. Y(k + 1) <= 366 * (k + 1) /\ Y(k + 1) \in Nat BY <1>2, <1>7
  <2>3. 365 * k <= days /\ days < 366 * (k + 1) BY <1>7, <1>8, <2>1, <2>2
  <2> QED BY <1>7, <2>3
<1> DEFINE Span == Dates!baseYear + (days \div 366) .. Dates!baseYear + (days \div 365)
           w0 == CHOOSE y \in Span : InYear(days, y)
<1>10. 1000 + k \in Span BY <1>1, <1>7, <1>9
<1>11. w0 \in Span /\ InYear(days, w0)
  <2>1. \E y \in Span : InYear(days, y) BY <1>5, <1>7, <1>8, <1>10
  <2> HIDE DEF Span
  <2> QED BY <2>1
<1>12. Dates!walkYears(days) = w0
  BY DEF Dates!walkYears, InYear
<1>13. \A y \in Span : y \in Nat /\ y >= Dates!baseYear BY <1>1
<1> HIDE DEF Span, w0
<1> QED BY <1>11, <1>12, <1>13


(* The month that a day of a year is in. *)
InMonth(left, m, y) ==
  /\ Before(m, Dates!leapYear(y)) <= left
  /\ left < Before(m, Dates!leapYear(y)) + Dates!monthDays(m, y)

LEMMA MonthsApart ==
  ASSUME NEW y, NEW m \in 1 .. 12
  PROVE  /\ Before(m, Dates!leapYear(y)) \in Nat
         /\ Dates!monthDays(m, y) \in Nat /\ Dates!monthDays(m, y) >= 28
         /\ m < 12 => Before(m + 1, Dates!leapYear(y)) =
                      Before(m, Dates!leapYear(y)) + Dates!monthDays(m, y)
         /\ m = 12 => Dates!yearDays(y) = Before(m, Dates!leapYear(y)) + Dates!monthDays(m, y)
<1> DEFINE leap == Dates!leapYear(y)
<1>1. Dates!monthDays(m, y) =
        IF m = 2 THEN IF leap THEN 29 ELSE 28 ELSE IF m \in {4, 6, 9, 11} THEN 30 ELSE 31
  BY DEF Dates!monthDays
<1>2. Dates!yearDays(y) = IF leap THEN 366 ELSE 365 BY DEF Dates!yearDays
<1> HIDE DEF leap
<1>3. m = 1 \/ m = 2 \/ m = 3 \/ m = 4 \/ m = 5 \/ m = 6 \/ m = 7 \/ m = 8 \/ m = 9 \/ m = 10
      \/ m = 11 \/ m = 12
  OBVIOUS
<1>4. /\ Before(m, leap) \in Nat
      /\ Dates!monthDays(m, y) \in Nat /\ Dates!monthDays(m, y) >= 28
  BY <1>1, <1>3 DEF Before
<1>5. m < 12 => Before(m + 1, leap) = Before(m, leap) + Dates!monthDays(m, y)
  BY <1>1, <1>3, SMTT(30) DEF Before
<1>6. m = 12 => Dates!yearDays(y) = Before(m, leap) + Dates!monthDays(m, y)
  BY <1>1, <1>2 DEF Before
<1> QED BY <1>4, <1>5, <1>6 DEF leap

LEMMA MonthsOrdered ==
  ASSUME NEW y, NEW m \in 1 .. 12, NEW n \in 1 .. 12, m < n
  PROVE  Before(m, Dates!leapYear(y)) + Dates!monthDays(m, y) <= Before(n, Dates!leapYear(y))
<1> DEFINE B(k) == Before(k, Dates!leapYear(y))
           S == {k \in Nat : (m + 1) + k \in 1 .. 12 => B(m + 1) <= B((m + 1) + k)}
<1>1. \A k \in 1 .. 12 : B(k) \in Nat BY MonthsApart
<1>2. \A k \in 1 .. 11 : B(k) <= B(k + 1) BY MonthsApart
<1>3. B(m + 1) = B(m) + Dates!monthDays(m, y) BY MonthsApart
<1> HIDE DEF B
<1>4. 0 \in S BY <1>1
<1>5. ASSUME NEW k \in Nat, k \in S PROVE k + 1 \in S
  <2>1. SUFFICES ASSUME (m + 1) + (k + 1) \in 1 .. 12 PROVE B(m + 1) <= B((m + 1) + (k + 1))
    OBVIOUS
  <2>2. (m + 1) + k \in 1 .. 11 /\ ((m + 1) + k) + 1 = (m + 1) + (k + 1) /\ m + 1 \in 1 .. 12
    BY <2>1
  <2>3. B(m + 1) <= B((m + 1) + k) BY <1>5, <2>2
  <2>4. B((m + 1) + k) <= B((m + 1) + (k + 1)) BY <1>2, <2>2
  <2> QED BY <1>1, <2>1, <2>2, <2>3, <2>4
<1> HIDE DEF S
<1>6. n - (m + 1) \in S /\ (m + 1) + (n - (m + 1)) = n BY <1>4, <1>5, EachNext
<1> QED BY <1>3, <1>6 DEF S, B

LEMMA OneMonth ==
  ASSUME NEW left \in Int, NEW y, NEW m \in 1 .. 12, NEW n \in 1 .. 12,
         InMonth(left, m, y), InMonth(left, n, y)
  PROVE  m = n
<1> DEFINE B(k) == Before(k, Dates!leapYear(y))
           D(k) == Dates!monthDays(k, y)
<1>1. \A k \in 1 .. 12 : B(k) \in Nat /\ D(k) \in Nat BY MonthsApart
<1>2. (m < n => B(m) + D(m) <= B(n)) /\ (n < m => B(n) + D(n) <= B(m)) BY MonthsOrdered
<1>3. B(m) <= left /\ left < B(m) + D(m) /\ B(n) <= left /\ left < B(n) + D(n) BY DEF InMonth
<1> HIDE DEF B, D
<1> QED BY <1>1, <1>2, <1>3

LEMMA MonthFound ==
  ASSUME NEW left \in Int, NEW y, left < Dates!yearDays(y)
  PROVE  /\ Dates!walkMonths(left, y) \in 1 .. 12
         /\ left >= 0 => InMonth(left, Dates!walkMonths(left, y), y)
         /\ left < 0 => Dates!walkMonths(left, y) = 1
<1> DEFINE B(k) == Before(k, Dates!leapYear(y))
           D(k) == Dates!monthDays(k, y)
           Here(m) == left < B(m) + D(m) /\ (m = 1 \/ left >= B(m))
           m0 == CHOOSE m \in 1 .. 12 : Here(m)
<1>1. \A k \in 1 .. 12 : B(k) \in Nat /\ D(k) \in Nat BY MonthsApart
<1>2. \A k \in 1 .. 12 : Dates!daysOfMonths(k, y) = B(k) BY MonthsAre
<1>3. Dates!walkMonths(left, y) = m0
  <2>1. \A m \in 1 .. 12 : /\ left < Dates!daysOfMonths(m, y) + Dates!monthDays(m, y)
                           /\ m = 1 \/ left >= Dates!daysOfMonths(m, y)
                         <=> Here(m)
    BY <1>2
  <2> HIDE DEF Here
  <2>2. (CHOOSE m \in 1 .. 12 :
           /\ left < Dates!daysOfMonths(m, y) + Dates!monthDays(m, y)
           /\ m = 1 \/ left >= Dates!daysOfMonths(m, y)) = m0
    BY <2>1
  <2> QED BY <2>2 DEF Dates!walkMonths
<1>4. B(1) = 0 BY DEF Before
<1>5. Dates!yearDays(y) = B(12) + D(12) /\ D(1) >= 28 BY MonthsApart
<1>6. \A k \in 1 .. 11 : B(k + 1) = B(k) + D(k) BY MonthsApart
<1>7. \E m \in 1 .. 12 : Here(m)
  <2> DEFINE Some == {k \in 1 .. 12 : left < B(k) + D(k)}
  <2> HIDE DEF B, D
  <2>1. 12 \in Some BY <1>5
  <2>2. PICK k \in Some : \A j \in Some : k <= j
    <3>1. Some \subseteq Nat /\ Some # {} BY <2>1
    <3> HIDE DEF Some
    <3> QED BY <3>1, LeastOf
  <2>3. k = 1 \/ left >= B(k)
    <3>1. SUFFICES ASSUME k # 1 PROVE left >= B(k) OBVIOUS
    <3>2. k - 1 \in 1 .. 11 /\ k - 1 \notin Some /\ (k - 1) + 1 = k BY <2>2, <3>1
    <3>3. ~(left < B(k - 1) + D(k - 1)) BY <3>2
    <3>4. B(k) = B(k - 1) + D(k - 1) BY <1>6, <3>2
    <3> QED BY <1>1, <3>2, <3>3, <3>4
  <2> QED BY <2>2, <2>3
<1>8. m0 \in 1 .. 12 /\ Here(m0)
  <2> HIDE DEF Here
  <2> QED BY <1>7
<1> HIDE DEF m0
<1>9. left >= 0 => InMonth(left, m0, y) BY <1>4, <1>8 DEF InMonth
<1>10. left < 0 => m0 = 1 BY <1>1, <1>8
<1> QED BY <1>3, <1>8, <1>9, <1>10


(* A date of the calendar, and the day that it is. *)
IsDate(d, m, y) == d \in Nat /\ m \in Nat /\ y \in Nat /\ Dates!Valid(d, m, y)

LEMMA DayOf ==
  ASSUME NEW d, NEW m, NEW y, IsDate(d, m, y)
  PROVE  /\ Dates!dmy2dsbd(d, m, y) =
              Dates!daysOfYears(y) + Before(m, Dates!leapYear(y)) + d - 1
         /\ m \in 1 .. 12 /\ y >= Dates!baseYear /\ d >= 1 /\ d <= Dates!monthDays(m, y)
         /\ Dates!daysOfYears(y) \in Nat /\ Before(m, Dates!leapYear(y)) \in Nat
         /\ Dates!dmy2dsbd(d, m, y) \in Nat
         /\ InYear(Dates!dmy2dsbd(d, m, y), y)
         /\ InMonth(Dates!dmy2dsbd(d, m, y) - Dates!daysOfYears(y), m, y)
<1> DEFINE n == Dates!dmy2dsbd(d, m, y)
           B == Before(m, Dates!leapYear(y))
           D == Dates!monthDays(m, y)
           Y == Dates!daysOfYears(y)
<1>1. d \in Nat /\ m \in 1 .. 12 /\ y \in Nat /\ y >= Dates!baseYear /\ d >= 1 /\ d <= D
  BY DEF IsDate, Dates!Valid
<1>2. n = Y + B + d - 1 BY <1>1, MonthsAre DEF Dates!dmy2dsbd, IsDate
<1>3. Y \in Nat BY <1>1, YearsGrow
<1>4. B \in Nat /\ D \in Nat BY <1>1, MonthsApart
<1>5. Dates!daysOfYears(y + 1) = Y + Dates!yearDays(y) BY <1>1, YearLonger
<1>6. Dates!yearDays(y) \in Nat /\ B + D <= Dates!yearDays(y)
  <2>1. Dates!yearDays(y) \in Nat BY DEF Dates!yearDays
  <2>2. CASE m = 12 BY <1>1, <1>4, <2>1, <2>2, MonthsApart
  <2>3. CASE m < 12
    <3>1. B + D <= Before(12, Dates!leapYear(y)) BY <1>1, <2>3, MonthsOrdered
    <3>2. /\ Dates!yearDays(y) = Before(12, Dates!leapYear(y)) + Dates!monthDays(12, y)
          /\ Before(12, Dates!leapYear(y)) \in Nat /\ Dates!monthDays(12, y) \in Nat
      BY MonthsApart
    <3> QED BY <1>4, <3>1, <3>2
  <2> QED BY <1>1, <2>1, <2>2, <2>3
<1> HIDE DEF n, B, D, Y
<1>7. n \in Nat /\ Y <= n /\ n < Y + Dates!yearDays(y) BY <1>1, <1>2, <1>3, <1>4, <1>6
<1>8. InYear(n, y) BY <1>5, <1>7 DEF InYear, Y
<1>9. B <= n - Y /\ n - Y < B + D BY <1>1, <1>2, <1>3, <1>4
<1>10. InMonth(n - Y, m, y) BY <1>9 DEF InMonth, B, D
<1> QED BY <1>1, <1>2, <1>3, <1>4, <1>7, <1>8, <1>10 DEF n, B, D, Y

(* A day has one date. *)
LEMMA DateOf ==
  ASSUME NEW n \in Nat
  PROVE  \E d, m, y : /\ Dates!getDMY(n) = <<d, m, y>>
                      /\ IsDate(d, m, y) /\ Dates!dmy2dsbd(d, m, y) = n
<1> DEFINE y == Dates!walkYears(n)
           Y == Dates!daysOfYears(y)
           left == n - Y
           m == Dates!walkMonths(left, y)
           d == left - Dates!daysOfMonths(m, y) + 1
<1>1. y \in Nat /\ y >= Dates!baseYear /\ InYear(n, y) BY YearFound
<1>2. Dates!getDMY(n) = <<d, m, y>> BY DEF Dates!getDMY
<1> HIDE DEF y
<1>3. Y \in Nat BY <1>1, YearsGrow
<1>4. Dates!daysOfYears(y + 1) = Y + Dates!yearDays(y) BY <1>1, YearLonger
<1>5. Dates!yearDays(y) \in Nat BY DEF Dates!yearDays
<1>6. left \in Nat /\ left < Dates!yearDays(y)
  <2>1. Y <= n /\ n < Dates!daysOfYears(y + 1) BY <1>1 DEF InYear
  <2> HIDE DEF Y
  <2> QED BY <1>3, <1>4, <1>5, <2>1
<1>7. n = Y + left
  <2> HIDE DEF Y
  <2> QED BY <1>3
<1> HIDE DEF left, Y
<1>8. m \in 1 .. 12 /\ InMonth(left, m, y) BY <1>6, MonthFound
<1> HIDE DEF m
<1> DEFINE B == Before(m, Dates!leapYear(y))
<1>9. d = left - B + 1 BY <1>8, MonthsAre
<1>10. B \in Nat /\ Dates!monthDays(m, y) \in Nat BY <1>8, MonthsApart
<1>11. B <= left /\ left < B + Dates!monthDays(m, y) BY <1>8 DEF InMonth
<1> HIDE DEF d, B
<1>12. d \in Nat /\ d >= 1 /\ d <= Dates!monthDays(m, y) BY <1>6, <1>9, <1>10, <1>11
<1>13. IsDate(d, m, y) BY <1>1, <1>8, <1>12 DEF IsDate, Dates!Valid
<1>14. Dates!dmy2dsbd(d, m, y) = Y + B + d - 1 BY <1>13, DayOf DEF B, Y
<1>15. Dates!dmy2dsbd(d, m, y) = n BY <1>3, <1>6, <1>7, <1>9, <1>10, <1>14
<1> QED BY <1>2, <1>13, <1>15

LEMMA OneDate ==
  ASSUME NEW d, NEW m, NEW y, IsDate(d, m, y),
         NEW e, NEW k, NEW z, IsDate(e, k, z),
         Dates!dmy2dsbd(d, m, y) = Dates!dmy2dsbd(e, k, z)
  PROVE  <<d, m, y>> = <<e, k, z>>
<1> DEFINE n == Dates!dmy2dsbd(d, m, y)
<1>1. n \in Nat BY DayOf
<1>2. /\ y \in Nat /\ y >= Dates!baseYear /\ InYear(n, y)
      /\ z \in Nat /\ z >= Dates!baseYear /\ InYear(n, z)
  BY DayOf DEF IsDate
<1>3. y = z
  <2> HIDE DEF n
  <2> QED BY <1>1, <1>2, OneYear
<1> DEFINE Y == Dates!daysOfYears(y)
<1>4. m \in 1 .. 12 /\ k \in 1 .. 12 /\ InMonth(n - Y, m, y) /\ InMonth(n - Y, k, y)
  BY <1>3, DayOf
<1>5. Y \in Nat BY DayOf
<1>6. m = k
  <2>1. n - Y \in Int BY <1>1, <1>5
  <2> HIDE DEF n, Y
  <2> QED BY <1>4, <2>1, OneMonth
<1> DEFINE B == Before(m, Dates!leapYear(y))
<1>7. n = Y + B + d - 1 /\ n = Y + B + e - 1 /\ B \in Nat BY <1>3, <1>6, DayOf
<1>8. d \in Nat /\ e \in Nat BY DEF IsDate
<1> HIDE DEF n, Y, B
<1>9. d = e BY <1>5, <1>7, <1>8
<1> QED BY <1>3, <1>6, <1>9

LEMMA Earlier ==
  ASSUME NEW d, NEW m, NEW y, IsDate(d, m, y),
         NEW e, NEW k, NEW z, IsDate(e, k, z),
         y < z \/ (y = z /\ m < k) \/ (y = z /\ m = k /\ d < e)
  PROVE  Dates!dmy2dsbd(d, m, y) < Dates!dmy2dsbd(e, k, z)
<1> DEFINE a == Dates!dmy2dsbd(d, m, y)
           b == Dates!dmy2dsbd(e, k, z)
<1>1. /\ a \in Nat /\ InYear(a, y) /\ b \in Nat /\ InYear(b, z)
      /\ y >= Dates!baseYear /\ z >= Dates!baseYear
      /\ Dates!daysOfYears(y) \in Nat /\ Dates!daysOfYears(z) \in Nat
  BY DayOf
<1>2. d \in Nat /\ e \in Nat /\ m \in 1 .. 12 /\ k \in 1 .. 12 /\ y \in Nat /\ z \in Nat
  BY DayOf DEF IsDate
<1>3. CASE y < z
  <2>1. Dates!daysOfYears(y + 1) <= Dates!daysOfYears(z) BY <1>1, <1>2, <1>3, YearsApart
  <2>2. a < Dates!daysOfYears(y + 1) /\ Dates!daysOfYears(z) <= b BY <1>1 DEF InYear
  <2>3. Dates!daysOfYears(y + 1) \in Nat
    <3>1. y + 1 \in Nat /\ y + 1 >= Dates!baseYear BY <1>1, <1>2 DEF Dates!baseYear
    <3> QED BY <3>1, YearsGrow
  <2> QED BY <1>1, <2>1, <2>2, <2>3
<1>4. CASE y = z /\ m < k
  <2> DEFINE B(i) == Before(i, Dates!leapYear(y))
  <2>1. B(m) + Dates!monthDays(m, y) <= B(k) BY <1>2, <1>4, MonthsOrdered
  <2>2. B(m) \in Nat /\ B(k) \in Nat /\ Dates!monthDays(m, y) \in Nat BY <1>2, MonthsApart
  <2>3. /\ a - Dates!daysOfYears(y) < B(m) + Dates!monthDays(m, y)
        /\ B(k) <= b - Dates!daysOfYears(y)
    BY <1>4, DayOf DEF InMonth
  <2> HIDE DEF B
  <2> QED BY <1>1, <2>1, <2>2, <2>3
<1>5. CASE y = z /\ m = k /\ d < e
  <2> DEFINE B == Before(m, Dates!leapYear(y))
  <2>1. /\ a = Dates!daysOfYears(y) + B + d - 1 /\ b = Dates!daysOfYears(y) + B + e - 1
        /\ B \in Nat
    BY <1>5, DayOf
  <2> HIDE DEF B
  <2> QED BY <1>1, <1>2, <1>5, <2>1
<1> QED BY <1>3, <1>4, <1>5

LEMMA TheNext ==
  ASSUME NEW d, NEW m, NEW y, IsDate(d, m, y)
  PROVE  \E e, k, z : /\ Dates!DayAfter(d, m, y) = <<e, k, z>> /\ IsDate(e, k, z)
                      /\ Dates!dmy2dsbd(e, k, z) = Dates!dmy2dsbd(d, m, y) + 1
<1> DEFINE B(i) == Before(i, Dates!leapYear(y))
           D(i) == Dates!monthDays(i, y)
           Y(z) == Dates!daysOfYears(z)
           n == Dates!dmy2dsbd(d, m, y)
<1>1. /\ n = Y(y) + B(m) + d - 1
      /\ m \in 1 .. 12 /\ y >= Dates!baseYear /\ d >= 1 /\ d <= D(m)
      /\ Y(y) \in Nat /\ B(m) \in Nat
  BY DayOf
<1>2. d \in Nat /\ y \in Nat BY DEF IsDate
<1>3. D(m) \in Nat /\ D(1) \in Nat BY <1>1, MonthsApart
<1>4. CASE d < D(m)
  <2>1. Dates!DayAfter(d, m, y) = <<d + 1, m, y>> BY <1>4 DEF Dates!DayAfter
  <2>2. IsDate(d + 1, m, y) BY <1>1, <1>2, <1>3, <1>4 DEF IsDate, Dates!Valid
  <2>3. Dates!dmy2dsbd(d + 1, m, y) = Y(y) + B(m) + (d + 1) - 1 BY <2>2, DayOf
  <2>4. Dates!dmy2dsbd(d + 1, m, y) = n + 1
    <3> HIDE DEF n, B, Y
    <3> QED BY <1>1, <1>2, <2>3
  <2> QED BY <2>1, <2>2, <2>4
<1>5. CASE d = D(m) /\ m < 12
  <2>1. Dates!DayAfter(d, m, y) = <<1, m + 1, y>> BY <1>3, <1>5 DEF Dates!DayAfter
  <2>2. m + 1 \in 1 .. 12 BY <1>1, <1>5
  <2>3. D(m + 1) \in Nat /\ D(m + 1) >= 28 BY <2>2, MonthsApart
  <2>4. IsDate(1, m + 1, y) BY <1>1, <1>2, <2>2, <2>3 DEF IsDate, Dates!Valid
  <2>5. Dates!dmy2dsbd(1, m + 1, y) = Y(y) + B(m + 1) + 1 - 1 BY <2>4, DayOf
  <2>6. B(m + 1) = B(m) + D(m) BY <1>1, <1>5, MonthsApart
  <2>7. Dates!dmy2dsbd(1, m + 1, y) = n + 1
    <3> HIDE DEF n, B, Y, D
    <3> QED BY <1>1, <1>2, <1>3, <1>5, <2>5, <2>6
  <2> QED BY <2>1, <2>4, <2>7
<1>6. CASE d = D(m) /\ m = 12
  <2>1. Dates!DayAfter(d, m, y) = <<1, 1, y + 1>> BY <1>3, <1>6 DEF Dates!DayAfter
  <2>2. /\ Dates!monthDays(1, y + 1) \in Nat /\ Dates!monthDays(1, y + 1) >= 28
        /\ Before(1, Dates!leapYear(y + 1)) = 0
    BY MonthsApart DEF Before
  <2>3. IsDate(1, 1, y + 1) BY <1>1, <1>2, <2>2 DEF IsDate, Dates!Valid, Dates!baseYear
  <2>4. Dates!dmy2dsbd(1, 1, y + 1) = Y(y + 1) + 0 + 1 - 1 /\ Y(y + 1) \in Nat
    BY <2>2, <2>3, DayOf
  <2>5. Y(y + 1) = Y(y) + Dates!yearDays(y) BY <1>1, <1>2, YearLonger
  <2>6. Dates!yearDays(y) = B(m) + D(m) BY <1>6, MonthsApart
  <2>7. Dates!dmy2dsbd(1, 1, y + 1) = n + 1
    <3> HIDE DEF n, B, Y, D
    <3> QED BY <1>1, <1>2, <1>3, <1>6, <2>4, <2>5, <2>6
  <2> QED BY <2>1, <2>3, <2>7
<1> HIDE DEF D
<1> QED BY <1>1, <1>2, <1>3, <1>4, <1>5, <1>6


LEMMA RightRoundTrip ==
  ASSUME date \in Int, other \in Int
  PROVE  Dates!RoundTrip
<1> DEFINE a == Dates!getDMY(date)
           b == Dates!getDMY(other)
<1>1. date >= 0 => Dates!Valid(a[1], a[2], a[3]) /\ Dates!dmy2dsbd(a[1], a[2], a[3]) = date
  <2>1. SUFFICES ASSUME date \in Nat
                 PROVE  Dates!Valid(a[1], a[2], a[3]) /\ Dates!dmy2dsbd(a[1], a[2], a[3]) = date
    OBVIOUS
  <2>2. PICK d, m, y : a = <<d, m, y>> /\ IsDate(d, m, y) /\ Dates!dmy2dsbd(d, m, y) = date
    BY <2>1, DateOf
  <2> HIDE DEF a
  <2> QED BY <2>2 DEF IsDate
<1>2. date >= 0 /\ other >= 0 =>
        (Dates!lessThan <=> \/ a[3] < b[3]
                            \/ a[3] = b[3] /\ a[2] < b[2]
                            \/ a[3] = b[3] /\ a[2] = b[2] /\ a[1] < b[1])
  <2>1. SUFFICES ASSUME date \in Nat, other \in Nat
                 PROVE  date < other <=> \/ a[3] < b[3]
                                         \/ a[3] = b[3] /\ a[2] < b[2]
                                         \/ a[3] = b[3] /\ a[2] = b[2] /\ a[1] < b[1]
    BY DEF Dates!lessThan
  <2>2. PICK d, m, y : a = <<d, m, y>> /\ IsDate(d, m, y) /\ Dates!dmy2dsbd(d, m, y) = date
    BY <2>1, DateOf
  <2>3. PICK e, k, z : b = <<e, k, z>> /\ IsDate(e, k, z) /\ Dates!dmy2dsbd(e, k, z) = other
    BY <2>1, DateOf
  <2> HIDE DEF a, b
  <2>4. d \in Nat /\ m \in Nat /\ y \in Nat /\ e \in Nat /\ k \in Nat /\ z \in Nat
    BY <2>2, <2>3 DEF IsDate
  <2>5. y < z \/ (y = z /\ m < k) \/ (y = z /\ m = k /\ d < e) => date < other
    BY <2>2, <2>3, Earlier
  <2>6. z < y \/ (z = y /\ k < m) \/ (z = y /\ k = m /\ e < d) => other < date
    BY <2>2, <2>3, Earlier
  <2>7. d = e /\ m = k /\ y = z => date = other BY <2>2, <2>3
  <2> QED BY <2>1, <2>2, <2>3, <2>4, <2>5, <2>6, <2>7
<1> QED BY <1>1, <1>2 DEF Dates!RoundTrip

LEMMA RightNextDay ==
  ASSUME date \in Int
  PROVE  Dates!NextDay
<1> SUFFICES ASSUME date >= 0
             PROVE  LET a == Dates!getDMY(date)
                    IN  Dates!getDMY(date + 1) = Dates!DayAfter(a[1], a[2], a[3])
  BY DEF Dates!NextDay
<1>1. date \in Nat /\ date + 1 \in Nat OBVIOUS
<1>2. PICK d, m, y : /\ Dates!getDMY(date) = <<d, m, y>>
                     /\ IsDate(d, m, y) /\ Dates!dmy2dsbd(d, m, y) = date
  BY <1>1, DateOf
<1>3. PICK e, k, z : /\ Dates!DayAfter(d, m, y) = <<e, k, z>> /\ IsDate(e, k, z)
                     /\ Dates!dmy2dsbd(e, k, z) = date + 1
  BY <1>2, TheNext
<1>4. PICK i, j, x : /\ Dates!getDMY(date + 1) = <<i, j, x>>
                     /\ IsDate(i, j, x) /\ Dates!dmy2dsbd(i, j, x) = date + 1
  BY <1>1, DateOf
<1>5. <<i, j, x>> = <<e, k, z>> BY <1>3, <1>4, OneDate
<1> QED BY <1>2, <1>3, <1>4, <1>5

(* What getWeekDay adds up for the first of January, but for the day.      *)
January(y) ==
  2 * (3 - ((y \div 100) % 4)) + (y % 100) + ((y % 100) \div 4)
  + (IF Dates!leapYear(y) THEN 6 ELSE 0)

LEMMA NextJanuary ==
  ASSUME NEW y \in Nat
  PROVE  (January(y + 1) - January(y) - Dates!yearDays(y)) % 7 = 0
<1> DEFINE c == y \div 100
           u == y % 100
<1>1. c \in Nat /\ u \in 0 .. 99 /\ y = 100 * c + u OBVIOUS
<1>2. Dates!leapYear(y) <=> IF u = 0 THEN c % 4 = 0 ELSE u % 4 = 0
  BY <1>1 DEF Dates!leapYear
<1>3. CASE u < 99
  <2>1. (y + 1) \div 100 = c /\ (y + 1) % 100 = u + 1 BY <1>1, <1>3
  <2>2. Dates!leapYear(y + 1) <=> (u + 1) % 4 = 0 BY <1>1, <1>3 DEF Dates!leapYear
  <2> HIDE DEF c, u
  <2> QED BY <1>1, <1>2, <1>3, <2>1, <2>2 DEF January, Dates!yearDays, c, u
<1>4. CASE u = 99
  <2>1. (y + 1) \div 100 = c + 1 /\ (y + 1) % 100 = 0 BY <1>1, <1>4
  <2>2. Dates!leapYear(y + 1) <=> (c + 1) % 4 = 0 BY <1>1, <1>4 DEF Dates!leapYear
  <2> HIDE DEF c, u
  <2> QED BY <1>1, <1>2, <1>4, <2>1, <2>2 DEF January, Dates!yearDays, c, u
<1> QED BY <1>1, <1>3, <1>4

LEMMA Januaries ==
  ASSUME NEW y \in Nat, y >= Dates!baseYear
  PROVE  (January(y) - Dates!daysOfYears(y) - 2) % 7 = 0
<1> DEFINE Y(k) == Dates!daysOfYears(1000 + k)
           J(k) == January(1000 + k)
           S == {k \in Nat : (J(k) - Y(k) - 2) % 7 = 0}
<1>1. Dates!baseYear = 1000 BY DEF Dates!baseYear
<1>2. 0 \in S
  <2>1. Y(0) = 0 BY <1>1, NoYears
  <2>2. J(0) = 2 BY DEF January, Dates!leapYear
  <2> HIDE DEF Y, J
  <2> QED BY <2>1, <2>2
<1>3. ASSUME NEW k \in Nat, k \in S PROVE k + 1 \in S
  <2>1. 1000 + k \in Nat /\ 1000 + k >= Dates!baseYear /\ (1000 + k) + 1 = 1000 + (k + 1) BY <1>1
  <2>2. Y(k + 1) = Y(k) + Dates!yearDays(1000 + k) BY <2>1, YearLonger
  <2>3. (J(k + 1) - J(k) - Dates!yearDays(1000 + k)) % 7 = 0 BY <2>1, NextJanuary
  <2>4. Y(k) \in Nat BY <2>1, YearsGrow
  <2>5. J(k) \in Int /\ J(k + 1) \in Int BY DEF January
  <2>6. Dates!yearDays(1000 + k) \in Nat BY DEF Dates!yearDays
  <2> HIDE DEF Y, J
  <2> QED BY <1>3, <2>2, <2>3, <2>4, <2>5, <2>6
<1> HIDE DEF S
<1>4. y - 1000 \in S BY <1>1, <1>2, <1>3, EachNext
<1>5. 1000 + (y - 1000) = y OBVIOUS
<1> QED BY <1>1, <1>4, <1>5 DEF S


MonthOf(m, leap) == (IF leap THEN Dates!monthTableLeap ELSE Dates!monthTable)[m]

LEMMA MonthTables ==
  ASSUME NEW m \in 1 .. 12, NEW leap \in BOOLEAN
  PROVE  /\ MonthOf(m, leap) \in 0 .. 6
         /\ (MonthOf(m, leap) - (IF leap THEN 6 ELSE 0) - Before(m, leap)) % 7 = 0
<1> DEFINE Good(l, x) == MonthOf(m, l) \in 0 .. 6 /\ (MonthOf(m, l) - x - Before(m, l)) % 7 = 0
<1>1. m = 1 \/ m = 2 \/ m = 3 \/ m = 4 \/ m = 5 \/ m = 6 \/ m = 7 \/ m = 8 \/ m = 9 \/ m = 10
      \/ m = 11 \/ m = 12
  OBVIOUS
<1>2. Good(TRUE, 6)
  <2>1. CASE m = 1
    BY <2>1 DEF MonthOf, Dates!monthTableLeap, Before
  <2>2. CASE m = 2
    BY <2>2 DEF MonthOf, Dates!monthTableLeap, Before
  <2>3. CASE m = 3
    BY <2>3 DEF MonthOf, Dates!monthTableLeap, Before
  <2>4. CASE m = 4
    BY <2>4 DEF MonthOf, Dates!monthTableLeap, Before
  <2>5. CASE m = 5
    BY <2>5 DEF MonthOf, Dates!monthTableLeap, Before
  <2>6. CASE m = 6
    BY <2>6 DEF MonthOf, Dates!monthTableLeap, Before
  <2>7. CASE m = 7
    BY <2>7 DEF MonthOf, Dates!monthTableLeap, Before
  <2>8. CASE m = 8
    BY <2>8 DEF MonthOf, Dates!monthTableLeap, Before
  <2>9. CASE m = 9
    BY <2>9 DEF MonthOf, Dates!monthTableLeap, Before
  <2>10. CASE m = 10
    BY <2>10 DEF MonthOf, Dates!monthTableLeap, Before
  <2>11. CASE m = 11
    BY <2>11 DEF MonthOf, Dates!monthTableLeap, Before
  <2>12. CASE m = 12
    BY <2>12 DEF MonthOf, Dates!monthTableLeap, Before
  <2> HIDE DEF Good
  <2> QED BY <1>1, <2>1, <2>2, <2>3, <2>4, <2>5, <2>6, <2>7, <2>8, <2>9, <2>10, <2>11, <2>12
<1>3. Good(FALSE, 0)
  <2>1. CASE m = 1
    BY <2>1 DEF MonthOf, Dates!monthTable, Before
  <2>2. CASE m = 2
    BY <2>2 DEF MonthOf, Dates!monthTable, Before
  <2>3. CASE m = 3
    BY <2>3 DEF MonthOf, Dates!monthTable, Before
  <2>4. CASE m = 4
    BY <2>4 DEF MonthOf, Dates!monthTable, Before
  <2>5. CASE m = 5
    BY <2>5 DEF MonthOf, Dates!monthTable, Before
  <2>6. CASE m = 6
    BY <2>6 DEF MonthOf, Dates!monthTable, Before
  <2>7. CASE m = 7
    BY <2>7 DEF MonthOf, Dates!monthTable, Before
  <2>8. CASE m = 8
    BY <2>8 DEF MonthOf, Dates!monthTable, Before
  <2>9. CASE m = 9
    BY <2>9 DEF MonthOf, Dates!monthTable, Before
  <2>10. CASE m = 10
    BY <2>10 DEF MonthOf, Dates!monthTable, Before
  <2>11. CASE m = 11
    BY <2>11 DEF MonthOf, Dates!monthTable, Before
  <2>12. CASE m = 12
    BY <2>12 DEF MonthOf, Dates!monthTable, Before
  <2> HIDE DEF Good
  <2> QED BY <1>1, <2>1, <2>2, <2>3, <2>4, <2>5, <2>6, <2>7, <2>8, <2>9, <2>10, <2>11, <2>12
<1>4. Good(leap, IF leap THEN 6 ELSE 0)
  <2> HIDE DEF Good
  <2>1. CASE leap = TRUE BY <1>2, <2>1, Zenon
  <2>2. CASE leap = FALSE BY <1>3, <2>2, Zenon
  <2> QED BY <2>1, <2>2
<1> QED BY <1>4

LEMMA SevenNext ==
  ASSUME NEW x \in Nat, NEW n \in Int, (x - n) % 7 = 0
  PROVE  Dates!modSeven(x) = n % 7
BY DEF Dates!modSeven

LEMMA RightWeekDays ==
  ASSUME date \in Int
  PROVE  Dates!WeekDays
<1> SUFFICES ASSUME date >= -9 PROVE Dates!getWeekDay(date) = (date + 2) % 7 BY DEF Dates!WeekDays
<1> DEFINE Sum(d, m, y) ==
             d + 2 * (3 - ((y \div 100) % 4)) + ((y % 100) + ((y % 100) \div 4))
             + MonthOf(m, Dates!leapYear(y)) + 6
<1>1. ASSUME NEW d, NEW m, NEW y, Dates!getDMY(date) = <<d, m, y>>
      PROVE  Dates!getWeekDay(date) = Dates!modSeven(Sum(d, m, y))
  BY <1>1 DEF Dates!getWeekDay, MonthOf
<1>2. CASE date >= 0
  <2>1. date \in Nat BY <1>2
  <2>2. PICK d, m, y : /\ Dates!getDMY(date) = <<d, m, y>>
                       /\ IsDate(d, m, y) /\ Dates!dmy2dsbd(d, m, y) = date
    BY <2>1, DateOf
  <2> DEFINE leap == Dates!leapYear(y)
             B == Before(m, leap)
             M == MonthOf(m, leap)
             Y == Dates!daysOfYears(y)
  <2>3. /\ date = Y + B + d - 1 /\ m \in 1 .. 12 /\ y >= Dates!baseYear
        /\ Y \in Nat /\ B \in Nat
    BY <2>2, DayOf
  <2>4. d \in Nat /\ y \in Nat BY <2>2 DEF IsDate
  <2>5. leap \in BOOLEAN BY DEF Dates!leapYear
  <2>6. M \in 0 .. 6 /\ (M - (IF leap THEN 6 ELSE 0) - B) % 7 = 0 BY <2>3, <2>5, MonthTables
  <2>7. (January(y) - Y - 2) % 7 = 0 BY <2>3, <2>4, Januaries
  <2> DEFINE s == 2 * (3 - ((y \div 100) % 4)) + ((y % 100) + ((y % 100) \div 4))
  <2>8. s \in Nat BY <2>4
  <2>9. January(y) = s + (IF leap THEN 6 ELSE 0) BY <2>4 DEF January
  <2>10. Sum(d, m, y) = d + s + M + 6 BY <2>4, <2>6
  <2> HIDE DEF Sum, s, M, B, Y, leap
  <2>11. Sum(d, m, y) \in Nat /\ (Sum(d, m, y) - (date + 2)) % 7 = 0
    BY <2>3, <2>4, <2>6, <2>7, <2>8, <2>9, <2>10
  <2>12. Dates!getWeekDay(date) = Dates!modSeven(Sum(d, m, y)) BY <1>1, <2>2
  <2>13. date + 2 \in Int OBVIOUS
  <2> QED BY <2>11, <2>12, <2>13, SevenNext
<1>3. CASE date < 0
  <2> DEFINE base == Dates!baseYear
  <2>1. Dates!walkYears(date) = base BY <1>3 DEF Dates!walkYears
  <2>2. Dates!daysOfYears(base) = 0 BY NoYears
  <2>3. date < Dates!yearDays(base) BY <1>3 DEF Dates!yearDays
  <2>4. Dates!walkMonths(date, base) = 1 BY <1>3, <2>3, MonthFound
  <2>5. Dates!daysOfMonths(1, base) = 0 BY MonthsAre DEF Before
  <2>6. Dates!getDMY(date) = <<date + 1, 1, base>>
    <3>1. date - 0 = date /\ date - 0 + 1 = date + 1 OBVIOUS
    <3> QED BY <2>1, <2>2, <2>4, <2>5, <3>1 DEF Dates!getDMY
  <2>7. base = 1000 /\ ~Dates!leapYear(base) BY DEF Dates!baseYear, Dates!leapYear
  <2>8. MonthOf(1, Dates!leapYear(base)) = 0 BY <2>7 DEF MonthOf, Dates!monthTable
  <2>9. Sum(date + 1, 1, base) = date + 9 BY <2>7, <2>8
  <2>10. Dates!getWeekDay(date) = Dates!modSeven(date + 9) BY <1>1, <2>6, <2>9
  <2>11. date + 9 \in Nat /\ date + 2 \in Int /\ ((date + 9) - (date + 2)) % 7 = 0 OBVIOUS
  <2> QED BY <2>10, <2>11, SevenNext
<1> QED BY <1>2, <1>3

LEMMA DaysGiven ==
  ASSUME NEW d \in Nat, NEW m \in Nat, NEW y \in Nat
  PROVE  Dates!dmy2dsbd(d, m, y) \in Int
<1>1. CASE Dates!Valid(d, m, y) BY <1>1, DayOf DEF IsDate
<1>2. CASE ~Dates!Valid(d, m, y) BY <1>2 DEF Dates!dmy2dsbd
<1> QED BY <1>1, <1>2

DateInv == date \in Int /\ other \in Int

LEMMA DatesInit == Dates!Init => DateInv
BY DEF Dates!Init, DateInv

LEMMA DatesStep == DateInv /\ Dates!Next => DateInv'
<1> SUFFICES ASSUME DateInv, Dates!Next PROVE DateInv' OBVIOUS
<1>1. Given \subseteq Nat \X Nat \X Nat /\ DaySteps \subseteq Int
  BY Assumptions DEF Dates!DateAssumption
<1>2. ASSUME NEW dmy \in Given, Dates!Construct(dmy) PROVE DateInv'
  <2>1. dmy[1] \in Nat /\ dmy[2] \in Nat /\ dmy[3] \in Nat BY <1>1
  <2>2. Dates!dmy2dsbd(dmy[1], dmy[2], dmy[3]) \in Int BY <2>1, DaysGiven
  <2> QED BY <1>2, <2>2 DEF Dates!Construct, DateInv
<1>3. ASSUME NEW n \in DaySteps, Dates!addDays(n) PROVE DateInv'
  BY <1>1, <1>3 DEF Dates!addDays, DateInv
<1> QED BY <1>2, <1>3 DEF Dates!Next

LEMMA DatesIdle == DateInv /\ UNCHANGED dateVars => DateInv'
BY DEF DateInv, dateVars

LEMMA DatesSafe ==
  DateInv => Dates!TypeOK /\ Dates!RoundTrip /\ Dates!NextDay /\ Dates!WeekDays
BY RightRoundTrip, RightNextDay, RightWeekDays DEF DateInv, Dates!TypeOK
-----------------------------------------------------------------------------
(* Fraction.cpp *)

LEMMA Rest ==
  ASSUME NEW x \in Nat, NEW y \in Nat, y # 0
  PROVE  /\ x \div y \in Nat /\ x % y \in Nat /\ x % y < y
         /\ x = (x \div y) * y + (x % y)
OBVIOUS

LEMMA Multiples ==
  ASSUME NEW i \in Int, NEW j \in Int, NEW y \in Nat, i < j
  PROVE  i * y + y <= j * y
<1>1. (j - i - 1) * y >= 0 OBVIOUS
<1>2. (j - i - 1) * y = j * y - i * y - y OBVIOUS
<1>3. i * y \in Int /\ j * y \in Int OBVIOUS
<1> QED BY <1>1, <1>2, <1>3

LEMMA OneRest ==
  ASSUME NEW q \in Int, NEW y \in Nat, NEW s \in Nat, s < y, NEW x \in Nat, x = q * y + s
  PROVE  x % y = s /\ x \div y = q
<1>1. /\ x \div y \in Nat /\ x % y \in Nat /\ x % y < y /\ x = (x \div y) * y + (x % y) BY Rest
<1> DEFINE k == x \div y
           t == x % y
<1>2. k < q => k * y + y <= q * y BY <1>1, Multiples
<1>3. q < k => q * y + y <= k * y BY <1>1, Multiples
<1>4. k * y \in Int /\ q * y \in Int BY <1>1
<1> HIDE DEF k, t
<1>5. k \in Nat /\ t \in Nat /\ t < y /\ x = k * y + t BY <1>1 DEF k, t
<1>6. k = q
  <2> DEFINE A == k * y
             B == q * y
  <2>1. A \in Int /\ B \in Int /\ x = A + t /\ x = B + s BY <1>4, <1>5
  <2>2. (k < q => A + y <= B) /\ (q < k => B + y <= A) BY <1>2, <1>3
  <2> HIDE DEF A, B
  <2> QED BY <1>5, <2>1, <2>2
<1>7. t = s BY <1>4, <1>5, <1>6
<1> QED BY <1>6, <1>7 DEF k, t

LEMMA RemIs ==
  ASSUME NEW a \in Int, NEW b \in Int, b # 0
  PROVE  /\ Fractions!Rem(a, b) \in Int
         /\ Fractions!Abs(Fractions!Rem(a, b)) < Fractions!Abs(b)
         /\ \E q \in Int : a = q * b + Fractions!Rem(a, b)
<1> DEFINE x == Fractions!Abs(a)
           y == Fractions!Abs(b)
           k == x \div y
           t == x % y
<1>1. x \in Nat /\ y \in Nat /\ y # 0 BY DEF Fractions!Abs
<1>2. k \in Nat /\ t \in Nat /\ t < y /\ x = k * y + t
  <2> HIDE DEF x, y
  <2> QED BY <1>1, Rest
<1>3. Fractions!Rem(a, b) = IF a < 0 THEN -t ELSE t BY DEF Fractions!Rem
<1>4. a = (IF a < 0 THEN -x ELSE x) /\ b = (IF b < 0 THEN -y ELSE y) BY DEF Fractions!Abs
<1> HIDE DEF x, y, k, t
<1>5. /\ a < 0 /\ b < 0 => a = k * b + (-t)
      /\ a < 0 /\ ~(b < 0) => a = (-k) * b + (-t)
      /\ ~(a < 0) /\ b < 0 => a = (-k) * b + t
      /\ ~(a < 0) /\ ~(b < 0) => a = k * b + t
  BY <1>1, <1>2, <1>4
<1>6. k \in Int /\ -k \in Int BY <1>2
<1>7. \E q \in Int : a = q * b + Fractions!Rem(a, b) BY <1>3, <1>5, <1>6
<1>8. Fractions!Rem(a, b) \in Int BY <1>2, <1>3
<1>9. Fractions!Abs(Fractions!Rem(a, b)) = t BY <1>2, <1>3 DEF Fractions!Abs
<1> QED BY <1>2, <1>7, <1>8, <1>9 DEF y
LEMMA RemScaled ==
  ASSUME NEW a \in Int, NEW b \in Int, b # 0, NEW c \in Int, c # 0
  PROVE  c * b # 0 /\ Fractions!Rem(c * a, c * b) = c * Fractions!Rem(a, b)
<1> DEFINE x == Fractions!Abs(a)
           y == Fractions!Abs(b)
           z == Fractions!Abs(c)
           k == x \div y
           t == x % y
<1>1. x \in Nat /\ y \in Nat /\ y # 0 /\ z \in Nat /\ z # 0 BY DEF Fractions!Abs
<1>2. k \in Nat /\ t \in Nat /\ t < y /\ x = k * y + t
  <2> HIDE DEF x, y
  <2> QED BY <1>1, Rest
<1>3. Fractions!Rem(a, b) = IF a < 0 THEN -t ELSE t BY DEF Fractions!Rem
<1>4. /\ a = (IF a < 0 THEN -x ELSE x) /\ b = (IF b < 0 THEN -y ELSE y)
      /\ c = (IF c < 0 THEN -z ELSE z)
  BY DEF Fractions!Abs
<1>5. a = 0 <=> x = 0 BY DEF Fractions!Abs
<1> HIDE DEF x, y, z, k, t
<1>6. c * a \in Int /\ c * b \in Int /\ c * b # 0 BY <1>1, <1>4
<1>7. Fractions!Abs(c * b) = z * y BY <1>1, <1>4, <1>6 DEF Fractions!Abs
<1>8. Fractions!Abs(c * a) = z * x BY <1>1, <1>4, <1>6 DEF Fractions!Abs
<1>9. z * y \in Nat /\ z * x \in Nat /\ z * t \in Nat /\ z * t < z * y BY <1>1, <1>2
<1>10. z * x = k * (z * y) + z * t BY <1>1, <1>2
<1>11. (z * x) % (z * y) = z * t BY <1>2, <1>9, <1>10, OneRest
<1>12. Fractions!Rem(c * a, c * b) = IF c * a < 0 THEN -(z * t) ELSE z * t
  BY <1>7, <1>8, <1>11 DEF Fractions!Rem
<1>13. a = 0 => t = 0 BY <1>1, <1>2, <1>5
<1>14. c * a < 0 <=> (a < 0 /\ ~(c < 0)) \/ (c < 0 /\ ~(a < 0) /\ a # 0) BY <1>1, <1>4
<1> QED BY <1>1, <1>2, <1>3, <1>4, <1>6, <1>12, <1>13, <1>14

(* A function that is got by going down, step by step, to where it is given. *)
Down(D, size, Last, step) ==
  /\ size \in [D -> Nat]
  /\ \A p \in D : p \notin Last => step[p] \in D /\ size[step[p]] < size[p]

Reaches(f, D, Last, given, step) ==
  f = [p \in D |-> IF p \in Last THEN given[p] ELSE f[step[p]]]

LEMMA GoesDown ==
  ASSUME NEW D, NEW size, NEW Last, NEW given, NEW step, Down(D, size, Last, step)
  PROVE  \E f : Reaches(f, D, Last, given, step)
<1> DEFINE Item(f, p) == IF p \in Last THEN given[p] ELSE f[step[p]]
           Good(f, k) == \A p \in D : size[p] <= k => f[p] = Item(f, p)
           Alike(k) == \A f, g : Good(f, k) /\ Good(g, k) =>
                         \A p \in D : size[p] <= k => f[p] = g[p]
           S == {k \in Nat : Alike(k)}
           T == {k \in Nat : \E f : Good(f, k)}
<1>1. /\ size \in [D -> Nat]
      /\ \A p \in D : p \notin Last => step[p] \in D /\ size[step[p]] < size[p]
  BY DEF Down
<1>2. ASSUME NEW k \in Nat, NEW j \in Nat, j <= k, NEW f, Good(f, k) PROVE Good(f, j)
  BY <1>1, <1>2
<1>3. ASSUME NEW p \in D PROVE size[p] \in Nat BY <1>1
<1>4. 0 \in S
  <2>1. ASSUME NEW p \in D, size[p] <= 0 PROVE p \in Last
    <3>1. size[p] = 0 BY <1>3, <2>1
    <3>2. p \notin Last => size[step[p]] \in Nat /\ size[step[p]] < 0 BY <1>1, <1>3, <3>1
    <3> QED BY <3>2
  <2>2. Alike(0) BY <2>1
  <2> QED BY <2>2
<1>5. ASSUME NEW k \in Nat, k \in S PROVE k + 1 \in S
  <2>1. SUFFICES ASSUME NEW f, NEW g, Good(f, k + 1), Good(g, k + 1),
                        NEW p \in D, size[p] <= k + 1
                 PROVE  f[p] = g[p]
    OBVIOUS
  <2>2. f[p] = Item(f, p) /\ g[p] = Item(g, p) BY <2>1
  <2>3. Good(f, k) /\ Good(g, k)
    <3>1. k + 1 \in Nat /\ k <= k + 1 OBVIOUS
    <3> HIDE DEF Good
    <3> QED BY <1>2, <2>1, <3>1
  <2>4. p \notin Last => step[p] \in D /\ size[step[p]] <= k BY <1>1, <1>3, <2>1
  <2>5. p \notin Last => f[step[p]] = g[step[p]]
    <3> HIDE DEF Good
    <3> QED BY <1>5, <2>3, <2>4
  <2> QED BY <2>2, <2>5
<1>6. 0 \in T
  <2> DEFINE f == [p \in D |-> given[p]]
  <2>1. ASSUME NEW p \in D, size[p] <= 0 PROVE p \in Last
    <3>1. size[p] = 0 BY <1>3, <2>1
    <3>2. p \notin Last => size[step[p]] \in Nat /\ size[step[p]] < 0 BY <1>1, <1>3, <3>1
    <3> QED BY <3>2
  <2>2. Good(f, 0) BY <2>1
  <2> HIDE DEF Good, f
  <2> QED BY <2>2
<1>7. ASSUME NEW k \in Nat, k \in T PROVE k + 1 \in T
  <2>1. PICK f : Good(f, k) BY <1>7
  <2> DEFINE g == [p \in D |-> IF size[p] <= k THEN f[p] ELSE Item(f, p)]
  <2>2. \A p \in D : size[p] <= k => g[p] = f[p] OBVIOUS
  <2>3. \A p \in D : ~(size[p] <= k) => g[p] = Item(f, p) OBVIOUS
  <2> HIDE DEF g
  <2>4. ASSUME NEW p \in D, size[p] <= k + 1 PROVE g[p] = Item(g, p)
    <3>1. p \notin Last => step[p] \in D /\ size[step[p]] <= k BY <1>1, <1>3, <2>4
    <3>2. Item(g, p) = Item(f, p) BY <2>2, <3>1
    <3>3. g[p] = Item(f, p) BY <2>1, <2>2, <2>3
    <3> QED BY <3>2, <3>3
  <2>5. Good(g, k + 1) BY <2>4
  <2> HIDE DEF Good
  <2> QED BY <2>5
<1> HIDE DEF S, T
<1>8. Nat \subseteq S BY <1>4, <1>5, EachNext
<1>9. Nat \subseteq T BY <1>6, <1>7, EachNext
<1> DEFINE of(k) == CHOOSE f : Good(f, k)
           F == [p \in D |-> of(size[p])[p]]
<1>10. ASSUME NEW k \in Nat PROVE Good(of(k), k)
  <2>1. \E f : Good(f, k) BY <1>9 DEF T
  <2> HIDE DEF Good
  <2> QED BY <2>1
<1>11. \A p \in D : F[p] = of(size[p])[p] OBVIOUS
<1> HIDE DEF F, of
<1>12. ASSUME NEW p \in D PROVE F[p] = Item(F, p)
  <2> DEFINE f == of(size[p])
  <2>1. F[p] = f[p] BY <1>11
  <2>2. Good(f, size[p]) BY <1>3, <1>10
  <2> HIDE DEF f
  <2>3. f[p] = Item(f, p) BY <1>3, <2>2
  <2>4. CASE p \in Last BY <2>1, <2>3, <2>4
  <2>5. CASE p \notin Last
    <3> DEFINE q == step[p]
    <3>1. q \in D /\ size[q] < size[p] /\ size[q] \in Nat /\ size[p] \in Nat BY <1>1, <1>3, <2>5
    <3> HIDE DEF q
    <3>2. F[q] = of(size[q])[q] BY <1>11, <3>1
    <3>3. Good(of(size[q]), size[q]) BY <1>10, <3>1
    <3>4. Good(f, size[q])
      <4>1. size[q] <= size[p] BY <3>1
      <4> HIDE DEF Good
      <4> QED BY <1>2, <2>2, <3>1, <4>1
    <3>5. Alike(size[q]) BY <1>8, <3>1 DEF S
    <3>6. f[q] = of(size[q])[q]
      <4>1. size[q] <= size[q] BY <3>1
      <4> HIDE DEF Good
      <4> QED BY <3>1, <3>3, <3>4, <3>5, <4>1
    <3> QED BY <2>1, <2>3, <2>5, <3>2, <3>6 DEF q
  <2> QED BY <2>4, <2>5
<1>13. F = [p \in D |-> Item(F, p)] BY <1>12 DEF F
<1> HIDE DEF F
<1> QED BY <1>13 DEF Reaches

LEMMA GcdIs ==
  ASSUME NEW a \in Int, NEW b \in Int, b # 0
  PROVE  Fractions!gcd[<<a, b>>] =
           IF Fractions!Rem(a, b) = 0 THEN b ELSE Fractions!gcd[<<b, Fractions!Rem(a, b)>>]
<1> DEFINE D == Fractions!Divisible
           Rm(p) == Fractions!Rem(p[1], p[2])
           size == [p \in D |-> Fractions!Abs(p[2])]
           Last == {p \in D : Rm(p) = 0}
           given == [p \in D |-> p[2]]
           step == [p \in D |-> <<p[2], Rm(p)>>]
           Is(f) == f = [p \in D |-> IF Rm(p) = 0 THEN p[2] ELSE f[<<p[2], Rm(p)>>]]
           G == Fractions!gcd
<1>1. D = Int \X (Int \ {0}) BY DEF Fractions!Divisible
<1>2. ASSUME NEW p \in D
      PROVE  /\ p[1] \in Int /\ p[2] \in Int /\ p[2] # 0
             /\ Rm(p) \in Int /\ Fractions!Abs(Rm(p)) < Fractions!Abs(p[2])
             /\ Fractions!Abs(p[2]) \in Nat
  <2>1. p[1] \in Int /\ p[2] \in Int /\ p[2] # 0 BY <1>1
  <2>2. Fractions!Abs(p[2]) \in Nat BY <2>1 DEF Fractions!Abs
  <2> QED BY <2>1, <2>2, RemIs
<1>3. size \in [D -> Nat] BY <1>2
<1>4. ASSUME NEW p \in D, p \notin Last PROVE step[p] \in D /\ size[step[p]] < size[p]
  <2>1. <<p[2], Rm(p)>> \in D BY <1>1, <1>2, <1>4
  <2> HIDE DEF D, Rm
  <2>2. step[p] = <<p[2], Rm(p)>> OBVIOUS
  <2>3. size[step[p]] = Fractions!Abs(Rm(p)) BY <2>1, <2>2
  <2> QED BY <1>2, <2>1, <2>2, <2>3
<1>5. \E f : f = [p \in D |-> IF p \in Last THEN given[p] ELSE f[step[p]]]
  <2>1. \A p \in D : p \notin Last => step[p] \in D /\ size[step[p]] < size[p] BY <1>4
  <2> HIDE DEF D, size, Last, given, step
  <2>2. Down(D, size, Last, step) BY <1>3, <2>1 DEF Down
  <2>3. \E f : Reaches(f, D, Last, given, step) BY <2>2, GoesDown
  <2> QED BY <2>3 DEF Reaches
<1>6. \E f : Is(f)
  <2>1. PICK f : f = [p \in D |-> IF p \in Last THEN given[p] ELSE f[step[p]]] BY <1>5
  <2>2. ASSUME NEW p \in D
        PROVE  (IF p \in Last THEN given[p] ELSE f[step[p]])
                 = (IF Rm(p) = 0 THEN p[2] ELSE f[<<p[2], Rm(p)>>])
    <3> HIDE DEF D, Rm
    <3> QED OBVIOUS
  <2> HIDE DEF D, Rm, Last, given, step
  <2>3. Is(f) BY <2>1, <2>2
  <2> HIDE DEF Is
  <2> QED BY <2>3
<1>7. Is(G)
  <2>1. G = CHOOSE f : Is(f) BY DEF Fractions!gcd
  <2> HIDE DEF G, Is
  <2> QED BY <1>6, <2>1
<1> HIDE DEF G
<1>8. <<a, b>> \in D BY <1>1
<1>9. G[<<a, b>>] = IF Rm(<<a, b>>) = 0 THEN b ELSE G[<<b, Rm(<<a, b>>)>>]
  <2> HIDE DEF D, Rm
  <2> QED BY <1>7, <1>8
<1> QED BY <1>9 DEF G


Divides(g, a) == \E u \in Int : a = u * g

LEMMA Combined ==
  ASSUME NEW g \in Int, NEW a \in Int, NEW b \in Int, NEW q \in Int, NEW k \in Int,
         a = q * b + k, Divides(g, b)
  PROVE  Divides(g, k) <=> Divides(g, a)
<1>1. PICK v \in Int : b = v * g BY DEF Divides
<1>2. ASSUME NEW u \in Int, k = u * g PROVE Divides(g, a)
  <2>1. q * b = (q * v) * g BY <1>1
  <2>2. a = (q * v + u) * g BY <1>2, <2>1
  <2>3. q * v + u \in Int OBVIOUS
  <2> QED BY <2>2, <2>3 DEF Divides
<1>3. ASSUME NEW u \in Int, a = u * g PROVE Divides(g, k)
  <2>1. q * b = (q * v) * g BY <1>1
  <2>2. k = (u - q * v) * g BY <1>3, <2>1
  <2>3. u - q * v \in Int OBVIOUS
  <2> QED BY <2>2, <2>3 DEF Divides
<1> QED BY <1>2, <1>3 DEF Divides

LEMMA DivideEach ==
  ASSUME NEW b \in Int
  PROVE  Divides(b, b) /\ Divides(b, 0)
<1>1. b = 1 * b /\ 0 = 0 * b OBVIOUS
<1> QED BY <1>1 DEF Divides

(* gcd is a divisor of both, and others are divisors of it. *)
Greatest(g, a, b) ==
  /\ g \in Int /\ g # 0 /\ Divides(g, a) /\ Divides(g, b)
  /\ \A k \in Int : Divides(k, a) /\ Divides(k, b) => Divides(k, g)

LEMMA GcdGreatest ==
  ASSUME NEW a \in Int, NEW b \in Int, b # 0
  PROVE  Greatest(Fractions!gcd[<<a, b>>], a, b)
<1> DEFINE P(x, y) == Greatest(Fractions!gcd[<<x, y>>], x, y)
           S == {k \in Nat : \A x, y \in Int : y # 0 /\ Fractions!Abs(y) <= k => P(x, y)}
<1>1. 0 \in S BY DEF Fractions!Abs
<1>2. ASSUME NEW k \in Nat, k \in S PROVE k + 1 \in S
  <2>1. SUFFICES ASSUME NEW x \in Int, NEW y \in Int, y # 0, Fractions!Abs(y) <= k + 1
                 PROVE  P(x, y)
    OBVIOUS
  <2> DEFINE R == Fractions!Rem(x, y)
             g == Fractions!gcd[<<x, y>>]
  <2>2. R \in Int /\ Fractions!Abs(R) < Fractions!Abs(y) BY <2>1, RemIs
  <2>3. PICK q \in Int : x = q * y + R BY <2>1, RemIs
  <2>4. g = IF R = 0 THEN y ELSE Fractions!gcd[<<y, R>>] BY <2>1, GcdIs
  <2> HIDE DEF R, g
  <2>5. ASSUME NEW h \in Int, Divides(h, y) PROVE Divides(h, R) <=> Divides(h, x)
    BY <2>2, <2>3, <2>5, Combined
  <2>6. CASE R = 0
    <3>1. g = y BY <2>4, <2>6
    <3>2. Divides(y, y) /\ Divides(y, x) BY <2>5, <2>6, DivideEach
    <3> QED BY <2>1, <3>1, <3>2 DEF Greatest, g
  <2>7. CASE R # 0
    <3>1. Fractions!Abs(R) <= k
      <4>1. Fractions!Abs(R) \in Int /\ Fractions!Abs(y) \in Int BY <2>2 DEF Fractions!Abs
      <4> QED BY <2>1, <2>2, <4>1
    <3>2. P(y, R)
      <4> HIDE DEF P
      <4> QED BY <1>2, <2>2, <2>7, <3>1
    <3>3. Greatest(g, y, R) BY <2>4, <2>7, <3>2
    <3>4. g \in Int /\ g # 0 /\ Divides(g, y) /\ Divides(g, x) BY <2>5, <3>3 DEF Greatest
    <3>5. ASSUME NEW h \in Int, Divides(h, x), Divides(h, y) PROVE Divides(h, g)
      BY <2>5, <3>3, <3>5 DEF Greatest
    <3> QED BY <3>4, <3>5 DEF Greatest, g
  <2> QED BY <2>6, <2>7
<1> HIDE DEF S
<1>3. Fractions!Abs(b) \in S
  <2>1. Fractions!Abs(b) \in Nat BY DEF Fractions!Abs
  <2> QED BY <1>1, <1>2, <2>1, EachNext
<1>4. Fractions!Abs(b) <= Fractions!Abs(b) BY DEF Fractions!Abs
<1> HIDE DEF P
<1>5. P(a, b) BY <1>3, <1>4 DEF S
<1> QED BY <1>5 DEF P

LEMMA GcdScaled ==
  ASSUME NEW a \in Int, NEW b \in Int, b # 0, NEW c \in Int, c # 0
  PROVE  Fractions!gcd[<<c * a, c * b>>] = c * Fractions!gcd[<<a, b>>]
<1> DEFINE P(x, y) == Fractions!gcd[<<c * x, c * y>>] = c * Fractions!gcd[<<x, y>>]
           S == {k \in Nat : \A x, y \in Int : y # 0 /\ Fractions!Abs(y) <= k => P(x, y)}
<1>1. 0 \in S BY DEF Fractions!Abs
<1>2. ASSUME NEW k \in Nat, k \in S PROVE k + 1 \in S
  <2>1. SUFFICES ASSUME NEW x \in Int, NEW y \in Int, y # 0, Fractions!Abs(y) <= k + 1
                 PROVE  P(x, y)
    OBVIOUS
  <2> DEFINE R == Fractions!Rem(x, y)
  <2>2. R \in Int /\ Fractions!Abs(R) < Fractions!Abs(y) BY <2>1, RemIs
  <2>3. Fractions!gcd[<<x, y>>] = IF R = 0 THEN y ELSE Fractions!gcd[<<y, R>>] BY <2>1, GcdIs
  <2>4. c * y # 0 /\ Fractions!Rem(c * x, c * y) = c * R BY <2>1, RemScaled
  <2>5. c * x \in Int /\ c * y \in Int OBVIOUS
  <2>6. Fractions!gcd[<<c * x, c * y>>] =
          IF c * R = 0 THEN c * y ELSE Fractions!gcd[<<c * y, c * R>>]
    BY <2>4, <2>5, GcdIs
  <2>7. c * R = 0 <=> R = 0 BY <2>2
  <2> HIDE DEF R
  <2>8. CASE R = 0 BY <2>3, <2>6, <2>7, <2>8
  <2>9. CASE R # 0
    <3>1. Fractions!Abs(R) <= k
      <4>1. Fractions!Abs(R) \in Int /\ Fractions!Abs(y) \in Int BY <2>2 DEF Fractions!Abs
      <4> QED BY <2>1, <2>2, <4>1
    <3>2. P(y, R)
      <4> HIDE DEF P
      <4> QED BY <1>2, <2>2, <2>9, <3>1
    <3> QED BY <2>3, <2>6, <2>7, <2>9, <3>2
  <2> QED BY <2>8, <2>9
<1> HIDE DEF S
<1>3. Fractions!Abs(b) \in S
  <2>1. Fractions!Abs(b) \in Nat BY DEF Fractions!Abs
  <2> QED BY <1>1, <1>2, <2>1, EachNext
<1>4. Fractions!Abs(b) <= Fractions!Abs(b) BY DEF Fractions!Abs
<1> HIDE DEF P
<1>5. P(a, b) BY <1>3, <1>4 DEF S
<1> QED BY <1>5 DEF P


LEMMA QuotIs ==
  ASSUME NEW u \in Int, NEW g \in Int, g # 0
  PROVE  Fractions!Quot(u * g, g) = u
<1> DEFINE x == Fractions!Abs(u)
           y == Fractions!Abs(g)
<1>1. x \in Nat /\ y \in Nat /\ y # 0 BY DEF Fractions!Abs
<1>2. u = (IF u < 0 THEN -x ELSE x) /\ g = (IF g < 0 THEN -y ELSE y) BY DEF Fractions!Abs
<1>3. u = 0 <=> x = 0 BY DEF Fractions!Abs
<1> HIDE DEF x, y
<1>4. u * g \in Int BY <1>1
<1>5. Fractions!Abs(u * g) = x * y BY <1>1, <1>2, <1>4 DEF Fractions!Abs
<1>6. (x * y) \div y = x
  <2>1. x * y = x * y + 0 /\ x * y \in Nat /\ x \in Int /\ 0 \in Nat /\ 0 < y BY <1>1
  <2> QED BY <1>1, <2>1, OneRest
<1>7. Fractions!Abs(g) = y BY DEF y
<1>8. Fractions!Quot(u * g, g) = IF (u * g < 0) = (g < 0) THEN x ELSE -x
  BY <1>5, <1>6, <1>7 DEF Fractions!Quot
<1>9. CASE u = 0
  <2>1. x = 0 /\ u * g = 0 BY <1>3, <1>9
  <2> QED BY <1>8, <1>9, <2>1
<1>10. CASE u > 0
  <2>1. u * g < 0 <=> g < 0 BY <1>10
  <2> QED BY <1>2, <1>8, <1>10, <2>1
<1>11. CASE u < 0
  <2>1. u * g < 0 <=> ~(g < 0) BY <1>11
  <2> QED BY <1>1, <1>2, <1>8, <1>11, <2>1
<1> QED BY <1>9, <1>10, <1>11

LEMMA OneLeft ==
  ASSUME NEW g \in Int, g # 0, NEW h \in Int, g * h = g
  PROVE  h = 1
<1>1. g * (h - 1) = 0 BY SMT
<1> QED BY <1>1

(* n and d divided by g have nothing in common. *)
Lowest(n, d, g, u, v) ==
  /\ n = u * g /\ d = v * g /\ v # 0
  /\ Fractions!Quot(n, g) = u /\ Fractions!Quot(d, g) = v
  /\ Fractions!gcd[<<u, v>>] = 1

LEMMA Lowered ==
  ASSUME NEW n \in Int, NEW d \in Int, d # 0, NEW g, g = Fractions!gcd[<<n, d>>]
  PROVE  g \in Int /\ g # 0 /\ \E u, v \in Int : Lowest(n, d, g, u, v)
<1>1. Greatest(g, n, d) BY GcdGreatest
<1>2. g \in Int /\ g # 0 BY <1>1 DEF Greatest
<1>3. PICK u \in Int : n = u * g BY <1>1 DEF Greatest, Divides
<1>4. PICK v \in Int : d = v * g BY <1>1 DEF Greatest, Divides
<1>5. v # 0 BY <1>2, <1>4
<1>6. Fractions!Quot(n, g) = u /\ Fractions!Quot(d, g) = v BY <1>2, <1>3, <1>4, QuotIs
<1>7. Fractions!gcd[<<u, v>>] = 1
  <2> DEFINE h == Fractions!gcd[<<u, v>>]
  <2>1. Greatest(h, u, v) BY <1>5, GcdGreatest
  <2>2. h \in Int BY <2>1 DEF Greatest
  <2>3. Fractions!gcd[<<g * u, g * v>>] = g * h BY <1>2, <1>5, GcdScaled
  <2>4. g * u = n /\ g * v = d BY <1>2, <1>3, <1>4
  <2>5. g * h = g BY <2>3, <2>4
  <2> HIDE DEF h
  <2>6. h = 1 BY <1>2, <2>2, <2>5, OneLeft
  <2> QED BY <2>6 DEF h
<1>8. Lowest(n, d, g, u, v) BY <1>3, <1>4, <1>5, <1>6, <1>7 DEF Lowest
<1> QED BY <1>2, <1>8

LEMMA ReduceIs ==
  ASSUME NEW n \in Int, NEW d \in Int, d # 0
  PROVE  \E g, u, v \in Int :
           /\ g # 0 /\ v # 0 /\ n = u * g /\ d = v * g
           /\ Fractions!gcd[<<u, v>>] = 1
           /\ Fractions!reduce[<<n, d>>] = <<u, v>>
<1> DEFINE D == Fractions!Divisible
           G == Fractions!gcd
           Low(p) == <<Fractions!Quot(p[1], G[p]), Fractions!Quot(p[2], G[p])>>
           Item(f, p) == IF G[p] = 1 THEN p ELSE f[Low(p)]
           Is(f) == f = [p \in D |-> Item(f, p)]
           F == [p \in D |-> Low(p)]
           R == Fractions!reduce
<1>1. D = Int \X (Int \ {0}) BY DEF Fractions!Divisible
<1>2. ASSUME NEW p \in D
      PROVE  /\ Low(p) \in D /\ G[Low(p)] = 1 /\ Low(Low(p)) = Low(p)
             /\ G[p] = 1 => Low(p) = p
  <2>1. PICK x \in Int, y \in Int : p = <<x, y>> /\ y # 0 BY <1>1
  <2>2. G[p] \in Int /\ G[p] # 0 BY <2>1, Lowered
  <2>3. PICK u \in Int, v \in Int :
          /\ x = u * G[p] /\ y = v * G[p] /\ v # 0
          /\ Fractions!Quot(x, G[p]) = u /\ Fractions!Quot(y, G[p]) = v
          /\ G[<<u, v>>] = 1
    <3>1. G[p] = Fractions!gcd[<<x, y>>] BY <2>1
    <3>2. \E u, v \in Int : Lowest(x, y, G[p], u, v) BY <2>1, <3>1, Lowered
    <3> QED BY <3>2 DEF Lowest
  <2>4. Low(p) = <<u, v>> BY <2>1, <2>3
  <2>5. <<u, v>> \in D /\ G[<<u, v>>] = 1 BY <1>1, <2>3
  <2>6. Low(<<u, v>>) = <<u, v>>
    <3>1. Fractions!Quot(u * 1, 1) = u /\ Fractions!Quot(v * 1, 1) = v BY QuotIs
    <3>2. u * 1 = u /\ v * 1 = v OBVIOUS
    <3> QED BY <2>3, <3>1, <3>2
  <2>7. G[p] = 1 => u = x /\ v = y BY <2>3
  <2> QED BY <2>1, <2>4, <2>5, <2>6, <2>7
<1> HIDE DEF D, G, Low
<1>3. Is(F)
  <2>1. ASSUME NEW p \in D PROVE F[p] = Item(F, p)
    <3>1. F[p] = Low(p) /\ F[Low(p)] = Low(Low(p)) BY <1>2
    <3> HIDE DEF F
    <3> QED BY <1>2, <3>1
  <2> QED BY <2>1
<1>4. Is(R)
  <2>1. R = CHOOSE f : Is(f) BY DEF Fractions!reduce, D, G, Low
  <2> HIDE DEF F, R, Is
  <2> QED BY <1>3, <2>1
<1> HIDE DEF R, F
<1>5. ASSUME NEW p \in D PROVE R[p] = Low(p)
  <2>1. \A q \in D : R[q] = Item(R, q) BY <1>4
  <2>2. R[Low(p)] = Low(p) BY <1>2, <2>1
  <2> QED BY <1>2, <2>1, <2>2
<1>6. <<n, d>> \in D BY <1>1
<1>7. R[<<n, d>>] = Low(<<n, d>>) BY <1>5, <1>6
<1>8. G[<<n, d>>] \in Int /\ G[<<n, d>>] # 0 BY Lowered DEF G
<1>9. PICK u \in Int, v \in Int :
        /\ n = u * G[<<n, d>>] /\ d = v * G[<<n, d>>] /\ v # 0
        /\ Fractions!Quot(n, G[<<n, d>>]) = u /\ Fractions!Quot(d, G[<<n, d>>]) = v
        /\ G[<<u, v>>] = 1
  <2>1. \E u, v \in Int : Lowest(n, d, G[<<n, d>>], u, v) BY Lowered DEF G
  <2> QED BY <2>1 DEF Lowest, G
<1>10. Low(<<n, d>>) = <<u, v>> BY <1>9 DEF Low
<1> QED BY <1>7, <1>8, <1>9, <1>10 DEF G, R


(* A divisor other than 1 is not common to both parts of f.                *)
Irreducible(f) ==
  f[1] # 0 /\ f[2] # 0 =>
    \A k \in 2 .. Fractions!Abs(f[2]) : ~(f[1] % k = 0 /\ f[2] % k = 0)

LEMMA Multiple ==
  ASSUME NEW x \in Int, NEW k \in Nat, k # 0, x % k = 0
  PROVE  Divides(k, x)
<1> DEFINE q == x \div k
<1>1. k \in Int /\ k > 0 OBVIOUS
<1>2. x = k * (x \div k) + (x % k) BY <1>1
<1>3. q \in Int BY <1>1
<1> HIDE DEF q
<1>4. x = q * k BY <1>2, <1>3 DEF q
<1> QED BY <1>3, <1>4 DEF Divides

LEMMA NoCommonPart ==
  ASSUME NEW u \in Int, NEW v \in Int, v # 0, Fractions!gcd[<<u, v>>] = 1
  PROVE  Irreducible(<<u, v>>)
<1> SUFFICES ASSUME NEW k \in Nat, k >= 2, u % k = 0, v % k = 0 PROVE FALSE
  <2>1. \A k \in 2 .. Fractions!Abs(v) : k \in Nat /\ k >= 2 OBVIOUS
  <2> QED BY <2>1 DEF Irreducible
<1>1. Divides(k, u) /\ Divides(k, v) BY Multiple
<1>2. Greatest(1, u, v) BY GcdGreatest
<1>3. k \in Int OBVIOUS
<1>4. Divides(k, 1) BY <1>1, <1>2, <1>3 DEF Greatest
<1>5. PICK h \in Int : 1 = h * k BY <1>4 DEF Divides
<1>6. CASE h >= 1
  <2>1. h * k >= k BY <1>3, <1>6
  <2> QED BY <1>5, <2>1
<1>7. CASE h <= 0
  <2>1. h * k <= 0 BY <1>3, <1>7
  <2> QED BY <1>5, <2>1
<1> QED BY <1>6, <1>7

LEMMA Simplified ==
  ASSUME NEW n \in Int, NEW d \in Int, NEW f, f = Fractions!simplify(n, d)
  PROVE  /\ f \in Int \X Int /\ Irreducible(f)
         /\ Fractions!Same(f, <<n, d>>)
         /\ d # 0 => f[2] # 0
<1>1. CASE n \in {0, 1} \/ d \in {0, 1}
  <2>1. f = <<n, d>> BY <1>1 DEF Fractions!simplify
  <2>2. Irreducible(f)
    <3>1. SUFFICES ASSUME n # 0, d # 0, NEW k \in 2 .. Fractions!Abs(d)
                   PROVE  ~(n % k = 0)
      BY <2>1 DEF Irreducible
    <3>2. k \in Nat /\ k >= 2 OBVIOUS
    <3>3. CASE d = 1
      <4>1. Fractions!Abs(d) = 1 BY <3>3 DEF Fractions!Abs
      <4> QED BY <4>1
    <3>4. CASE n = 1
      <4>1. 1 = 0 * k + 1 /\ 0 \in Int /\ 1 \in Nat /\ 1 < k BY <3>2
      <4>2. 1 % k = 1 BY <3>2, <4>1, OneRest
      <4> QED BY <3>4, <4>2
    <3> QED BY <1>1, <3>1, <3>3, <3>4
  <2> QED BY <2>1, <2>2 DEF Fractions!Same
<1>2. CASE ~(n \in {0, 1} \/ d \in {0, 1})
  <2>1. f = Fractions!reduce[<<n, d>>] BY <1>2 DEF Fractions!simplify
  <2>2. PICK g \in Int, u \in Int, v \in Int :
          /\ g # 0 /\ v # 0 /\ n = u * g /\ d = v * g
          /\ Fractions!gcd[<<u, v>>] = 1
          /\ Fractions!reduce[<<n, d>>] = <<u, v>>
    BY <1>2, ReduceIs
  <2>3. Irreducible(<<u, v>>) BY <2>2, NoCommonPart
  <2>4. u * d = n * v
    <3>1. u * (v * g) = (u * g) * v OBVIOUS
    <3> QED BY <2>2, <3>1
  <2> QED BY <2>1, <2>2, <2>3, <2>4 DEF Fractions!Same
<1> QED BY <1>1, <1>2

FracInv ==
  /\ self \in Int \X Int /\ arg \in Int \X Int /\ exact \in Int \X Int /\ slip \in Int
  /\ Irreducible(self) /\ Irreducible(arg)
  /\ Fractions!ValueKept /\ Fractions!OverDenominator

LEMMA FractionsSafe ==
  FracInv => /\ Fractions!TypeOK /\ Fractions!Reduced
             /\ Fractions!ValueKept /\ Fractions!OverDenominator
BY DEF FracInv, Fractions!TypeOK, Fractions!Reduced, Irreducible

LEMMA NumbersInt == Numbers \subseteq Int
BY Assumptions DEF Fractions!FractionAssumption

LEMMA FractionsInit == Fractions!Init => FracInv
<1> SUFFICES ASSUME NEW n \in Numbers, NEW d \in Numbers,
                    self = Fractions!simplify(n, d), arg = self, exact = self, slip = 1
             PROVE  FracInv
  BY DEF Fractions!Init
<1>1. self \in Int \X Int /\ Irreducible(self) BY NumbersInt, Simplified
<1>2. Fractions!ValueKept /\ Fractions!OverDenominator
  BY <1>1 DEF Fractions!ValueKept, Fractions!OverDenominator, Fractions!Same
<1> QED BY <1>1, <1>2 DEF FracInv

(* A step gives self the lowest terms of the value that it should have.    *)
LEMMA SelfTold ==
  ASSUME FracInv, NEW n \in Int, NEW d \in Int,
         self' = Fractions!simplify(n, d), exact' = <<n, d>>, slip' = 1, arg' = arg
  PROVE  FracInv'
<1>1. /\ self' \in Int \X Int /\ Irreducible(self')
      /\ Fractions!Same(self', <<n, d>>) /\ (d # 0 => self'[2] # 0)
  BY Simplified
<1>2. Fractions!ValueKept' /\ Fractions!OverDenominator'
  BY <1>1 DEF Fractions!ValueKept, Fractions!OverDenominator, Fractions!Proper, Fractions!Same
<1>3. Irreducible(self)' /\ Irreducible(arg)' BY <1>1 DEF FracInv, Irreducible
<1> QED BY <1>1, <1>2, <1>3 DEF FracInv

LEMMA HalfCancelled ==
  ASSUME NEW a \in Int, NEW b \in Int, NEW x \in Int, NEW y \in Int, a * b # 0,
         x * (b * (a * b)) = (a * b) * y
  PROVE  x * b = 1 * y
<1> DEFINE k == x * b - y
<1>1. (a * b) * k = 0 BY SMT
<1>2. k \in Int /\ a * b \in Int OBVIOUS
<1>3. k = 0
  <2> HIDE DEF k
  <2> QED BY <1>1, <1>2
<1>4. x * b \in Int OBVIOUS
<1> QED BY <1>3, <1>4

LEMMA FractionsStep == FracInv /\ Fractions!Next => FracInv'
<1> SUFFICES ASSUME FracInv, Fractions!Next PROVE FracInv' OBVIOUS
<1> DEFINE a == self[1]
           b == self[2]
<1>1. a \in Int /\ b \in Int /\ arg[1] \in Int /\ arg[2] \in Int BY DEF FracInv
<1>2. CASE Fractions!Set
  <2>1. PICK n \in Numbers, d \in Numbers :
          \/ self' = Fractions!simplify(n, d) /\ exact' = <<n, d>> /\ slip' = 1 /\ UNCHANGED arg
          \/ arg' = Fractions!simplify(n, d) /\ UNCHANGED <<self, exact, slip>>
    BY <1>2 DEF Fractions!Set
  <2>2. n \in Int /\ d \in Int BY NumbersInt
  <2>3. CASE self' = Fractions!simplify(n, d) /\ exact' = <<n, d>> /\ slip' = 1 /\ UNCHANGED arg
    BY <2>2, <2>3, SelfTold
  <2>4. CASE arg' = Fractions!simplify(n, d) /\ UNCHANGED <<self, exact, slip>>
    <3>1. arg' \in Int \X Int /\ Irreducible(arg') BY <2>2, <2>4, Simplified
    <3>2. Irreducible(self)' /\ Irreducible(arg)' BY <2>4, <3>1 DEF FracInv, Irreducible
    <3>3. Fractions!ValueKept' /\ Fractions!OverDenominator'
      BY <2>4 DEF FracInv, Fractions!ValueKept, Fractions!OverDenominator, Fractions!Same,
                  Fractions!Proper
    <3> QED BY <2>4, <3>1, <3>2, <3>3 DEF FracInv
  <2> QED BY <2>1, <2>3, <2>4
<1>3. CASE Fractions!divide
  <2>1. a * arg[2] \in Int /\ b * arg[1] \in Int BY <1>1
  <2> QED BY <1>3, <2>1, SelfTold DEF Fractions!divide
<1>4. CASE Fractions!divideBySelf
  <2> DEFINE n == a * b
             d == b * (a * b)
  <2>1. n \in Int /\ d \in Int BY <1>1
  <2>2. self' = Fractions!simplify(n, d) /\ exact' = <<n, b * a>> /\ slip' = b /\ arg' = arg
    BY <1>4 DEF Fractions!divideBySelf
  <2>3. /\ self' \in Int \X Int /\ Irreducible(self')
        /\ Fractions!Same(self', <<n, d>>) /\ (d # 0 => self'[2] # 0)
    BY <2>1, <2>2, Simplified
  <2>4. n # 0 => self'[2] # 0 /\ self'[1] * b = 1 * self'[2]
    <3>1. SUFFICES ASSUME n # 0 PROVE self'[2] # 0 /\ self'[1] * b = 1 * self'[2] OBVIOUS
    <3>2. b # 0 BY <1>1, <3>1
    <3>3. d # 0 BY <1>1, <3>1, <3>2
    <3>4. self'[1] * d = n * self'[2] BY <2>3 DEF Fractions!Same
    <3>5. self'[1] \in Int /\ self'[2] \in Int BY <2>3
    <3>6. PICK x \in Int, y \in Int : x = self'[1] /\ y = self'[2] BY <3>5
    <3>7. x * (b * (a * b)) = (a * b) * y BY <3>4, <3>6
    <3> HIDE DEF a, b
    <3>8. x * b = 1 * y BY <1>1, <3>1, <3>7, HalfCancelled
    <3> QED BY <2>3, <3>3, <3>6, <3>8
  <2>5. b * a = n BY <1>1
  <2>6. Fractions!ValueKept' /\ Fractions!OverDenominator'
    <3>1. self'[1] \in Int /\ self'[2] \in Int BY <2>3
    <3> HIDE DEF a, b, n
    <3>2. Fractions!OverDenominator'
      BY <2>2, <2>4, <2>5 DEF Fractions!OverDenominator, Fractions!Proper, Fractions!Same
    <3>3. ASSUME slip' = 1, n # 0 PROVE self'[1] * n = n * self'[2]
      <4>1. self'[1] = self'[2] BY <2>2, <2>4, <3>1, <3>3
      <4> QED BY <2>1, <3>1, <4>1
    <3>4. Fractions!ValueKept'
      BY <2>2, <2>4, <2>5, <3>3 DEF Fractions!ValueKept, Fractions!Proper, Fractions!Same
    <3> QED BY <3>2, <3>4
  <2>7. Irreducible(self)' /\ Irreducible(arg)' BY <2>2, <2>3 DEF FracInv, Irreducible
  <2>8. exact' \in Int \X Int /\ slip' \in Int
    <3> HIDE DEF a, b, n
    <3> QED BY <1>1, <2>1, <2>2, <2>5
  <2> QED BY <2>2, <2>3, <2>6, <2>7, <2>8 DEF FracInv
<1>5. ASSUME NEW o \in {self, arg},
             Fractions!add(o) \/ Fractions!substract(o) \/ Fractions!multiply(o)
      PROVE  FracInv'
  <2>1. o[1] \in Int /\ o[2] \in Int BY <1>5 DEF FracInv
  <2>2. /\ a * o[2] + b * o[1] \in Int /\ a * o[2] - b * o[1] \in Int
        /\ b * o[2] \in Int /\ a * o[1] \in Int
    BY <1>1, <2>1
  <2>3. CASE Fractions!add(o) BY <2>2, <2>3, SelfTold DEF Fractions!add
  <2>4. CASE Fractions!substract(o) BY <2>2, <2>4, SelfTold DEF Fractions!substract
  <2>5. CASE Fractions!multiply(o) BY <2>2, <2>5, SelfTold DEF Fractions!multiply
  <2> QED BY <1>5, <2>3, <2>4, <2>5
<1> QED BY <1>2, <1>3, <1>4, <1>5 DEF Fractions!Next

LEMMA FractionsIdle == FracInv /\ UNCHANGED fracVars => FracInv'
BY DEF fracVars, FracInv, Irreducible, Fractions!ValueKept, Fractions!OverDenominator,
       Fractions!Proper, Fractions!Same
-----------------------------------------------------------------------------
(* The pieces together: what is so of the one that a behaviour has *)
ValuesInv ==
  /\ IsString      => TrimInv
  /\ IsDates       => DateInv
  /\ IsFractions   => FracInv
  /\ IsObservers   => ObsInv
  /\ IsExpressions => ExpInv
  /\ IsLists       => ListInv
  /\ IsMazes       => MazeInv

LEMMA ValuesInit == MCInit => ValuesInv
BY StringInit, DatesInit, FractionsInit, ObserversInit, ExpressionsInit, ListsInit, MazesInit
DEF MCInit, ValuesInv

LEMMA ObserversIdle == ObsInv /\ UNCHANGED obsVars => ObsInv'
BY DEF obsVars, ObsInv, Listed

LEMMA ExpressionsIdle == ExpInv /\ UNCHANGED expVars => ExpInv'
BY DEF expVars, ExpInv, Unshared, Meant, Expressions!Total

LEMMA ListsIdle == ListInv /\ UNCHANGED listVars => ListInv'
<1> SUFFICES ASSUME ListInv, UNCHANGED listVars PROVE ListInv' OBVIOUS
<1>1. PICK n \in 0 .. MaxSize : ListShape(n) BY DEF ListInv
<1>2. ListShape(n)' BY <1>1 DEF listVars, ListShape
<1>3. Looped'
  <2>1. /\ pList' = pList /\ class' = class /\ current' = current
        /\ seen' = seen /\ from' = from /\ strayed' = strayed
    BY DEF listVars
  <2>2. Lists!Count' = Lists!Count BY <2>1 DEF Lists!Count, Lists!Indices
  <2>3. Looped BY DEF ListInv
  <2> QED BY <2>1, <2>2, <2>3 DEF Looped
<1>4. (divided => class = "reverse" /\ strayed)' BY DEF ListInv, listVars
<1> QED BY <1>2, <1>3, <1>4 DEF ListInv

LEMMA MazesIdle == MazeInv /\ UNCHANGED mazeVars => MazeInv'
<1> SUFFICES ASSUME MazeInv, UNCHANGED mazeVars PROVE MazeInv' OBVIOUS
<1>1. /\ sites' = sites /\ mazes' = mazes /\ tied' = tied
      /\ touched' = touched /\ blown' = blown
  BY DEF mazeVars
<1>2. Heap(sites') BY <1>1 DEF MazeInv
<1>3. OfRooms' BY <1>1 DEF MazeInv, OfRooms
<1>4. Opens' BY <1>1 DEF MazeInv, Opens, Size
<1>5. Laid' BY <1>1 DEF MazeInv, Laid
<1>6. Reasoned' BY <1>1 DEF MazeInv, Reasoned, Size
<1> QED BY <1>2, <1>3, <1>4, <1>5, <1>6 DEF MazeInv

LEMMA ValuesStep == ValuesInv /\ [MCNext]_MCvars => ValuesInv'
<1> SUFFICES ASSUME ValuesInv, [MCNext]_MCvars PROVE ValuesInv' OBVIOUS
<1>1. UNCHANGED piece BY DEF MCNext, MCvars
<1>2. (IsObservers => ObsInv)'
  <2> SUFFICES ASSUME IsObservers PROVE ObsInv' BY <1>1 DEF IsObservers
  <2>1. Observers!Next \/ UNCHANGED obsVars BY DEF MCNext, MCvars
  <2> QED BY <2>1, ObserversStep, ObserversIdle DEF ValuesInv
<1>3. (IsExpressions => ExpInv)'
  <2> SUFFICES ASSUME IsExpressions PROVE ExpInv' BY <1>1 DEF IsExpressions
  <2>1. Expressions!Next \/ UNCHANGED expVars BY DEF MCNext, MCvars
  <2> QED BY <2>1, ExpressionsStep, ExpressionsIdle DEF ValuesInv
<1>4. (IsLists => ListInv)'
  <2> SUFFICES ASSUME IsLists PROVE ListInv' BY <1>1 DEF IsLists
  <2>1. Lists!Next \/ UNCHANGED listVars BY DEF MCNext, MCvars
  <2> QED BY <2>1, ListsStep, ListsIdle DEF ValuesInv
<1>5. (IsMazes => MazeInv)'
  <2> SUFFICES ASSUME IsMazes PROVE MazeInv' BY <1>1 DEF IsMazes
  <2>1. Maze!Next \/ UNCHANGED mazeVars BY DEF MCNext, MCvars
  <2> QED BY <2>1, MazesStep, MazesIdle DEF ValuesInv
<1>6. (IsString => TrimInv)'
  <2> SUFFICES ASSUME IsString PROVE TrimInv' BY <1>1 DEF IsString
  <2>1. Next \/ UNCHANGED vars BY DEF MCNext, MCvars
  <2> QED BY <2>1, StringStep, StringIdle DEF ValuesInv
<1>7. (IsDates => DateInv)'
  <2> SUFFICES ASSUME IsDates PROVE DateInv' BY <1>1 DEF IsDates
  <2>1. Dates!Next \/ UNCHANGED dateVars BY DEF MCNext, MCvars
  <2> QED BY <2>1, DatesStep, DatesIdle DEF ValuesInv
<1>8. (IsFractions => FracInv)'
  <2> SUFFICES ASSUME IsFractions PROVE FracInv' BY <1>1 DEF IsFractions
  <2>1. Fractions!Next \/ UNCHANGED fracVars BY DEF MCNext, MCvars
  <2> QED BY <2>1, FractionsStep, FractionsIdle DEF ValuesInv
<1> QED BY <1>2, <1>3, <1>4, <1>5, <1>6, <1>7, <1>8 DEF ValuesInv

(* Each piece keeps its inductive invariant: the strengthening that the    *)
(* theorem below is read from.                                             *)
THEOREM ValuesSafe == MCSpec => []ValuesInv
<1>1. MCSpec => MCInit /\ [][MCNext]_MCvars BY PTL DEF MCSpec
<1> QED BY <1>1, ValuesInit, ValuesStep, PTL

(* ObjectsRight, for any number of timers and clocks, names, nodes, items  *)
(* and mazes: the lists of observer_pattern.cpp hold the clocks that live  *)
(* and nobody is called after his end, copies of expressions keep their    *)
(* meaning whatever is assigned to, a list keeps what was stored while its *)
(* loops see all, and mazes share nothing and open for a reason, unless    *)
(* the user meddles.                                                       *)
THEOREM ObjectsKept == MCSpec => []ObjectsRight
<1>1. ValuesInv => ObjectsRight
  BY ObserversSafe, ExpressionsSafe, ListsSafe, MazesSafe DEF ValuesInv, ObjectsRight
<1> QED BY <1>1, ValuesSafe, PTL

(* TrimmedRight, for every text of every length: trim_string stays within  *)
(* its arrays, the first call leaves what is to be left and at most one    *)
(* space more, and the second removes that.                                *)
THEOREM TextTrimmed == MCSpec => []TrimmedRight
<1>1. ValuesInv => TrimmedRight
  BY StringSafe DEF ValuesInv, TrimmedRight
<1> QED BY <1>1, ValuesSafe, PTL

(* NumbersRight, for every date and every fraction: the conversions of     *)
(* Date.cpp are inverse to each other, follow the calendar from one day to *)
(* the next and agree with the days of the week, also after centuries; and *)
(* what an operation of Fraction.cpp leaves is in lowest terms and has the *)
(* value that it should, but that a fraction divided by itself, which      *)
(* should be 1, is one over its denominator.                               *)
THEOREM NumbersKept == MCSpec => []NumbersRight
<1>1. ValuesInv => NumbersRight
  BY DatesSafe, FractionsSafe DEF ValuesInv, NumbersRight
<1> QED BY <1>1, ValuesSafe, PTL
=============================================================================
