---------------------------- MODULE ApueDb_proofs ----------------------------
(***************************************************************************)
(* Proofs about ApueDb, for every set of keys and data, every hash and any *)
(* number of records; the last part is about KeyedStore and ApueDbScan.    *)
(***************************************************************************)
EXTENDS ApueDb, ApueDbScan, SequenceTheorems, WellFoundedInduction, TLAPS

(* The part of the type invariant every other fact rests on, and the fact  *)
(* that makes extents disjoint: record r and extent r were added together. *)
Shape ==
  /\ head \in [Chains -> 0 .. Len(idx)]
  /\ free \in 0 .. Len(idx)
  /\ idx \in Seq(IdxRec)
  /\ dat \in Seq(DatRec)
  /\ Len(dat) = Len(idx)
  /\ ptrval \in 0 .. Len(idx)

Paired ==
  \A r \in 1 .. Len(idx) : idx[r].dat = r /\ dat[r].key = idx[r].key

DbInv == Shape /\ Paired
-----------------------------------------------------------------------------
(* A record that a walk ends at is a record, and is the one wanted. *)
LEMMA WalkEnds ==
  ASSUME Shape, NEW h \in 0 .. Len(idx), NEW want \in SUBSET Recs, Hits(h, want)
  PROVE  At(h, want) \in want /\ At(h, want) \in 1 .. Len(idx)
BY DEF Shape, Hits, At, Recs

LEMMA RecFound ==
  ASSUME DbInv, NEW k \in Keys, Present(k)
  PROVE  /\ Rec(k) \in 1 .. Len(idx)
         /\ idx[Rec(k)].key = k
         /\ Hash[k] \in Chains
         /\ head[Hash[k]] \in 1 .. Len(idx)
<1>1. Hash[k] \in Chains
  BY ConstAssumption
<1>2. head[Hash[k]] \in 0 .. Len(idx)
  BY <1>1 DEF DbInv, Shape
<1>3. Holding(k) \in SUBSET Recs
  BY DEF Holding
<1>4. Rec(k) \in Holding(k) /\ Rec(k) \in 1 .. Len(idx)
  BY <1>2, <1>3, WalkEnds DEF DbInv, Present, Rec, First
<1>5. head[Hash[k]] # 0
  BY DEF Present, Hits, First, None
<1> QED
  BY <1>1, <1>2, <1>4, <1>5 DEF Holding

(* Overwriting a record in place keeps the number and the other records. *)
LEMMA RecordUpdate ==
  ASSUME NEW s \in Seq(IdxRec), NEW i \in 1 .. Len(s), NEW e \in IdxRec
  PROVE  /\ [s EXCEPT ![i] = e] \in Seq(IdxRec)
         /\ Len([s EXCEPT ![i] = e]) = Len(s)
         /\ \A j \in 1 .. Len(s) : [s EXCEPT ![i] = e][j] = IF j = i THEN e ELSE s[j]
BY ExceptSeq

(* t is s but for the pointers, and for the key of record i, which is k. *)
Rewritten(t, s, i, k) ==
  /\ t \in Seq(IdxRec) /\ Len(t) = Len(s)
  /\ \A j \in 1 .. Len(s) : /\ t[j].key = IF j = i THEN k ELSE s[j].key
                            /\ t[j].dat = s[j].dat
                            /\ t[j].klen = s[j].klen /\ t[j].len = s[j].len

LEMMA PointedRewrites ==
  ASSUME NEW s, NEW t \in Seq(IdxRec), NEW i, NEW k, Rewritten(t, s, i, k),
         NEW r \in 1 .. Len(t), NEW p \in Nat
  PROVE  Rewritten(Pointed(t, r, p), s, i, k)
<1> DEFINE e == [t[r] EXCEPT !.ptr = p]
<1>1. t[r] \in IdxRec
  BY ElementOfSeq
<1>2. /\ e \in IdxRec /\ e.key = t[r].key /\ e.dat = t[r].dat
      /\ e.klen = t[r].klen /\ e.len = t[r].len
  BY <1>1 DEF IdxRec
<1>3. Pointed(t, r, p) = [t EXCEPT ![r] = e]
  BY DEF Pointed
<1> HIDE DEF e
<1> QED
  BY <1>2, <1>3, RecordUpdate DEF Rewritten

LEMMA FilledRewrites ==
  ASSUME NEW s, NEW t \in Seq(IdxRec), Rewritten(t, s, 0, Blank),
         NEW i \in 1 .. Len(t), NEW k \in Keys \cup {Blank}, NEW p \in Nat
  PROVE  Rewritten(Filled(t, i, k, p), s, i, k)
<1> DEFINE e == [t[i] EXCEPT !.key = k, !.ptr = p]
<1>1. t[i] \in IdxRec
  BY ElementOfSeq
<1>2. /\ e \in IdxRec /\ e.key = k /\ e.dat = t[i].dat
      /\ e.klen = t[i].klen /\ e.len = t[i].len
  BY <1>1 DEF IdxRec
<1>3. Filled(t, i, k, p) = [t EXCEPT ![i] = e]
  BY DEF Filled
<1> HIDE DEF e
<1> QED
  BY <1>2, <1>3, RecordUpdate DEF Rewritten

(* _db_dodelete blanks the key of one record and moves nothing. *)
LEMMA BlankedRewrites ==
  ASSUME DbInv, NEW c \in Chains, NEW r \in 1 .. Len(idx), head[c] # 0
  PROVE  Rewritten(Blanked(c, r), idx, r, Blank)
<1> DEFINE b == Filled(idx, r, Blank, free)
<1>1. idx \in Seq(IdxRec) /\ free \in Nat /\ ptrval \in Nat
  BY DEF DbInv, Shape
<1>2. Rewritten(idx, idx, 0, Blank)
  BY <1>1 DEF Rewritten
<1>3. Rewritten(b, idx, r, Blank)
  BY <1>1, <1>2, FilledRewrites
<1>4. head[c] \in 1 .. Len(idx)
  BY DEF DbInv, Shape
<1> HIDE DEF b
<1>5. b \in Seq(IdxRec) /\ Len(b) = Len(idx)
  BY <1>3 DEF Rewritten
<1>6. Rewritten(Pointed(b, head[c], ptrval), idx, r, Blank)
  BY <1>1, <1>3, <1>4, <1>5, PointedRewrites
<1> QED
  BY <1>3, <1>6 DEF Blanked, Cut, b

(* The same for the data file: t is s but for extent i, stored under k. *)
LEMMA ExtentUpdate ==
  ASSUME NEW s \in Seq(DatRec), NEW i \in 1 .. Len(s), NEW d \in DatRec
  PROVE  /\ [s EXCEPT ![i] = d] \in Seq(DatRec)
         /\ Len([s EXCEPT ![i] = d]) = Len(s)
         /\ \A j \in 1 .. Len(s) : [s EXCEPT ![i] = d][j] = IF j = i THEN d ELSE s[j]
BY ExceptSeq

LEMMA DatumType ==
  /\ \A k \in Keys, v \in Vals : Datum(k, v) \in DatRec /\ Datum(k, v).key = k
  /\ BlankDatum \in DatRec /\ BlankDatum.key = Blank
BY DEF Datum, BlankDatum, DatRec

LEMMA NewRecType ==
  ASSUME DbInv, NEW k \in Keys, NEW v \in Vals, NEW p \in Nat
  PROVE  /\ NewRec(k, v, p) \in IdxRec
         /\ NewRec(k, v, p).key = k
         /\ NewRec(k, v, p).dat = Len(idx) + 1
         /\ NewRec(k, v, p).klen = KeyLen[k] /\ NewRec(k, v, p).len = DatLen[v]
<1>1. KeyLen[k] \in Nat /\ DatLen[v] \in Nat
  BY ConstAssumption
<1>2. Len(dat) = Len(idx) /\ Len(idx) \in Nat
  BY LenProperties DEF DbInv, Shape
<1> QED
  BY <1>1, <1>2 DEF NewRec, IdxRec
-----------------------------------------------------------------------------
(* What a call does to the files: it overwrites record r and its extent,   *)
(* or it adds a record and an extent after blanking record r (0: none).    *)
Overwrites(r, k, d) ==
  /\ Rewritten(idx', idx, r, k)
  /\ dat' \in Seq(DatRec) /\ Len(dat') = Len(dat)
  /\ \A j \in 1 .. Len(dat) : dat'[j] = IF j = r THEN d ELSE dat[j]

Grows(r, k, v) ==
  /\ idx' \in Seq(IdxRec) /\ Len(idx') = Len(idx) + 1
  /\ dat' \in Seq(DatRec) /\ Len(dat') = Len(idx) + 1
  /\ idx'[Len(idx) + 1].key = k /\ idx'[Len(idx) + 1].dat = Len(idx) + 1
  /\ idx'[Len(idx) + 1].klen = KeyLen[k] /\ idx'[Len(idx) + 1].len = DatLen[v]
  /\ dat'[Len(idx) + 1] = Datum(k, v)
  /\ \A j \in 1 .. Len(idx) :
       /\ idx'[j].key = IF j = r THEN Blank ELSE idx[j].key
       /\ idx'[j].dat = idx[j].dat
       /\ idx'[j].klen = idx[j].klen /\ idx'[j].len = idx[j].len
       /\ dat'[j] = IF j = r THEN BlankDatum ELSE dat[j]

LEMMA StoreOverEffect ==
  ASSUME DbInv, NEW k \in Keys, NEW v \in Vals, NEW flag, StoreOver(k, v, flag)
  PROVE  /\ Rec(k) \in 1 .. Len(idx) /\ idx[Rec(k)].key = k
         /\ Overwrites(Rec(k), k, Datum(k, v))
<1> DEFINE r == Rec(k)
<1>1. r \in 1 .. Len(idx) /\ idx[r].key = k /\ idx[r].dat = r
  BY RecFound DEF StoreOver, DbInv, Paired
<1>2. dat' = [dat EXCEPT ![r] = Datum(k, v)] /\ idx' = idx
  BY <1>1 DEF StoreOver
<1> HIDE DEF r
<1>3. /\ dat' \in Seq(DatRec) /\ Len(dat') = Len(dat)
      /\ \A j \in 1 .. Len(dat) : dat'[j] = IF j = r THEN Datum(k, v) ELSE dat[j]
  BY <1>1, <1>2, ExtentUpdate, DatumType DEF DbInv, Shape
<1>4. Rewritten(idx', idx, r, k)
  BY <1>1, <1>2 DEF Rewritten, DbInv, Shape
<1> QED
  BY <1>1, <1>3, <1>4 DEF Overwrites, r

LEMMA DeleteEffect ==
  ASSUME DbInv, NEW k \in Keys, Delete(k)
  PROVE  /\ Rec(k) \in 1 .. Len(idx) /\ idx[Rec(k)].key = k
         /\ Overwrites(Rec(k), Blank, BlankDatum)
         /\ Hash[k] \in Chains /\ Rec(k) \in {head[Hash[k]], ptrval}
         /\ head' = [head EXCEPT ![Hash[k]] = HeadAfterCut(Hash[k], Rec(k))]
         /\ free' = Rec(k) /\ ptrval' = free
<1> DEFINE r == Rec(k)
           c == Hash[k]
<1>1. /\ r \in 1 .. Len(idx) /\ idx[r].key = k /\ idx[r].dat = r
      /\ c \in Chains /\ head[c] \in 1 .. Len(idx)
  BY RecFound DEF Delete, DbInv, Paired
<1>2. dat' = [dat EXCEPT ![r] = BlankDatum]
  BY <1>1 DEF Delete
<1>3. Rewritten(idx', idx, r, Blank)
  BY <1>1, BlankedRewrites DEF Delete
<1>4. r \in {head[c], ptrval}
  BY DEF Rec, At, First
<1>5. /\ dat' \in Seq(DatRec) /\ Len(dat') = Len(dat)
      /\ \A j \in 1 .. Len(dat) : dat'[j] = IF j = r THEN BlankDatum ELSE dat[j]
  <2> HIDE DEF r, c
  <2> QED
    BY <1>1, <1>2, ExtentUpdate, DatumType DEF DbInv, Shape
<1> QED
  BY <1>1, <1>3, <1>4, <1>5 DEF Overwrites, Delete

LEMMA StoreAppendEffect ==
  ASSUME DbInv, NEW k \in Keys, NEW v \in Vals, NEW flag, StoreAppend(k, v, flag)
  PROVE  /\ Grows(0, k, v)
         /\ Hash[k] \in Chains /\ Len(idx) \in Nat /\ Len(idx) + 1 <= MaxRec
         /\ head' = [head EXCEPT ![Hash[k]] = WritePtr(head[Hash[k]], Len(idx) + 1)]
         /\ free' = free /\ ptrval' = head[Hash[k]]
<1> DEFINE n == NewRec(k, v, First(k))
<1>1. Hash[k] \in Chains /\ First(k) \in 0 .. Len(idx) /\ Len(idx) \in Nat
  BY ConstAssumption, LenProperties DEF DbInv, Shape, First
<1>2. n \in IdxRec /\ n.key = k /\ n.dat = Len(idx) + 1 /\ n.klen = KeyLen[k] /\ n.len = DatLen[v]
  BY <1>1, NewRecType
<1>3. idx' = Append(idx, n) /\ dat' = Append(dat, Datum(k, v))
  BY DEF StoreAppend
<1> HIDE DEF n
<1>4. /\ idx' \in Seq(IdxRec) /\ Len(idx') = Len(idx) + 1
      /\ idx'[Len(idx) + 1] = n
      /\ \A j \in 1 .. Len(idx) : idx'[j] = idx[j]
  BY <1>2, <1>3 DEF DbInv, Shape
<1>5. /\ dat' \in Seq(DatRec) /\ Len(dat') = Len(idx) + 1
      /\ dat'[Len(idx) + 1] = Datum(k, v)
      /\ \A j \in 1 .. Len(idx) : dat'[j] = dat[j]
  BY <1>3, DatumType DEF DbInv, Shape
<1>6. Grows(0, k, v)
  BY <1>2, <1>4, <1>5 DEF Grows
<1> QED
  BY <1>1, <1>6 DEF StoreAppend, Added, First

(* What db_store finds in the free list, or takes for it. *)
LEMMA FreeFound ==
  ASSUME DbInv, NEW k \in Keys, NEW v \in Vals, Hits(free, Fitting(k, v))
  PROVE  /\ free \in 1 .. Len(idx)
         /\ At(free, Fitting(k, v)) \in 1 .. Len(idx)
         /\ At(free, Fitting(k, v)) \in {free, ptrval}
         /\ At(free, Fitting(k, v)) \in Fitting(k, v)
<1>1. Fitting(k, v) \in SUBSET Recs
  BY DEF Fitting
<1> QED
  BY <1>1, WalkEnds DEF DbInv, Shape, Hits, At, None

LEMMA StoreReuseEffect ==
  ASSUME DbInv, NEW k \in Keys, NEW v \in Vals, NEW flag, StoreReuse(k, v, flag),
         NEW f, f = At(free, Fitting(k, v))
  PROVE  /\ f \in 1 .. Len(idx) /\ f \in {free, ptrval} /\ free \in 1 .. Len(idx)
         /\ Overwrites(f, k, Datum(k, v))
         /\ Hash[k] \in Chains
         /\ head' = [head EXCEPT ![Hash[k]] = f]
         /\ free' = (IF f = free THEN ptrval ELSE free)
         /\ ptrval' = head[Hash[k]]
<1> DEFINE u == IF f = free THEN idx ELSE Pointed(idx, free, ptrval)
<1>1. /\ free \in 1 .. Len(idx) /\ f \in 1 .. Len(idx) /\ idx[f].dat = f
      /\ f \in {free, ptrval}
      /\ Hash[k] \in Chains /\ First(k) \in Nat
  BY ConstAssumption, FreeFound DEF StoreReuse, DbInv, Shape, Paired, First
<1>2. /\ free' = IF f = free THEN ptrval ELSE free
      /\ dat' = [dat EXCEPT ![f] = Datum(k, v)]
      /\ idx' = Filled(u, f, k, First(k))
      /\ head' = [head EXCEPT ![Hash[k]] = f]
      /\ ptrval' = First(k)
  BY <1>1 DEF StoreReuse
<1>3. idx \in Seq(IdxRec) /\ ptrval \in Nat /\ Rewritten(idx, idx, 0, Blank)
  <2>1. idx \in Seq(IdxRec) /\ ptrval \in Nat
    BY DEF DbInv, Shape
  <2> QED
    BY <2>1 DEF Rewritten
<1>4. Rewritten(u, idx, 0, Blank)
  BY <1>1, <1>3, PointedRewrites
<1> HIDE DEF u
<1>5. Rewritten(idx', idx, f, k)
  <2>1. u \in Seq(IdxRec) /\ f \in 1 .. Len(u)
    BY <1>1, <1>4 DEF Rewritten
  <2> QED
    BY <1>1, <1>2, <1>4, <2>1, FilledRewrites
<1>6. /\ dat' \in Seq(DatRec) /\ Len(dat') = Len(dat)
      /\ \A j \in 1 .. Len(dat) : dat'[j] = IF j = f THEN Datum(k, v) ELSE dat[j]
  BY <1>1, <1>2, ExtentUpdate, DatumType DEF DbInv, Shape
<1>7. Overwrites(f, k, Datum(k, v))
  BY <1>5, <1>6 DEF Overwrites
<1> QED
  BY <1>1, <1>2, <1>7 DEF First

LEMMA StoreMoveEffect ==
  ASSUME DbInv, NEW k \in Keys, NEW v \in Vals, NEW flag, StoreMove(k, v, flag)
  PROVE  /\ Rec(k) \in 1 .. Len(idx) /\ idx[Rec(k)].key = k
         /\ Grows(Rec(k), k, v)
         /\ Hash[k] \in Chains /\ Len(idx) \in Nat /\ Len(idx) + 1 <= MaxRec
         /\ Rec(k) \in {head[Hash[k]], ptrval}
         /\ ptrval' = HeadAfterCut(Hash[k], Rec(k)) /\ ptrval' \in 0 .. Len(idx)
         /\ head' = [head EXCEPT ![Hash[k]] = WritePtr(ptrval', Len(idx) + 1)]
         /\ free' = Rec(k)
<1> DEFINE r == Rec(k)
           c == Hash[k]
           p == HeadAfterCut(c, r)
           b == Blanked(c, r)
           d == [dat EXCEPT ![r] = BlankDatum]
           n == NewRec(k, v, p)
<1>1. /\ r \in 1 .. Len(idx) /\ idx[r].key = k /\ idx[r].dat = r
      /\ c \in Chains /\ head[c] \in 1 .. Len(idx)
  BY RecFound DEF StoreMove, DbInv, Paired
<1>2. p \in 0 .. Len(idx) /\ Len(idx) \in Nat
  BY <1>1, LenProperties DEF HeadAfterCut, DbInv, Shape
<1>3. n \in IdxRec /\ n.key = k /\ n.dat = Len(idx) + 1 /\ n.klen = KeyLen[k] /\ n.len = DatLen[v]
  BY <1>2, NewRecType
<1>4. Rewritten(b, idx, r, Blank)
  BY <1>1, BlankedRewrites
<1>5. /\ d \in Seq(DatRec) /\ Len(d) = Len(idx)
      /\ \A j \in 1 .. Len(idx) : d[j] = IF j = r THEN BlankDatum ELSE dat[j]
  BY <1>1, ExtentUpdate, DatumType DEF DbInv, Shape
<1>6. /\ idx' = Append(b, n) /\ dat' = Append(d, Datum(k, v))
      /\ ptrval' = p /\ free' = r
      /\ head' = [head EXCEPT ![c] = WritePtr(p, Len(idx) + 1)]
      /\ Len(idx) + 1 <= MaxRec
  BY <1>1 DEF StoreMove, Added
<1>7. r \in {head[c], ptrval}
  BY DEF Rec, At, First
<1>8. Grows(r, k, v)
  <2> HIDE DEF r, c, p, b, d, n
  <2>1. /\ idx' \in Seq(IdxRec) /\ Len(idx') = Len(idx) + 1
        /\ idx'[Len(idx) + 1] = n
        /\ \A j \in 1 .. Len(idx) : idx'[j] = b[j]
    BY <1>3, <1>4, <1>6 DEF Rewritten
  <2>2. /\ dat' \in Seq(DatRec) /\ Len(dat') = Len(idx) + 1
        /\ dat'[Len(idx) + 1] = Datum(k, v)
        /\ \A j \in 1 .. Len(idx) : dat'[j] = d[j]
    BY <1>5, <1>6, DatumType
  <2> QED
    BY <1>3, <1>4, <1>5, <2>1, <2>2 DEF Grows, Rewritten
<1> HIDE DEF r, c, p
<1>9. ptrval' = p /\ ptrval' \in 0 .. Len(idx) /\ head' = [head EXCEPT ![c] = WritePtr(ptrval', Len(idx) + 1)]
  BY <1>2, <1>6
<1> QED
  BY <1>1, <1>2, <1>6, <1>7, <1>8, <1>9 DEF r, c, p
-----------------------------------------------------------------------------
LEMMA OverwritesInv ==
  ASSUME DbInv, NEW r \in 1 .. Len(idx), NEW k, NEW d, d.key = k, Overwrites(r, k, d),
         head' \in [Chains -> 0 .. Len(idx)],
         free' \in 0 .. Len(idx), ptrval' \in 0 .. Len(idx)
  PROVE  DbInv'
<1>1. Shape'
  BY DEF DbInv, Shape, Overwrites, Rewritten
<1>2. Paired'
  BY DEF DbInv, Shape, Paired, Overwrites, Rewritten
<1> QED
  BY <1>1, <1>2 DEF DbInv

LEMMA GrowsInv ==
  ASSUME DbInv, Len(idx) \in Nat, NEW r, NEW k \in Keys, NEW v \in Vals, Grows(r, k, v),
         head' \in [Chains -> 0 .. Len(idx) + 1],
         free' \in 0 .. Len(idx), ptrval' \in 0 .. Len(idx)
  PROVE  DbInv'
<1>1. Shape'
  BY DEF DbInv, Shape, Grows
<1>2. Paired'
  BY DatumType DEF DbInv, Paired, Grows
<1> QED
  BY <1>1, <1>2 DEF DbInv

LEMMA ChainEnd == \A p \in Nat, n \in Nat : WritePtr(p, n) \in {p, n}
BY DEF WritePtr

(* The actions that leave both files alone; only an open or a close resets *)
(* ptrval.                                                                 *)
Quiet == UNCHANGED file /\ ptrval' \in {ptrval, None}

LEMMA QuietInv == DbInv /\ Quiet => DbInv'
BY DEF Quiet, file, DbInv, Shape, Paired, None

LEMMA QuietActions ==
  /\ Open \/ Close \/ Rewind \/ NextRec => Quiet
  /\ \A k \in Keys : Fetch(k) \/ DeleteAbsent(k) \/ Hang(k) => Quiet
  /\ \A k \in Keys, v \in Vals, flag \in Flags :
       StoreRefused(k, v, flag) \/ StoreInvalid(k, v) => Quiet
  /\ UNCHANGED vars => Quiet
BY DEF Quiet, Open, Close, Rewind, NextRec, Fetch, DeleteAbsent, Hang,
       StoreRefused, StoreInvalid, handle, vars

LEMMA EmptyFiles ==
  ASSUME head = [c \in Chains |-> None], free = None, idx = <<>>, dat = <<>>,
         ptrval = None
  PROVE  DbInv
BY DEF DbInv, Shape, Paired, None

LEMMA DbInvInit == Init => DbInv
BY EmptyFiles DEF Init, Format

LEMMA DbInvStep == DbInv /\ [Next]_vars => DbInv'
<1> SUFFICES ASSUME DbInv, [Next]_vars PROVE DbInv'
  OBVIOUS
<1>0. /\ head \in [Chains -> 0 .. Len(idx)]
      /\ free \in 0 .. Len(idx) /\ ptrval \in 0 .. Len(idx)
  BY DEF DbInv, Shape
<1>1. CASE Create
  BY <1>1 DEF Create, DbInv, Shape, Paired, None
<1>2. CASE Quiet
  BY <1>2, QuietInv
<1>3. ASSUME NEW k \in Keys, Delete(k)
      PROVE  DbInv'
  <2>1. HeadAfterCut(Hash[k], Rec(k)) \in 0 .. Len(idx)
    BY <1>0, <1>3, DeleteEffect DEF HeadAfterCut
  <2>2. head' \in [Chains -> 0 .. Len(idx)]
    BY <1>0, <1>3, <2>1, DeleteEffect
  <2> QED
    BY <1>0, <1>3, <2>2, DeleteEffect, OverwritesInv, DatumType
<1>4. ASSUME NEW k \in Keys, NEW v \in Vals, NEW flag \in Flags, Store(k, v, flag)
      PROVE  DbInv'
  <2>1. CASE StoreInvalid(k, v) \/ StoreRefused(k, v, flag)
    BY <1>2, <2>1, QuietActions
  <2>2. CASE StoreAppend(k, v, flag)
    <3>1. WritePtr(head[Hash[k]], Len(idx) + 1) \in 0 .. Len(idx) + 1
      BY <1>0, <2>2, StoreAppendEffect, ChainEnd
    <3>2. head' \in [Chains -> 0 .. Len(idx) + 1]
      BY <1>0, <2>2, <3>1, StoreAppendEffect
    <3> QED
      BY <1>0, <2>2, <3>2, StoreAppendEffect, GrowsInv
  <2>3. CASE StoreReuse(k, v, flag)
    <3> DEFINE f == At(free, Fitting(k, v))
    <3> HIDE DEF f
    <3>1. /\ f \in 1 .. Len(idx) /\ Overwrites(f, k, Datum(k, v))
          /\ head' \in [Chains -> 0 .. Len(idx)]
          /\ free' \in 0 .. Len(idx) /\ ptrval' \in 0 .. Len(idx)
      BY <1>0, <2>3, StoreReuseEffect DEF f
    <3> QED
      BY <3>1, OverwritesInv, DatumType
  <2>4. CASE StoreMove(k, v, flag)
    <3>1. WritePtr(ptrval', Len(idx) + 1) \in 0 .. Len(idx) + 1
      BY <2>4, StoreMoveEffect, ChainEnd
    <3>2. head' \in [Chains -> 0 .. Len(idx) + 1]
      BY <1>0, <2>4, <3>1, StoreMoveEffect
    <3>3. free' \in 0 .. Len(idx) /\ ptrval' \in 0 .. Len(idx)
      BY <2>4, StoreMoveEffect
    <3> QED
      BY <2>4, <3>2, <3>3, StoreMoveEffect, GrowsInv
  <2>5. CASE StoreOver(k, v, flag)
    <3>1. UNCHANGED <<head, free, ptrval>>
      BY <2>5 DEF StoreOver
    <3> QED
      BY <1>0, <2>5, <3>1, StoreOverEffect, OverwritesInv, DatumType
  <2> QED
    BY <1>4, <2>1, <2>2, <2>3, <2>4, <2>5 DEF Store
<1> QED
  BY <1>1, <1>2, <1>3, <1>4, QuietActions DEF Next

THEOREM DbInvariant == Spec => []DbInv
BY DbInvInit, DbInvStep, PTL DEF Spec

-----------------------------------------------------------------------------
(* The rest of the type invariant: the position of idxfd, the phase of the *)
(* handle and the answer of the last call.                                 *)
CallInv ==
  /\ pos \in 0 .. Len(idx) + 1
  /\ phase \in {"closed", "open", "spinning"}
  /\ out \in Answer

LEMMA PosFound ==
  ASSUME DbInv, NEW k \in Keys
  PROVE  PosAfterFind(k) \in 0 .. Len(idx) + 1
<1>1. First(k) \in 0 .. Len(idx) /\ ptrval \in 0 .. Len(idx) /\ Len(idx) \in Nat
  BY ConstAssumption, LenProperties DEF DbInv, Shape, First
<1> QED
  BY <1>1 DEF PosAfterFind, Astray, None

(* What a record found leads to. *)
LEMMA DataRead ==
  ASSUME DbInv, NEW r \in 1 .. Len(idx)
  PROVE  /\ idx[r].key \in Keys \cup {Blank}
         /\ dat[idx[r].dat].val \in Vals \cup {Blank}
<1>1. idx[r] \in IdxRec /\ idx[r].dat = r /\ dat[r] \in DatRec
  BY ElementOfSeq DEF DbInv, Shape, Paired
<1> QED
  BY <1>1 DEF IdxRec, DatRec

LEMMA CallInvStep ==
  ASSUME DbInv, CallInv, [Next]_vars
  PROVE  CallInv'
<1> USE DEF Astray, None
<1>0. Len(idx) \in Nat /\ DOMAIN idx = 1 .. Len(idx)
  BY LenProperties DEF DbInv, Shape
<1>1. CASE Create \/ Open \/ Close \/ Rewind
  BY <1>0, <1>1 DEF Create, Open, Close, Rewind, file, CallInv, Return, Answer, Calls
<1>2. CASE NextRec
  <2>1. phase' = phase /\ idx' = idx
    BY <1>2 DEF NextRec, file
  <2>2. CASE \E r \in Ahead : pos' = r + 1 /\ Return("next", idx[r].key, dat[idx[r].dat].val, 0)
    <3> PICK r \in Ahead : pos' = r + 1 /\ Return("next", idx[r].key, dat[idx[r].dat].val, 0)
      BY <2>2
    <3>1. r \in 1 .. Len(idx)
      BY <1>0 DEF Ahead, Recs
    <3>2. out' \in Answer
      BY <3>1, DataRead DEF Return, Answer, Calls
    <3> QED
      BY <1>0, <2>1, <3>1, <3>2 DEF CallInv
  <2>3. CASE pos' = Added /\ Return("next", Blank, Blank, -1)
    BY <1>0, <2>1, <2>3 DEF Added, CallInv, Return, Answer, Calls
  <2> QED
    BY <1>2, <2>2, <2>3 DEF NextRec
<1>3. ASSUME NEW k \in Keys, Fetch(k)
      PROVE  CallInv'
  <2>1. out' \in Answer
    <3>1. CASE Present(k) /\ Return("fetch", k, dat[idx[Rec(k)].dat].val, 0)
      BY <3>1, RecFound, DataRead DEF Return, Answer, Calls
    <3>2. CASE Return("fetch", k, Blank, -1)
      BY <3>2 DEF Return, Answer, Calls
    <3> QED
      BY <1>3, <3>1, <3>2 DEF Fetch
  <2> QED
    BY <1>3, <2>1, PosFound DEF Fetch, file, CallInv
<1>4. ASSUME NEW k \in Keys, Delete(k)
      PROVE  CallInv'
  <2>1. Len(idx') = Len(idx)
    BY <1>4, DeleteEffect DEF Overwrites, Rewritten
  <2> QED
    BY <1>0, <1>4, <2>1 DEF Delete, CallInv, Return, Answer, Calls
<1>5. ASSUME NEW k \in Keys, DeleteAbsent(k)
      PROVE  CallInv'
  BY <1>5, PosFound DEF DeleteAbsent, file, CallInv, Return, Answer, Calls
<1>6. ASSUME NEW k \in Keys, Hang(k)
      PROVE  CallInv'
  BY <1>6 DEF Hang, file, CallInv
<1>7. ASSUME NEW k \in Keys, NEW v \in Vals, NEW flag \in Flags, Store(k, v, flag)
      PROVE  CallInv'
  <2>1. CASE StoreInvalid(k, v)
    BY <2>1 DEF StoreInvalid, file, handle, CallInv, Return, Answer, Calls
  <2>2. CASE StoreRefused(k, v, flag)
    BY <2>2, PosFound DEF StoreRefused, file, CallInv, Return, Answer, Calls
  <2>3. CASE StoreAppend(k, v, flag)
    <3>1. Len(idx') = Len(idx) + 1
      BY <2>3, StoreAppendEffect DEF Grows
    <3> QED
      BY <1>0, <2>3, <3>1 DEF StoreAppend, PosAfterAppend, Added, CallInv, Return, Answer, Calls
  <2>4. CASE StoreReuse(k, v, flag)
    <3>1. Len(idx') = Len(idx)
      BY <2>4, StoreReuseEffect DEF Overwrites, Rewritten
    <3> QED
      BY <1>0, <2>4, <3>1 DEF StoreReuse, CallInv, Return, Answer, Calls
  <2>5. CASE StoreMove(k, v, flag)
    <3>1. Len(idx') = Len(idx) + 1
      BY <2>5, StoreMoveEffect DEF Grows
    <3> QED
      BY <1>0, <2>5, <3>1 DEF StoreMove, PosAfterAppend, Added, CallInv, Return, Answer, Calls
  <2>6. CASE StoreOver(k, v, flag)
    BY <2>6, PosFound DEF StoreOver, CallInv, Return, Answer, Calls
  <2> QED
    BY <1>7, <2>1, <2>2, <2>3, <2>4, <2>5, <2>6 DEF Store
<1>8. CASE UNCHANGED vars
  BY <1>8 DEF vars, file, handle, CallInv
<1> QED
  BY <1>1, <1>2, <1>3, <1>4, <1>5, <1>6, <1>7, <1>8 DEF Next

(* The variables keep their types, and the two files grow together. *)
THEOREM TypeCorrect == Spec => []TypeOK
<1>1. Init => CallInv
  BY DEF Init, Format, CallInv, Answer, Calls, None
<1>2. DbInv /\ CallInv => TypeOK
  BY DEF DbInv, Shape, CallInv, TypeOK
<1> QED
  BY <1>1, <1>2, CallInvStep, DbInvariant, PTL DEF Spec

(* A fetch answers only with data stored under its key, and what is        *)
(* deleted is erased.                                                      *)
THEOREM DataIsOwn == Spec => []OwnData
<1>1. DbInv => OwnData
  BY LenProperties DEF DbInv, Shape, Paired, OwnData, Recs
<1> QED
  BY <1>1, DbInvariant, PTL
-----------------------------------------------------------------------------
(* While every record can be pointed at, the three places ptrval is        *)
(* exchanged between stay without duplicates.                              *)
PointersFit == MaxRec <= PTR_MAX

LEMMA NewPointer ==
  ASSUME PointersFit, NEW n \in Nat, n <= MaxRec, NEW p
  PROVE  WritePtr(p, n) = n
BY ConstAssumption DEF PointersFit, WritePtr

LEMMA PtrsDistinctStep ==
  ASSUME PointersFit, DbInv, PtrsDistinct, [Next]_vars
  PROVE  PtrsDistinct'
<1> USE DEF None
<1>0. /\ head \in [Chains -> 0 .. Len(idx)]
      /\ free \in 0 .. Len(idx) /\ ptrval \in 0 .. Len(idx)
  BY DEF DbInv, Shape
<1>1. CASE Create
  BY <1>1 DEF Create, PtrsDistinct
<1>2. CASE Quiet
  BY <1>2 DEF Quiet, file, PtrsDistinct
<1>3. ASSUME NEW k \in Keys, Delete(k)
      PROVE  PtrsDistinct'
  BY <1>0, <1>3, DeleteEffect DEF HeadAfterCut, PtrsDistinct
<1>4. ASSUME NEW k \in Keys, NEW v \in Vals, NEW flag \in Flags, StoreAppend(k, v, flag)
      PROVE  PtrsDistinct'
  <2>1. head' = [head EXCEPT ![Hash[k]] = Len(idx) + 1]
    BY <1>4, StoreAppendEffect, NewPointer
  <2>2. /\ Hash[k] \in Chains /\ Len(idx) \in Nat
        /\ free' = free /\ ptrval' = head[Hash[k]]
    BY <1>4, StoreAppendEffect
  <2> QED
    BY <1>0, <2>1, <2>2 DEF PtrsDistinct
<1>5. ASSUME NEW k \in Keys, NEW v \in Vals, NEW flag \in Flags, StoreReuse(k, v, flag)
      PROVE  PtrsDistinct'
  <2> DEFINE f == At(free, Fitting(k, v))
  <2> HIDE DEF f
  <2>1. /\ f \in {free, ptrval} /\ f # 0 /\ free # 0 /\ Hash[k] \in Chains
        /\ head' = [head EXCEPT ![Hash[k]] = f]
        /\ free' = (IF f = free THEN ptrval ELSE free)
        /\ ptrval' = head[Hash[k]]
    BY <1>5, StoreReuseEffect DEF f
  <2> QED
    BY <1>0, <2>1 DEF PtrsDistinct
<1>6. ASSUME NEW k \in Keys, NEW v \in Vals, NEW flag \in Flags, StoreMove(k, v, flag)
      PROVE  PtrsDistinct'
  <2>1. head' = [head EXCEPT ![Hash[k]] = Len(idx) + 1]
    BY <1>6, StoreMoveEffect, NewPointer
  <2>2. /\ Hash[k] \in Chains /\ Len(idx) \in Nat
        /\ Rec(k) \in 1 .. Len(idx) /\ Rec(k) \in {head[Hash[k]], ptrval}
        /\ free' = Rec(k)
        /\ ptrval' = IF Rec(k) = head[Hash[k]] THEN ptrval ELSE head[Hash[k]]
    BY <1>6, StoreMoveEffect DEF HeadAfterCut
  <2> QED
    BY <1>0, <2>1, <2>2 DEF PtrsDistinct
<1>7. ASSUME NEW k \in Keys, NEW v \in Vals, NEW flag \in Flags, StoreOver(k, v, flag)
      PROVE  PtrsDistinct'
  BY <1>7 DEF StoreOver, PtrsDistinct
<1> QED
  BY <1>1, <1>2, <1>3, <1>4, <1>5, <1>6, <1>7, QuietActions DEF Next, Store

(* The stale pointer is never duplicated: no record heads two lists. *)
THEOREM NoSharedHead == ASSUME PointersFit PROVE Spec => []PtrsDistinct
<1>1. Init => PtrsDistinct
  BY DEF Init, Format, PtrsDistinct, None
<1>2. DbInv /\ PtrsDistinct /\ [Next]_vars => PtrsDistinct'
  BY PtrsDistinctStep
<1> QED
  BY <1>1, <1>2, DbInvariant, PTL DEF Spec
-----------------------------------------------------------------------------
(* With keys that do not collide, records in use are found at the head of  *)
(* their chains.                                                           *)
NoCollisions == \A j, k \in Keys : Hash[j] = Hash[k] => j = k

LiveInv == DbInv /\ PtrsDistinct /\ LiveAtHead

LEMMA LiveKey ==
  ASSUME DbInv, NEW r \in 1 .. Len(idx), idx[r].key # Blank
  PROVE  idx[r].key \in Keys
<1>1. idx[r] \in IdxRec
  BY ElementOfSeq DEF DbInv, Shape
<1> QED
  BY <1>1 DEF IdxRec

LEMMA RecIsHead ==
  ASSUME LiveInv, NEW k \in Keys, Present(k)
  PROVE  Rec(k) = head[Hash[k]]
BY RecFound, LenProperties, ConstAssumption DEF LiveInv, LiveAtHead, DbInv, Shape, Recs

(* A record that holds an absent key cannot be in use. *)
LEMMA AbsentNotLive ==
  ASSUME LiveInv, NEW k \in Keys, ~Present(k), NEW s \in 1 .. Len(idx)
  PROVE  idx[s].key # k
<1> SUFFICES ASSUME idx[s].key = k PROVE FALSE
  OBVIOUS
<1>1. Recs = 1 .. Len(idx)
  BY LenProperties DEF LiveInv, DbInv, Shape, Recs
<1>2. head[Hash[k]] = s
  BY <1>1, ConstAssumption DEF LiveInv, LiveAtHead
<1> QED
  BY <1>1, <1>2 DEF Present, Hits, First, Holding, None

(* The shape of the steps that write to the index: in the new index every  *)
(* record in use is the new head h of the chain of k, and holds k, or it   *)
(* was there before under another key than k.                              *)
LEMMA LiveAfter ==
  ASSUME NoCollisions, LiveInv, DbInv', NEW k \in Keys, NEW h,
         head' = [head EXCEPT ![Hash[k]] = h],
         \A s \in 1 .. Len(idx') : idx'[s].key # Blank =>
           \/ s = h /\ idx'[s].key = k
           \/ s \in 1 .. Len(idx) /\ idx'[s].key = idx[s].key /\ idx[s].key # k
  PROVE  LiveAtHead'
<1> SUFFICES ASSUME NEW s \in 1 .. Len(idx'), idx'[s].key # Blank
             PROVE  head'[Hash[idx'[s].key]] = s
  BY LenProperties DEF DbInv, Shape, LiveAtHead, Recs
<1>1. head \in [Chains -> 0 .. Len(idx)] /\ Hash[k] \in Chains
  BY ConstAssumption DEF LiveInv, DbInv, Shape
<1>2. CASE s = h /\ idx'[s].key = k
  BY <1>1, <1>2
<1>3. CASE s \in 1 .. Len(idx) /\ idx'[s].key = idx[s].key /\ idx[s].key # k
  <2>1. idx[s].key \in Keys
    BY <1>3, LiveKey DEF LiveInv
  <2>2. head[Hash[idx[s].key]] = s
    BY <1>3, LenProperties DEF LiveInv, DbInv, Shape, LiveAtHead, Recs
  <2>3. Hash[idx[s].key] # Hash[k] /\ Hash[idx[s].key] \in Chains
    BY <1>3, <2>1, ConstAssumption DEF NoCollisions
  <2> QED
    BY <1>1, <1>3, <2>2, <2>3
<1> QED
  BY <1>2, <1>3

(* With one record for a key, blanking it leaves none. *)
LEMMA OneRecord ==
  ASSUME LiveInv, NEW k \in Keys, Present(k), NEW s \in 1 .. Len(idx), idx[s].key = k
  PROVE  s = Rec(k)
BY RecIsHead, LenProperties, ConstAssumption DEF LiveInv, LiveAtHead, DbInv, Shape, Recs

LEMMA LiveAtHeadStep ==
  ASSUME NoCollisions, PointersFit, LiveInv, [Next]_vars
  PROVE  LiveAtHead'
<1>0. DbInv /\ DbInv' /\ (Len(idx) \in Nat)
  BY DbInvStep, LenProperties DEF LiveInv, DbInv, Shape
<1>1. CASE Create
  BY <1>1 DEF Create, LiveAtHead, Recs
<1>2. CASE Quiet
  BY <1>2 DEF Quiet, file, LiveInv, LiveAtHead, Recs
<1>3. ASSUME NEW k \in Keys, Delete(k)
      PROVE  LiveAtHead'
  <2>1. Present(k)
    BY <1>3 DEF Delete
  <2>2. /\ head' = [head EXCEPT ![Hash[k]] = HeadAfterCut(Hash[k], Rec(k))]
        /\ Overwrites(Rec(k), Blank, BlankDatum)
    BY <1>0, <1>3, DeleteEffect
  <2>3. ASSUME NEW s \in 1 .. Len(idx'), idx'[s].key # Blank
        PROVE  s \in 1 .. Len(idx) /\ idx'[s].key = idx[s].key /\ idx[s].key # k
    BY <2>1, <2>2, <2>3, OneRecord DEF Overwrites, Rewritten
  <2> QED
    BY <1>0, <2>2, <2>3, LiveAfter
<1>4. ASSUME NEW k \in Keys, NEW v \in Vals, NEW flag \in Flags, StoreAppend(k, v, flag)
      PROVE  LiveAtHead'
  <2>1. /\ head' = [head EXCEPT ![Hash[k]] = Len(idx) + 1]
        /\ Grows(0, k, v) /\ ~Present(k)
    <3>1. ~Present(k)
      BY <1>4 DEF StoreAppend
    <3> QED
      BY <1>0, <1>4, <3>1, StoreAppendEffect, NewPointer
  <2>2. ASSUME NEW s \in 1 .. Len(idx'), idx'[s].key # Blank
        PROVE  \/ s = Len(idx) + 1 /\ idx'[s].key = k
               \/ s \in 1 .. Len(idx) /\ idx'[s].key = idx[s].key /\ idx[s].key # k
    BY <1>0, <2>1, <2>2, AbsentNotLive DEF Grows
  <2> QED
    BY <1>0, <2>1, <2>2, LiveAfter
<1>5. ASSUME NEW k \in Keys, NEW v \in Vals, NEW flag \in Flags, StoreReuse(k, v, flag)
      PROVE  LiveAtHead'
  <2> DEFINE f == At(free, Fitting(k, v))
  <2> HIDE DEF f
  <2>1. /\ head' = [head EXCEPT ![Hash[k]] = f]
        /\ Overwrites(f, k, Datum(k, v)) /\ ~Present(k)
    BY <1>0, <1>5, StoreReuseEffect DEF StoreReuse, f
  <2>2. ASSUME NEW s \in 1 .. Len(idx'), idx'[s].key # Blank
        PROVE  \/ s = f /\ idx'[s].key = k
               \/ s \in 1 .. Len(idx) /\ idx'[s].key = idx[s].key /\ idx[s].key # k
    BY <2>1, <2>2, AbsentNotLive DEF Overwrites, Rewritten
  <2> QED
    BY <1>0, <2>1, <2>2, LiveAfter
<1>6. ASSUME NEW k \in Keys, NEW v \in Vals, NEW flag \in Flags, StoreMove(k, v, flag)
      PROVE  LiveAtHead'
  <2>1. Present(k)
    BY <1>6 DEF StoreMove
  <2>2. /\ head' = [head EXCEPT ![Hash[k]] = Len(idx) + 1]
        /\ Grows(Rec(k), k, v)
    BY <1>0, <1>6, StoreMoveEffect, NewPointer
  <2>3. ASSUME NEW s \in 1 .. Len(idx'), idx'[s].key # Blank
        PROVE  \/ s = Len(idx) + 1 /\ idx'[s].key = k
               \/ s \in 1 .. Len(idx) /\ idx'[s].key = idx[s].key /\ idx[s].key # k
    BY <1>0, <2>1, <2>2, <2>3, OneRecord DEF Grows
  <2> QED
    BY <1>0, <2>2, <2>3, LiveAfter
<1>7. ASSUME NEW k \in Keys, NEW v \in Vals, NEW flag \in Flags, StoreOver(k, v, flag)
      PROVE  LiveAtHead'
  BY <1>7 DEF StoreOver, LiveInv, LiveAtHead, Recs
<1> QED
  BY <1>1, <1>2, <1>3, <1>4, <1>5, <1>6, <1>7, QuietActions DEF Next, Store

LEMMA LiveInvInit == Init => LiveInv
BY DbInvInit DEF Init, Format, LiveInv, PtrsDistinct, LiveAtHead, Recs, None

LEMMA LiveInvStep ==
  ASSUME NoCollisions, PointersFit
  PROVE  LiveInv /\ [Next]_vars => LiveInv'
BY DbInvStep, PtrsDistinctStep, LiveAtHeadStep DEF LiveInv

(* What is in the store is at the head of its chain, where it is found. *)
THEOREM LiveRecordsFound ==
  ASSUME NoCollisions, PointersFit
  PROVE  Spec => []LiveAtHead
<1>1. LiveInv => LiveAtHead
  BY DEF LiveInv
<1> QED
  BY <1>1, LiveInvInit, LiveInvStep, PTL DEF Spec

(* A walk that goes on for ever sees two records, and neither is in use.   *)
LEMMA UnusedOffHeads ==
  ASSUME LiveInv, NEW r \in Recs, \A c \in Chains : head[c] # r
  PROVE  idx[r].key = Blank
BY LiveKey, LenProperties, ConstAssumption DEF LiveInv, LiveAtHead, DbInv, Shape, Recs

LEMMA SpinSeesDeleted ==
  ASSUME NoCollisions, LiveInv, NEW h \in Recs, NEW want, Spins(h, want),
         idx[h].key = Blank, h # ptrval
  PROVE  \E r, s \in Recs : r # s /\ idx[r].key = Blank /\ idx[s].key = Blank
<1>1. ptrval # None /\ ptrval \in Recs
  BY LenProperties DEF Spins, LiveInv, DbInv, Shape, Recs, None
<1>2. \A c \in Chains : head[c] # ptrval
  BY <1>1 DEF LiveInv, PtrsDistinct
<1>3. idx[ptrval].key = Blank
  BY <1>1, <1>2, UnusedOffHeads
<1> QED
  BY <1>1, <1>3

LEMMA HangSeesDeleted ==
  ASSUME NoCollisions, LiveInv, NEW k \in Keys, Hang(k)
  PROVE  \E r, s \in Recs : r # s /\ idx[r].key = Blank /\ idx[s].key = Blank
<1>0. /\ head \in [Chains -> 0 .. Len(idx)] /\ free \in 0 .. Len(idx) /\ Recs = 1 .. Len(idx)
      /\ Hash[k] \in Chains /\ Len(idx) \in Nat
  BY LenProperties, ConstAssumption DEF LiveInv, DbInv, Shape, Recs
<1>1. CASE Spins(First(k), Holding(k))
  <2> DEFINE h == First(k)
  <2>1. h \in Recs /\ h = head[Hash[k]]
    BY <1>0, <1>1 DEF Spins, First, None
  <2>2. idx[h].key = Blank
    <3> SUFFICES ASSUME idx[h].key # Blank PROVE FALSE
      OBVIOUS
    <3>1. idx[h].key \in Keys /\ Hash[idx[h].key] \in Chains
      BY <1>0, <2>1, LiveKey, ConstAssumption DEF LiveInv
    <3>2. head[Hash[idx[h].key]] = h
      BY <2>1 DEF LiveInv, LiveAtHead
    <3>3. Hash[idx[h].key] = Hash[k]
      BY <1>0, <1>1, <2>1, <3>1, <3>2 DEF LiveInv, PtrsDistinct, Spins
    <3>4. idx[h].key = k
      BY <3>1, <3>3 DEF NoCollisions
    <3> QED
      BY <1>1, <2>1, <3>4 DEF Spins, Holding
  <2>3. h # ptrval
    BY <1>0, <1>1, <2>1 DEF Spins, LiveInv, PtrsDistinct
  <2> QED
    BY <1>1, <2>1, <2>2, <2>3, SpinSeesDeleted
<1>2. ASSUME NEW v \in Vals, Spins(free, Fitting(k, v))
      PROVE  \E r, s \in Recs : r # s /\ idx[r].key = Blank /\ idx[s].key = Blank
  <2>1. free \in Recs /\ free # None
    BY <1>0, <1>2 DEF Spins, None
  <2>2. \A c \in Chains : head[c] # free
    BY <2>1 DEF LiveInv, PtrsDistinct
  <2>3. idx[free].key = Blank
    BY <2>1, <2>2, UnusedOffHeads
  <2>4. free # ptrval
    BY <2>1 DEF LiveInv, PtrsDistinct
  <2> QED
    BY <1>2, <2>1, <2>3, <2>4, SpinSeesDeleted
<1> QED
  BY <1>1, <1>2 DEF Hang

(* Without collisions, callers whose deletes leave no two deleted records  *)
(* behind never wait for ever.                                             *)
THEOREM HangsSeeDeleted ==
  ASSUME NoCollisions, PointersFit
  PROVE  Spec => []HangsOnDeleted
<1>1. Init => HangsOnDeleted
  BY DEF Init, HangsOnDeleted
<1>2. LiveInv /\ HangsOnDeleted /\ [Next]_vars => HangsOnDeleted'
  <2> SUFFICES ASSUME LiveInv, HangsOnDeleted, [Next]_vars, phase' = "spinning"
               PROVE  (\E r, s \in Recs : r # s /\ idx[r].key = Blank /\ idx[s].key = Blank)'
    BY DEF HangsOnDeleted
  <2>1. ASSUME NEW k \in Keys, Hang(k)
        PROVE  (\E r, s \in Recs : r # s /\ idx[r].key = Blank /\ idx[s].key = Blank)'
    <3>1. idx' = idx
      BY <2>1 DEF Hang, file
    <3> QED
      BY <2>1, <3>1, HangSeesDeleted DEF Recs
  <2>2. CASE UNCHANGED vars
    BY <2>2 DEF vars, file, handle, HangsOnDeleted, Recs
  <2>3. Next => \E k \in Keys : Hang(k)
    BY DEF Next, Create, Open, Close, Rewind, NextRec, Fetch, Delete, DeleteAbsent, Store,
           StoreInvalid, StoreAppend, StoreReuse, StoreMove, StoreOver, StoreRefused, handle
  <2> QED
    BY <2>1, <2>2, <2>3
<1> QED
  BY <1>1, <1>2, LiveInvInit, LiveInvStep, PTL DEF Spec
-----------------------------------------------------------------------------
(* What is written over a record is as long as what was there: it is found *)
(* by its lengths, and the lengths never change.                           *)
LEMMA OverwritesFit ==
  ASSUME DbInv, ExactFit, NEW r \in 1 .. Len(idx), NEW k, NEW d, Overwrites(r, k, d),
         k # Blank => idx[r].klen = KeyLen[k] /\ idx[r].len = DatLen[d.val]
  PROVE  ExactFit'
<1>1. Recs = 1 .. Len(idx) /\ Recs' = 1 .. Len(idx) /\ Len(dat) = Len(idx)
  BY LenProperties DEF DbInv, Shape, Recs, Overwrites, Rewritten
<1> SUFFICES ASSUME NEW j \in 1 .. Len(idx), idx'[j].key # Blank
             PROVE  idx'[j].klen = KeyLen[idx'[j].key] /\ idx'[j].len = DatLen[dat'[idx'[j].dat].val]
  BY <1>1 DEF ExactFit
<1>2. /\ idx'[j].key = (IF j = r THEN k ELSE idx[j].key) /\ idx'[j].dat = j /\ idx[j].dat = j
      /\ idx'[j].klen = idx[j].klen /\ idx'[j].len = idx[j].len
      /\ dat'[j] = (IF j = r THEN d ELSE dat[j])
  BY <1>1 DEF Overwrites, Rewritten, DbInv, Paired
<1>3. j # r => idx[j].klen = KeyLen[idx[j].key] /\ idx[j].len = DatLen[dat[j].val]
  BY <1>1, <1>2 DEF ExactFit
<1> QED
  BY <1>2, <1>3

LEMMA GrowsFit ==
  ASSUME DbInv, ExactFit, Len(idx) \in Nat, NEW r, NEW k \in Keys, NEW v \in Vals, Grows(r, k, v)
  PROVE  ExactFit'
<1>1. Recs = 1 .. Len(idx) /\ Recs' = 1 .. Len(idx) + 1
  BY LenProperties DEF DbInv, Shape, Recs, Grows
<1> SUFFICES ASSUME NEW j \in 1 .. Len(idx) + 1, idx'[j].key # Blank
             PROVE  idx'[j].klen = KeyLen[idx'[j].key] /\ idx'[j].len = DatLen[dat'[idx'[j].dat].val]
  BY <1>1 DEF ExactFit
<1>2. CASE j = Len(idx) + 1
  <2>1. Datum(k, v).val = v
    BY DEF Datum
  <2> QED
    BY <1>2, <2>1 DEF Grows
<1>3. CASE j \in 1 .. Len(idx)
  <2>1. /\ idx'[j].key = (IF j = r THEN Blank ELSE idx[j].key) /\ idx'[j].dat = j /\ idx[j].dat = j
        /\ idx'[j].klen = idx[j].klen /\ idx'[j].len = idx[j].len
        /\ dat'[j] = (IF j = r THEN BlankDatum ELSE dat[j])
    BY <1>3 DEF Grows, DbInv, Paired
  <2>2. j # r => idx[j].klen = KeyLen[idx[j].key] /\ idx[j].len = DatLen[dat[j].val]
    BY <1>1, <1>3, <2>1 DEF ExactFit
  <2> QED
    BY <2>1, <2>2
<1> QED
  BY <1>2, <1>3

LEMMA ExactFitStep ==
  ASSUME DbInv, ExactFit, [Next]_vars
  PROVE  ExactFit'
<1>0. Len(idx) \in Nat /\ Recs = 1 .. Len(idx) /\ Blank \notin Keys
  BY LenProperties, ConstAssumption DEF DbInv, Shape, Recs
<1>1. CASE Create
  BY <1>1 DEF Create, ExactFit, Recs
<1>2. CASE Quiet
  BY <1>2 DEF Quiet, file, ExactFit, Recs
<1>3. ASSUME NEW k \in Keys, Delete(k)
      PROVE  ExactFit'
  BY <1>3, DeleteEffect, OverwritesFit
<1>4. ASSUME NEW k \in Keys, NEW v \in Vals, NEW flag \in Flags, Store(k, v, flag)
      PROVE  ExactFit'
  <2>1. CASE StoreInvalid(k, v) \/ StoreRefused(k, v, flag)
    BY <1>2, <2>1, QuietActions
  <2>2. CASE StoreAppend(k, v, flag)
    BY <1>0, <2>2, StoreAppendEffect, GrowsFit
  <2>3. CASE StoreReuse(k, v, flag)
    <3> DEFINE f == At(free, Fitting(k, v))
    <3>1. f \in Fitting(k, v)
      BY <2>3, FreeFound DEF StoreReuse
    <3>2. idx[f].klen = KeyLen[k] /\ idx[f].len = DatLen[v]
      BY <3>1 DEF Fitting
    <3> HIDE DEF f
    <3>3. f \in 1 .. Len(idx) /\ Overwrites(f, k, Datum(k, v))
      BY <2>3, StoreReuseEffect DEF f
    <3>4. Datum(k, v).val = v
      BY DEF Datum
    <3> QED
      BY <3>2, <3>3, <3>4, OverwritesFit
  <2>4. CASE StoreMove(k, v, flag)
    BY <1>0, <2>4, StoreMoveEffect, GrowsFit
  <2>5. CASE StoreOver(k, v, flag)
    <3> DEFINE r == Rec(k)
    <3>1. idx[r].len = DatLen[v]
      BY <2>5 DEF StoreOver
    <3>2. r \in 1 .. Len(idx) /\ idx[r].key = k /\ Overwrites(r, k, Datum(k, v))
      BY <2>5, StoreOverEffect
    <3> HIDE DEF r
    <3>3. idx[r].klen = KeyLen[k]
      BY <1>0, <3>2 DEF ExactFit
    <3>4. Datum(k, v).val = v
      BY DEF Datum
    <3> QED
      BY <3>1, <3>2, <3>3, <3>4, OverwritesFit
  <2> QED
    BY <1>4, <2>1, <2>2, <2>3, <2>4, <2>5 DEF Store
<1> QED
  BY <1>1, <1>2, <1>3, <1>4, QuietActions DEF Next

(* The text of a record never runs into the record behind it: what a store *)
(* writes over a record has the lengths that the record was made with.     *)
THEOREM RecordsFit == Spec => []ExactFit
<1>1. Init => ExactFit
  BY DEF Init, Format, ExactFit, Recs
<1> QED
  BY <1>1, ExactFitStep, DbInvariant, PTL DEF Spec
-----------------------------------------------------------------------------
(***************************************************************************)
(* Callers that only insert.  The pointers link the records of a chain     *)
(* that a pointer can hold, from the newest to the oldest.                 *)
(***************************************************************************)
Held(i, c, s) == s <= PTR_MAX /\ Hash[i[s].key] = c

(* Of the records of chain c before n that a pointer can hold, p is the    *)
(* newest, or None if there are none.                                      *)
Newest(i, c, n, p) ==
  /\ p \in 0 .. n - 1
  /\ p # None => Held(i, c, p)
  /\ \A s \in 1 .. n - 1 : Held(i, c, s) => s <= p

Threaded(h, i) ==
  /\ \A c \in Chains : Newest(i, c, Len(i) + 1, h[c])
  /\ \A r \in 1 .. Len(i) : i[r].key \in Keys /\ Newest(i, Hash[i[r].key], r, i[r].ptr)

InsertInv == free = None /\ Threaded(head, idx)

LEMMA LeastOf ==
  ASSUME NEW S, S \subseteq Nat, S # {}
  PROVE  \E x \in S : \A y \in S : x <= y
<1> DEFINE R == {ss \in Nat \X Nat : ss[1] < ss[2]}
<1>0. IsWellFoundedOn(R, Nat)
  BY NatLessThanWellFounded DEF OpToRel
<1> HIDE DEF R
<1>1. \E x \in S : \A y \in S : ~(<<y, x>> \in R)
  BY <1>0, WFMin
<1>2. ASSUME NEW x \in Nat, NEW y \in Nat, ~(<<y, x>> \in R) PROVE x <= y
  BY <1>2, SMT DEF R
<1> QED BY <1>1, <1>2

(* An append puts the new record before the head of its chain, or leaves   *)
(* it out if no pointer can hold it.                                       *)
LEMMA AppendThreads ==
  ASSUME DbInv, Threaded(head, idx), NEW k \in Keys, NEW v \in Vals,
         idx' = Append(idx, NewRec(k, v, First(k))),
         head' = [head EXCEPT ![Hash[k]] = WritePtr(@, Added)]
  PROVE  Threaded(head', idx')
<1> DEFINE L == Len(idx)
<1>1. /\ idx \in Seq(IdxRec) /\ L \in Nat /\ head \in [Chains -> 0 .. L]
      /\ Hash[k] \in Chains /\ PTR_MAX \in Nat
  BY LenProperties, ConstAssumption DEF DbInv, Shape
<1>2. First(k) \in Nat
  BY <1>1 DEF First
<1>3. NewRec(k, v, First(k)) \in IdxRec /\ NewRec(k, v, First(k)).key = k
  BY <1>2, NewRecType
<1>4. NewRec(k, v, First(k)).ptr = head[Hash[k]]
  BY DEF NewRec, First
<1>5. /\ Len(idx') = L + 1 /\ \A r \in 1 .. L : idx'[r] = idx[r]
      /\ idx'[L + 1].key = k /\ idx'[L + 1].ptr = head[Hash[k]]
  BY <1>1, <1>3, <1>4, AppendProperties
<1>6. ASSUME NEW c, NEW n \in 1 .. L + 1, NEW p, Newest(idx, c, n, p)
      PROVE  Newest(idx', c, n, p)
  BY <1>1, <1>5, <1>6 DEF Newest, Held, None
<1>7. ASSUME NEW r \in 1 .. L + 1
      PROVE  idx'[r].key \in Keys /\ Newest(idx', Hash[idx'[r].key], r, idx'[r].ptr)
  <2>1. CASE r = L + 1
    <3>1. Newest(idx, Hash[k], L + 1, head[Hash[k]])
      BY <1>1 DEF Threaded
    <3> QED BY <1>1, <1>5, <1>6, <2>1, <3>1
  <2>2. CASE r \in 1 .. L
    BY <1>1, <1>5, <1>6, <2>2 DEF Threaded
  <2> QED BY <1>1, <2>1, <2>2
<1>8. ASSUME NEW c \in Chains PROVE Newest(idx', c, L + 2, head'[c])
  <2>1. Newest(idx', c, L + 1, head[c])
    BY <1>1, <1>6 DEF Threaded
  <2>2. Held(idx', c, L + 1) <=> L + 1 <= PTR_MAX /\ c = Hash[k]
    BY <1>5 DEF Held
  <2>3. head'[c] = IF c = Hash[k] /\ L + 1 <= PTR_MAX THEN L + 1 ELSE head[c]
    BY <1>1 DEF WritePtr, Added
  <2> QED BY <1>1, <2>1, <2>2, <2>3 DEF Newest, None
<1> QED
  BY <1>1, <1>5, <1>7, <1>8 DEF Threaded

LEMMA InsertStep ==
  ASSUME DbInv, InsertInv, [NextInsert]_vars
  PROVE  InsertInv'
<1>1. CASE UNCHANGED file
  BY <1>1 DEF file, InsertInv
<1>2. ASSUME NEW k \in Keys, NEW v \in Vals, StoreAppend(k, v, "insert")
      PROVE  InsertInv'
  BY <1>2, AppendThreads DEF StoreAppend, InsertInv
<1>3. ASSUME NEW k \in Keys, NEW v \in Vals, Store(k, v, "insert")
      PROVE  UNCHANGED file \/ StoreAppend(k, v, "insert")
  <2>1. ~StoreReuse(k, v, "insert")
    BY DEF StoreReuse, Hits, InsertInv
  <2>2. ~StoreMove(k, v, "insert") /\ ~StoreOver(k, v, "insert")
    BY DEF StoreMove, StoreOver
  <2> QED BY <1>3, <2>1, <2>2 DEF Store, StoreInvalid, StoreRefused
<1>4. CASE Open \/ Close \/ UNCHANGED vars
  BY <1>1, <1>4 DEF Open, Close, vars
<1>5. ASSUME NEW k \in Keys, Fetch(k) \/ Hang(k) PROVE InsertInv'
  BY <1>1, <1>5 DEF Fetch, Hang
<1> QED
  BY <1>1, <1>2, <1>3, <1>4, <1>5 DEF NextInsert
-----------------------------------------------------------------------------
(* What the pointers lead to.  OnChain is a recursive function: any        *)
(* function that fulfils its equation will do, and the paths give one.     *)
Walk(c, f) ==
  f = [n \in Nat |-> IF n = 0 THEN {head[c]} ELSE Follow(f[n-1])]

LEMMA WalkIs == \A c \in Chains : OnChain(c) = (CHOOSE f : Walk(c, f))[Len(idx)]
BY DEF OnChain, Walk

Places == 0 .. Len(idx)

Path(c, m, p) ==
  /\ p \in [0 .. m -> Places] /\ p[0] = head[c]
  /\ \A i \in 0 .. m - 1 : p[i] # None /\ p[i + 1] = idx[p[i]].ptr

LEMMA WalkExists ==
  ASSUME DbInv, InsertInv, NEW c \in Chains
  PROVE  \E f : Walk(c, f)
<1> DEFINE g == [n \in Nat |-> {r \in Places : \E m \in 0 .. n : \E p : Path(c, m, p) /\ p[m] = r}]
<1>0. Len(idx) \in Nat /\ head[c] \in Places
  BY LenProperties DEF DbInv, Shape, Places
<1>1. \A r \in Places \ {None} : idx[r].ptr \in Places
  BY <1>0 DEF InsertInv, Threaded, Newest, None, Places
<1>2. g[0] = {head[c]}
  <2>1. Path(c, 0, [i \in 0 .. 0 |-> head[c]])
    BY <1>0 DEF Path
  <2>2. head[c] \in g[0]
    BY <1>0, <2>1
  <2>3. ASSUME NEW r \in g[0] PROVE r = head[c]
    BY <2>3 DEF Path
  <2> QED BY <2>2, <2>3
<1>3. ASSUME NEW n \in Nat, n # 0 PROVE g[n] = Follow(g[n - 1])
  <2>0. n - 1 \in Nat /\ 0 .. n - 1 \subseteq 0 .. n
    BY <1>3
  <2>1. ASSUME NEW r \in g[n] PROVE r \in Follow(g[n - 1])
    <3>0. PICK m \in 0 .. n : \E p : Path(c, m, p) /\ p[m] = r
      BY <2>1
    <3>1. PICK p : Path(c, m, p) /\ p[m] = r /\ r \in Places
      BY <2>1, <3>0
    <3>2. CASE m <= n - 1
      <4>1. r \in g[n - 1]
        BY <2>0, <3>1, <3>2
      <4> QED BY <4>1 DEF Follow
    <3>3. CASE m = n
      <4> DEFINE q == [i \in 0 .. n - 1 |-> p[i]]
      <4>1. Path(c, n - 1, q) /\ q[n - 1] = p[n - 1] /\ p[n - 1] \in Places
        BY <2>0, <1>3, <3>1, <3>3 DEF Path
      <4>2. p[n - 1] \in g[n - 1]
        <5> HIDE DEF q
        <5> QED BY <2>0, <4>1
      <4>3. p[n - 1] # None /\ r = idx[p[n - 1]].ptr
        <5>1. n - 1 \in 0 .. m - 1
          BY <2>0, <3>3
        <5>2. p[n - 1] # None /\ p[(n - 1) + 1] = idx[p[n - 1]].ptr
          BY <3>1, <5>1 DEF Path
        <5> QED BY <2>0, <3>1, <3>3, <5>2
      <4> QED BY <4>2, <4>3 DEF Follow
    <3> QED BY <1>3, <3>2, <3>3
  <2>2. ASSUME NEW r \in g[n - 1] PROVE r \in g[n]
    BY <2>0, <2>2
  <2>3. ASSUME NEW s \in g[n - 1], s # None PROVE idx[s].ptr \in g[n]
    <3>0. PICK m \in 0 .. n - 1 : \E p : Path(c, m, p) /\ p[m] = s
      BY <2>0, <2>3
    <3>1. PICK p : Path(c, m, p) /\ p[m] = s /\ s \in Places
      BY <2>0, <2>3, <3>0
    <3> DEFINE q == [i \in 0 .. m + 1 |-> IF i = m + 1 THEN idx[s].ptr ELSE p[i]]
    <3>2. idx[s].ptr \in Places
      BY <1>1, <2>3, <3>1
    <3>3. q \in [0 .. m + 1 -> Places] /\ q[0] = head[c] /\ q[m + 1] = idx[s].ptr
      BY <3>1, <3>2 DEF Path
    <3>4. ASSUME NEW i \in 0 .. m PROVE q[i] # None /\ q[i + 1] = idx[q[i]].ptr
      <4>1. CASE i = m
        BY <2>3, <3>1, <4>1
      <4>2. CASE i \in 0 .. m - 1
        BY <3>1, <4>2 DEF Path
      <4> QED BY <4>1, <4>2
    <3>5. Path(c, m + 1, q)
      <4>1. (m + 1) - 1 = m
        OBVIOUS
      <4> QED BY <3>3, <3>4, <4>1 DEF Path
    <3> HIDE DEF q
    <3>6. m + 1 \in 0 .. n
      BY <2>0
    <3> QED BY <3>2, <3>3, <3>5, <3>6
  <2> HIDE DEF g
  <2> QED BY <2>1, <2>2, <2>3 DEF Follow
<1>4. Walk(c, g)
  <2> DEFINE w == [n \in Nat |-> IF n = 0 THEN {head[c]} ELSE Follow(g[n-1])]
  <2>1. \A n \in Nat : g[n] = w[n]
    BY <1>2, <1>3
  <2>2. DOMAIN g = Nat /\ DOMAIN w = Nat
    OBVIOUS
  <2>3. g = [n \in Nat |-> g[n]] /\ w = [n \in Nat |-> w[n]]
    OBVIOUS
  <2>4. g = w
    BY <2>1, <2>2, <2>3, Zenon
  <2> QED BY <2>4, Zenon DEF Walk
<1> QED BY <1>4

(* Every record that a pointer can hold is reached: record r after no more *)
(* than Len(idx) - r pointers.                                             *)
LEMMA Reached ==
  ASSUME DbInv, InsertInv, NEW r \in Recs, r <= PTR_MAX
  PROVE  r \in OnChain(Hash[idx[r].key])
<1> DEFINE L == Len(idx)
           c == Hash[idx[r].key]
           f == CHOOSE g : Walk(c, g)
           Good(s) == Held(idx, c, s)
           Missed(n) == head[c] \notin f[n] \/ \E s \in 1 .. L : Good(s) /\ s >= L - n /\ s \notin f[n]
<1>1. L \in Nat /\ Recs = 1 .. L /\ PTR_MAX \in Nat
  BY LenProperties, ConstAssumption DEF DbInv, Shape, Recs
<1>2. c \in Chains
  BY <1>1, ConstAssumption DEF InsertInv, Threaded
<1>3. Walk(c, f)
  BY <1>2, WalkExists
<1>4. f[0] = {head[c]} /\ \A n \in Nat \ {0} : f[n] = Follow(f[n - 1])
  BY <1>3 DEF Walk
<1>5. Newest(idx, c, L + 1, head[c])
  BY <1>2 DEF InsertInv, Threaded
<1>6. \A s \in 1 .. L : Good(s) => Newest(idx, c, s, idx[s].ptr)
  BY DEF InsertInv, Threaded, Held
<1>7. OnChain(c) = f[L]
  BY <1>2, WalkIs
<1> HIDE DEF f
<1>8. \A n \in Nat : ~Missed(n)
  <2> SUFFICES ASSUME NEW b \in Nat, Missed(b) PROVE FALSE
    OBVIOUS
  <2> DEFINE S == {n \in Nat : Missed(n)}
  <2>1. PICK n \in S : \A y \in S : n <= y
    <3>1. S \subseteq Nat /\ S # {}
      OBVIOUS
    <3> HIDE DEF S
    <3> QED BY <3>1, LeastOf
  <2>2. n \in Nat /\ Missed(n)
    BY <2>1
  <2>3. CASE n = 0
    <3>1. PICK s \in 1 .. L : Good(s) /\ s >= L /\ s \notin f[0]
      BY <1>1, <1>4, <2>2, <2>3
    <3>2. s = L /\ head[c] = L
      BY <1>1, <1>5, <3>1 DEF Newest
    <3> QED BY <1>4, <3>1, <3>2
  <2>4. CASE n # 0
    <3>1. n - 1 \in Nat /\ n - 1 < n
      BY <2>2, <2>4
    <3>2. ~Missed(n - 1)
      <4>1. n - 1 \notin S
        BY <2>1, <2>2, <3>1
      <4> QED BY <3>1, <4>1
    <3>3. f[n - 1] \subseteq f[n] /\ \A s \in f[n - 1] : s # None => idx[s].ptr \in f[n]
      BY <1>4, <2>2, <2>4 DEF Follow
    <3>4. PICK t \in 1 .. L : Good(t) /\ t >= L - n /\ t \notin f[n]
      BY <2>2, <3>2, <3>3
    <3>5. t = L - n
      BY <1>1, <2>2, <3>2, <3>3, <3>4
    <3>6. head[c] \in 0 .. L /\ Good(head[c]) /\ head[c] > t
      BY <1>1, <1>5, <3>2, <3>3, <3>4 DEF Newest, None
    <3> DEFINE N == {s \in 1 .. L : Good(s) /\ s > t}
    <3>7. PICK s \in N : \A y \in N : s <= y
      <4>1. N \subseteq Nat /\ head[c] \in N
        BY <1>1, <3>4, <3>6
      <4> HIDE DEF N
      <4> QED BY <4>1, LeastOf
    <3>8. s \in 1 .. L /\ Good(s) /\ s > t /\ \A y \in 1 .. L : Good(y) /\ y > t => s <= y
      BY <3>7
    <3>9. Newest(idx, c, s, idx[s].ptr)
      BY <1>6, <3>8
    <3>10. idx[s].ptr \in 0 .. s - 1 /\ idx[s].ptr >= t
      BY <1>1, <3>4, <3>8, <3>9 DEF Newest
    <3>11. idx[s].ptr = t
      <4>1. idx[s].ptr # None /\ idx[s].ptr \in 1 .. L
        BY <1>1, <3>4, <3>8, <3>10 DEF None
      <4>2. Good(idx[s].ptr)
        BY <3>9, <4>1 DEF Newest
      <4> HIDE DEF Good
      <4> QED BY <1>1, <3>4, <3>8, <3>10, <4>1, <4>2
    <3>12. s \in f[n - 1]
      BY <1>1, <2>2, <3>2, <3>5, <3>8
    <3> QED BY <1>1, <3>3, <3>4, <3>8, <3>11, <3>12 DEF None
  <2> QED BY <2>3, <2>4
<1>9. Good(r) /\ r \in 1 .. L /\ r >= L - L
  BY <1>1 DEF Held
<1> QED BY <1>1, <1>7, <1>8, <1>9

(* While records are only added every record a pointer can hold is on its  *)
(* chain, whatever collides and however often the store is closed.         *)
THEOREM InsertLinks == SpecInsert => []Linked
<1>1. SpecInsert => Spec
  <2>1. [NextInsert]_vars => [Next]_vars
    BY DEF NextInsert, Next, Flags
  <2> QED BY <2>1, PTL DEF SpecInsert, Spec
<1>2. Init => InsertInv
  BY EmptySeq, ConstAssumption DEF Init, Format, InsertInv, Threaded, Newest, None, Held
<1>3. DbInv /\ InsertInv /\ [NextInsert]_vars => InsertInv'
  BY InsertStep
<1>4. DbInv /\ InsertInv => Linked
  BY Reached DEF Linked
<1>5. Spec => []DbInv
  BY DbInvInit, DbInvStep, PTL DEF Spec
<1> QED
  BY <1>1, <1>2, <1>3, <1>4, <1>5, PTL DEF SpecInsert
-----------------------------------------------------------------------------
(* Without collisions, and with pointers that fit, apue_db.c implements a  *)
(* map: every step of ApueDb is a step of KeyedStore.  And under the same  *)
(* two hypotheses a scan that nothing disturbs returns every key once.     *)

(* The refinement mapping, as a function of the two files. *)
ContentOf(i, d) ==
  [k \in Keys |-> IF {r \in DOMAIN i : i[r].key = k} = {} THEN Blank
                  ELSE d[i[CHOOSE r \in {r \in DOMAIN i : i[r].key = k} : TRUE].dat].val]

(* Files in which a key has one record, paired with extents. *)
Tidy(i, d) ==
  /\ DOMAIN i = 1 .. Len(i)
  /\ \A r \in 1 .. Len(i) : i[r].dat = r
  /\ \A r, s \in 1 .. Len(i) : i[r].key = i[s].key /\ i[r].key \in Keys => r = s

LEMMA ContentIs == Content = ContentOf(idx, dat)
BY DEF Content, ContentOf, Holding, Recs

LEMMA ContentAt ==
  ASSUME NEW i, NEW d, Tidy(i, d), NEW r \in 1 .. Len(i), i[r].key \in Keys
  PROVE  ContentOf(i, d)[i[r].key] = d[r].val
<1> DEFINE k == i[r].key
           H == {s \in DOMAIN i : i[s].key = k}
<1>1. H = {r}
  BY DEF Tidy
<1>2. (CHOOSE s \in H : TRUE) = r
  BY <1>1
<1>3. ContentOf(i, d)[k] = d[i[r].dat].val
  BY <1>1, <1>2 DEF ContentOf
<1> QED
  BY <1>3 DEF Tidy

LEMMA ContentBlank ==
  ASSUME NEW i, NEW d, Tidy(i, d), NEW k \in Keys,
         \A r \in 1 .. Len(i) : i[r].key # k
  PROVE  ContentOf(i, d)[k] = Blank
<1>1. {s \in DOMAIN i : i[s].key = k} = {}
  BY DEF Tidy
<1> QED
  BY <1>1 DEF ContentOf

(* A step that leaves the records of all keys but k as they are, and after *)
(* which v is what a record of k leads to, or k has no record and v is     *)
(* Blank, puts v under k.                                                  *)
KeepsOthers(i, d, i2, d2, k) ==
  /\ \A s \in 1 .. Len(i) : i[s].key \in Keys \ {k} =>
       s \in 1 .. Len(i2) /\ i2[s].key = i[s].key /\ d2[s].val = d[s].val
  /\ \A s \in 1 .. Len(i2) : i2[s].key \in Keys \ {k} =>
       s \in 1 .. Len(i) /\ i[s].key = i2[s].key

LEMMA OthersKept ==
  ASSUME NEW i, NEW d, NEW i2, NEW d2, Tidy(i, d), Tidy(i2, d2),
         NEW k \in Keys, KeepsOthers(i, d, i2, d2, k), NEW j \in Keys \ {k}
  PROVE  ContentOf(i2, d2)[j] = ContentOf(i, d)[j]
<1>1. CASE \E s \in 1 .. Len(i) : i[s].key = j
  <2> PICK s \in 1 .. Len(i) : i[s].key = j
    BY <1>1
  <2>1. s \in 1 .. Len(i2) /\ i2[s].key = j /\ d2[s].val = d[s].val
    BY DEF KeepsOthers
  <2>2. ContentOf(i, d)[j] = d[s].val
    BY ContentAt
  <2>3. ContentOf(i2, d2)[j] = d2[s].val
    BY <2>1, ContentAt
  <2> QED
    BY <2>1, <2>2, <2>3
<1>2. CASE \A s \in 1 .. Len(i) : i[s].key # j
  <2>1. \A s \in 1 .. Len(i2) : i2[s].key # j
    BY <1>2 DEF KeepsOthers
  <2> QED
    BY <1>2, <2>1, ContentBlank
<1> QED
  BY <1>1, <1>2

LEMMA ContentChange ==
  ASSUME NEW i, NEW d, NEW i2, NEW d2, Tidy(i, d), Tidy(i2, d2),
         NEW k \in Keys, KeepsOthers(i, d, i2, d2, k), NEW v, ContentOf(i2, d2)[k] = v
  PROVE  ContentOf(i2, d2) = [ContentOf(i, d) EXCEPT ![k] = v]
<1>1. \A j \in Keys \ {k} : ContentOf(i2, d2)[j] = ContentOf(i, d)[j]
  BY OthersKept
<1> DEFINE c == ContentOf(i, d)
           c2 == ContentOf(i2, d2)
<1>2. DOMAIN c = Keys /\ DOMAIN c2 = Keys /\ c2 = [j \in Keys |-> c2[j]]
  BY DEF ContentOf
<1> HIDE DEF c, c2
<1>3. c2 = [j \in Keys |-> IF j = k THEN v ELSE c[j]]
  BY <1>1, <1>2 DEF c, c2
<1>4. [c EXCEPT ![k] = v] = [j \in Keys |-> IF j = k THEN v ELSE c[j]]
  BY <1>2
<1> QED
  BY <1>3, <1>4 DEF c, c2
-----------------------------------------------------------------------------
(* Records in use hold a datum of a caller. *)
Valued == \A r \in 1 .. Len(idx) : idx[r].key # Blank => dat[r].val \in Vals

MapInv == LiveInv /\ Valued

LEMMA LiveTidy == LiveInv => Tidy(idx, dat)
<1> SUFFICES ASSUME LiveInv PROVE Tidy(idx, dat)
  OBVIOUS
<1>1. DOMAIN idx = 1 .. Len(idx)
  BY LenProperties DEF LiveInv, DbInv, Shape
<1>2. ASSUME NEW r \in 1 .. Len(idx), NEW s \in 1 .. Len(idx),
             idx[r].key = idx[s].key, idx[r].key \in Keys
      PROVE  r = s
  BY <1>1, <1>2, ConstAssumption DEF LiveInv, LiveAtHead, Recs
<1> QED
  BY <1>1, <1>2 DEF Tidy, LiveInv, DbInv, Paired

LEMMA LiveTidyNext == LiveInv' => Tidy(idx', dat')
<1>1. LiveInv' => Tidy(idx, dat)'
  BY LiveTidy, PTL
<1> QED
  BY <1>1 DEF Tidy

(* What a lookup finds is what the map holds. *)
LEMMA PresentContent ==
  ASSUME MapInv, NEW k \in Keys, Present(k)
  PROVE  /\ Content[k] = dat[idx[Rec(k)].dat].val
         /\ Content[k] \in Vals /\ Content[k] # Blank
<1>1. Rec(k) \in 1 .. Len(idx) /\ idx[Rec(k)].key = k /\ k # Blank
  BY RecFound, ConstAssumption DEF MapInv, LiveInv
<1>2. Content[k] = dat[Rec(k)].val
  BY <1>1, LiveTidy, ContentAt, ContentIs DEF MapInv
<1>3. idx[Rec(k)].dat = Rec(k)
  BY <1>1 DEF MapInv, LiveInv, DbInv, Paired
<1> QED
  BY <1>1, <1>2, <1>3, ConstAssumption DEF MapInv, Valued

LEMMA AbsentContent ==
  ASSUME MapInv, NEW k \in Keys, ~Present(k)
  PROVE  Content[k] = Blank
<1>1. \A r \in 1 .. Len(idx) : idx[r].key # k
  BY AbsentNotLive DEF MapInv
<1> QED
  BY <1>1, LiveTidy, ContentBlank, ContentIs DEF MapInv

(* Neither the head of the free list nor the record a walk along the list  *)
(* strays to is in use: both would then be at the head of a chain as well. *)
LEMMA FreeUnused ==
  ASSUME LiveInv, NEW f \in 1 .. Len(idx), f \in {free, ptrval}
  PROVE  idx[f].key = Blank
<1> SUFFICES ASSUME idx[f].key # Blank PROVE FALSE
  OBVIOUS
<1>1. idx[f].key \in Keys
  BY LiveKey DEF LiveInv
<1>2. head[Hash[idx[f].key]] = f
  BY LenProperties DEF LiveInv, DbInv, Shape, LiveAtHead, Recs
<1> QED
  BY <1>1, <1>2, ConstAssumption DEF LiveInv, PtrsDistinct, None

LEMMA OverwritePut ==
  ASSUME LiveInv, LiveInv', NEW k \in Keys, NEW v \in Vals, NEW r \in 1 .. Len(idx),
         idx[r].key \in {k, Blank}, Overwrites(r, k, Datum(k, v))
  PROVE  Content' = [Content EXCEPT ![k] = v]
<1>1. Tidy(idx, dat) /\ Tidy(idx', dat')
  BY LiveTidy, LiveTidyNext
<1>2. Len(dat) = Len(idx) /\ Blank \notin Keys
  BY ConstAssumption DEF LiveInv, DbInv, Shape
<1>3. KeepsOthers(idx, dat, idx', dat', k)
  BY <1>2 DEF KeepsOthers, Overwrites, Rewritten
<1>4. r \in 1 .. Len(idx') /\ idx'[r].key = k /\ dat'[r].val = v
  BY <1>2 DEF Overwrites, Rewritten, Datum
<1>5. ContentOf(idx', dat')[k] = v
  BY <1>1, <1>4, ContentAt
<1>6. ContentOf(idx', dat') = [ContentOf(idx, dat) EXCEPT ![k] = v]
  BY <1>1, <1>3, <1>5, ContentChange
<1>7. Content' = ContentOf(idx', dat')
  BY DEF Content, ContentOf, Holding, Recs
<1> QED
  BY <1>6, <1>7, ContentIs

LEMMA OverwriteRemove ==
  ASSUME LiveInv, LiveInv', NEW k \in Keys, Present(k), Overwrites(Rec(k), Blank, BlankDatum)
  PROVE  Content' = [Content EXCEPT ![k] = Blank]
<1>1. Tidy(idx, dat) /\ Tidy(idx', dat')
  BY LiveTidy, LiveTidyNext
<1>2. Len(dat) = Len(idx) /\ Blank \notin Keys /\ Rec(k) \in 1 .. Len(idx) /\ idx[Rec(k)].key = k
  BY ConstAssumption, RecFound DEF LiveInv, DbInv, Shape
<1>3. KeepsOthers(idx, dat, idx', dat', k)
  BY <1>2 DEF KeepsOthers, Overwrites, Rewritten
<1>4. \A s \in 1 .. Len(idx') : idx'[s].key # k
  BY <1>2, OneRecord DEF Overwrites, Rewritten
<1>5. ContentOf(idx', dat')[k] = Blank
  BY <1>1, <1>4, ContentBlank
<1>6. ContentOf(idx', dat') = [ContentOf(idx, dat) EXCEPT ![k] = Blank]
  BY <1>1, <1>3, <1>5, ContentChange
<1>7. Content' = ContentOf(idx', dat')
  BY DEF Content, ContentOf, Holding, Recs
<1> QED
  BY <1>6, <1>7, ContentIs

LEMMA GrowPut ==
  ASSUME LiveInv, LiveInv', NEW k \in Keys, NEW v \in Vals, NEW r, Grows(r, k, v),
         r # 0 => r \in 1 .. Len(idx) /\ idx[r].key = k
  PROVE  Content' = [Content EXCEPT ![k] = v]
<1>1. Tidy(idx, dat) /\ Tidy(idx', dat')
  BY LiveTidy, LiveTidyNext
<1>2. Len(idx) \in Nat /\ Blank \notin Keys
  BY ConstAssumption, LenProperties DEF LiveInv, DbInv, Shape
<1>3. KeepsOthers(idx, dat, idx', dat', k)
  BY <1>2 DEF KeepsOthers, Grows
<1>4. PICK s \in 1 .. Len(idx') : idx'[s].key = k /\ dat'[s].val = v
  <2>1. Len(idx) + 1 \in 1 .. Len(idx')
    BY <1>2 DEF Grows
  <2> QED
    BY <2>1 DEF Grows, Datum
<1>5. ContentOf(idx', dat')[k] = v
  BY <1>1, <1>4, ContentAt
<1>6. ContentOf(idx', dat') = [ContentOf(idx, dat) EXCEPT ![k] = v]
  BY <1>1, <1>3, <1>5, ContentChange
<1>7. Content' = ContentOf(idx', dat')
  BY DEF Content, ContentOf, Holding, Recs
<1> QED
  BY <1>6, <1>7, ContentIs
-----------------------------------------------------------------------------
LEMMA ValuedStep ==
  ASSUME MapInv, LiveInv', [Next]_vars
  PROVE  Valued'
<1>0. DbInv /\ Valued /\ Len(idx) \in Nat /\ Len(dat) = Len(idx)
  BY LenProperties DEF MapInv, LiveInv, DbInv, Shape
<1>1. CASE Create
  BY <1>1 DEF Create, Valued
<1>2. CASE Quiet
  BY <1>0, <1>2 DEF Quiet, file, Valued
<1>3. ASSUME NEW r \in 1 .. Len(idx), NEW k, NEW d, Overwrites(r, k, d),
             k # Blank => d.val \in Vals
      PROVE  Valued'
  BY <1>0, <1>3 DEF Overwrites, Rewritten, Valued
<1>4. ASSUME NEW r, NEW k, NEW v \in Vals, Grows(r, k, v)
      PROVE  Valued'
  BY <1>0, <1>4 DEF Grows, Valued, Datum
<1>5. ASSUME NEW k \in Keys, Delete(k)
      PROVE  Valued'
  BY <1>0, <1>3, <1>5, DeleteEffect
<1>6. ASSUME NEW k \in Keys, NEW v \in Vals, NEW flag \in Flags, Store(k, v, flag)
      PROVE  Valued'
  <2>0. Datum(k, v).val \in Vals
    BY DEF Datum
  <2>1. CASE StoreInvalid(k, v) \/ StoreRefused(k, v, flag)
    BY <1>2, <2>1, QuietActions
  <2>2. CASE StoreAppend(k, v, flag)
    BY <1>0, <1>4, <2>2, StoreAppendEffect
  <2>3. CASE StoreReuse(k, v, flag)
    <3> DEFINE f == At(free, Fitting(k, v))
    <3> HIDE DEF f
    <3>1. f \in 1 .. Len(idx) /\ Overwrites(f, k, Datum(k, v))
      BY <1>0, <2>3, StoreReuseEffect DEF f
    <3> QED
      BY <1>3, <2>0, <3>1
  <2>4. CASE StoreMove(k, v, flag)
    BY <1>0, <1>4, <2>4, StoreMoveEffect
  <2>5. CASE StoreOver(k, v, flag)
    BY <1>0, <1>3, <2>0, <2>5, StoreOverEffect
  <2> QED
    BY <1>6, <2>1, <2>2, <2>3, <2>4, <2>5 DEF Store
<1> QED
  BY <1>1, <1>2, <1>5, <1>6, QuietActions DEF Next

LEMMA SameContent == UNCHANGED file => UNCHANGED Content
BY DEF file, Content, Holding, Recs

LEMMA ContentDomain == \A k \in Keys : Content = [Content EXCEPT ![k] = Content[k]]
BY DEF Content

(* Every step of the store is a step of the map, or changes nothing. *)
LEMMA MapStep ==
  ASSUME MapInv, LiveInv', [Next]_vars
  PROVE  [Map!Next]_<<Content, out>>
<1>0. DbInv /\ LiveInv
  BY DEF MapInv, LiveInv
<1>1. CASE Create
  <2>1. Content' = [k \in Keys |-> Blank]
    BY <1>1 DEF Create, Content, Holding, Recs
  <2>2. Map!Empty
    BY <1>1, <2>1 DEF Create, Return, Map!Empty, Map!Return
  <2> QED
    BY <2>2 DEF Map!Next
<1>2. CASE Open \/ Close \/ Rewind
  <2>1. UNCHANGED file
    BY <1>2 DEF Open, Close, Rewind
  <2>2. Map!Keep
    BY <1>2, <2>1, SameContent DEF Open, Close, Rewind, Return, Map!Keep, Map!Return
  <2> QED
    BY <2>2 DEF Map!Next
<1>3. CASE NextRec
  <2>1. UNCHANGED Content
    BY <1>3, SameContent DEF NextRec
  <2>2. CASE \E r \in Ahead : Return("next", idx[r].key, dat[idx[r].dat].val, 0)
    <3> PICK r \in Ahead : Return("next", idx[r].key, dat[idx[r].dat].val, 0)
      BY <2>2
    <3>1. r \in 1 .. Len(idx) /\ idx[r].key # Blank
      BY LenProperties, <1>0 DEF Ahead, Recs, DbInv, Shape
    <3>2. idx[r].key \in Keys /\ idx[r].dat = r /\ dat[r].val \in Vals
      BY <1>0, <3>1, LiveKey DEF MapInv, Valued, DbInv, Paired
    <3>3. Content[idx[r].key] = dat[r].val
      BY <1>0, <3>1, <3>2, LiveTidy, ContentAt, ContentIs
    <3>4. Map!Scan
      BY <2>1, <3>2, <3>3, ConstAssumption DEF Return, Map!Scan, Map!Return
    <3> QED
      BY <3>4 DEF Map!Next
  <2>3. CASE Return("next", Blank, Blank, -1)
    BY <2>1, <2>3 DEF Return, Map!Next, Map!Scan, Map!Return
  <2> QED
    BY <1>3, <2>2, <2>3 DEF NextRec
<1>4. ASSUME NEW k \in Keys, Fetch(k)
      PROVE  Map!Get(k)
  <2>1. UNCHANGED Content
    BY <1>4, SameContent DEF Fetch
  <2>2. CASE Present(k)
    BY <1>4, <2>1, <2>2, PresentContent DEF Fetch, Return, Map!Get, Map!Return
  <2>3. CASE ~Present(k)
    BY <1>4, <2>1, <2>3, AbsentContent DEF Fetch, Return, Map!Get, Map!Return
  <2> QED
    BY <2>2, <2>3
<1>5. ASSUME NEW k \in Keys, Delete(k) \/ DeleteAbsent(k)
      PROVE  Map!Remove(k)
  <2>1. CASE Delete(k)
    <3>1. Present(k)
      BY <2>1 DEF Delete
    <3>2. Content' = [Content EXCEPT ![k] = Blank]
      BY <1>0, <2>1, <3>1, DeleteEffect, OverwriteRemove
    <3> QED
      BY <2>1, <3>1, <3>2, PresentContent DEF Delete, Return, Map!Remove, Map!Return
  <2>2. CASE DeleteAbsent(k)
    <3>1. Content[k] = Blank /\ UNCHANGED Content
      BY <2>2, AbsentContent, SameContent DEF DeleteAbsent
    <3>2. Content' = [Content EXCEPT ![k] = Blank]
      BY <3>1, ContentDomain
    <3> QED
      BY <2>2, <3>1, <3>2 DEF DeleteAbsent, Return, Map!Remove, Map!Return
  <2> QED
    BY <1>5, <2>1, <2>2
<1>6. ASSUME NEW k \in Keys, Hang(k)
      PROVE  UNCHANGED <<Content, out>>
  BY <1>6, SameContent DEF Hang
<1>7. ASSUME NEW k \in Keys, NEW v \in Vals, NEW flag \in Flags, Store(k, v, flag)
      PROVE  Map!Put(k, v, flag) \/ Map!Refuse(k, v, flag)
  <2>1. CASE StoreInvalid(k, v)
    BY <2>1, SameContent DEF StoreInvalid, Return, Map!Refuse, Map!Return
  <2>2. CASE StoreRefused(k, v, flag)
    <3>1. UNCHANGED Content
      BY <2>2, SameContent DEF StoreRefused
    <3> QED
      BY <2>2, <3>1, PresentContent, AbsentContent DEF StoreRefused, Return, Map!Refuse, Map!Return
  <2>3. ASSUME Content' = [Content EXCEPT ![k] = v], Storable(v), Return("store", k, v, 0),
               \/ flag # "replace" /\ Content[k] = Blank
               \/ flag # "insert" /\ Content[k] # Blank
        PROVE  Map!Put(k, v, flag)
    BY <2>3 DEF Return, Map!Put, Map!Return
  <2>4. CASE Storable(v) /\ StoreAppend(k, v, flag)
    <3>1. Content' = [Content EXCEPT ![k] = v]
      BY <1>0, <2>4, StoreAppendEffect, GrowPut
    <3>2. flag # "replace" /\ Content[k] = Blank /\ Return("store", k, v, 0)
      BY <2>4, AbsentContent DEF StoreAppend
    <3> QED
      BY <2>3, <2>4, <3>1, <3>2
  <2>5. CASE Storable(v) /\ StoreReuse(k, v, flag)
    <3> DEFINE f == At(free, Fitting(k, v))
    <3> HIDE DEF f
    <3>1. f \in 1 .. Len(idx) /\ f \in {free, ptrval} /\ Overwrites(f, k, Datum(k, v))
      BY <1>0, <2>5, StoreReuseEffect DEF f
    <3>2. Content' = [Content EXCEPT ![k] = v]
      BY <1>0, <3>1, FreeUnused, OverwritePut
    <3>3. flag # "replace" /\ Content[k] = Blank /\ Return("store", k, v, 0)
      BY <2>5, AbsentContent DEF StoreReuse
    <3> QED
      BY <2>3, <2>5, <3>2, <3>3
  <2>6. CASE Storable(v) /\ StoreMove(k, v, flag)
    <3>1. Content' = [Content EXCEPT ![k] = v]
      BY <1>0, <2>6, StoreMoveEffect, GrowPut
    <3>2. flag # "insert" /\ Content[k] # Blank /\ Return("store", k, v, 0)
      BY <2>6, PresentContent DEF StoreMove
    <3> QED
      BY <2>3, <2>6, <3>1, <3>2
  <2>7. CASE Storable(v) /\ StoreOver(k, v, flag)
    <3>1. Content' = [Content EXCEPT ![k] = v]
      BY <1>0, <2>7, StoreOverEffect, OverwritePut
    <3>2. flag # "insert" /\ Content[k] # Blank /\ Return("store", k, v, 0)
      BY <2>7, PresentContent DEF StoreOver
    <3> QED
      BY <2>3, <2>7, <3>1, <3>2
  <2> QED
    BY <1>7, <2>1, <2>2, <2>4, <2>5, <2>6, <2>7 DEF Store
<1>8. CASE UNCHANGED vars
  BY <1>8, SameContent DEF vars
<1> QED
  BY <1>1, <1>2, <1>3, <1>4, <1>5, <1>6, <1>7, <1>8 DEF Next, Map!Next, Flags

(* apue_db.c is a map from keys to data, for callers whose keys do not     *)
(* collide and whose index file stays within what a pointer can hold.      *)
THEOREM ImplementsMap ==
  ASSUME NoCollisions, PointersFit
  PROVE  Spec => IsMap
<1>1. Init => MapInv /\ Map!Init
  <2>1. Init => LiveInv /\ Valued
    BY LiveInvInit DEF Init, Format, Valued
  <2>2. Init => Content = [k \in Keys |-> Blank]
    BY DEF Init, Format, Content, Holding, Recs
  <2> QED
    BY <2>1, <2>2 DEF MapInv, Map!Init, Init
<1>2. MapInv /\ [Next]_vars => MapInv'
  BY LiveInvStep, ValuedStep DEF MapInv
<1>3. MapInv /\ MapInv' /\ [Next]_vars => [Map!Next]_<<Content, out>>
  BY MapStep DEF MapInv
<1> QED
  BY <1>1, <1>2, <1>3, PTL DEF Spec, IsMap, Map!Spec
-----------------------------------------------------------------------------
(***************************************************************************)
(* The scan.  While it is not disturbed idxfd is behind the record that    *)
(* was returned last, and what is in use before idxfd has been returned.   *)
(***************************************************************************)
Opening == {"open", "create", "rewind"}
Before(n) == {r \in 1 .. Len(idx) : r < n /\ idx[r].key # Blank}
Returned(n) == {idx[r].key : r \in Before(n)}

Undisturbed ==
  /\ pos \in 1 .. Len(idx) + 1
  /\ last # Blank => pos > 1 /\ idx[pos - 1].key = last
  /\ out.op = "next" /\ out.rc = 0  => last = out.key /\ last # Blank
  /\ out.op = "next" /\ out.rc = -1 => pos = Len(idx) + 1
  /\ seen = Returned(pos)

ScanInv ==
  /\ quiet \in BOOLEAN
  /\ out.op \in Opening => pos = 1
  /\ quiet => Undisturbed

(* With one record for a key, a lookup of the key returned last ends where *)
(* the scan is.                                                            *)
LEMMA LastFound ==
  ASSUME LiveInv, Undisturbed, last # Blank
  PROVE  last \in Keys /\ Present(last) /\ PosAfterFind(last) = pos
<1>1. pos - 1 \in 1 .. Len(idx) /\ idx[pos - 1].key = last /\ DOMAIN idx = 1 .. Len(idx)
  BY LenProperties DEF Undisturbed, LiveInv, DbInv, Shape
<1>2. last \in Keys
  BY <1>1, LiveKey DEF LiveInv
<1>3. First(last) = pos - 1 /\ pos - 1 \in Holding(last) /\ pos - 1 # None
  BY <1>1, <1>2 DEF LiveInv, LiveAtHead, Recs, First, Holding, None
<1>4. First(last) + 1 = pos
  BY <1>1, <1>3 DEF Undisturbed
<1> QED
  BY <1>2, <1>3, <1>4 DEF Present, Hits, PosAfterFind

(* Every call but those that leave a scan alone disturbs it. *)
LEMMA Disturbs ==
  ASSUME ScanInv, Remember, out'.op \notin Opening \cup {"next"}, ~(quiet /\ InPlace)
  PROVE  ScanInv'
<1>1. quiet' = FALSE
  BY DEF Remember, Starts, Opening, ScanInv
<1> QED
  BY <1>1 DEF ScanInv, Opening

(* The calls that leave it alone *)
LEMMA Alone ==
  ASSUME ScanInv, Remember, quiet, out'.op \in {"fetch", "store"}, InPlace, pos' = pos
  PROVE  ScanInv'
<1>1. idx' = idx /\ seen' = seen /\ last' = last
  BY DEF InPlace, Remember, Starts, Yields
<1>2. quiet' \in BOOLEAN
  BY DEF Remember
<1>3. Undisturbed'
  BY <1>1 DEF ScanInv, Undisturbed, Returned, Before
<1> QED
  BY <1>2, <1>3 DEF ScanInv, Opening

LEMMA Begins ==
  ASSUME Remember, out'.op \in Opening, pos' = 1, Len(idx') \in Nat
  PROVE  ScanInv'
<1>1. seen' = {} /\ last' = Blank /\ quiet' = TRUE
  BY DEF Remember, Starts, Yields, InPlace, Opening
<1>2. Returned(1)' = {}
  BY DEF Returned, Before
<1> QED
  BY <1>1, <1>2 DEF ScanInv, Undisturbed, Opening, Returned, Before

LEMMA LookupStays ==
  ASSUME LiveInv, ScanInv, Remember, NEW k \in Keys, out'.op \in {"fetch", "store"},
         out'.key = k, pos' \in {pos, PosAfterFind(k)}
  PROVE  ScanInv'
<1>1. CASE quiet /\ InPlace
  <2>1. k = last /\ last # Blank
    BY <1>1, ConstAssumption DEF InPlace
  <2>2. pos' = pos
    BY <1>1, <2>1, LastFound DEF ScanInv
  <2> QED BY <1>1, <2>2, Alone
<1>2. CASE ~(quiet /\ InPlace)
  BY <1>2, Disturbs DEF Opening
<1> QED BY <1>1, <1>2

(* db_nextrec *)
LEMMA GoesOn ==
  ASSUME LiveInv, ScanInv, Remember, NextRec
  PROVE  ScanInv'
<1>0. /\ idx' = idx /\ out'.op = "next" /\ Len(idx) \in Nat /\ DOMAIN idx = 1 .. Len(idx)
      /\ quiet' = quiet
  BY LenProperties DEF NextRec, file, Return, Remember, Starts, LiveInv, DbInv, Shape, ScanInv
<1> SUFFICES ASSUME quiet PROVE Undisturbed'
  BY <1>0 DEF ScanInv, Opening
<1>1. Undisturbed
  BY DEF ScanInv
<1>2. Ahead = {r \in 1 .. Len(idx) : r >= pos /\ idx[r].key # Blank}
  BY <1>0 DEF Ahead, Recs
<1>3. ASSUME NEW r \in Ahead, \A s \in Ahead : r <= s, pos' = r + 1,
             Return("next", idx[r].key, dat[idx[r].dat].val, 0)
      PROVE  Undisturbed'
  <2>1. seen' = seen \cup {idx[r].key} /\ last' = idx[r].key /\ out'.key = idx[r].key
    BY <1>3 DEF Remember, Starts, Yields, Return
  <2>2. r \in 1 .. Len(idx) /\ r >= pos /\ idx[r].key # Blank
    BY <1>2
  <2>3. Before(pos') = Before(pos) \cup {r}
    <3>1. \A s \in 1 .. Len(idx) : s >= pos /\ idx[s].key # Blank => r <= s
      BY <1>2, <1>3
    <3>2. pos \in Nat
      BY <1>0, <1>1 DEF Undisturbed
    <3>3. \A s \in 1 .. Len(idx) : idx[s].key # Blank => (s < r + 1 <=> s < pos \/ s = r)
      BY <1>0, <2>2, <3>1, <3>2
    <3> QED BY <1>3, <2>2, <3>3, Zenon DEF Before
  <2>4. Returned(pos') = Returned(pos) \cup {idx[r].key}
    BY <2>3 DEF Returned
  <2>5. seen' = Returned(pos)'
    BY <1>0, <1>1, <2>1, <2>4 DEF Undisturbed, Returned, Before
  <2> QED
    BY <1>0, <1>3, <2>1, <2>2, <2>5 DEF Undisturbed, Return
<1>4. ASSUME Ahead = {}, pos' = Added, Return("next", Blank, Blank, -1)
      PROVE  Undisturbed'
  <2>1. seen' = seen /\ last' = Blank
    BY <1>4 DEF Remember, Starts, Yields, Return, InPlace
  <2>2. Before(pos') = Before(pos)
    BY <1>0, <1>1, <1>2, <1>4 DEF Before, Undisturbed, Added
  <2>3. seen' = Returned(pos)'
    BY <1>0, <1>1, <2>1, <2>2 DEF Undisturbed, Returned, Before
  <2> QED
    BY <1>0, <1>4, <2>1, <2>3 DEF Undisturbed, Return, Added
<1> QED
  BY <1>3, <1>4 DEF NextRec

(* A call that hangs, or an open or rewind of what is open and rewound:    *)
(* out is that of the call before.                                         *)
LEMMA Repeats ==
  ASSUME LiveInv, ScanInv, Remember, UNCHANGED <<idx, pos, out>>
  PROVE  ScanInv'
<1>0. Len(idx) \in Nat
  BY LenProperties DEF LiveInv, DbInv, Shape
<1>1. CASE out.op \in Opening
  BY <1>0, <1>1, Begins DEF ScanInv
<1>2. CASE out.op \notin Opening /\ quiet
  <2>1. quiet' \in BOOLEAN
    BY DEF Remember
  <2> SUFFICES ASSUME quiet' PROVE Undisturbed'
    BY <1>2, <2>1 DEF ScanInv
  <2>2. Undisturbed
    BY <1>2 DEF ScanInv
  <2>3. CASE Yields
    <3>1. last' = last /\ last # Blank /\ out.key = last /\ seen' = seen \cup {last}
      BY <1>2, <2>2, <2>3 DEF Remember, Starts, Yields, Opening, Undisturbed
    <3>2. pos - 1 \in Before(pos) /\ idx[pos - 1].key = last
      BY <1>0, <2>2, <3>1 DEF Undisturbed, Before
    <3>3. last \in Returned(pos)
      BY <3>2 DEF Returned
    <3>4. seen' = Returned(pos)'
      BY <2>2, <3>1, <3>3 DEF Undisturbed, Returned, Before
    <3> QED
      BY <2>2, <3>1, <3>4 DEF Undisturbed
  <2>4. CASE ~Yields
    <3>1. seen' = seen /\ last' \in {last, Blank}
      BY <1>2, <2>4 DEF Remember, Starts, Opening
    <3>2. seen' = Returned(pos)'
      BY <2>2, <3>1 DEF Undisturbed, Returned, Before
    <3> QED
      BY <2>2, <2>4, <3>1, <3>2 DEF Undisturbed, Yields
  <2> QED BY <2>3, <2>4
<1>3. CASE out.op \notin Opening /\ ~quiet
  <2>1. quiet' = FALSE
    BY <1>3 DEF Remember, Starts, Opening, ScanInv
  <2> QED BY <1>3, <2>1 DEF ScanInv
<1> QED BY <1>1, <1>2, <1>3

LEMMA ScanStep ==
  ASSUME LiveInv, LiveInv', ScanInv, Next /\ Remember
  PROVE  ScanInv'
<1>0. Len(idx) \in Nat /\ Len(idx') \in Nat
  BY LenProperties DEF LiveInv, DbInv, Shape
<1>1. CASE Create \/ Open \/ Rewind
  BY <1>0, <1>1, Begins DEF Create, Open, Rewind, Return, Opening
<1>2. CASE Close
  BY <1>2, Disturbs DEF Close, Return, Opening, InPlace
<1>3. CASE NextRec
  BY <1>3, GoesOn
<1>4. ASSUME NEW k \in Keys, Fetch(k) PROVE ScanInv'
  <2>1. out'.op = "fetch" /\ out'.key = k /\ pos' = PosAfterFind(k)
    BY <1>4 DEF Fetch, Return
  <2> QED BY <2>1, LookupStays
<1>5. ASSUME NEW k \in Keys, Delete(k) \/ DeleteAbsent(k) PROVE ScanInv'
  <2>1. out'.op = "delete"
    BY <1>5 DEF Delete, DeleteAbsent, Return
  <2> QED BY <2>1, Disturbs DEF Opening, InPlace
<1>6. ASSUME NEW k \in Keys, Hang(k) PROVE ScanInv'
  BY <1>6, Repeats DEF Hang, file
<1>7. ASSUME NEW k \in Keys, NEW v \in Vals, NEW flag \in Flags, Store(k, v, flag)
      PROVE  ScanInv'
  <2>1. out'.op = "store" /\ out'.key = k
    BY <1>7 DEF Store, StoreInvalid, StoreAppend, StoreReuse, StoreMove, StoreOver,
                StoreRefused, Return
  <2>2. CASE StoreInvalid(k, v) \/ StoreOver(k, v, flag) \/ StoreRefused(k, v, flag)
    <3>1. pos' \in {pos, PosAfterFind(k)}
      BY <2>2 DEF StoreInvalid, handle, StoreOver, StoreRefused
    <3> QED BY <2>1, <3>1, LookupStays
  <2>3. CASE StoreAppend(k, v, flag) \/ StoreMove(k, v, flag)
    <3>1. Len(idx') = Len(idx) + 1
      BY <2>3, StoreAppendEffect, StoreMoveEffect DEF Grows, LiveInv
    <3>2. ~InPlace
      BY <1>0, <3>1 DEF InPlace
    <3> QED BY <2>1, <3>2, Disturbs DEF Opening
  <2>4. CASE StoreReuse(k, v, flag)
    <3>1. ~Present(k)
      BY <2>4 DEF StoreReuse
    <3>2. ~(quiet /\ InPlace)
      BY <2>1, <3>1, LastFound, ConstAssumption DEF InPlace, ScanInv
    <3> QED BY <2>1, <3>2, Disturbs DEF Opening
  <2> QED BY <1>7, <2>2, <2>3, <2>4 DEF Store
<1> QED
  BY <1>1, <1>2, <1>3, <1>4, <1>5, <1>6, <1>7 DEF Next

LEMMA LiveKept == ASSUME NoCollisions, PointersFit PROVE Spec => []LiveInv
BY LiveInvInit, LiveInvStep, PTL DEF Spec

(* While a scan is not disturbed all that is in use before idxfd has been  *)
(* returned, and nothing else.                                             *)
THEOREM ScanSound == ASSUME NoCollisions, PointersFit PROVE ScanSpec => []ScanInv
<1>1. ScanSpec => Spec /\ [][Next /\ Remember]_<<vars, scan>>
  <2>1. [Next /\ Remember]_<<vars, scan>> => [Next]_vars
    BY DEF vars
  <2> QED BY <2>1, PTL DEF ScanSpec, Spec
<1>2. Init /\ seen = {} /\ last = Blank /\ quiet = TRUE => ScanInv
  BY DEF Init, Format, ScanInv, Undisturbed, Opening, Returned, Before
<1>3. LiveInv /\ LiveInv' /\ ScanInv /\ [Next /\ Remember]_<<vars, scan>> => ScanInv'
  <2>1. LiveInv /\ LiveInv' /\ ScanInv /\ Next /\ Remember => ScanInv'
    BY ScanStep
  <2>2. ScanInv /\ UNCHANGED <<vars, scan>> => ScanInv'
    BY DEF vars, file, handle, scan, ScanInv, Undisturbed, Returned, Before
  <2> QED BY <2>1, <2>2
<1> QED
  BY <1>1, <1>2, <1>3, LiveKept, PTL DEF ScanSpec

(* db_nextrec at the end of an undisturbed scan: every key has come.       *)
THEOREM ScanReturnsAll == ASSUME NoCollisions, PointersFit PROVE ScanSpec => []ScanComplete
<1>1. ScanSpec => Spec
  <2>1. [Next /\ Remember]_<<vars, scan>> => [Next]_vars
    BY DEF vars
  <2> QED BY <2>1, PTL DEF ScanSpec, Spec
<1>2. LiveInv /\ ScanInv => ScanComplete
  <2> SUFFICES ASSUME LiveInv, ScanInv, out.op = "next", out.rc = -1, quiet
               PROVE  seen = LiveKeys
    BY DEF ScanComplete
  <2>1. pos = Len(idx) + 1 /\ seen = Returned(pos)
    BY DEF ScanInv, Undisturbed
  <2>2. DOMAIN idx = 1 .. Len(idx) /\ Len(idx) \in Nat
    BY LenProperties DEF LiveInv, DbInv, Shape
  <2> QED
    BY <2>1, <2>2 DEF Returned, Before, LiveKeys, Recs
<1> QED
  BY <1>1, <1>2, LiveKept, ScanSound, PTL

(* It returns no key twice: the record it comes to is not one of those     *)
(* before it, and no other has its key.                                    *)
THEOREM ScanReturnsOnce == ASSUME NoCollisions, PointersFit PROVE ScanSpec => ScanOnce
<1>1. ScanSpec => Spec
  <2>1. [Next /\ Remember]_<<vars, scan>> => [Next]_vars
    BY DEF vars
  <2> QED BY <2>1, PTL DEF ScanSpec, Spec
<1>2. LiveInv /\ ScanInv =>
        [NextRec /\ quiet /\ Yields => out'.key \notin seen]_<<vars, scan>>
  <2> SUFFICES ASSUME LiveInv, ScanInv, NextRec, quiet, Yields PROVE out'.key \notin seen
    OBVIOUS
  <2>1. PICK r \in Ahead : out'.key = idx[r].key
    BY DEF NextRec, Yields, Return
  <2>2. r \in 1 .. Len(idx) /\ r >= pos /\ idx[r].key # Blank
    BY LenProperties DEF Ahead, Recs, LiveInv, DbInv, Shape
  <2>3. \A s \in Before(pos) : idx[s].key # idx[r].key
    <3> SUFFICES ASSUME NEW s \in Before(pos), idx[s].key = idx[r].key PROVE FALSE
      OBVIOUS
    <3>1. s \in 1 .. Len(idx) /\ s < pos
      BY DEF Before
    <3>2. s = r
      BY <2>2, <3>1, LenProperties DEF LiveInv, LiveAtHead, Recs, DbInv, Shape
    <3> QED BY <2>2, <3>1, <3>2 DEF ScanInv, Undisturbed
  <2> QED BY <2>1, <2>3 DEF ScanInv, Undisturbed, Returned
<1> QED
  BY <1>1, <1>2, LiveKept, ScanSound, PTL DEF ScanOnce
=============================================================================
