---------------------- MODULE ApueDbSharedData_proofs ----------------------
(***************************************************************************)
(* Proofs about ApueDbShared: the data of the records, on top of the       *)
(* proofs about its locks, its offsets and its lists.                      *)
(*                                                                         *)
(* The argument: every record of the index, live or deleted, has a piece   *)
(* of the data file to itself, and so has every process that has appended  *)
(* data and not yet the record for them.  The place and the length of a    *)
(* record's data never change: a record is reused only for data of the     *)
(* same length.  So a write disturbs the data of one record only, which    *)
(* is in the hands of the process that writes.  Two appends that race for  *)
(* the end of the data file break this; a kill does not.                   *)
(***************************************************************************)
EXTENDS ApueDbShared_proofs

(* Places of the data file *)
Inside(d, o, n)    == o >= 1 /\ n >= 1 /\ o + n <= Len(d) + 1
Beside(o, n, u, m) == o + n <= u \/ u + m <= o

Piece(k, v, j, n) == [key |-> k, val |-> v, at |-> j, of |-> n]
Cell == [key : Keys \cup {Blank}, val : Vals \cup {Blank}, at : Nat, of : Nat]

(* In d the n cells from o on are the datum v of key k. *)
Tells(d, o, n, k, v) == \A j \in 1 .. n : d[o + j - 1] = Piece(k, v, j, n)

(* e is d with the datum v of key k, of n cells, written over it at o. *)
Written(d, e, o, n, k, v) ==
  /\ Len(d) <= Len(e) /\ o + n <= Len(e) + 1
  /\ \A x \in 1 .. Len(d) : x < o \/ o + n <= x => e[x] = d[x]
  /\ Tells(e, o, n, k, v)

LEMMA TextIs ==
  ASSUME NEW k, NEW v, NEW n \in Nat
  PROVE  /\ Text(k, v, n) = [j \in 1 .. n |-> Piece(k, v, j, n)] /\ Len(Text(k, v, n)) = n
BY SMT DEF Text, Piece

(* What a read of the cells returns *)
Cells(d, o, n) == SubSeq(d, o, o + n - 1)

LEMMA CellsTell ==
  ASSUME NEW d \in Seq(Cell), NEW o \in Nat, NEW n \in Nat, Inside(d, o, n), NEW k, NEW v
  PROVE  Tells(d, o, n, k, v) <=> Cells(d, o, n) = Text(k, v, n)
<1>0. PICK s : s = Cells(d, o, n)
  OBVIOUS
<1>1. s = [j \in 1 .. n |-> d[o + j - 1]]
  <2>1. o \in 1 .. Len(d) + 1 /\ o + n - 1 \in o - 1 .. Len(d) /\ Len(d) \in Nat
    BY LenProperties, SMT DEF Inside
  <2>2. s \in Seq(Cell) /\ Len(s) = n /\ \A j \in 1 .. n : s[j] = d[o + j - 1]
    BY <1>0, <2>1, SubSeqProperties, SMT DEF Cells
  <2> QED BY <2>2, SMT
<1>3. PICK t : t = Text(k, v, n)
  OBVIOUS
<1>4. t = [j \in 1 .. n |-> Piece(k, v, j, n)] /\ s = [j \in 1 .. n |-> d[o + j - 1]]
  BY <1>1, <1>3, TextIs
<1>5. s = t <=> \A j \in 1 .. n : d[o + j - 1] = Piece(k, v, j, n)
  BY <1>4, Zenon
<1> QED BY <1>0, <1>3, <1>5 DEF Tells

LEMMA SpanTells ==
  ASSUME dat \in Seq(Cell), NEW o \in Nat, NEW n \in Nat, Inside(dat, o, n), NEW k, NEW v
  PROVE  Tells(dat, o, n, k, v) <=> Span(o, n) = Text(k, v, n)
<1>1. Span(o, n) = Cells(dat, o, n)
  BY DEF Span, Cells
<1> QED BY <1>1, CellsTell

LEMMA WriteAtWrites ==
  ASSUME dat \in Seq(Cell), NEW o \in Nat, NEW n \in Nat, 1 <= o, o <= Len(dat) + 1, 1 <= n,
         NEW k \in Keys \cup {Blank}, NEW v \in Vals \cup {Blank}
  PROVE  /\ WriteAt(o, Text(k, v, n)) \in Seq(Cell)
         /\ Written(dat, WriteAt(o, Text(k, v, n)), o, n, k, v)
         /\ Len(WriteAt(o, Text(k, v, n))) \in {Len(dat), o + n - 1}
<1>0. /\ Len(dat) \in Nat /\ DOMAIN dat = 1 .. Len(dat)
      /\ \A x \in 1 .. Len(dat) : dat[x] \in Cell
  BY LenProperties, ElementOfSeq
<1> PICK len \in Nat : len = Len(dat)
  BY <1>0
<1>1. PICK t : t = Text(k, v, n)
  OBVIOUS
<1>2. t = [j \in 1 .. n |-> Piece(k, v, j, n)] /\ Len(t) = n
  BY <1>1, TextIs
<1>3. PICK m \in Nat : (m = len \/ m = o + n - 1) /\ len <= m /\ o + n - 1 <= m
  <2>1. o + n - 1 \in Nat /\ (len <= o + n - 1 \/ o + n - 1 <= len)
        /\ len <= len /\ o + n - 1 <= o + n - 1
    BY SMT
  <2> QED BY <2>1
<1> DEFINE e == [i \in 1 .. m |-> IF i \in o .. o + n - 1 THEN t[i - o + 1] ELSE dat[i]]
<1>4. m = IF len > o + n - 1 THEN len ELSE o + n - 1
  BY <1>3, SMT
<1>5. WriteAt(o, t) = e
  BY <1>2, <1>4 DEF WriteAt
<1>6. ASSUME NEW j \in 1 .. n PROVE t[j] = Piece(k, v, j, n) /\ Piece(k, v, j, n) \in Cell
  BY <1>2, SMT DEF Piece, Cell
<1>7. ASSUME NEW i \in 1 .. m, i \in o .. o + n - 1
      PROVE  e[i] = t[i - o + 1] /\ i - o + 1 \in 1 .. n
  BY <1>7, SMT
<1>8. ASSUME NEW i \in 1 .. m, i \notin o .. o + n - 1 PROVE e[i] = dat[i] /\ i \in 1 .. len
  <2>1. i \in 1 .. len
    BY <1>3, <1>8, SMT
  <2> QED BY <1>8, <2>1
<1>9. ASSUME NEW i \in 1 .. m PROVE e[i] \in Cell
  BY <1>0, <1>6, <1>7, <1>8, <1>9
<1> HIDE DEF e
<1>10. e \in Seq(Cell) /\ Len(e) = m
  <2>1. e \in [1 .. m -> Cell]
    BY <1>9, Zenon DEF e
  <2> QED BY <2>1, SMT
<1>11. Written(dat, e, o, n, k, v)
  <2>1. len <= m /\ o + n <= m + 1
    BY <1>3, SMT
  <2>2. ASSUME NEW x \in 1 .. len, x < o \/ o + n <= x PROVE e[x] = dat[x]
    <3>1. x \in 1 .. m /\ x \notin o .. o + n - 1
      BY <1>3, <2>2, SMT
    <3> QED BY <1>8, <3>1
  <2>3. ASSUME NEW j \in 1 .. n PROVE e[o + j - 1] = Piece(k, v, j, n)
    <3>1. o + j - 1 \in 1 .. m /\ o + j - 1 \in o .. o + n - 1 /\ (o + j - 1) - o + 1 = j
      BY <1>3, SMT
    <3>2. e[o + j - 1] = t[(o + j - 1) - o + 1]
      BY <1>7, <3>1
    <3> QED BY <1>6, <3>1, <3>2
  <2> QED BY <1>10, <2>1, <2>2, <2>3 DEF Written, Tells
<1>12. Len(e) \in {len, o + n - 1}
  BY <1>3, <1>10
<1> QED BY <1>1, <1>5, <1>10, <1>11, <1>12

(* A write leaves alone what is beside it. *)
LEMMA BesideStays ==
  ASSUME NEW d, NEW e, NEW o \in Nat, NEW n \in Nat, NEW k, NEW v, Written(d, e, o, n, k, v),
         Len(d) \in Nat, Len(e) \in Nat,
         NEW u \in Nat, NEW m \in Nat, Inside(d, u, m), Beside(u, m, o, n)
  PROVE  /\ Inside(e, u, m) /\ d[u] = e[u]
         /\ \A l, w : Tells(e, u, m, l, w) <=> Tells(d, u, m, l, w)
<1>1. Inside(e, u, m)
  BY SMT DEF Written, Inside
<1>2. ASSUME NEW j \in 1 .. m PROVE e[u + j - 1] = d[u + j - 1]
  <2> PICK x : x = u + j - 1
    OBVIOUS
  <2>1. x \in 1 .. Len(d) /\ (x < o \/ o + n <= x)
    BY SMT DEF Inside, Beside
  <2>2. e[x] = d[x]
    BY <2>1 DEF Written
  <2> QED BY <2>2
<1>3. e[u] = d[u]
  <2>1. 1 \in 1 .. m /\ u + 1 - 1 = u
    BY SMT DEF Inside
  <2> QED BY <1>2, <2>1
<1> QED BY <1>1, <1>2, <1>3 DEF Tells

LEMMA TellsFirst ==
  ASSUME NEW d, NEW o \in Nat, NEW n \in Nat, 1 <= n, NEW k, NEW v, Tells(d, o, n, k, v)
  PROVE  d[o].key = k /\ d[o].val = v
<1>1. 1 \in 1 .. n /\ o + 1 - 1 = o
  BY SMT
<1>2. d[o] = Piece(k, v, 1, n)
  BY <1>1 DEF Tells
<1> QED BY <1>2 DEF Piece

USE SharedAssumption DEF Fields, Searching, Deleting, Storing, Scanning, OnChain,
  InTail, InData, InFree, InChain, InScan, Reusing, Linking, Adding, OnHead
-----------------------------------------------------------------------------
(* Where the data are *)

(* where a process has appended data but not yet the record for them *)
Appended == {"new.unlock", "tail.lock", "tail.seek", "tail.idx"}

(* where a delete has erased the data of a record that still has its key *)
Erased == {"del.free", "del.idx"}

(* The data of a record are in one piece, written for its key if it has    *)
(* one, or erased; no two records share a cell.                            *)
Extents(i, d) ==
  /\ \A x \in DOMAIN i : /\ Inside(d, i[x].dat, i[x].len)
                         /\ Tells(d, i[x].dat, i[x].len, d[i[x].dat].key, d[i[x].dat].val)
                         /\ i[x].key = Blank \/ d[i[x].dat].key \in {i[x].key, Blank}
  /\ \A x, y \in DOMAIN i : x # y => Beside(i[x].dat, i[x].len, i[y].dat, i[y].len)

(* What a process knows of the data it writes or reads *)
Works(r, i, d) ==
  /\ r.pc = "free.unlink" \/ Taken(r) =>
       /\ r.idxoff \in DOMAIN i /\ r.datoff = i[r.idxoff].dat
       /\ r.datlen = i[r.idxoff].len /\ r.datlen = DatLen[r.val]
  /\ r.pc \in {"over.lock", "over.dat"} => r.datlen = DatLen[r.val]
  /\ r.pc = "reuse.idx" => Tells(d, r.datoff, r.datlen, r.key, r.val)
  /\ r.pc = "new.dat" => r.datoff >= 1 /\ r.datoff + DatLen[r.val] <= MaxDat + 1
  /\ r.pc \in Appended =>
       /\ r.datlen = DatLen[r.val] /\ Inside(d, r.datoff, r.datlen)
       /\ Tells(d, r.datoff, r.datlen, r.key, r.val)
       /\ \A x \in DOMAIN i : Beside(r.datoff, r.datlen, i[x].dat, i[x].len)
  /\ r.pc \in Linking =>
       /\ r.idxoff \in DOMAIN i /\ i[r.idxoff].len = DatLen[r.val]
       /\ Tells(d, i[r.idxoff].dat, i[r.idxoff].len, r.key, r.val)
  /\ r.pc = "scan.dat" =>
       /\ r.pos - 1 \in DOMAIN i /\ r.key # Blank /\ i[r.pos - 1].key = r.key
       /\ r.datoff = i[r.pos - 1].dat /\ r.datlen = i[r.pos - 1].len

NewApart ==
  \A p, q \in Procs : p # q /\ reg[p].pc \in Appended /\ reg[q].pc \in Appended =>
    Beside(reg[p].datoff, reg[p].datlen, reg[q].datoff, reg[q].datlen)

Data ==
  /\ dat \in Seq(Cell) /\ Len(dat) <= MaxDat
  /\ Extents(idx, dat) /\ NewApart /\ \A p \in Procs : Works(reg[p], idx, dat)

(* While no process has been killed, nothing but a delete under way leaves *)
(* a live record with erased data.                                         *)
Stored(x) ==
  \/ \E v \in Vals : Tells(dat, idx[x].dat, idx[x].len, idx[x].key, v)
  \/ \E p \in Procs : reg[p].pc \in Erased /\ reg[p].idxoff = x
AllStored == \A x \in Live : Stored(x)
-----------------------------------------------------------------------------
USE DEF Appended, Erased

(* the place of a record's data never moves *)
Frozen(i, j) ==
  DOMAIN i \subseteq DOMAIN j /\ \A x \in DOMAIN i : j[x].dat = i[x].dat /\ j[x].len = i[x].len

LEMMA PlainWorks ==
  ASSUME NEW r, NEW i, NEW d, r.pc \notin {"free.unlink", "over.lock", "over.dat", "new.dat", "scan.dat"},
         r.pc \notin Appended \cup Linking \cup Reusing, r.pc = "free.unlock" => r.off = None
  PROVE  Works(r, i, d)
BY SMT DEF Works, Taken

(* The others, when p writes to the index *)
LEMMA WorksOn ==
  ASSUME NEW r, NEW i, NEW j, NEW d, Works(r, i, d), Frozen(i, j),
         r.pc = "scan.dat" => j[r.pos - 1].key = i[r.pos - 1].key,
         r.pc \in Appended => \A x \in DOMAIN j :
                                x \in DOMAIN i \/ Beside(r.datoff, r.datlen, j[x].dat, j[x].len)
  PROVE  Works(r, j, d)
<1>1. \/ r.pc = "free.unlink" \/ Taken(r) \/ r.pc \in Linking => r.idxoff \in DOMAIN j
  BY SMT DEF Works, Frozen
<1>2. r.pc \in Appended => \A x \in DOMAIN j : Beside(r.datoff, r.datlen, j[x].dat, j[x].len)
  BY SMT DEF Works, Frozen
<1>3. r.pc \in Linking =>
       /\ r.idxoff \in DOMAIN j /\ j[r.idxoff].len = DatLen[r.val]
       /\ Tells(d, j[r.idxoff].dat, j[r.idxoff].len, r.key, r.val)
  BY SMT DEF Works, Frozen
<1> QED BY <1>1, <1>2, <1>3, SMT DEF Works, Frozen

LEMMA IndexStep ==
  ASSUME Discipline, Data, NEW p \in Procs, reg' = [reg EXCEPT ![p] = reg'[p]], dat' = dat,
         Frozen(idx, idx'), Extents(idx', dat), Works(reg'[p], idx', dat),
         reg'[p].pc \in Appended => /\ reg[p].pc \in Appended
                                    /\ reg'[p].datoff = reg[p].datoff
                                    /\ reg'[p].datlen = reg[p].datlen,
         \A q \in Procs : q # p =>
           /\ reg[q].pc = "scan.dat" => idx'[reg[q].pos - 1].key = idx[reg[q].pos - 1].key
           /\ reg[q].pc \in Appended =>
                \A x \in DOMAIN idx' :
                  x \in DOMAIN idx \/ Beside(reg[q].datoff, reg[q].datlen, idx'[x].dat, idx'[x].len)
  PROVE  Data'
<1>0. DOMAIN reg = Procs /\ \A q \in Procs : q # p => reg'[q] = reg[q]
  BY SMT DEF Discipline, Shapes
<1>1. ASSUME NEW q \in Procs PROVE Works(reg'[q], idx', dat)
  BY <1>0, WorksOn DEF Data
<1>2. NewApart'
  BY <1>0, SMT DEF Data, NewApart
<1> QED BY <1>1, <1>2 DEF Data

LEMMA FrozenExtents ==
  ASSUME NEW i, NEW j, NEW d, Extents(i, d), Frozen(i, j), DOMAIN i = DOMAIN j,
         \A x \in DOMAIN j : j[x].key \in {i[x].key, Blank} \/ d[i[x].dat].key \in {j[x].key, Blank}
  PROVE  Extents(j, d)
BY SMT DEF Extents, Frozen

(* A step that writes no data, and of the index no more than pointers *)
Still(p) ==
  LET r == reg[p]
      s == reg'[p]
  IN /\ reg' = [reg EXCEPT ![p] = s] /\ dat' = dat
     /\ DOMAIN idx' = DOMAIN idx /\ \A x \in DOMAIN idx : SameRec(idx, idx', x)
     /\ Works(s, idx, dat)
     /\ s.pc \in Appended => r.pc \in Appended /\ s.datoff = r.datoff /\ s.datlen = r.datlen
     /\ r.pc \in Erased /\ events' = {} => s.pc \in Erased /\ s.idxoff = r.idxoff

LEMMA StillKeeps ==
  ASSUME Discipline, Data, NEW p \in Procs, Still(p)
  PROVE  Data' /\ (AllStored /\ events' = {} => AllStored')
<1>0. DOMAIN reg = Procs /\ \A q \in Procs : q # p => reg'[q] = reg[q]
  BY SMT DEF Discipline, Shapes, Still
<1>1. Frozen(idx, idx') /\ DOMAIN idx = DOMAIN idx' /\ \A x \in DOMAIN idx : idx'[x].key = idx[x].key
  BY DEF Still, Frozen, SameRec
<1>2. Extents(idx', dat)
  BY <1>1, FrozenExtents DEF Data
<1>3. Works(reg'[p], idx', dat)
  BY <1>1, WorksOn, SMT DEF Still, Works
<1>4. ASSUME NEW q \in Procs, reg[q].pc = "scan.dat" PROVE reg[q].pos - 1 \in DOMAIN idx
  BY <1>4 DEF Data, Works
<1>5. Data'
  BY <1>1, <1>2, <1>3, <1>4, IndexStep DEF Still
<1>6. ASSUME AllStored, events' = {}, NEW x \in Live' PROVE Stored(x)'
  <2>1. x \in Live /\ Stored(x) /\ SameRec(idx, idx', x)
    BY <1>1, <1>6 DEF AllStored, Live, Recs, Still
  <2>2. CASE \E v \in Vals : Tells(dat, idx[x].dat, idx[x].len, idx[x].key, v)
    BY <2>1, <2>2 DEF Stored, SameRec, Still
  <2>3. CASE \E q \in Procs : reg[q].pc \in Erased /\ reg[q].idxoff = x
    BY <1>0, <1>6, <2>3 DEF Stored, Still
  <2> QED BY <2>1, <2>2, <2>3 DEF Stored
<1> QED BY <1>5, <1>6 DEF AllStored

(* Entering and leaving a call, db_fetch, and the steps of db_store and     *)
(* db_delete that only read, lock and write pointers                       *)
LEMMA PlainStill ==
  ASSUME NEW p \in Procs, reg' = [reg EXCEPT ![p] = reg'[p]], dat' = dat, idx' = idx,
         reg'[p].pc \notin {"free.unlink", "over.lock", "over.dat", "new.dat", "scan.dat"},
         reg'[p].pc \notin Appended \cup Linking \cup Reusing,
         reg'[p].pc = "free.unlock" => reg'[p].off = None,
         reg[p].pc \in Erased => events' # {} \/ (reg'[p].pc \in Erased /\ reg'[p].idxoff = reg[p].idxoff)
  PROVE  Still(p)
<1>1. Works(reg'[p], idx, dat)
  BY PlainWorks
<1> QED BY <1>1 DEF Still, SameRec

LEMMA PlainSteps ==
  ASSUME Discipline, Offsets, Lists, NEW p \in Procs
  PROVE  /\ Open(p) \/ Close(p) \/ Rewind(p) \/ CallNext(p) \/ Crash(p) => Still(p)
         /\ Return(p) \/ ScanReturn(p) \/ ReadHead(p) \/ ReadDat(p) => Still(p)
         /\ Reread(p) \/ ReadFree(p) \/ Link(p) \/ ScanDat(p) => Still(p)
         /\ DelFree(p) \/ DelHead(p) \/ DelLink(p) \/ DelUnlock(p) => Still(p)
<1>0. /\ DOMAIN reg = Procs /\ DOMAIN reg[p] = Fields /\ Place(reg[p])
      /\ Doing(p)
  BY HandleOf DEF Lists
<1>1. ASSUME Open(p) PROVE Still(p)
  <2>1. reg' = [reg EXCEPT ![p] = reg'[p]] /\ dat' = dat /\ idx' = idx
    BY <1>0, <1>1, SMT DEF Open, Go, Set, file
  <2>2. /\ reg'[p].pc \notin {"free.unlink", "over.lock", "over.dat", "new.dat", "scan.dat"}
        /\ reg'[p].pc \notin Appended \cup Linking \cup Reusing
        /\ reg'[p].pc = "free.unlock" => reg'[p].off = None
        /\ reg[p].pc \notin Erased
    BY <1>0, <1>1, SMT DEF Open, Outside, At, Set
  <2> QED BY <2>1, <2>2, PlainStill
<1>2. ASSUME Close(p) PROVE Still(p)
  <2>1. reg' = [reg EXCEPT ![p] = reg'[p]] /\ dat' = dat /\ idx' = idx
    BY <1>0, <1>2, SMT DEF Close, Go, Set, file
  <2>2. /\ reg'[p].pc \notin {"free.unlink", "over.lock", "over.dat", "new.dat", "scan.dat"}
        /\ reg'[p].pc \notin Appended \cup Linking \cup Reusing
        /\ reg'[p].pc = "free.unlock" => reg'[p].off = None
        /\ reg[p].pc \notin Erased
    BY <1>0, <1>2, SMT DEF Close, At, Set
  <2> QED BY <2>1, <2>2, PlainStill
<1>3. ASSUME Rewind(p) PROVE Still(p)
  <2>1. reg' = [reg EXCEPT ![p] = reg'[p]] /\ dat' = dat /\ idx' = idx
    BY <1>0, <1>3, SMT DEF Rewind, Go, Set, file
  <2>2. /\ reg'[p].pc \notin {"free.unlink", "over.lock", "over.dat", "new.dat", "scan.dat"}
        /\ reg'[p].pc \notin Appended \cup Linking \cup Reusing
        /\ reg'[p].pc = "free.unlock" => reg'[p].off = None
        /\ reg[p].pc \notin Erased
    BY <1>0, <1>3, SMT DEF Rewind, Set
  <2> QED BY <2>1, <2>2, PlainStill
<1>4. ASSUME CallNext(p) PROVE Still(p)
  <2>1. reg' = [reg EXCEPT ![p] = reg'[p]] /\ dat' = dat /\ idx' = idx
    BY <1>0, <1>4, SMT DEF CallNext, Go, Set, file
  <2>2. /\ reg'[p].pc \notin {"free.unlink", "over.lock", "over.dat", "new.dat", "scan.dat"}
        /\ reg'[p].pc \notin Appended \cup Linking \cup Reusing
        /\ reg'[p].pc = "free.unlock" => reg'[p].off = None
        /\ reg[p].pc \notin Erased
    BY <1>0, <1>4, SMT DEF CallNext, Set
  <2> QED BY <2>1, <2>2, PlainStill
<1>5. ASSUME Return(p) PROVE Still(p)
  <2>1. reg' = [reg EXCEPT ![p] = reg'[p]] /\ dat' = dat /\ idx' = idx
    BY <1>0, <1>5, SMT DEF Return, Go, Set, file
  <2>2. /\ reg'[p].pc \notin {"free.unlink", "over.lock", "over.dat", "new.dat", "scan.dat"}
        /\ reg'[p].pc \notin Appended \cup Linking \cup Reusing
        /\ reg'[p].pc = "free.unlock" => reg'[p].off = None
        /\ reg[p].pc \notin Erased
    BY <1>0, <1>5, SMT DEF Return, Outside, At, Set
  <2> QED BY <2>1, <2>2, PlainStill
<1>6. ASSUME ScanReturn(p) PROVE Still(p)
  <2>1. reg' = [reg EXCEPT ![p] = reg'[p]] /\ dat' = dat /\ idx' = idx
    BY <1>0, <1>6, SMT DEF ScanReturn, Go, Set, file
  <2>2. /\ reg'[p].pc \notin {"free.unlink", "over.lock", "over.dat", "new.dat", "scan.dat"}
        /\ reg'[p].pc \notin Appended \cup Linking \cup Reusing
        /\ reg'[p].pc = "free.unlock" => reg'[p].off = None
        /\ reg[p].pc \notin Erased
    BY <1>0, <1>6, SMT DEF ScanReturn, Outside, At, Set
  <2> QED BY <2>1, <2>2, PlainStill
<1>7. ASSUME ReadHead(p) PROVE Still(p)
  <2>1. reg' = [reg EXCEPT ![p] = reg'[p]] /\ dat' = dat /\ idx' = idx
    BY <1>0, <1>7, SMT DEF ReadHead, Go, Set, file
  <2>2. /\ reg'[p].pc \notin {"free.unlink", "over.lock", "over.dat", "new.dat", "scan.dat"}
        /\ reg'[p].pc \notin Appended \cup Linking \cup Reusing
        /\ reg'[p].pc = "free.unlock" => reg'[p].off = None
        /\ reg[p].pc \notin Erased
    BY <1>0, <1>7, SMT DEF ReadHead, Missed, Set
  <2> QED BY <2>1, <2>2, PlainStill
<1>8. ASSUME ReadDat(p) PROVE Still(p)
  <2>1. reg' = [reg EXCEPT ![p] = reg'[p]] /\ dat' = dat /\ idx' = idx
    BY <1>0, <1>8, SMT DEF ReadDat, Go, Set, file
  <2>2. /\ reg'[p].pc \notin {"free.unlink", "over.lock", "over.dat", "new.dat", "scan.dat"}
        /\ reg'[p].pc \notin Appended \cup Linking \cup Reusing
        /\ reg'[p].pc = "free.unlock" => reg'[p].off = None
        /\ reg[p].pc \notin Erased
    BY <1>0, <1>8, SMT DEF ReadDat, Set
  <2> QED BY <2>1, <2>2, PlainStill
<1>9. ASSUME Reread(p) PROVE Still(p)
  <2>1. reg' = [reg EXCEPT ![p] = reg'[p]] /\ dat' = dat /\ idx' = idx
    BY <1>0, <1>9, SMT DEF Reread, Go, Set, file
  <2>2. /\ reg'[p].pc \notin {"free.unlink", "over.lock", "over.dat", "new.dat", "scan.dat"}
        /\ reg'[p].pc \notin Appended \cup Linking \cup Reusing
        /\ reg'[p].pc = "free.unlock" => reg'[p].off = None
        /\ reg[p].pc \notin Erased
    BY <1>0, <1>9, SMT DEF Reread, Set
  <2> QED BY <2>1, <2>2, PlainStill
<1>10. ASSUME ReadFree(p) PROVE Still(p)
  <2>1. reg' = [reg EXCEPT ![p] = reg'[p]] /\ dat' = dat /\ idx' = idx
    BY <1>0, <1>10, SMT DEF ReadFree, Go, Set, file
  <2>2. /\ reg'[p].pc \notin {"free.unlink", "over.lock", "over.dat", "new.dat", "scan.dat"}
        /\ reg'[p].pc \notin Appended \cup Linking \cup Reusing
        /\ reg'[p].pc = "free.unlock" => reg'[p].off = None
        /\ reg[p].pc \notin Erased
    BY <1>0, <1>10, SMT DEF ReadFree, Set
  <2> QED BY <2>1, <2>2, PlainStill
<1>11. ASSUME Link(p) PROVE Still(p)
  <2>1. reg' = [reg EXCEPT ![p] = reg'[p]] /\ dat' = dat /\ idx' = idx
    BY <1>0, <1>11, SMT DEF Link, Go, Set, file
  <2>2. /\ reg'[p].pc \notin {"free.unlink", "over.lock", "over.dat", "new.dat", "scan.dat"}
        /\ reg'[p].pc \notin Appended \cup Linking \cup Reusing
        /\ reg'[p].pc = "free.unlock" => reg'[p].off = None
        /\ reg[p].pc \notin Erased
    BY <1>0, <1>11, SMT DEF Link, Set
  <2> QED BY <2>1, <2>2, PlainStill
<1>12. ASSUME ScanDat(p) PROVE Still(p)
  <2>1. reg' = [reg EXCEPT ![p] = reg'[p]] /\ dat' = dat /\ idx' = idx
    BY <1>0, <1>12, SMT DEF ScanDat, Go, Set, file
  <2>2. /\ reg'[p].pc \notin {"free.unlink", "over.lock", "over.dat", "new.dat", "scan.dat"}
        /\ reg'[p].pc \notin Appended \cup Linking \cup Reusing
        /\ reg'[p].pc = "free.unlock" => reg'[p].off = None
        /\ reg[p].pc \notin Erased
    BY <1>0, <1>12, SMT DEF ScanDat, Set
  <2> QED BY <2>1, <2>2, PlainStill
<1>13. ASSUME DelHead(p) PROVE Still(p)
  <2>1. reg' = [reg EXCEPT ![p] = reg'[p]] /\ dat' = dat /\ idx' = idx
    BY <1>0, <1>13, SMT DEF DelHead, Go, Set, file
  <2>2. /\ reg'[p].pc \notin {"free.unlink", "over.lock", "over.dat", "new.dat", "scan.dat"}
        /\ reg'[p].pc \notin Appended \cup Linking \cup Reusing
        /\ reg'[p].pc = "free.unlock" => reg'[p].off = None
        /\ reg[p].pc \notin Erased
    BY <1>0, <1>13, SMT DEF DelHead, Set
  <2> QED BY <2>1, <2>2, PlainStill
<1>14. ASSUME DelUnlock(p) PROVE Still(p)
  <2>1. reg' = [reg EXCEPT ![p] = reg'[p]] /\ dat' = dat /\ idx' = idx
    BY <1>0, <1>14, SMT DEF DelUnlock, Go, Set, file
  <2>2. /\ reg'[p].pc \notin {"free.unlink", "over.lock", "over.dat", "new.dat", "scan.dat"}
        /\ reg'[p].pc \notin Appended \cup Linking \cup Reusing
        /\ reg'[p].pc = "free.unlock" => reg'[p].off = None
        /\ reg[p].pc \notin Erased
    BY <1>0, <1>14, SMT DEF DelUnlock, Deleted, Set
  <2> QED BY <2>1, <2>2, PlainStill
<1>15. ASSUME Crash(p) PROVE Still(p)
  <2>1. reg' = [reg EXCEPT ![p] = reg'[p]] /\ dat' = dat /\ idx' = idx /\ reg'[p].pc = "off"
    BY <1>0, <1>15, SMT DEF Crash, At, Set, file
  <2>2. events' # {}
    BY <1>15, SMT DEF Crash
  <2> QED BY <2>1, <2>2, PlainStill
<1>16. ASSUME DelFree(p) PROVE Still(p)
  <2>1. /\ reg' = [reg EXCEPT ![p] = reg'[p]] /\ dat' = dat /\ idx' = idx
        /\ reg'[p].pc = "del.idx" /\ reg'[p].idxoff = reg[p].idxoff
    BY <1>0, <1>16, SMT DEF DelFree, Set, file
  <2> QED BY <2>1, PlainStill
<1>17. ASSUME DelLink(p) PROVE Still(p)
  <2>1. reg[p].pc = "del.link" /\ reg[p].from = None /\ dat' = dat
    BY <1>0, <1>17, SMT DEF DelLink, Doing, Knows
  <2>2. idx' = idx
    BY <1>17, <2>1, Zenon DEF DelLink
  <2>3. reg' = [reg EXCEPT ![p] = reg'[p]] /\ reg'[p].pc = "del.unlock"
    BY <1>0, <1>17, SMT DEF DelLink, Set
  <2> QED BY <2>1, <2>2, <2>3, PlainStill
<1> QED BY <1>1, <1>2, <1>3, <1>4, <1>5, <1>6, <1>7, <1>8, <1>9, <1>10, <1>11, <1>12, <1>13, <1>14, <1>15, <1>16, <1>17

LEMMA CallStill ==
  ASSUME Discipline, NEW p \in Procs, NEW op, NEW k, NEW v, NEW flag, Call(p, op, k, v, flag)
  PROVE  Still(p)
<1>0. DOMAIN reg = Procs /\ DOMAIN reg[p] = Fields
  BY HandleOf
<1> PICK s : s = [reg[p] EXCEPT !.pc = "chain.lock", !.op = op, !.key = k, !.val = v, !.flag = flag]
  OBVIOUS
<1>1. reg' = [reg EXCEPT ![p] = s] /\ dat' = dat /\ idx' = idx /\ reg[p].pc = "idle"
  BY Zenon DEF Call, Set, file
<1>2. s.pc = "chain.lock"
  BY <1>0, SMT
<1>3. reg' = [reg EXCEPT ![p] = reg'[p]] /\ reg'[p].pc = "chain.lock"
  BY <1>0, <1>1, <1>2, SMT
<1> QED BY <1>1, <1>3, PlainStill

LEMMA DataSteps ==
  ASSUME Discipline, Offsets, Lists, Data, NEW p \in Procs
  PROVE  /\ Acquire(p) \/ Unlink(p) \/ UnlockFree(p) \/ SeekDat(p) \/ UnlockDat(p) => Still(p)
         /\ SeekIdx(p) \/ UnlockTail(p) => Still(p)
<1>0. /\ DOMAIN reg = Procs /\ DOMAIN reg[p] = Fields /\ Place(reg[p]) /\ Doing(p)
      /\ Within(reg[p], Len(idx)) /\ Files /\ Works(reg[p], idx, dat)
  BY HereOf DEF Lists, Data
<1> PICK r : r = reg[p]
  OBVIOUS
<1>1. ASSUME Acquire(p) PROVE Still(p)
  <2> PICK pc : pc = Granted[r.pc]
    OBVIOUS
  <2>1. reg' = [reg EXCEPT ![p] = [r EXCEPT !.pc = pc]] /\ dat' = dat /\ idx' = idx
        /\ r.pc \in Requesting
    BY <1>0, <1>1, SMT DEF Acquire, Go, Set, file, Requests, Granted, Requesting
  <2>2. reg' = [reg EXCEPT ![p] = reg'[p]] /\ reg'[p] = [r EXCEPT !.pc = pc]
    BY <1>0, <2>1, SMT
  <2>3. r.pc \notin Erased
    BY <2>1, SMT DEF Requesting
  <2>4. CASE r.pc \in {"reuse.lock", "over.lock", "tail.lock"}
    <3>1. pc = IF r.pc = "reuse.lock" THEN "reuse.dat"
               ELSE IF r.pc = "over.lock" THEN "over.dat" ELSE "tail.seek"
      BY <2>4, GrantedIs, SMT
    <3>2. Works([r EXCEPT !.pc = pc], idx, dat)
      BY <1>0, <2>4, <3>1, SMT DEF Works, Taken
    <3>3. /\ [r EXCEPT !.pc = pc].pc \in Appended => r.pc \in Appended
          /\ [r EXCEPT !.pc = pc].datoff = r.datoff /\ [r EXCEPT !.pc = pc].datlen = r.datlen
      BY <1>0, <2>4, <3>1, SMT
    <3> QED BY <2>1, <2>2, <2>3, <3>2, <3>3 DEF Still, SameRec
  <2>5. CASE r.pc \notin {"reuse.lock", "over.lock", "tail.lock"}
    <3>1. pc \in {"chain.read", "free.read", "erase.lock", "scan.idx", "erase.dat"}
      BY <2>1, <2>5, GrantedIs, SMT DEF Requesting
    <3>2. reg'[p].pc = pc
      BY <1>0, <2>2, SMT
    <3> QED BY <2>1, <2>2, <2>3, <3>1, <3>2, PlainStill
  <2> QED BY <2>4, <2>5
<1>2. ASSUME Unlink(p) PROVE Still(p)
  <2> PICK s : s = [r EXCEPT !.pc = "free.unlock", !.pos = Astray]
    OBVIOUS
  <2>1. reg' = [reg EXCEPT ![p] = s] /\ dat' = dat /\ r.pc = "free.unlink"
    BY <1>2, SMT DEF Unlink, Set
  <2>2. reg' = [reg EXCEPT ![p] = reg'[p]] /\ reg'[p] = s
    BY <1>0, <2>1, SMT
  <2>3. Works(s, idx, dat) /\ s.pc = "free.unlock"
    BY <1>0, <2>1, SMT DEF Works, Taken
  <2>4. idx' = idx \/ idx' = Pointed(r.from, r.ptrval)
    BY <1>2 DEF Unlink
  <2>5. DOMAIN idx' = DOMAIN idx /\ \A x \in DOMAIN idx : SameRec(idx, idx', x)
    <3>1. DOMAIN Pointed(r.from, r.ptrval) = DOMAIN idx /\ DOMAIN idx = 1 .. Len(idx)
      BY <1>0, LenNat, SMT DEF Pointed
    <3> QED BY <1>0, <2>4, <3>1, PointedSame DEF SameRec
  <2> QED BY <2>1, <2>2, <2>3, <2>5 DEF Still
<1>3. ASSUME UnlockFree(p) PROVE Still(p)
  <2> PICK s : s = [r EXCEPT !.off = None, !.from = None,
                             !.pc = IF r.off = None THEN "new.seek" ELSE "reuse.lock"]
    OBVIOUS
  <2>1. reg' = [reg EXCEPT ![p] = s] /\ dat' = dat /\ idx' = idx /\ r.pc = "free.unlock"
    BY <1>3, SMT DEF UnlockFree, Set, file
  <2>2. reg' = [reg EXCEPT ![p] = reg'[p]] /\ reg'[p] = s
    BY <1>0, <2>1, SMT
  <2>3. Works(s, idx, dat) /\ s.pc \in {"new.seek", "reuse.lock"}
    BY <1>0, <2>1, SMT DEF Works, Taken
  <2> QED BY <2>1, <2>2, <2>3 DEF Still, SameRec
<1>4. ASSUME SeekDat(p) PROVE Still(p)
  <2> PICK s : s = [r EXCEPT !.pc = "new.dat", !.datoff = Len(dat) + 1]
    OBVIOUS
  <2>1. reg' = [reg EXCEPT ![p] = s] /\ dat' = dat /\ idx' = idx /\ r.pc = "new.seek"
        /\ Len(dat) + DatLen[r.val] <= MaxDat
    BY <1>4, SMT DEF SeekDat, Set, file
  <2>2. reg' = [reg EXCEPT ![p] = reg'[p]] /\ reg'[p] = s
    BY <1>0, <2>1, SMT
  <2>3. Len(dat) \in Nat /\ DatLen[r.val] \in Nat
    BY <1>0, <2>1, LenProperties, SMT DEF Data, Place
  <2>4. s.datoff = Len(dat) + 1 /\ s.pc = "new.dat" /\ s.val = r.val
    BY <1>0, SMT
  <2>5. s.datoff >= 1 /\ s.datoff + DatLen[s.val] <= MaxDat + 1
    BY <2>1, <2>3, <2>4, SMT
  <2>6. Works(s, idx, dat)
    BY <2>4, <2>5, SMT DEF Works, Taken
  <2> QED BY <2>1, <2>2, <2>4, <2>6 DEF Still, SameRec
<1>5. ASSUME UnlockDat(p) PROVE Still(p)
  <2> PICK s : s = [r EXCEPT !.pc = "tail.lock"]
    OBVIOUS
  <2>1. reg' = [reg EXCEPT ![p] = s] /\ dat' = dat /\ idx' = idx /\ r.pc = "new.unlock"
    BY <1>5, SMT DEF UnlockDat, Go, Set, file
  <2>2. reg' = [reg EXCEPT ![p] = reg'[p]] /\ reg'[p] = s
    BY <1>0, <2>1, SMT
  <2>3. Works(s, idx, dat) /\ s.pc = "tail.lock" /\ s.datoff = r.datoff /\ s.datlen = r.datlen
    BY <1>0, <2>1, SMT DEF Works, Taken
  <2> QED BY <2>1, <2>2, <2>3 DEF Still, SameRec
<1>6. ASSUME SeekIdx(p) PROVE Still(p)
  <2> PICK s : s = [r EXCEPT !.pc = "tail.idx", !.idxoff = Len(idx) + 1, !.ptrval = r.new]
    OBVIOUS
  <2>1. reg' = [reg EXCEPT ![p] = s] /\ dat' = dat /\ idx' = idx /\ r.pc = "tail.seek"
    BY <1>6, SMT DEF SeekIdx, Set, file
  <2>2. reg' = [reg EXCEPT ![p] = reg'[p]] /\ reg'[p] = s
    BY <1>0, <2>1, SMT
  <2>3. Works(s, idx, dat) /\ s.pc = "tail.idx" /\ s.datoff = r.datoff /\ s.datlen = r.datlen
    BY <1>0, <2>1, SMT DEF Works, Taken
  <2> QED BY <2>1, <2>2, <2>3 DEF Still, SameRec
<1>7. ASSUME UnlockTail(p) PROVE Still(p)
  <2> PICK s : s = [r EXCEPT !.pc = "chain.link"]
    OBVIOUS
  <2>1. reg' = [reg EXCEPT ![p] = s] /\ dat' = dat /\ idx' = idx /\ r.pc = "tail.unlock"
    BY <1>7, SMT DEF UnlockTail, Go, Set, file
  <2>2. reg' = [reg EXCEPT ![p] = reg'[p]] /\ reg'[p] = s
    BY <1>0, <2>1, SMT
  <2>3. Works(s, idx, dat) /\ s.pc = "chain.link"
    BY <1>0, <2>1, SMT DEF Works, Taken
  <2> QED BY <2>1, <2>2, <2>3 DEF Still, SameRec
<1> QED BY <1>1, <1>2, <1>3, <1>4, <1>5, <1>6, <1>7

(* What db_store finds on its chain and on the free list *)
LEMMA FoundWorks ==
  ASSUME NEW l, DOMAIN l = Fields, l.op \in {"fetch", "delete", "store"}
  PROVE  Works(Found(l), idx, dat) /\ Found(l).pc \notin Appended
<1> PICK f : f = [l EXCEPT !.off = None]
  OBVIOUS
<1>1. DOMAIN f = Fields /\ f.op = l.op /\ f.flag = l.flag /\ f.datlen = l.datlen /\ f.val = l.val
  BY SMT
<1>2. CASE l.op = "fetch"
  <2>1. Found(l) = [f EXCEPT !.pc = "dat.read", !.from = None]
    BY <1>1, <1>2, SMT DEF Found
  <2> QED BY <1>1, <2>1, SMT DEF Works, Taken
<1>3. CASE l.op = "delete"
  <2>1. Found(l) = [f EXCEPT !.pc = "del.lock"]
    BY <1>1, <1>3, SMT DEF Found
  <2> QED BY <1>1, <2>1, SMT DEF Works, Taken
<1>4. CASE l.op = "store" /\ l.flag = "insert"
  <2>1. Found(l) = [f EXCEPT !.pc = "chain.unlock", !.rc = 1]
    BY <1>1, <1>4, SMT DEF Found
  <2> QED BY <1>1, <2>1, SMT DEF Works, Taken
<1>5. CASE l.op = "store" /\ l.flag # "insert"
  <2>1. Found(l) = IF f.datlen = DatLen[f.val] THEN [f EXCEPT !.pc = "over.lock"]
                   ELSE [f EXCEPT !.pc = "del.lock"]
    BY <1>1, <1>5, SMT DEF Found
  <2>2. CASE f.datlen = DatLen[f.val]
    BY <1>1, <2>1, <2>2, SMT DEF Works, Taken
  <2>3. CASE f.datlen # DatLen[f.val]
    BY <1>1, <2>1, <2>3, SMT DEF Works, Taken
  <2> QED BY <2>2, <2>3
<1> QED BY <1>2, <1>3, <1>4, <1>5

LEMMA SearchSteps ==
  ASSUME Discipline, Offsets, Lists, Data, NEW p \in Procs
  PROVE  Walk(p) \/ WalkFree(p) \/ ScanIdx(p) => Still(p)
<1>0. /\ DOMAIN reg = Procs /\ DOMAIN reg[p] = Fields /\ Place(reg[p])
      /\ Within(reg[p], Len(idx)) /\ Files /\ DOMAIN idx = 1 .. Len(idx)
  BY HereOf
<1> PICK r : r = reg[p]
  OBVIOUS
<1>1. ASSUME NEW s, reg' = [reg EXCEPT ![p] = s], UNCHANGED file, Works(s, idx, dat),
             s.pc \notin Appended, r.pc \notin Erased
      PROVE  Still(p)
  <2>1. reg' = [reg EXCEPT ![p] = reg'[p]] /\ reg'[p] = s
    BY <1>0, <1>1, SMT
  <2>2. idx' = idx /\ dat' = dat
    BY <1>1 DEF file
  <2> QED BY <1>1, <2>1, <2>2 DEF Still, SameRec
<1>2. ASSUME Walk(p) PROVE Still(p)
  <2> PICK l : l = Loaded(r)
    OBVIOUS
  <2>0. r.op \in {"fetch", "delete", "store"} /\ r.pc = "chain.walk" /\ UNCHANGED file
    BY <1>0, <1>2, SMT DEF Walk, Place
  <2>1. DOMAIN l = Fields /\ l.op = r.op /\ l.pc = r.pc
    BY <1>0, SMT DEF Loaded
  <2>2. PICK s : Set(p, s) /\ \/ s = Found(l)
                              \/ s = Missed(l)
                              \/ s = [l EXCEPT !.from = l.off, !.off = l.ptrval]
    BY <1>2, SMT DEF Walk
  <2>3. Works(s, idx, dat) /\ s.pc \notin Appended
    <3>1. CASE s = Found(l)
      BY <2>0, <2>1, <3>1, FoundWorks
    <3>2. CASE s = Missed(l)
      BY <2>0, <2>1, <3>2, SMT DEF Missed, Works, Taken
    <3>3. CASE s = [l EXCEPT !.from = l.off, !.off = l.ptrval]
      BY <2>0, <2>1, <3>3, SMT DEF Works, Taken
    <3> QED BY <2>2, <3>1, <3>2, <3>3
  <2>4. r.pc \notin Erased
    BY <2>0, SMT
  <2> QED BY <1>1, <2>0, <2>2, <2>3, <2>4 DEF Set
<1>3. ASSUME WalkFree(p) PROVE Still(p)
  <2> PICK l : l = Loaded(r)
    OBVIOUS
  <2>0. r.pc = "free.walk" /\ UNCHANGED file /\ r.op = "store"
    BY <1>0, <1>3, SMT DEF WalkFree, Place
  <2>1. DOMAIN l = Fields /\ l.pc = r.pc /\ l.off = r.off /\ l.val = r.val
        /\ l.idxoff = r.off /\ l.datoff = idx[r.off].dat /\ l.datlen = idx[r.off].len
    BY <1>0, SMT DEF Loaded
  <2>2. r.off \in DOMAIN idx
    BY <1>0, <2>0, SMT DEF Within, None
  <2>3. PICK s : Set(p, s) /\ \/ Fits(l) /\ s = [l EXCEPT !.pc = "free.unlink"]
                              \/ s = [l EXCEPT !.pc = "free.unlock", !.off = None]
                              \/ s = [l EXCEPT !.from = l.off, !.off = l.ptrval]
    BY <1>3, SMT DEF WalkFree
  <2>4. Works(s, idx, dat) /\ s.pc \notin Appended
    <3>1. CASE Fits(l) /\ s = [l EXCEPT !.pc = "free.unlink"]
      BY <2>1, <2>2, <3>1, SMT DEF Fits, Works, Taken
    <3>2. CASE s = [l EXCEPT !.pc = "free.unlock", !.off = None]
      BY <2>0, <2>1, <3>2, SMT DEF Works, Taken
    <3>3. CASE s = [l EXCEPT !.from = l.off, !.off = l.ptrval]
      BY <2>0, <2>1, <3>3, SMT DEF Works, Taken
    <3> QED BY <2>3, <3>1, <3>2, <3>3
  <2>5. r.pc \notin Erased
    BY <2>0, SMT
  <2> QED BY <1>1, <2>0, <2>3, <2>4, <2>5 DEF Set
<1>4. ASSUME ScanIdx(p) PROVE Still(p)
  <2>0. r.pc = "scan.idx" /\ UNCHANGED file
    BY <1>4, SMT DEF ScanIdx
  <2>1. PICK s : /\ Set(p, s)
                 /\ \/ s = [r EXCEPT !.pc = "scan.unlock", !.rc = -1]
                    \/ s = [r EXCEPT !.pos = r.pos + 1]
                    \/ /\ r.pos \in DOMAIN idx /\ idx[r.pos].key # Blank
                       /\ s = [r EXCEPT !.pc = "scan.dat", !.key = idx[r.pos].key,
                                        !.datoff = idx[r.pos].dat, !.datlen = idx[r.pos].len,
                                        !.pos = r.pos + 1]
    BY <1>4, SMT DEF ScanIdx, Recs
  <2>2. Works(s, idx, dat) /\ s.pc \notin Appended
    <3>1. CASE s = [r EXCEPT !.pc = "scan.unlock", !.rc = -1]
      BY <1>0, <3>1, SMT DEF Works, Taken
    <3>2. CASE s = [r EXCEPT !.pos = r.pos + 1]
      BY <1>0, <2>0, <3>2, SMT DEF Works, Taken
    <3>3. CASE /\ r.pos \in DOMAIN idx /\ idx[r.pos].key # Blank
               /\ s = [r EXCEPT !.pc = "scan.dat", !.key = idx[r.pos].key,
                                !.datoff = idx[r.pos].dat, !.datlen = idx[r.pos].len,
                                !.pos = r.pos + 1]
      <4>1. /\ s.pc = "scan.dat" /\ s.key = idx[r.pos].key /\ s.datoff = idx[r.pos].dat
            /\ s.datlen = idx[r.pos].len /\ s.pos = r.pos + 1
        BY <1>0, <3>3, SMT
      <4>2. s.pos - 1 = r.pos
        BY <1>0, <3>3, <4>1, SMT
      <4> QED BY <3>3, <4>1, <4>2, SMT DEF Works, Taken
    <3> QED BY <2>1, <3>1, <3>2, <3>3
  <2>3. r.pc \notin Erased
    BY <2>0, SMT
  <2> QED BY <1>1, <2>0, <2>1, <2>2, <2>3 DEF Set
<1> QED BY <1>2, <1>3, <1>4

(* The three writes of a whole index record *)
LEMMA StoredOn ==
  ASSUME Discipline, AllStored, NEW p \in Procs, reg' = [reg EXCEPT ![p] = reg'[p]], dat' = dat,
         Frozen(idx, idx'), NEW x \in Live, idx'[x].key = idx[x].key,
         reg[p].pc \in Erased => x # reg[p].idxoff
  PROVE  Stored(x)'
<1>0. DOMAIN reg = Procs /\ \A q \in Procs : q # p => reg'[q] = reg[q]
  BY SMT DEF Discipline, Shapes
<1>1. Stored(x) /\ x \in DOMAIN idx
  BY DEF AllStored, Live, Recs
<1>2. CASE \E v \in Vals : Tells(dat, idx[x].dat, idx[x].len, idx[x].key, v)
  BY <1>1, <1>2 DEF Stored, Frozen
<1>3. CASE \E q \in Procs : reg[q].pc \in Erased /\ reg[q].idxoff = x
  BY <1>0, <1>3 DEF Stored
<1> QED BY <1>1, <1>2, <1>3 DEF Stored

LEMMA WriteIdxData ==
  ASSUME Discipline, Offsets, Lists, Data, NEW p \in Procs, WriteIdx(p)
  PROVE  Data' /\ (AllStored => AllStored')
<1> PICK r : r = reg[p]
  OBVIOUS
<1>0. /\ DOMAIN reg = Procs /\ DOMAIN r = Fields /\ Place(r) /\ Within(r, Len(idx))
      /\ Files /\ Len(idx) \in Nat /\ DOMAIN idx = 1 .. Len(idx)
      /\ Works(r, idx, dat) /\ HandBlank(r, idx)
  BY HereOf DEF Data, Lists, Blanks
<1> PICK s : s = [r EXCEPT !.pc = "chain.link", !.ptrval = r.new, !.pos = r.idxoff + 1]
  OBVIOUS
<1>1. /\ r.pc = "reuse.idx" /\ idx' = Filled(r, r.key) /\ reg' = [reg EXCEPT ![p] = s]
      /\ dat' = dat /\ r.op = "store" /\ r.val \in Vals
  BY <1>0, SMT DEF WriteIdx, Set, Place
<1>2. reg' = [reg EXCEPT ![p] = reg'[p]] /\ reg'[p] = s
  BY <1>0, <1>1, SMT
<1>3. /\ r.idxoff \in DOMAIN idx /\ r.datoff = idx[r.idxoff].dat
      /\ r.datlen = idx[r.idxoff].len /\ r.datlen = DatLen[r.val]
      /\ Tells(dat, r.datoff, r.datlen, r.key, r.val)
  BY <1>0, <1>1, SMT DEF Works, Taken
<1>4. /\ DOMAIN idx' = DOMAIN idx
      /\ \A x \in DOMAIN idx : x # r.idxoff => SameRec(idx, idx', x)
      /\ idx'[r.idxoff].key = r.key /\ idx'[r.idxoff].dat = r.datoff
      /\ idx'[r.idxoff].len = r.datlen
  <2>1. DOMAIN idx' = DOMAIN idx
    BY <1>0, <1>1, SMT DEF Filled
  <2> QED BY <1>0, <1>1, <1>3, <2>1, FilledSame
<1>5. Frozen(idx, idx')
  BY <1>3, <1>4 DEF Frozen, SameRec
<1>6. idx[r.idxoff].key = Blank
  <2>1. Rec(r) = r.idxoff /\ r.idxoff # None
    BY <1>0, <1>1, <1>3, SMT DEF Rec, Taken, None
  <2> QED BY <1>0, <1>1, <2>1, SMT DEF HandBlank, Empty
<1>7. r.datoff \in Nat /\ r.datlen \in Nat /\ 1 <= r.datlen
  BY <1>0, <1>1, <1>3, SMT DEF Within
<1>8. Extents(idx', dat)
  <2>1. dat[r.datoff].key = r.key
    BY <1>3, <1>7, TellsFirst
  <2> QED BY <1>3, <1>4, <1>5, <2>1, FrozenExtents DEF Data, SameRec
<1>9. Works(s, idx', dat)
  BY <1>0, <1>3, <1>4, SMT DEF Works, Taken
<1>10. ASSUME NEW q \in Procs, reg[q].pc = "scan.dat"
       PROVE  idx'[reg[q].pos - 1].key = idx[reg[q].pos - 1].key
  <2>1. reg[q].pos - 1 \in DOMAIN idx /\ idx[reg[q].pos - 1].key # Blank
    BY <1>10, SMT DEF Data, Works
  <2> QED BY <1>4, <1>6, <2>1 DEF SameRec
<1>11. s.pc \notin Appended
  BY <1>0, SMT
<1>12. Data'
  BY <1>1, <1>2, <1>4, <1>5, <1>8, <1>9, <1>10, <1>11, IndexStep
<1>13. ASSUME AllStored, NEW x \in Live' PROVE Stored(x)'
  <2>1. CASE x = r.idxoff
    BY <1>1, <1>3, <1>4, <2>1 DEF Stored
  <2>2. CASE x # r.idxoff
    <3>1. x \in Live /\ idx'[x].key = idx[x].key
      BY <1>4, <2>2 DEF Live, Recs, SameRec
    <3>2. r.pc \notin Erased
      BY <1>1, SMT
    <3> QED BY <1>1, <1>2, <1>5, <1>13, <3>1, <3>2, StoredOn
  <2> QED BY <2>1, <2>2
<1> QED BY <1>12, <1>13 DEF AllStored

LEMMA DelIdxData ==
  ASSUME Discipline, Guards, Offsets, Lists, Data, NEW p \in Procs, DelIdx(p)
  PROVE  Data' /\ (AllStored => AllStored')
<1> PICK r : r = reg[p]
  OBVIOUS
<1>0. /\ DOMAIN reg = Procs /\ DOMAIN r = Fields /\ Place(r) /\ Within(r, Len(idx))
      /\ Files /\ Len(idx) \in Nat /\ DOMAIN idx = 1 .. Len(idx) /\ Doing(p)
  BY HereOf DEF Lists
<1> PICK s : s = [r EXCEPT !.pc = "del.head", !.ptrval = r.new, !.new = None, !.pos = r.idxoff + 1]
  OBVIOUS
<1>1. /\ r.pc = "del.idx" /\ idx' = Filled(r, Blank) /\ reg' = [reg EXCEPT ![p] = s]
      /\ dat' = dat
  BY <1>0, SMT DEF DelIdx, Set
<1>2. reg' = [reg EXCEPT ![p] = reg'[p]] /\ reg'[p] = s
  BY <1>0, <1>1, SMT
<1>3. r.idxoff \in DOMAIN idx /\ r.datoff = idx[r.idxoff].dat /\ r.datlen = idx[r.idxoff].len
  <2>1. r.idxoff # None /\ r.datoff = idx[r.idxoff].dat /\ r.datlen = idx[r.idxoff].len
    BY <1>0, <1>1, SMT DEF Doing, Knows
  <2>2. r.idxoff \in 0 .. Len(idx)
    BY <1>0, <1>1, SMT DEF Within
  <2> QED BY <1>0, <2>1, <2>2, SMT DEF None
<1>4. /\ DOMAIN idx' = DOMAIN idx
      /\ \A x \in DOMAIN idx : x # r.idxoff => SameRec(idx, idx', x)
      /\ idx'[r.idxoff].key = Blank /\ idx'[r.idxoff].dat = r.datoff
      /\ idx'[r.idxoff].len = r.datlen
  <2>1. DOMAIN idx' = DOMAIN idx
    BY <1>0, <1>1, SMT DEF Filled
  <2> QED BY <1>0, <1>1, <1>3, <2>1, FilledSame
<1>5. Frozen(idx, idx')
  BY <1>3, <1>4 DEF Frozen, SameRec
<1>6. Extents(idx', dat)
  <2>1. \A x \in DOMAIN idx' : idx'[x].key \in {idx[x].key, Blank}
    BY <1>4 DEF SameRec
  <2>2. ASSUME NEW x \in DOMAIN idx' PROVE Inside(dat, idx'[x].dat, idx'[x].len) /\
            Tells(dat, idx'[x].dat, idx'[x].len, dat[idx'[x].dat].key, dat[idx'[x].dat].val)
    BY <1>4, <1>5 DEF Data, Extents, Frozen
  <2>3. ASSUME NEW x \in DOMAIN idx'
        PROVE  idx'[x].key = Blank \/ dat[idx'[x].dat].key \in {idx'[x].key, Blank}
    BY <1>4, <1>5, <2>1 DEF Data, Extents, Frozen
  <2>4. \A x, y \in DOMAIN idx' : x # y => Beside(idx'[x].dat, idx'[x].len, idx'[y].dat, idx'[y].len)
    BY <1>4, <1>5 DEF Data, Extents, Frozen
  <2> QED BY <2>2, <2>3, <2>4 DEF Extents
<1>7. s.pc = "del.head"
  BY <1>0, SMT
<1>8. Works(s, idx', dat)
  <2>1. /\ s.pc \notin {"free.unlink", "over.lock", "over.dat", "new.dat", "scan.dat"}
        /\ s.pc \notin Appended \cup Linking \cup Reusing
        /\ s.pc # "free.unlock"
    BY <1>7, SMT
  <2> QED BY <2>1, PlainWorks
<1>9. ASSUME NEW q \in Procs, q # p PROVE reg[q].pc # "scan.dat"
  <2> SUFFICES ASSUME reg[q].pc = "scan.dat" PROVE FALSE
    OBVIOUS
  <2>0. Guarded(q) /\ Needs(p) /\ Exclusive
    BY DEF Guards, Discipline
  <2>1. <<q, "free", "r">> \in locks
    BY <2>0, SMT DEF Guarded
  <2>2. <<p, "free", "w">> \in locks
    BY <1>1, <2>0, SMT DEF Needs
  <2> QED BY <1>9, <2>0, <2>1, <2>2, SMT DEF Exclusive, Conflict
<1>10. Data'
  BY <1>1, <1>2, <1>4, <1>5, <1>6, <1>7, <1>8, <1>9, IndexStep
<1>11. ASSUME AllStored, NEW x \in Live' PROVE Stored(x)'
  <2>1. x # r.idxoff
    BY <1>4 DEF Live
  <2>2. x \in Live /\ idx'[x].key = idx[x].key
    BY <1>4, <2>1 DEF Live, Recs, SameRec
  <2> QED BY <1>1, <1>2, <1>5, <1>11, <2>1, <2>2, StoredOn
<1> QED BY <1>10, <1>11 DEF AllStored

LEMMA AppendIdxData ==
  ASSUME Discipline, Offsets, Data, NEW p \in Procs, AppendIdx(p)
  PROVE  Data' /\ (AllStored => AllStored')
<1> PICK r : r = reg[p]
  OBVIOUS
<1>0. /\ DOMAIN reg = Procs /\ DOMAIN r = Fields /\ Place(r) /\ Within(r, Len(idx))
      /\ Files /\ Len(idx) \in Nat /\ DOMAIN idx = 1 .. Len(idx) /\ Works(r, idx, dat)
  BY HereOf DEF Data
<1> PICK s : s = [r EXCEPT !.pc = "tail.unlock", !.pos = r.idxoff + 1]
  OBVIOUS
<1> PICK n \in Nat : n = Len(idx) + 1
  BY <1>0
<1>1. /\ r.pc = "tail.idx" /\ r.idxoff = n /\ reg' = [reg EXCEPT ![p] = s]
      /\ dat' = dat /\ r.op = "store" /\ r.val \in Vals
  BY <1>0, SMT DEF AppendIdx, Set, Place, Within
<1>2. reg' = [reg EXCEPT ![p] = reg'[p]] /\ reg'[p] = s
  <2>1. DOMAIN reg = Procs /\ reg' = [reg EXCEPT ![p] = s]
    BY <1>0, <1>1
  <2> QED BY <2>1, SMT
<1>3. idx' = Append(idx, NewRec(r))
  BY <1>0, <1>1, SMT DEF AppendIdx, Recs
<1>4. /\ DOMAIN idx' = 1 .. n /\ DOMAIN idx = 1 .. n - 1
      /\ \A x \in DOMAIN idx : idx'[x] = idx[x]
      /\ idx'[n].key = r.key /\ idx'[n].dat = r.datoff /\ idx'[n].len = r.datlen
  BY <1>0, <1>3, SMT DEF NewRec
<1>5. n \notin DOMAIN idx /\ n \in DOMAIN idx' /\ \A x \in DOMAIN idx' : x = n \/ x \in DOMAIN idx
  BY <1>4, SMT
<1>6. Frozen(idx, idx')
  BY <1>4, <1>5, SMT DEF Frozen
<1>7. /\ r.datlen = DatLen[r.val] /\ Inside(dat, r.datoff, r.datlen)
      /\ Tells(dat, r.datoff, r.datlen, r.key, r.val)
      /\ \A x \in DOMAIN idx : Beside(r.datoff, r.datlen, idx[x].dat, idx[x].len)
  BY <1>0, <1>1, SMT DEF Works
<1>8. dat[r.datoff].key = r.key /\ dat[r.datoff].val = r.val
  <2>1. r.datoff \in Nat /\ r.datlen \in Nat /\ 1 <= r.datlen
    BY <1>0, <1>7, SMT DEF Within, Inside
  <2> QED BY <1>7, <2>1, TellsFirst
<1>9. Extents(idx', dat)
  <2>1. ASSUME NEW x \in DOMAIN idx'
        PROVE  /\ Inside(dat, idx'[x].dat, idx'[x].len)
               /\ Tells(dat, idx'[x].dat, idx'[x].len, dat[idx'[x].dat].key, dat[idx'[x].dat].val)
               /\ idx'[x].key = Blank \/ dat[idx'[x].dat].key \in {idx'[x].key, Blank}
    <3>1. CASE x = n
      BY <1>4, <1>7, <1>8, <3>1
    <3>2. CASE x \in DOMAIN idx
      BY <1>4, <3>2 DEF Data, Extents
    <3> QED BY <1>5, <3>1, <3>2
  <2>2. ASSUME NEW x \in DOMAIN idx', NEW y \in DOMAIN idx', x # y
        PROVE  Beside(idx'[x].dat, idx'[x].len, idx'[y].dat, idx'[y].len)
    <3>1. CASE x = n
      BY <1>4, <1>5, <1>7, <2>2, <3>1
    <3>2. CASE y = n
      BY <1>4, <1>5, <1>7, <2>2, <3>2 DEF Beside
    <3>3. CASE x \in DOMAIN idx /\ y \in DOMAIN idx
      BY <1>4, <2>2, <3>3 DEF Data, Extents
    <3> QED BY <1>5, <3>1, <3>2, <3>3
  <2> QED BY <2>1, <2>2 DEF Extents
<1>10. Works(s, idx', dat) /\ s.pc \notin Appended
  <2>1. s.pc = "tail.unlock" /\ s.idxoff = n /\ s.key = r.key /\ s.val = r.val
    BY <1>0, <1>1, SMT
  <2> QED BY <1>4, <1>5, <1>7, <2>1, SMT DEF Works, Taken
<1>11. ASSUME NEW q \in Procs, q # p
       PROVE  /\ reg[q].pc = "scan.dat" => idx'[reg[q].pos - 1].key = idx[reg[q].pos - 1].key
              /\ reg[q].pc \in Appended =>
                   \A x \in DOMAIN idx' :
                     x \in DOMAIN idx \/ Beside(reg[q].datoff, reg[q].datlen, idx'[x].dat, idx'[x].len)
  <2>1. reg[q].pc = "scan.dat" => reg[q].pos - 1 \in DOMAIN idx
    BY DEF Data, Works
  <2>2. reg[q].pc \in Appended => Beside(reg[q].datoff, reg[q].datlen, r.datoff, r.datlen)
    BY <1>1, <1>11, SMT DEF Data, NewApart
  <2> QED BY <1>4, <1>5, <2>1, <2>2
<1>12. Data'
  BY <1>1, <1>2, <1>6, <1>9, <1>10, <1>11, IndexStep
<1>13. ASSUME AllStored, NEW x \in Live' PROVE Stored(x)'
  <2>1. CASE x = n
    BY <1>1, <1>4, <1>7, <2>1 DEF Stored
  <2>2. CASE x \in DOMAIN idx
    <3>1. x \in Live /\ idx'[x].key = idx[x].key
      BY <1>4, <2>2 DEF Live, Recs
    <3>2. r.pc \notin Erased
      BY <1>1, SMT
    <3> QED BY <1>1, <1>2, <1>6, <1>13, <3>1, <3>2, StoredOn
  <2> QED BY <1>5, <2>1, <2>2 DEF Live, Recs
<1> QED BY <1>12, <1>13 DEF AllStored

(* The writes to the data file *)
LEMMA DataStep ==
  ASSUME Discipline, Data, NEW p \in Procs, reg' = [reg EXCEPT ![p] = reg'[p]], idx' = idx,
         dat' \in Seq(Cell), Len(dat') <= MaxDat, Extents(idx, dat'),
         Works(reg'[p], idx, dat'), \A q \in Procs : q # p => Works(reg[q], idx, dat'),
         \A q \in Procs : q # p /\ reg'[p].pc \in Appended /\ reg[q].pc \in Appended =>
           Beside(reg'[p].datoff, reg'[p].datlen, reg[q].datoff, reg[q].datlen)
  PROVE  Data'
<1>0. DOMAIN reg = Procs /\ \A q \in Procs : q # p => reg'[q] = reg[q]
  BY SMT DEF Discipline, Shapes
<1>1. NewApart'
  BY <1>0, SMT DEF Data, NewApart, Beside
<1> QED BY <1>0, <1>1 DEF Data

LEMMA ExtentsNat ==
  ASSUME Files, NEW x \in DOMAIN idx PROVE idx[x].dat \in Nat /\ idx[x].len \in Nat
<1>1. idx[x] \in IdxRec
  BY LenNat, ElementOfSeq DEF Files
<1> QED BY <1>1 DEF IdxRec

(* What a write of n cells at o leaves to the others *)
LEMMA WorksBeside ==
  ASSUME NEW r, NEW o \in Nat, NEW n \in Nat, NEW k, NEW v, NEW e, Written(dat, e, o, n, k, v),
         Len(dat) \in Nat, Len(e) \in Nat, Files, Extents(idx, dat), Works(r, idx, dat),
         r.datoff \in Nat, r.datlen \in Nat,
         r.pc \in Linking \cup {"reuse.idx"} => Beside(idx[r.idxoff].dat, idx[r.idxoff].len, o, n),
         r.pc \in Appended => Beside(r.datoff, r.datlen, o, n)
  PROVE  Works(r, idx, e)
<1>1. ASSUME r.pc \in Linking \cup {"reuse.idx"}
      PROVE  \A l, w : Tells(e, idx[r.idxoff].dat, idx[r.idxoff].len, l, w)
                         <=> Tells(dat, idx[r.idxoff].dat, idx[r.idxoff].len, l, w)
  <2>1. r.idxoff \in DOMAIN idx
    BY <1>1, SMT DEF Works, Taken
  <2>2. Inside(dat, idx[r.idxoff].dat, idx[r.idxoff].len)
    BY <2>1 DEF Extents
  <2> QED BY <1>1, <2>1, <2>2, ExtentsNat, BesideStays
<1>2. ASSUME r.pc \in Appended
      PROVE  /\ Inside(e, r.datoff, r.datlen)
             /\ \A l, w : Tells(e, r.datoff, r.datlen, l, w) <=> Tells(dat, r.datoff, r.datlen, l, w)
  <2>1. Inside(dat, r.datoff, r.datlen)
    BY <1>2, SMT DEF Works
  <2> QED BY <1>2, <2>1, BesideStays
<1>3. r.pc = "reuse.idx" => r.datoff = idx[r.idxoff].dat /\ r.datlen = idx[r.idxoff].len
  BY SMT DEF Works, Taken
<1>4. r.pc = "reuse.idx" => Tells(e, r.datoff, r.datlen, r.key, r.val)
  BY <1>1, <1>3 DEF Works
<1>5. r.pc \in Linking => Tells(e, idx[r.idxoff].dat, idx[r.idxoff].len, r.key, r.val)
  BY <1>1 DEF Works
<1>6. r.pc \in Appended => Tells(e, r.datoff, r.datlen, r.key, r.val) /\ Inside(e, r.datoff, r.datlen)
  BY <1>2 DEF Works
<1> QED BY <1>4, <1>5, <1>6, SMT DEF Works

LEMMA BesideRecord ==
  ASSUME Files, Extents(idx, dat), NEW x \in DOMAIN idx, NEW e, NEW k, NEW v,
         Written(dat, e, idx[x].dat, idx[x].len, k, v), Len(dat) \in Nat, Len(e) \in Nat,
         NEW y \in DOMAIN idx, y # x
  PROVE  /\ Inside(e, idx[y].dat, idx[y].len) /\ dat[idx[y].dat] = e[idx[y].dat]
         /\ \A l, w : Tells(e, idx[y].dat, idx[y].len, l, w)
                        <=> Tells(dat, idx[y].dat, idx[y].len, l, w)
<1>1. Inside(dat, idx[y].dat, idx[y].len) /\ Beside(idx[y].dat, idx[y].len, idx[x].dat, idx[x].len)
  BY DEF Extents
<1> QED BY <1>1, ExtentsNat, BesideStays

LEMMA OneWritten ==
  ASSUME Files, Extents(idx, dat), NEW x \in DOMAIN idx, NEW e, NEW k, NEW v,
         Written(dat, e, idx[x].dat, idx[x].len, k, v), Len(dat) \in Nat, Len(e) \in Nat,
         idx[x].key = Blank \/ k \in {idx[x].key, Blank}
  PROVE  Extents(idx, e)
<1>1. Tells(e, idx[x].dat, idx[x].len, k, v) /\ Inside(dat, idx[x].dat, idx[x].len)
  BY DEF Written, Extents
<1>2. idx[x].dat \in Nat /\ idx[x].len \in Nat
  BY ExtentsNat
<1>3. Inside(e, idx[x].dat, idx[x].len) /\ 1 <= idx[x].len
  BY <1>1, <1>2, SMT DEF Inside, Written
<1>4. e[idx[x].dat].key = k /\ e[idx[x].dat].val = v
  BY <1>1, <1>2, <1>3, TellsFirst
<1>5. ASSUME NEW y \in DOMAIN idx
      PROVE  /\ Inside(e, idx[y].dat, idx[y].len)
             /\ Tells(e, idx[y].dat, idx[y].len, e[idx[y].dat].key, e[idx[y].dat].val)
             /\ idx[y].key = Blank \/ e[idx[y].dat].key \in {idx[y].key, Blank}
  <2>1. CASE y = x
    BY <1>1, <1>3, <1>4, <2>1
  <2>2. CASE y # x
    <3>1. /\ Inside(e, idx[y].dat, idx[y].len) /\ dat[idx[y].dat] = e[idx[y].dat]
          /\ \A l, w : Tells(e, idx[y].dat, idx[y].len, l, w)
                         <=> Tells(dat, idx[y].dat, idx[y].len, l, w)
      BY <2>2, BesideRecord
    <3> QED BY <3>1 DEF Extents
  <2> QED BY <2>1, <2>2
<1> QED BY <1>5 DEF Extents

(* One record's data are written over; nobody else has the record. *)
OverWrites(p, x, k, v) ==
  /\ dat' = WriteAt(idx[x].dat, Text(k, v, idx[x].len))
  /\ reg' = [reg EXCEPT ![p] = reg'[p]] /\ idx' = idx
  /\ idx[x].key = Blank \/ k \in {idx[x].key, Blank}
  /\ reg'[p].pc \notin Appended
  /\ \A q \in Procs : q # p /\ reg[q].pc \in Linking \cup {"reuse.idx"} => reg[q].idxoff # x

LEMMA OverWritten ==
  ASSUME Offsets, Data, NEW p \in Procs, NEW x \in DOMAIN idx,
         NEW k \in Keys \cup {Blank}, NEW v \in Vals \cup {Blank}, OverWrites(p, x, k, v)
  PROVE  /\ Written(dat, dat', idx[x].dat, idx[x].len, k, v)
         /\ dat' \in Seq(Cell) /\ Len(dat') \in Nat /\ Len(dat') <= MaxDat
<1>0. dat \in Seq(Cell) /\ Len(dat) \in Nat /\ Len(dat) <= MaxDat /\ Files
  BY LenProperties DEF Data, Offsets
<1> PICK o \in Nat, n \in Nat : o = idx[x].dat /\ n = idx[x].len
  BY <1>0, ExtentsNat
<1>1. Inside(dat, o, n) /\ 1 <= o /\ o <= Len(dat) + 1 /\ 1 <= n /\ o + n - 1 <= Len(dat)
  <2>1. Inside(dat, o, n)
    BY DEF Data, Extents
  <2> QED BY <1>0, <2>1, SMT DEF Inside
<1>2. /\ dat' \in Seq(Cell) /\ Written(dat, dat', o, n, k, v)
      /\ Len(dat') \in {Len(dat), o + n - 1}
  BY <1>0, <1>1, WriteAtWrites DEF OverWrites
<1>3. Len(dat') \in Nat /\ Len(dat') <= MaxDat
  BY <1>0, <1>1, <1>2, LenProperties, SMT
<1> QED BY <1>2, <1>3

LEMMA Overwrite ==
  ASSUME Discipline, Offsets, Data, NEW p \in Procs, NEW x \in DOMAIN idx,
         NEW k \in Keys \cup {Blank}, NEW v \in Vals \cup {Blank}, OverWrites(p, x, k, v),
         Tells(dat', idx[x].dat, idx[x].len, k, v) => Works(reg'[p], idx, dat')
  PROVE  /\ Data' /\ Tells(dat', idx[x].dat, idx[x].len, k, v)
         /\ \A y \in DOMAIN idx : y # x =>
              \A l, w : Tells(dat', idx[y].dat, idx[y].len, l, w)
                          <=> Tells(dat, idx[y].dat, idx[y].len, l, w)
<1>1. /\ Written(dat, dat', idx[x].dat, idx[x].len, k, v)
      /\ dat' \in Seq(Cell) /\ Len(dat') \in Nat /\ Len(dat') <= MaxDat
  BY OverWritten
<1>2. Len(dat) \in Nat /\ Files /\ Extents(idx, dat) /\ idx[x].dat \in Nat /\ idx[x].len \in Nat
  BY LenProperties, ExtentsNat DEF Data, Offsets
<1>3. Tells(dat', idx[x].dat, idx[x].len, k, v)
  BY <1>1 DEF Written
<1>4. Extents(idx, dat')
  BY <1>1, <1>2, OneWritten DEF OverWrites
<1>5. ASSUME NEW q \in Procs, q # p PROVE Works(reg[q], idx, dat')
  <2>1. Works(reg[q], idx, dat) /\ reg[q].datoff \in Nat /\ reg[q].datlen \in Nat
    BY DEF Data, Offsets, Within
  <2>2. reg[q].pc \in Linking \cup {"reuse.idx"} =>
          Beside(idx[reg[q].idxoff].dat, idx[reg[q].idxoff].len, idx[x].dat, idx[x].len)
    <3>1. reg[q].pc \in Linking \cup {"reuse.idx"} => reg[q].idxoff \in DOMAIN idx
      BY <2>1, SMT DEF Works, Taken
    <3> QED BY <1>2, <1>5, <3>1 DEF Extents, OverWrites
  <2>3. reg[q].pc \in Appended => Beside(reg[q].datoff, reg[q].datlen, idx[x].dat, idx[x].len)
    BY <2>1 DEF Works
  <2> QED BY <1>1, <1>2, <2>1, <2>2, <2>3, WorksBeside
<1>6. Data'
  BY <1>1, <1>3, <1>4, <1>5, DataStep DEF OverWrites
<1>7. ASSUME NEW y \in DOMAIN idx, y # x
      PROVE  \A l, w : Tells(dat', idx[y].dat, idx[y].len, l, w)
                         <=> Tells(dat, idx[y].dat, idx[y].len, l, w)
  BY <1>1, <1>2, <1>7, BesideRecord
<1> QED BY <1>3, <1>6, <1>7

(* The three writes over a record's data *)
LEMMA WriteDatIs ==
  ASSUME Discipline, Offsets, Lists, Data, NEW p \in Procs, WriteDat(p)
  PROVE  LET r == reg[p]
             x == r.idxoff
         IN /\ x \in DOMAIN idx /\ r.datoff = idx[x].dat /\ r.datlen = idx[x].len
            /\ r.pc \in {"over.dat", "erase.dat"} => x = head[Chain(p)] /\ idx[x].key = r.key
            /\ r.pc = "reuse.dat" => /\ idx[x].key = Blank
                                     /\ \A c \in Chains : head[c] # x
            /\ r.pc \in {"over.dat", "reuse.dat"} =>
                 /\ r.op = "store" /\ r.val \in Vals /\ idx[x].len = DatLen[r.val]
                 /\ OverWrites(p, x, r.key, r.val)
            /\ r.pc = "erase.dat" => OverWrites(p, x, Blank, Blank)
            /\ r.pc \in {"over.dat", "reuse.dat", "erase.dat"} /\ r.key \in Keys
<1> PICK r : r = reg[p]
  OBVIOUS
<1>0. /\ DOMAIN reg = Procs /\ DOMAIN r = Fields /\ Place(r) /\ Within(r, Len(idx))
      /\ Files /\ Len(idx) \in Nat /\ DOMAIN idx = 1 .. Len(idx) /\ Doing(p)
      /\ Works(r, idx, dat) /\ HandApart(p) /\ HandBlank(r, idx)
  BY HereOf DEF Lists, Apart, Blanks, Data
<1>1. r.pc \in {"over.dat", "reuse.dat", "erase.dat"}
  BY SMT DEF WriteDat
<1>2. r.key \in Keys /\ (r.pc # "erase.dat" => r.op = "store" /\ r.val \in Vals)
      /\ Chain(p) \in Chains
  BY <1>0, <1>1, SMT DEF Place, Chain
<1> PICK x : x = r.idxoff
  OBVIOUS
<1>3. x \in DOMAIN idx /\ r.datoff = idx[x].dat /\ r.datlen = idx[x].len
  <2>1. CASE r.pc = "reuse.dat"
    BY <1>0, <2>1, SMT DEF Works, Taken
  <2>2. CASE r.pc # "reuse.dat"
    <3>1. x # None /\ r.datoff = idx[x].dat /\ r.datlen = idx[x].len
      BY <1>0, <1>1, <2>2, SMT DEF Doing, Knows
    <3>2. x \in 0 .. Len(idx)
      BY <1>0, <1>1, SMT DEF Within
    <3> QED BY <1>0, <3>1, <3>2, SMT DEF None
  <2> QED BY <2>1, <2>2
<1>4. r.pc \in {"over.dat", "erase.dat"} => x = head[Chain(p)] /\ idx[x].key = r.key
  BY <1>0, SMT DEF Doing, Knows
<1>5. r.pc = "reuse.dat" => Rec(r) = x /\ x # None /\ Claims(r, x)
  BY <1>0, <1>3, SMT DEF Rec, Taken, Claims, None
<1>6. r.pc = "reuse.dat" => idx[x].key = Blank /\ \A c \in Chains : head[c] # x
  BY <1>0, <1>5, SMT DEF HandBlank, Empty, HandApart
<1>7. r.pc # "erase.dat" => r.datlen = DatLen[r.val]
  BY <1>0, <1>1, SMT DEF Works, Taken
<1>8. ASSUME NEW q \in Procs, q # p, reg[q].pc \in Linking \cup {"reuse.idx"}
      PROVE  reg[q].idxoff # x
  <2>1. reg[q].idxoff # None /\ Claims(reg[q], reg[q].idxoff)
    <3>1. Doing(q)
      BY DEF Lists
    <3> QED BY <1>8, <3>1, SMT DEF Doing, Knows, Claims, Rec, Taken
  <2>2. HandApart(q) /\ HandsApart
    BY DEF Lists, Apart
  <2>3. CASE r.pc = "reuse.dat"
    BY <1>5, <1>8, <2>1, <2>2, <2>3 DEF HandsApart
  <2>4. CASE r.pc # "reuse.dat"
    BY <1>1, <1>2, <1>4, <2>1, <2>2, <2>4 DEF HandApart
  <2> QED BY <2>3, <2>4
<1>9. ASSUME r.pc # "erase.dat" PROVE OverWrites(p, x, r.key, r.val)
  <2> PICK s : s = [r EXCEPT !.datlen = DatLen[r.val],
                      !.pc = IF r.pc = "over.dat" THEN "chain.unlock" ELSE "reuse.idx"]
    OBVIOUS
  <2>1. /\ dat' = WriteAt(r.datoff, Text(r.key, r.val, DatLen[r.val]))
        /\ reg' = [reg EXCEPT ![p] = s] /\ idx' = idx
    BY <1>9, Zenon DEF WriteDat, Set
  <2>2. reg' = [reg EXCEPT ![p] = reg'[p]] /\ reg'[p] = s
    BY <1>0, <2>1, SMT
  <2>3. s.pc \notin Appended
    BY <1>0, SMT
  <2>4. dat' = WriteAt(idx[x].dat, Text(r.key, r.val, idx[x].len))
    BY <1>3, <1>7, <1>9, <2>1
  <2>5. idx[x].key = Blank \/ r.key = idx[x].key
    BY <1>1, <1>4, <1>6, <1>9
  <2> QED BY <1>8, <2>1, <2>2, <2>3, <2>4, <2>5 DEF OverWrites
<1>10. ASSUME r.pc = "erase.dat" PROVE OverWrites(p, x, Blank, Blank)
  <2> PICK s : s = [r EXCEPT !.pc = "del.free"]
    OBVIOUS
  <2>1. /\ dat' = WriteAt(r.datoff, Text(Blank, Blank, r.datlen))
        /\ reg' = [reg EXCEPT ![p] = s] /\ idx' = idx
    BY <1>10, Zenon DEF WriteDat, Set, Go
  <2>2. reg' = [reg EXCEPT ![p] = reg'[p]] /\ reg'[p] = s
    BY <1>0, <2>1, SMT
  <2>3. s.pc \notin Appended
    BY <1>0, SMT
  <2>4. dat' = WriteAt(idx[x].dat, Text(Blank, Blank, idx[x].len))
    BY <1>3, <2>1
  <2> QED BY <1>8, <2>1, <2>2, <2>3, <2>4 DEF OverWrites
<1>11. r.pc # "erase.dat" => idx[x].len = DatLen[r.val]
  BY <1>3, <1>7
<1> QED BY <1>1, <1>2, <1>3, <1>4, <1>6, <1>9, <1>10, <1>11

LEMMA OthersStored ==
  ASSUME Discipline, AllStored, NEW p \in Procs, reg' = [reg EXCEPT ![p] = reg'[p]], idx' = idx,
         reg[p].pc \notin Erased, NEW y \in Live,
         \A l, w : Tells(dat', idx[y].dat, idx[y].len, l, w)
                     <=> Tells(dat, idx[y].dat, idx[y].len, l, w)
  PROVE  Stored(y)'
<1>0. DOMAIN reg = Procs /\ \A q \in Procs : q # p => reg'[q] = reg[q]
  BY SMT DEF Discipline, Shapes
<1>1. Stored(y)
  BY DEF AllStored
<1>2. CASE \E v \in Vals : Tells(dat, idx[y].dat, idx[y].len, idx[y].key, v)
  BY <1>2 DEF Stored
<1>3. CASE \E q \in Procs : reg[q].pc \in Erased /\ reg[q].idxoff = y
  BY <1>0, <1>3 DEF Stored
<1> QED BY <1>1, <1>2, <1>3 DEF Stored

LEMMA WriteDatData ==
  ASSUME Discipline, Offsets, Lists, Data, NEW p \in Procs, WriteDat(p)
  PROVE  Data' /\ (AllStored => AllStored')
<1> PICK r : r = reg[p]
  OBVIOUS
<1> PICK x : x = r.idxoff
  OBVIOUS
<1>0. /\ DOMAIN reg = Procs /\ DOMAIN r = Fields /\ Works(r, idx, dat)
  BY HandleOf DEF Data
<1>1. /\ x \in DOMAIN idx /\ r.datoff = idx[x].dat /\ r.datlen = idx[x].len
      /\ r.pc \in {"over.dat", "erase.dat"} => idx[x].key = r.key
      /\ r.pc = "reuse.dat" => idx[x].key = Blank
      /\ r.pc \in {"over.dat", "reuse.dat"} =>
           /\ r.val \in Vals /\ idx[x].len = DatLen[r.val]
           /\ OverWrites(p, x, r.key, r.val)
      /\ r.pc = "erase.dat" => OverWrites(p, x, Blank, Blank)
      /\ r.pc \in {"over.dat", "reuse.dat", "erase.dat"} /\ r.key \in Keys
  BY WriteDatIs
<1>2. /\ reg' = [reg EXCEPT ![p] = reg'[p]] /\ idx' = idx
      /\ r.pc \notin Erased
  BY <1>1, SMT DEF OverWrites
<1>3. CASE r.pc = "over.dat"
  <2>1. reg'[p].pc = "chain.unlock"
    <3> PICK s : s = [r EXCEPT !.datlen = DatLen[r.val], !.pc = "chain.unlock"]
      OBVIOUS
    <3>1. reg' = [reg EXCEPT ![p] = s]
      BY <1>3, SMT DEF WriteDat, Set
    <3> QED BY <1>0, <3>1, SMT
  <2>2. Works(reg'[p], idx, dat')
    BY <2>1, SMT DEF Works, Taken
  <2>3. /\ Data' /\ Tells(dat', idx[x].dat, idx[x].len, r.key, r.val)
        /\ \A y \in DOMAIN idx : y # x =>
              \A l, w : Tells(dat', idx[y].dat, idx[y].len, l, w)
                          <=> Tells(dat, idx[y].dat, idx[y].len, l, w)
    BY <1>1, <1>3, <2>2, Overwrite
  <2>4. ASSUME AllStored, NEW y \in Live' PROVE Stored(y)'
    <3>1. y \in Live /\ y \in DOMAIN idx
      BY <1>2 DEF Live, Recs
    <3>2. CASE y = x
      BY <1>1, <1>2, <1>3, <2>3, <3>2 DEF Stored
    <3>3. CASE y # x
      BY <1>2, <2>3, <2>4, <3>1, <3>3, OthersStored
    <3> QED BY <3>2, <3>3
  <2> QED BY <2>3, <2>4 DEF AllStored
<1>4. CASE r.pc = "reuse.dat"
  <2>1. /\ reg'[p].pc = "reuse.idx" /\ reg'[p].idxoff = x /\ reg'[p].datoff = r.datoff
        /\ reg'[p].key = r.key /\ reg'[p].val = r.val /\ reg'[p].datlen = DatLen[r.val]
    <3> PICK s : s = [r EXCEPT !.datlen = DatLen[r.val], !.pc = "reuse.idx"]
      OBVIOUS
    <3>1. reg' = [reg EXCEPT ![p] = s]
      BY <1>4, SMT DEF WriteDat, Set
    <3> QED BY <1>0, <3>1, SMT
  <2>2. Tells(dat', idx[x].dat, idx[x].len, r.key, r.val) => Works(reg'[p], idx, dat')
    BY <1>1, <1>4, <2>1, SMT DEF Works, Taken
  <2>3. /\ Data'
        /\ \A y \in DOMAIN idx : y # x =>
              \A l, w : Tells(dat', idx[y].dat, idx[y].len, l, w)
                          <=> Tells(dat, idx[y].dat, idx[y].len, l, w)
    BY <1>1, <1>4, <2>2, Overwrite
  <2>4. ASSUME AllStored, NEW y \in Live' PROVE Stored(y)'
    <3>1. y \in Live /\ y \in DOMAIN idx /\ y # x
      BY <1>1, <1>2, <1>4 DEF Live, Recs
    <3> QED BY <1>2, <2>3, <2>4, <3>1, OthersStored
  <2> QED BY <2>3, <2>4 DEF AllStored
<1>5. CASE r.pc = "erase.dat"
  <2>1. reg'[p].pc = "del.free" /\ reg'[p].idxoff = x
    <3> PICK s : s = [r EXCEPT !.pc = "del.free"]
      OBVIOUS
    <3>1. reg' = [reg EXCEPT ![p] = s]
      BY <1>5, Zenon DEF WriteDat, Set, Go
    <3> QED BY <1>0, <3>1, SMT
  <2>2. Works(reg'[p], idx, dat')
    BY <2>1, SMT DEF Works, Taken
  <2>3. /\ Data'
        /\ \A y \in DOMAIN idx : y # x =>
              \A l, w : Tells(dat', idx[y].dat, idx[y].len, l, w)
                          <=> Tells(dat, idx[y].dat, idx[y].len, l, w)
    BY <1>1, <1>5, <2>2, Overwrite
  <2>4. ASSUME AllStored, NEW y \in Live' PROVE Stored(y)'
    <3>1. y \in Live /\ y \in DOMAIN idx
      BY <1>2 DEF Live, Recs
    <3>2. CASE y = x
      <4>1. \E q \in Procs : reg'[q].pc \in Erased /\ reg'[q].idxoff = y
        BY <2>1, <3>2
      <4> QED BY <4>1 DEF Stored
    <3>3. CASE y # x
      BY <1>2, <2>3, <2>4, <3>1, <3>3, OthersStored
    <3> QED BY <3>2, <3>3
  <2> QED BY <2>3, <2>4 DEF AllStored
<1> QED BY <1>1, <1>3, <1>4, <1>5

(* An append at the end of the data file disturbs nothing. *)
LEMMA AppendDatIs ==
  ASSUME Discipline, Offsets, Data, NEW p \in Procs, AppendDat(p), reg[p].datoff = Len(dat) + 1
  PROVE  LET r == reg[p]
             n == DatLen[r.val]
         IN /\ r.val \in Vals /\ n \in Nat /\ 1 <= n /\ r.datoff \in Nat /\ idx' = idx
            /\ Written(dat, dat', r.datoff, n, r.key, r.val)
            /\ dat' \in Seq(Cell) /\ Len(dat') \in Nat /\ Len(dat') <= MaxDat
            /\ reg' = [reg EXCEPT ![p] = reg'[p]] /\ reg'[p].pc = "new.unlock"
            /\ reg'[p].datoff = r.datoff /\ reg'[p].datlen = n
            /\ reg'[p].key = r.key /\ reg'[p].val = r.val
<1> PICK r : r = reg[p]
  OBVIOUS
<1>0. /\ DOMAIN reg = Procs /\ DOMAIN r = Fields /\ Place(r) /\ Works(r, idx, dat)
      /\ dat \in Seq(Cell) /\ Len(dat) \in Nat /\ Len(dat) <= MaxDat
  BY HandleOf, LenProperties DEF Data
<1>1. r.pc = "new.dat" /\ r.val \in Vals /\ r.key \in Keys
  BY <1>0, SMT DEF AppendDat, Place
<1> PICK n \in Nat : n = DatLen[r.val] /\ 1 <= n
  BY <1>1, SMT
<1> PICK o \in Nat : o = Len(dat) + 1
  BY <1>0
<1>2. /\ o + n <= MaxDat + 1 /\ 1 <= o /\ o <= Len(dat) + 1 /\ r.datoff = o
  BY <1>0, <1>1, SMT DEF Works
<1>3. dat' = WriteAt(o, Text(r.key, r.val, n)) /\ idx' = idx
  BY <1>2 DEF AppendDat
<1>4. /\ dat' \in Seq(Cell) /\ Written(dat, dat', o, n, r.key, r.val)
      /\ Len(dat') \in {Len(dat), o + n - 1}
  BY <1>0, <1>1, <1>2, <1>3, WriteAtWrites
<1>5. Len(dat') \in Nat /\ Len(dat') <= MaxDat
  BY <1>0, <1>2, <1>4, LenProperties, SMT
<1> PICK s : s = [r EXCEPT !.pc = "new.unlock", !.datlen = DatLen[r.val]]
  OBVIOUS
<1>6. reg' = [reg EXCEPT ![p] = s]
  BY Zenon DEF AppendDat, Set
<1>7. reg' = [reg EXCEPT ![p] = reg'[p]] /\ reg'[p] = s
  BY <1>0, <1>6, SMT
<1>8. s.pc = "new.unlock" /\ s.datoff = r.datoff /\ s.datlen = n /\ s.key = r.key /\ s.val = r.val
  BY <1>0, SMT
<1> QED BY <1>1, <1>2, <1>3, <1>4, <1>5, <1>7, <1>8

LEMMA BeforeEnd ==
  ASSUME dat \in Seq(Cell), NEW o \in Nat, NEW n \in Nat, NEW u, u = Len(dat) + 1, NEW m,
         Inside(dat, o, n)
  PROVE  Beside(o, n, u, m) /\ Beside(u, m, o, n)
BY LenProperties, SMT DEF Inside, Beside

LEMMA AllWritten ==
  ASSUME Files, Extents(idx, dat), dat \in Seq(Cell), NEW e, NEW o \in Nat, NEW n \in Nat, NEW k, NEW v,
         Written(dat, e, o, n, k, v), o = Len(dat) + 1, Len(e) \in Nat
  PROVE  Extents(idx, e) /\ \A y \in DOMAIN idx :
                              \A l, w : Tells(e, idx[y].dat, idx[y].len, l, w)
                                          <=> Tells(dat, idx[y].dat, idx[y].len, l, w)
<1>1. ASSUME NEW y \in DOMAIN idx
      PROVE  /\ Inside(e, idx[y].dat, idx[y].len) /\ dat[idx[y].dat] = e[idx[y].dat]
             /\ \A l, w : Tells(e, idx[y].dat, idx[y].len, l, w)
                            <=> Tells(dat, idx[y].dat, idx[y].len, l, w)
  <2>1. Inside(dat, idx[y].dat, idx[y].len)
    BY DEF Extents
  <2>2. Beside(idx[y].dat, idx[y].len, o, n)
    BY <2>1, ExtentsNat, BeforeEnd
  <2>3. Len(dat) \in Nat
    BY LenProperties
  <2> QED BY <2>1, <2>2, <2>3, ExtentsNat, BesideStays
<1>2. ASSUME NEW y \in DOMAIN idx
      PROVE  /\ Inside(e, idx[y].dat, idx[y].len)
             /\ Tells(e, idx[y].dat, idx[y].len, e[idx[y].dat].key, e[idx[y].dat].val)
             /\ idx[y].key = Blank \/ e[idx[y].dat].key \in {idx[y].key, Blank}
  BY <1>1 DEF Extents
<1> QED BY <1>1, <1>2 DEF Extents

LEMMA AppendDatData ==
  ASSUME Discipline, Offsets, Data, NEW p \in Procs, AppendDat(p), reg[p].datoff = Len(dat) + 1
  PROVE  Data' /\ (AllStored => AllStored')
<1> PICK r : r = reg[p]
  OBVIOUS
<1> PICK n : n = DatLen[r.val]
  OBVIOUS
<1>0. /\ r.val \in Vals /\ n \in Nat /\ 1 <= n /\ r.datoff \in Nat /\ idx' = idx
      /\ Written(dat, dat', r.datoff, n, r.key, r.val)
      /\ dat' \in Seq(Cell) /\ Len(dat') \in Nat /\ Len(dat') <= MaxDat
      /\ reg' = [reg EXCEPT ![p] = reg'[p]] /\ reg'[p].pc = "new.unlock"
      /\ reg'[p].datoff = r.datoff /\ reg'[p].datlen = n
      /\ reg'[p].key = r.key /\ reg'[p].val = r.val
  BY AppendDatIs
<1>1. /\ Files /\ Extents(idx, dat) /\ dat \in Seq(Cell) /\ Len(dat) \in Nat
      /\ r.datoff = Len(dat) + 1
  BY LenProperties DEF Data, Offsets
<1>2. Extents(idx, dat') /\ \A y \in DOMAIN idx :
                              \A l, w : Tells(dat', idx[y].dat, idx[y].len, l, w)
                                          <=> Tells(dat, idx[y].dat, idx[y].len, l, w)
  BY <1>0, <1>1, AllWritten
<1>3. ASSUME NEW o \in Nat, NEW m \in Nat, Inside(dat, o, m)
      PROVE  Beside(o, m, r.datoff, n) /\ Beside(r.datoff, n, o, m)
  BY <1>1, <1>3, BeforeEnd
<1>4. ASSUME NEW q \in Procs
      PROVE  reg[q].pc \in Appended =>
               Beside(reg[q].datoff, reg[q].datlen, r.datoff, n)
               /\ Beside(r.datoff, n, reg[q].datoff, reg[q].datlen)
  <2>1. reg[q].datoff \in Nat /\ reg[q].datlen \in Nat /\ Works(reg[q], idx, dat)
    BY DEF Data, Offsets, Within
  <2>2. reg[q].pc \in Appended => Inside(dat, reg[q].datoff, reg[q].datlen)
    BY <2>1 DEF Works
  <2> QED BY <1>3, <2>1, <2>2
<1>5. ASSUME NEW x \in DOMAIN idx
      PROVE  Beside(idx[x].dat, idx[x].len, r.datoff, n) /\ Beside(r.datoff, n, idx[x].dat, idx[x].len)
  <2>1. idx[x].dat \in Nat /\ idx[x].len \in Nat /\ Inside(dat, idx[x].dat, idx[x].len)
    BY <1>1, ExtentsNat DEF Extents
  <2> QED BY <1>3, <2>1
<1>6. ASSUME NEW q \in Procs, q # p PROVE Works(reg[q], idx, dat')
  <2>1. Works(reg[q], idx, dat) /\ reg[q].datoff \in Nat /\ reg[q].datlen \in Nat
    BY DEF Data, Offsets, Within
  <2>2. reg[q].pc \in Linking \cup {"reuse.idx"} =>
          Beside(idx[reg[q].idxoff].dat, idx[reg[q].idxoff].len, r.datoff, n)
    <3>1. reg[q].pc \in Linking \cup {"reuse.idx"} => reg[q].idxoff \in DOMAIN idx
      BY <2>1, SMT DEF Works, Taken
    <3> QED BY <1>5, <3>1
  <2> QED BY <1>0, <1>1, <1>4, <2>1, <2>2, WorksBeside
<1>7. Works(reg'[p], idx, dat')
  <2>1. Inside(dat', r.datoff, n) /\ Tells(dat', r.datoff, n, r.key, r.val)
    BY <1>0, <1>1, SMT DEF Inside, Written
  <2>2. reg'[p].datlen = DatLen[reg'[p].val]
    BY <1>0
  <2> QED BY <1>0, <1>5, <2>1, <2>2, SMT DEF Works, Taken
<1>8. Data'
  BY <1>0, <1>2, <1>4, <1>6, <1>7, DataStep
<1>9. ASSUME AllStored, NEW y \in Live' PROVE Stored(y)'
  <2>1. y \in Live /\ y \in DOMAIN idx
    BY <1>0 DEF Live, Recs
  <2>2. r.pc \notin Erased
    BY SMT DEF AppendDat
  <2> QED BY <1>0, <1>2, <1>9, <2>1, <2>2, OthersStored
<1> QED BY <1>8, <1>9 DEF AllStored
-----------------------------------------------------------------------------
(* Until a race, a refusal or a torn delete *)
Unraced    == events \subseteq {"crash"}
UnracedData == /\ Unraced => Data
               /\ events = {} => AllStored

LEMMA InitData == Init => Data /\ AllStored
<1> SUFFICES ASSUME Init PROVE Data /\ AllStored
  OBVIOUS
<1>1. /\ idx = <<>> /\ dat = <<>> /\ \A p \in Procs : reg[p].pc = "off"
  BY SMT DEF Init, At
<1>2. DOMAIN idx = {} /\ dat \in Seq(Cell) /\ Len(dat) <= MaxDat
  BY <1>1, SMT
<1>3. ASSUME NEW p \in Procs PROVE Works(reg[p], idx, dat)
  BY <1>1, SMT DEF Works, Taken
<1>4. NewApart
  BY <1>1, SMT DEF NewApart
<1> QED BY <1>2, <1>3, <1>4 DEF Data, AllStored, Extents, Live, Recs

LEMMA NextData ==
  ASSUME Discipline, Offsets, SoundLists, UnracedData, [Next]_vars PROVE UnracedData'
<1> SUFFICES ASSUME Unraced' PROVE Data' /\ (events' = {} => AllStored')
  BY DEF UnracedData, Unraced
<1>1. events \subseteq events' /\ events \subseteq {"crash"}
  BY EventsGrow DEF Unraced
<1>2. Guards /\ Lists /\ Data /\ (events' = {} => AllStored)
  <2>1. Sound
    BY <1>1 DEF Sound
  <2>2. events' = {} => events = {}
    BY <1>1
  <2> QED BY <1>1, <2>1, <2>2 DEF UnracedData, Unraced, SoundLists
<1>3. "refusal" \notin events' /\ "race" \notin events'
  BY SMT DEF Unraced
<1>4. CASE UNCHANGED vars
  <2>1. UNCHANGED <<idx, dat, reg>>
    BY <1>4 DEF vars, file
  <2> QED BY <1>2, <2>1 DEF Data, NewApart, AllStored, Stored, Live, Recs
<1>5. ASSUME NEW p \in Procs, Still(p) PROVE Data' /\ (events' = {} => AllStored')
  BY <1>2, <1>5, StillKeeps
<1>6. ASSUME NEW p \in Procs, Begin(p) \/ Crash(p) PROVE Still(p)
  <2>1. \/ Open(p) \/ Close(p) \/ Rewind(p) \/ CallNext(p) \/ Crash(p)
        \/ (\E k, op, v, flag : Call(p, op, k, v, flag))
    BY <1>6, Zenon DEF Begin
  <2> QED BY <1>2, <2>1, PlainSteps, CallStill
<1>7. ASSUME NEW p \in Procs, Step(p) PROVE Data' /\ (events' = {} => AllStored')
  <2>1. ~Refuse(p)
    BY <1>3, SMT DEF Refuse
  <2>2. CASE \/ Return(p) \/ ScanReturn(p) \/ ReadHead(p) \/ ReadDat(p)
             \/ Reread(p) \/ ReadFree(p) \/ Link(p) \/ ScanDat(p)
             \/ DelFree(p) \/ DelHead(p) \/ DelLink(p) \/ DelUnlock(p)
    BY <1>2, <1>5, <2>2, PlainSteps
  <2>3. CASE \/ Acquire(p) \/ Unlink(p) \/ UnlockFree(p) \/ SeekDat(p) \/ UnlockDat(p)
             \/ SeekIdx(p) \/ UnlockTail(p)
    BY <1>2, <1>5, <2>3, DataSteps
  <2>4. CASE Walk(p) \/ WalkFree(p) \/ ScanIdx(p)
    BY <1>2, <1>5, <2>4, SearchSteps
  <2>5. CASE WriteIdx(p) \/ DelIdx(p) \/ AppendIdx(p) \/ WriteDat(p)
    BY <1>2, <2>5, WriteIdxData, DelIdxData, AppendIdxData, WriteDatData
  <2>6. CASE AppendDat(p)
    <3>1. reg[p].datoff = Len(dat) + 1
      BY <1>3, <2>6, SMT DEF AppendDat
    <3> QED BY <1>2, <2>6, <3>1, AppendDatData
  <2> QED BY <1>7, <2>1, <2>2, <2>3, <2>4, <2>5, <2>6, Zenon DEF Step
<1> QED BY <1>4, <1>5, <1>6, <1>7, Zenon DEF Next

(* Every record keeps its own piece of the data file, whatever is killed.  *)
THEOREM DataKept == ASSUME HashApart PROVE Spec /\ []Fit => []UnracedData
<1>1. Discipline /\ Offsets /\ SoundLists /\ UnracedData /\ [Next]_vars => UnracedData'
  BY NextData
<1>2. Init => UnracedData
  BY InitData DEF UnracedData
<1> QED BY <1>1, <1>2, ListsKept, LockDiscipline, OffsetsInFiles, PTL DEF Spec

LEMMA ExtentsTold == Offsets /\ UnracedData => OwnOrErased
<1> SUFFICES ASSUME Offsets, Data, NEW x \in Live
             PROVE  /\ Whole(idx[x].dat, idx[x].len)
                    /\ dat[idx[x].dat].key \in {idx[x].key, Blank}
  BY DEF UnracedData, Unraced, OwnOrErased
<1>1. x \in DOMAIN idx /\ idx[x].key # Blank
  BY DEF Live, Recs
<1>2. /\ Inside(dat, idx[x].dat, idx[x].len)
      /\ Tells(dat, idx[x].dat, idx[x].len, dat[idx[x].dat].key, dat[idx[x].dat].val)
      /\ dat[idx[x].dat].key \in {idx[x].key, Blank}
  BY <1>1 DEF Data, Extents
<1>3. idx[x].dat \in Nat /\ idx[x].len \in Nat /\ dat \in Seq(Cell)
  BY <1>1, ExtentsNat DEF Offsets, Data
<1> QED BY <1>2, <1>3, SpanTells DEF Whole

(* A live record leads to its own datum, in one piece, or to an erased one,*)
(* at every moment and after every kill.                                   *)
THEOREM OwnData == ASSUME HashApart PROVE Spec /\ []Fit => []OwnOrErased
BY DataKept, OffsetsInFiles, ExtentsTold, PTL

LEMMA ReadersSee ==
  ASSUME Discipline, Offsets, SoundLists, UnracedData PROVE ReadsOwn
<1> SUFFICES ASSUME events = {}, NEW p \in Procs, reg[p].pc \in {"dat.read", "scan.dat"}
             PROVE  \E v \in Vals : Span(reg[p].datoff, reg[p].datlen)
                                      = Text(reg[p].key, v, reg[p].datlen)
  BY DEF ReadsOwn
<1>1. Guards /\ Lists /\ Data /\ AllStored
  BY DEF SoundLists, Sound, UnracedData, Unraced
<1> PICK r : r = reg[p]
  OBVIOUS
<1>2. /\ DOMAIN reg = Procs /\ Place(r) /\ Within(r, Len(idx)) /\ Files
      /\ Len(idx) \in Nat /\ DOMAIN idx = 1 .. Len(idx) /\ Doing(p) /\ Works(r, idx, dat)
  BY <1>1, HereOf DEF Lists, Data
<1>3. ASSUME r.pc = "dat.read"
      PROVE  /\ r.op = "fetch" /\ r.key \in Keys /\ head[Chain(p)] \in DOMAIN idx
             /\ idx[head[Chain(p)]].key = r.key /\ r.datoff = idx[head[Chain(p)]].dat
             /\ r.datlen = idx[head[Chain(p)]].len
  <2>1. /\ r.idxoff = head[Chain(p)] /\ head[Chain(p)] # None /\ idx[head[Chain(p)]].key = r.key
        /\ r.datoff = idx[head[Chain(p)]].dat /\ r.datlen = idx[head[Chain(p)]].len
    BY <1>2, <1>3, SMT DEF Doing, Knows
  <2>2. r.idxoff \in 0 .. Len(idx)
    BY <1>2, <1>3, SMT DEF Within
  <2>3. r.op = "fetch" /\ r.key \in Keys
    BY <1>2, <1>3, SMT DEF Place
  <2>4. head[Chain(p)] \in DOMAIN idx
    BY <1>2, <2>1, <2>2, SMT DEF None
  <2> QED BY <2>1, <2>3, <2>4
<1>4. PICK x \in Live :
        /\ idx[x].key = r.key /\ r.datoff = idx[x].dat /\ r.datlen = idx[x].len
        /\ r.pc = "dat.read" => x = head[Chain(p)]
  <2>1. CASE r.pc = "dat.read"
    <3>1. head[Chain(p)] \in Live
      BY <1>3, <2>1 DEF Live, Recs
    <3> QED BY <1>3, <2>1, <3>1
  <2>2. CASE r.pc = "scan.dat"
    <3>1. /\ r.pos - 1 \in DOMAIN idx /\ r.key # Blank /\ idx[r.pos - 1].key = r.key
          /\ r.datoff = idx[r.pos - 1].dat /\ r.datlen = idx[r.pos - 1].len
      BY <1>2, <2>2, SMT DEF Works
    <3>2. r.pos - 1 \in Live
      BY <3>1 DEF Live, Recs
    <3> QED BY <2>2, <3>1, <3>2
  <2> QED BY <2>1, <2>2
<1>5. ASSUME NEW q \in Procs, reg[q].pc \in Erased, reg[q].idxoff = x PROVE FALSE
  <2>1. Needs(q) /\ Place(reg[q]) /\ Exclusive /\ Guarded(p) /\ Doing(q)
    BY <1>1 DEF Discipline, Guards, Lists
  <2>2. q # p
    BY <1>5, SMT
  <2>3. CASE r.pc = "scan.dat"
    <3>1. <<p, "free", "r">> \in locks
      BY <2>1, <2>3, SMT DEF Guarded
    <3>2. <<q, "free", "w">> \in locks
      BY <1>5, <2>1, SMT DEF Needs
    <3> QED BY <2>1, <2>2, <3>1, <3>2, SMT DEF Exclusive, Conflict
  <2>4. CASE r.pc = "dat.read"
    <3>1. head[Chain(q)] = x /\ x # None
      BY <1>5, <2>1, SMT DEF Doing, Knows
    <3>2. Chain(q) \in Chains /\ Chain(p) \in Chains
      BY <1>2, <1>3, <1>5, <2>1, <2>4, SMT DEF Place, Chain
    <3>3. Chain(q) = Chain(p)
      BY <1>1, <1>4, <2>4, <3>1, <3>2 DEF Lists, Apart, HeadsApart
    <3>4. reg[q].pc \in InChain /\ reg[q].op # "fetch" /\ reg[p].pc \in InChain
      BY <1>5, <2>1, <2>4, SMT DEF Place
    <3> QED BY <1>1, <2>2, <3>3, <3>4, ChainAlone
  <2> QED BY <2>3, <2>4
<1>6. PICK v \in Vals : Tells(dat, idx[x].dat, idx[x].len, idx[x].key, v)
  BY <1>1, <1>5 DEF AllStored, Stored
<1>7. /\ x \in DOMAIN idx /\ Inside(dat, idx[x].dat, idx[x].len) /\ dat \in Seq(Cell)
  BY <1>1 DEF Live, Recs, Data, Extents
<1>8. idx[x].dat \in Nat /\ idx[x].len \in Nat
  BY <1>2, <1>7, ExtentsNat
<1>9. Span(idx[x].dat, idx[x].len) = Text(idx[x].key, v, idx[x].len)
  BY <1>6, <1>7, <1>8, SpanTells
<1> QED BY <1>4, <1>9

(* What a fetch or a scan has found in the index still holds when it reads *)
(* the data.                                                               *)
THEOREM ReadsTheirOwn == ASSUME HashApart PROVE Spec /\ []Fit => []ReadsOwn
<1>1. Discipline /\ Offsets /\ SoundLists /\ UnracedData => ReadsOwn
  BY ReadersSee
<1> QED BY <1>1, DataKept, ListsKept, LockDiscipline, OffsetsInFiles, PTL
-----------------------------------------------------------------------------
(* What a lookup finds changes only by a call on its key.  First, when it  *)
(* stays the same: the record at the head and its data do.                 *)
LEMMA SameText ==
  ASSUME Offsets, Data, NEW x \in DOMAIN idx, dat' \in Seq(Cell), Inside(dat', idx[x].dat, idx[x].len),
         \A l, w : Tells(dat', idx[x].dat, idx[x].len, l, w)
                     <=> Tells(dat, idx[x].dat, idx[x].len, l, w)
  PROVE  Cells(dat', idx[x].dat, idx[x].len) = Cells(dat, idx[x].dat, idx[x].len)
<1>1. idx[x].dat \in Nat /\ idx[x].len \in Nat /\ dat \in Seq(Cell)
  BY ExtentsNat DEF Offsets, Data
<1> PICK o \in Nat, n \in Nat : o = idx[x].dat /\ n = idx[x].len
  BY <1>1
<1> PICK k, v : k = dat[o].key /\ v = dat[o].val
  OBVIOUS
<1>2. Inside(dat, o, n) /\ Inside(dat', o, n) /\ Tells(dat, o, n, k, v) /\ Tells(dat', o, n, k, v)
  BY DEF Data, Extents
<1>3. Cells(dat, o, n) = Text(k, v, n)
  BY <1>1, <1>2, CellsTell
<1>4. Cells(dat', o, n) = Text(k, v, n)
  BY <1>2, CellsTell
<1> QED BY <1>3, <1>4

(* The head of the chain of k is None or a record. *)
LEMMA HeadOf ==
  ASSUME Offsets, NEW c \in Chains
  PROVE  /\ head[c] = None \/ head[c] \in DOMAIN idx
         /\ DOMAIN idx = 1 .. Len(idx) /\ Len(idx) \in Nat /\ head \in [Chains -> 0 .. Len(idx)]
<1>1. Files
  BY DEF Offsets
<1>2. DOMAIN idx = 1 .. Len(idx) /\ Len(idx) \in Nat /\ head \in [Chains -> 0 .. Len(idx)]
  BY <1>1, LenNat DEF Files
<1> QED BY <1>2, SMT DEF None

LEMMA SameLookup ==
  ASSUME NEW k \in Keys, NEW h, h = head[Hash[k]], h = head'[Hash[k]],
         h # None => SameRec(idx, idx', h),
         h # None /\ idx[h].key = k =>
           Cells(dat', idx[h].dat, idx[h].len) = Cells(dat, idx[h].dat, idx[h].len)
  PROVE  Lookup(k)' = Lookup(k)
<1>1. CASE h = None
  BY <1>1 DEF Lookup
<1>2. CASE h # None /\ idx[h].key # k
  <2>1. idx'[h].key # k
    BY <1>2 DEF SameRec
  <2> QED BY <1>2, <2>1 DEF Lookup
<1>3. CASE h # None /\ idx[h].key = k
  <2>1. idx'[h].key = k /\ idx'[h].dat = idx[h].dat /\ idx'[h].len = idx[h].len
    BY <1>3 DEF SameRec
  <2>2. Lookup(k) = Cells(dat, idx[h].dat, idx[h].len)
    BY <1>3 DEF Lookup, Span, Cells
  <2>3. Lookup(k)' = Cells(dat', idx[h].dat, idx[h].len)
    BY <1>3, <2>1 DEF Lookup, Span, Cells
  <2> QED BY <1>3, <2>2, <2>3
<1> QED BY <1>1, <1>2, <1>3

(* A call that has its chain locked may change what a lookup of its key    *)
(* finds, into one of these.                                               *)
LEMMA MayChange ==
  ASSUME Discipline, Guards, NEW p \in Procs, reg[p].pc \in InChain, reg[p].op # "fetch",
         NEW k, k = reg[p].key, NEW v, v = reg[p].val,
         \/ Lookup(k)' = <<>>
         \/ \E n \in 1 .. MaxDat : Lookup(k)' = Text(Blank, Blank, n)
         \/ reg[p].op = "store" /\ Lookup(k)' = Text(k, v, DatLen[v])
  PROVE  Changes(p, k)
<1> PICK r : r = reg[p]
  OBVIOUS
<1>1. r.op \in {"store", "delete"}
  <2>1. Place(r)
    BY HandleOf
  <2> QED BY <2>1, SMT DEF Place
<1>2. <<p, Hash[r.key], "w">> \in locks
  <2>1. Guarded(p)
    BY DEF Guards
  <2> QED BY <2>1 DEF Guarded, Chain, Mode
<1>3. \/ Lookup(k)' \in {<<>>} \cup {Text(Blank, Blank, n) : n \in 1 .. MaxDat}
      \/ r.op # "delete" /\ Lookup(k)' \in {Text(k, r.val, DatLen[r.val])}
  <2>1. CASE Lookup(k)' = <<>>
    BY <2>1
  <2>2. CASE \E n \in 1 .. MaxDat : Lookup(k)' = Text(Blank, Blank, n)
    BY <2>2
  <2>3. CASE r.op = "store" /\ Lookup(k)' = Text(k, v, DatLen[v])
    BY <2>3, SMT
  <2> QED BY <2>1, <2>2, <2>3
<1> QED BY <1>1, <1>2, <1>3 DEF Changes

ChangedBy(p) == \A k \in Keys : Lookup(k)' # Lookup(k) => Changes(p, k)

LEMMA StillUnchanged ==
  ASSUME Offsets, NEW p \in Procs, Still(p), head' = head PROVE ChangedBy(p)
<1> SUFFICES ASSUME NEW k \in Keys PROVE Lookup(k)' = Lookup(k)
  BY DEF ChangedBy
<1> PICK h : h = head[Hash[k]]
  OBVIOUS
<1>1. h = None \/ h \in DOMAIN idx
  BY HeadOf
<1>2. h # None => SameRec(idx, idx', h)
  BY <1>1 DEF Still
<1>3. dat' = dat /\ h = head'[Hash[k]]
  BY DEF Still
<1> QED BY <1>2, <1>3, SameLookup

LEMMA LinkChanges ==
  ASSUME HashApart, Discipline, Guards, Offsets, Lists, Data, Fit, NEW p \in Procs, Link(p)
  PROVE  ChangedBy(p)
<1> PICK r : r = reg[p]
  OBVIOUS
<1>1. r.pc = "chain.link" /\ idx' = idx /\ dat' = dat /\ r.pc \in InChain
  BY SMT DEF Link
<1>2. /\ Place(r) /\ Within(r, Len(idx)) /\ Doing(p) /\ Works(r, idx, dat)
      /\ Chain(p) = Hash[r.key] /\ r.key \in Keys /\ Hash[r.key] \in Chains
  BY <1>1, Before DEF Lists, Data
<1>3. r.idxoff \in DOMAIN idx /\ r.idxoff # None /\ r.op = "store" /\ r.val \in Vals
      /\ idx[r.idxoff].key = r.key /\ idx[r.idxoff].len = DatLen[r.val]
      /\ Tells(dat, idx[r.idxoff].dat, idx[r.idxoff].len, r.key, r.val)
  BY <1>1, <1>2, SMT DEF Place, Doing, Knows, Works
<1>4. head' = [head EXCEPT ![Hash[r.key]] = r.idxoff]
  <2>1. r.idxoff <= PTR_MAX
    BY <1>2, <1>3, HeadOf, SMT DEF Fit
  <2>2. WritePtr(head[Chain(p)], r.idxoff) = r.idxoff
    BY <2>1 DEF WritePtr
  <2> QED BY <1>2, <2>2 DEF Link
<1>5. head \in [Chains -> 0 .. Len(idx)]
  BY <1>2, HeadOf
<1> SUFFICES ASSUME NEW k \in Keys, Lookup(k)' # Lookup(k) PROVE Changes(p, k)
  BY DEF ChangedBy
<1>6. Hash[k] = Hash[r.key]
  <2> SUFFICES ASSUME Hash[k] # Hash[r.key] PROVE FALSE
    OBVIOUS
  <2>1. head'[Hash[k]] = head[Hash[k]]
    BY <1>4, <1>5
  <2> QED BY <1>1, <2>1, SameLookup DEF SameRec
<1>7. k = r.key
  BY <1>2, <1>6 DEF HashApart
<1>8. Lookup(k)' = Text(r.key, r.val, DatLen[r.val])
  <2>1. head'[Hash[k]] = r.idxoff
    BY <1>2, <1>4, <1>5, <1>6
  <2>2. Lookup(k)' = Cells(dat, idx[r.idxoff].dat, idx[r.idxoff].len)
    BY <1>1, <1>3, <1>7, <2>1 DEF Lookup, Span, Cells
  <2>3. /\ Inside(dat, idx[r.idxoff].dat, idx[r.idxoff].len) /\ dat \in Seq(Cell)
        /\ idx[r.idxoff].dat \in Nat /\ idx[r.idxoff].len \in Nat
    BY <1>3, ExtentsNat DEF Data, Extents, Offsets
  <2>4. Cells(dat, idx[r.idxoff].dat, idx[r.idxoff].len)
          = Text(r.key, r.val, idx[r.idxoff].len)
    BY <1>3, <2>3, CellsTell
  <2> QED BY <1>3, <2>2, <2>4
<1>9. r.op # "fetch"
  BY <1>3, SMT
<1> QED BY <1>1, <1>3, <1>7, <1>8, <1>9, MayChange

LEMMA DelLinkUnchanged ==
  ASSUME Discipline, Guards, Offsets, Lists, NEW p \in Procs, DelLink(p)
  PROVE  ChangedBy(p)
<1> PICK r : r = reg[p]
  OBVIOUS
<1>1. r.pc = "del.link" /\ dat' = dat /\ r.pc \in InChain
  BY SMT DEF DelLink
<1>2. /\ Doing(p) /\ HandBlank(r, idx)
      /\ Chain(p) = Hash[r.key] /\ r.key \in Keys /\ Hash[r.key] \in Chains
  BY <1>1, Before DEF Lists
<1>3. r.from = None /\ Empty(idx, head[Hash[r.key]])
  BY <1>1, <1>2, SMT DEF Doing, Knows
<1>4. Empty(idx, r.save)
  BY <1>1, <1>2, SMT DEF HandBlank, Rec, Taken
<1>5. /\ idx' = idx
      /\ head' = [head EXCEPT ![Hash[r.key]] = WritePtr(head[Hash[r.key]], r.save)]
  BY <1>2, <1>3 DEF DelLink
<1>6. head \in [Chains -> 0 .. Len(idx)]
  BY <1>2, HeadOf
<1> SUFFICES ASSUME NEW k \in Keys PROVE Lookup(k)' = Lookup(k)
  BY DEF ChangedBy
<1>7. CASE Hash[k] # Hash[r.key]
  <2>1. head'[Hash[k]] = head[Hash[k]]
    BY <1>5, <1>6, <1>7
  <2> QED BY <1>1, <1>5, <2>1, SameLookup DEF SameRec
<1>8. CASE Hash[k] = Hash[r.key]
  <2>1. head'[Hash[k]] \in {head[Hash[k]], r.save}
    BY <1>2, <1>5, <1>6, <1>8 DEF WritePtr
  <2>2. Empty(idx, head[Hash[k]]) /\ Empty(idx, head'[Hash[k]]) /\ k # Blank
    BY <1>3, <1>4, <1>8, <2>1
  <2>3. Lookup(k) = <<>>
    BY <2>2 DEF Lookup, Empty
  <2>4. Lookup(k)' = <<>>
    BY <1>5, <2>2 DEF Lookup, Empty
  <2> QED BY <2>3, <2>4
<1> QED BY <1>7, <1>8

(* The writes of a whole index record *)
LEMMA IndexUnchanged ==
  ASSUME Discipline, Guards, Offsets, Lists, NEW p \in Procs, WriteIdx(p) \/ AppendIdx(p)
  PROVE  ChangedBy(p)
<1> PICK r : r = reg[p]
  OBVIOUS
<1>1. r.pc \in {"reuse.idx", "tail.idx"} /\ head' = head /\ dat' = dat /\ r.pc \in InChain
  BY SMT DEF WriteIdx, AppendIdx
<1>2. Within(r, Len(idx)) /\ HandApart(p) /\ Doing(p) /\ Files
  BY <1>1, Before DEF Lists
<1> SUFFICES ASSUME NEW k \in Keys PROVE Lookup(k)' = Lookup(k)
  BY DEF ChangedBy
<1> PICK h : h = head[Hash[k]]
  OBVIOUS
<1>3. (h = None \/ h \in DOMAIN idx) /\ DOMAIN idx = 1 .. Len(idx) /\ Len(idx) \in Nat
  BY HeadOf
<1>4. ASSUME WriteIdx(p), h # None PROVE SameRec(idx, idx', h)
  <2>1. r.pc = "reuse.idx" /\ idx' = Filled(r, r.key)
    BY <1>4 DEF WriteIdx
  <2>2. h # r.idxoff
    <3>1. r.idxoff # None /\ Rec(r) = r.idxoff
      BY <1>2, <2>1, SMT DEF Rec, Taken, Doing, Knows
    <3> QED BY <1>2, <3>1 DEF HandApart, Claims
  <2> QED BY <1>2, <1>3, <1>4, <2>1, <2>2, FilledSame
<1>5. ASSUME AppendIdx(p), h # None PROVE SameRec(idx, idx', h)
  <2>1. r.pc = "tail.idx" /\ r.idxoff = Len(idx) + 1
    BY <1>2, <1>5, SMT DEF AppendIdx, Within
  <2>2. idx' = Append(idx, NewRec(r))
    BY <1>3, <1>5, <2>1, SMT DEF AppendIdx, Recs
  <2>3. idx'[h] = idx[h]
    BY <1>2, <1>3, <1>5, <2>2, SMT DEF Files
  <2> QED BY <2>3 DEF SameRec
<1> QED BY <1>1, <1>4, <1>5, SameLookup

LEMMA DelIdxChanges ==
  ASSUME HashApart, Discipline, Guards, Offsets, Lists, NEW p \in Procs, DelIdx(p)
  PROVE  ChangedBy(p)
<1> PICK r : r = reg[p]
  OBVIOUS
<1>1. /\ r.pc = "del.idx" /\ head' = head /\ dat' = dat /\ r.pc \in InChain
      /\ idx' = Filled(r, Blank)
  BY SMT DEF DelIdx
<1>2. /\ Doing(p) /\ Files /\ Chain(p) = Hash[r.key] /\ r.key \in Keys /\ Hash[r.key] \in Chains
      /\ Place(r) /\ HeadsApart
  BY <1>1, Before DEF Lists, Apart
<1>3. r.idxoff = head[Hash[r.key]] /\ r.idxoff # None /\ r.op # "fetch"
  BY <1>1, <1>2, SMT DEF Doing, Knows, Place
<1>4. \A c \in Chains : (head[c] = None \/ head[c] \in DOMAIN idx) /\ DOMAIN idx = 1 .. Len(idx)
  BY HeadOf
<1> SUFFICES ASSUME NEW k \in Keys, Lookup(k)' # Lookup(k) PROVE Changes(p, k)
  BY DEF ChangedBy
<1>5. head[Hash[k]] = r.idxoff
  <2> SUFFICES ASSUME head[Hash[k]] # r.idxoff PROVE FALSE
    OBVIOUS
  <2>1. head[Hash[k]] # None => SameRec(idx, idx', head[Hash[k]])
    BY <1>1, <1>2, <1>4, FilledSame
  <2> QED BY <1>1, <2>1, SameLookup
<1>6. k = r.key
  BY <1>2, <1>3, <1>5 DEF HeadsApart, HashApart
<1>7. Lookup(k)' = <<>>
  <2>1. idx'[r.idxoff].key = Blank
    BY <1>1, <1>2, <1>3, <1>4, FilledSame
  <2> QED BY <1>1, <1>5, <2>1 DEF Lookup
<1> QED BY <1>1, <1>3, <1>6, <1>7, MayChange

LEMMA WriteDatChanges ==
  ASSUME HashApart, Discipline, Guards, Offsets, Lists, Data, Data', NEW p \in Procs, WriteDat(p)
  PROVE  ChangedBy(p)
<1> PICK r : r = reg[p]
  OBVIOUS
<1> PICK x : x = r.idxoff
  OBVIOUS
<1>1. /\ x \in DOMAIN idx /\ r.datlen = idx[x].len /\ r.key \in Keys
      /\ r.pc \in {"over.dat", "erase.dat"} => x = head[Chain(p)] /\ idx[x].key = r.key
      /\ r.pc = "reuse.dat" => \A c \in Chains : head[c] # x
      /\ r.pc \in {"over.dat", "reuse.dat"} =>
           /\ r.op = "store" /\ r.val \in Vals /\ idx[x].len = DatLen[r.val]
           /\ OverWrites(p, x, r.key, r.val)
      /\ r.pc = "erase.dat" => OverWrites(p, x, Blank, Blank)
      /\ r.pc \in {"over.dat", "reuse.dat", "erase.dat"}
  BY WriteDatIs
<1>2. /\ r.pc \in InChain /\ Chain(p) = Hash[r.key] /\ Hash[r.key] \in Chains
      /\ Files /\ HeadsApart /\ Place(r)
  <2>1. r.pc \in InChain
    BY <1>1, SMT
  <2> QED BY <2>1, Before DEF Lists, Apart
<1>3. PICK l \in Keys \cup {Blank}, w \in Vals \cup {Blank} :
        /\ OverWrites(p, x, l, w)
        /\ r.pc = "erase.dat" => l = Blank /\ w = Blank
        /\ r.pc # "erase.dat" => l = r.key /\ w = r.val
  BY <1>1
<1>4. /\ Written(dat, dat', idx[x].dat, idx[x].len, l, w)
      /\ dat' \in Seq(Cell) /\ Len(dat') \in Nat /\ head' = head /\ idx' = idx
  BY <1>1, <1>3, OverWritten DEF OverWrites, WriteDat
<1>5. /\ Inside(dat', idx[x].dat, idx[x].len) /\ Tells(dat', idx[x].dat, idx[x].len, l, w)
      /\ Len(dat') <= MaxDat
  BY <1>1, <1>4 DEF Data, Extents, Written
<1>6. Len(dat) \in Nat /\ Extents(idx, dat) /\ idx[x].dat \in Nat /\ idx[x].len \in Nat
  BY <1>1, <1>2, LenProperties, ExtentsNat DEF Data
<1> SUFFICES ASSUME NEW k \in Keys, Lookup(k)' # Lookup(k) PROVE Changes(p, k)
  BY DEF ChangedBy
<1> PICK h : h = head[Hash[k]]
  OBVIOUS
<1>7. (h = None \/ h \in DOMAIN idx) /\ SameRec(idx, idx', h) /\ h = head'[Hash[k]]
  BY <1>4, HeadOf DEF SameRec
<1>8. h = x
  <2> SUFFICES ASSUME h # x, h \in DOMAIN idx PROVE Lookup(k)' = Lookup(k)
    BY <1>7, SameLookup
  <2>1. /\ Inside(dat', idx[h].dat, idx[h].len)
        /\ \A a, b : Tells(dat', idx[h].dat, idx[h].len, a, b)
                       <=> Tells(dat, idx[h].dat, idx[h].len, a, b)
    BY <1>1, <1>2, <1>4, <1>6, <2>1, BesideRecord
  <2>2. Cells(dat', idx[h].dat, idx[h].len) = Cells(dat, idx[h].dat, idx[h].len)
    BY <1>4, <2>1, SameText
  <2> QED BY <1>7, <2>2, SameLookup
<1>9. /\ r.pc \in {"over.dat", "erase.dat"} /\ idx[x].key = r.key /\ k = r.key /\ x # None
  <2>1. r.pc # "reuse.dat"
    BY <1>1, <1>8
  <2>2. x # None
    BY <1>1, <1>2, LenNat, SMT DEF None
  <2>3. Hash[k] = Hash[r.key]
    <3>1. head[Hash[k]] = x /\ head[Hash[r.key]] = x /\ Hash[k] \in Chains
      BY <1>1, <1>2, <1>8, <2>1
    <3> QED BY <1>2, <2>2, <3>1 DEF HeadsApart
  <2> QED BY <1>1, <2>1, <2>2, <2>3 DEF HashApart
<1>10. Lookup(k)' = Text(l, w, idx[x].len)
  <2>1. Lookup(k)' = Cells(dat', idx[x].dat, idx[x].len)
    BY <1>4, <1>8, <1>9 DEF Lookup, Span, Cells
  <2>2. Cells(dat', idx[x].dat, idx[x].len) = Text(l, w, idx[x].len)
    BY <1>4, <1>5, <1>6, CellsTell
  <2> QED BY <2>1, <2>2
<1>11. r.op # "fetch"
  BY <1>2, <1>9, SMT DEF Place
<1>12. CASE r.pc = "over.dat"
  BY <1>1, <1>2, <1>3, <1>9, <1>10, <1>11, <1>12, MayChange
<1>13. CASE r.pc = "erase.dat"
  <2>1. idx[x].len \in 1 .. MaxDat
    BY <1>4, <1>5, <1>6, SMT DEF Inside
  <2> QED BY <1>2, <1>3, <1>9, <1>10, <1>11, <1>13, <2>1, MayChange
<1> QED BY <1>9, <1>12, <1>13

LEMMA AppendDatUnchanged ==
  ASSUME Discipline, Offsets, Data, NEW p \in Procs, AppendDat(p), reg[p].datoff = Len(dat) + 1
  PROVE  ChangedBy(p)
<1> PICK r : r = reg[p]
  OBVIOUS
<1> PICK n : n = DatLen[r.val]
  OBVIOUS
<1>1. /\ n \in Nat /\ r.datoff \in Nat /\ idx' = idx /\ head' = head
      /\ Written(dat, dat', r.datoff, n, r.key, r.val)
      /\ dat' \in Seq(Cell) /\ Len(dat') \in Nat
  BY AppendDatIs DEF AppendDat
<1>2. /\ Files /\ Extents(idx, dat) /\ dat \in Seq(Cell)
      /\ r.datoff = Len(dat) + 1
  BY DEF Data, Offsets
<1>3. Extents(idx, dat') /\ \A y \in DOMAIN idx :
                              \A l, w : Tells(dat', idx[y].dat, idx[y].len, l, w)
                                          <=> Tells(dat, idx[y].dat, idx[y].len, l, w)
  BY <1>1, <1>2, AllWritten
<1> SUFFICES ASSUME NEW k \in Keys PROVE Lookup(k)' = Lookup(k)
  BY DEF ChangedBy
<1> PICK h : h = head[Hash[k]]
  OBVIOUS
<1>4. (h = None \/ h \in DOMAIN idx) /\ SameRec(idx, idx', h) /\ h = head'[Hash[k]]
  BY <1>1, HeadOf DEF SameRec
<1>5. h # None => Cells(dat', idx[h].dat, idx[h].len)
                    = Cells(dat, idx[h].dat, idx[h].len)
  BY <1>1, <1>3, <1>4, SameText DEF Extents
<1> QED BY <1>4, <1>5, SameLookup

LEMMA NextChanges ==
  ASSUME HashApart, Discipline, Offsets, Fit, SoundLists, UnracedData, UnracedData', [Next]_vars,
         Unraced', NEW k \in Keys, Lookup(k)' # Lookup(k)
  PROVE  \E p \in Procs : Changes(p, k)
<1>1. events \subseteq events' /\ events \subseteq {"crash"}
  BY EventsGrow DEF Unraced
<1>2. Guards /\ Lists /\ Data /\ Data'
  <2>1. Sound
    BY <1>1 DEF Sound
  <2> QED BY <1>1, <2>1 DEF UnracedData, Unraced, SoundLists
<1>3. "refusal" \notin events' /\ "race" \notin events'
  BY SMT DEF Unraced
<1>4. ~(UNCHANGED vars)
  BY DEF vars, file, Lookup, Span
<1>5. ASSUME NEW p \in Procs, Still(p), head' = head PROVE ChangedBy(p)
  BY <1>5, StillUnchanged
<1>6. ASSUME NEW p \in Procs, Begin(p) \/ Crash(p) PROVE ChangedBy(p)
  <2>1. \/ Open(p) \/ Close(p) \/ Rewind(p) \/ CallNext(p) \/ Crash(p)
        \/ (\E l, op, v, flag : Call(p, op, l, v, flag))
    BY <1>6, Zenon DEF Begin
  <2>2. Still(p)
    BY <1>2, <2>1, PlainSteps, CallStill
  <2>3. head' = head
    BY <2>1, Zenon DEF Open, Close, Rewind, CallNext, Crash, Call, file
  <2> QED BY <1>5, <2>2, <2>3
<1>7. ASSUME NEW p \in Procs, Step(p) PROVE ChangedBy(p)
  <2>1. ~Refuse(p)
    BY <1>3, SMT DEF Refuse
  <2>2. CASE Link(p) \/ DelLink(p) \/ WriteIdx(p) \/ AppendIdx(p) \/ DelIdx(p) \/ WriteDat(p)
    BY <1>2, <2>2, LinkChanges, DelLinkUnchanged, IndexUnchanged, DelIdxChanges, WriteDatChanges
  <2>3. CASE ~(Link(p) \/ DelLink(p) \/ WriteIdx(p) \/ AppendIdx(p) \/ DelIdx(p))
    <3>1. head' = head
      BY <1>7, <2>3, KeysStill DEF KeysKept
    <3>2. CASE AppendDat(p)
      <4>1. reg[p].datoff = Len(dat) + 1
        BY <1>3, <3>2, SMT DEF AppendDat
      <4> QED BY <1>2, <3>2, <4>1, AppendDatUnchanged
    <3>3. CASE \/ Return(p) \/ ScanReturn(p) \/ ReadHead(p) \/ ReadDat(p)
               \/ Reread(p) \/ ReadFree(p) \/ ScanDat(p)
               \/ DelFree(p) \/ DelHead(p) \/ DelUnlock(p)
      BY <1>2, <1>5, <3>1, <3>3, PlainSteps
    <3>4. CASE \/ Acquire(p) \/ Unlink(p) \/ UnlockFree(p) \/ SeekDat(p) \/ UnlockDat(p)
               \/ SeekIdx(p) \/ UnlockTail(p)
      BY <1>2, <1>5, <3>1, <3>4, DataSteps
    <3>5. CASE Walk(p) \/ WalkFree(p) \/ ScanIdx(p)
      BY <1>2, <1>5, <3>1, <3>5, SearchSteps
    <3>6. CASE WriteDat(p)
      BY <2>2, <3>6
    <3> QED BY <1>7, <2>1, <2>3, <3>2, <3>3, <3>4, <3>5, <3>6, Zenon DEF Step
  <2> QED BY <2>2, <2>3
<1>8. PICK p \in Procs : ChangedBy(p)
  BY <1>4, <1>6, <1>7, Zenon DEF Next
<1> QED BY <1>8 DEF ChangedBy

(* What a lookup of a key finds changes only by a call on that key that    *)
(* has its chain locked, and only into nothing, erased data or the data    *)
(* being stored; a kill changes nothing that any lookup finds.             *)
THEOREM OwnCallsOnly == ASSUME HashApart PROVE Spec /\ []Fit => ChangedByOwnCall
<1>1. /\ Discipline /\ Offsets /\ Fit /\ SoundLists /\ UnracedData /\ UnracedData' /\ [Next]_vars
        => [events' \subseteq {"crash"} =>
              \A k \in Keys : Lookup(k)' # Lookup(k) => \E p \in Procs : Changes(p, k)]_vars
  BY NextChanges DEF Unraced
<1> QED BY <1>1, DataKept, ListsKept, LockDiscipline, OffsetsInFiles, PTL DEF Spec, ChangedByOwnCall
=============================================================================
