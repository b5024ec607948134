------------------------- MODULE ApueDbCalls_proofs -------------------------
(***************************************************************************)
(* Proofs about ApueDbCalls: the system calls of each call of one process  *)
(* add up to the one step that ApueDb makes of the call.                   *)
(*                                                                         *)
(* The argument: base is the store as it was when the call began, and      *)
(* where the process is in the call tells which of the writes of that step *)
(* have been made on it.  So the files are, at every place in the program, *)
(* a known function of base; when the call returns, the function is the    *)
(* whole step.  What keeps the data file in line is that every record has  *)
(* a piece of it to itself.                                                *)
(***************************************************************************)
EXTENDS ApueDbCalls, ApueDbSharedData_proofs

(* The files, as ApueDb sees them *)
Pair(k, v)  == [key |-> k, val |-> v]
Datums      == [key : Keys \cup {Blank}, val : Vals \cup {Blank}]
Numbered(i) == [x \in DOMAIN i |-> [i[x] EXCEPT !.dat = x]]
Told(i, d)  == [x \in DOMAIN i |-> Pair(d[i[x].dat].key, d[i[x].dat].val)]

Now    == <<head, free, Numbered(idx), Told(idx, dat)>>
Was(b) == <<b.head, b.free, b.idx, b.dat>>

(* every record has a datum to itself *)
Pieces(i, d) ==
  /\ d \in Seq(Cell)
  /\ \A x \in DOMAIN i : /\ Inside(d, i[x].dat, i[x].len)
                         /\ Tells(d, i[x].dat, i[x].len, d[i[x].dat].key, d[i[x].dat].val)
  /\ \A x, y \in DOMAIN i : x # y => Beside(i[x].dat, i[x].len, i[y].dat, i[y].len)
-----------------------------------------------------------------------------
(* A walk from h in the store b, in search of a record of W *)
Hit(b, h, W)  == h # None /\ (h \in W \/ b.ptrval \in W)
Spin(b, h, W) == h # None /\ h \notin W /\ b.ptrval # None /\ b.ptrval \notin W
Met(b, h, W)  == IF h \in W THEN h ELSE b.ptrval
Led(h, W)     == IF h \in W THEN None ELSE h

Held(b, k)     == {x \in DOMAIN b.idx : b.idx[x].key = k}
Sized(b, k, v) == {x \in DOMAIN b.idx : b.idx[x].klen = KeyLen[k] /\ b.idx[x].len = DatLen[v]}

Top(b, k)      == b.head[Hash[k]]
Has(b, k)      == Hit(b, Top(b, k), Held(b, k))
Lacks(b, k)    == ~Has(b, k) /\ ~Spin(b, Top(b, k), Held(b, k))
Its(b, k)      == Met(b, Top(b, k), Held(b, k))
Lead(b, k)     == Led(Top(b, k), Held(b, k))
Seat(b, k)     == IF Top(b, k) = None THEN Astray
                  ELSE IF Top(b, k) \in Held(b, k) \/ b.ptrval = None THEN Top(b, k) + 1
                  ELSE b.ptrval + 1
Spare(b, k, v) == Met(b, b.free, Sized(b, k, v))
Offers(b, k, v)   == Hit(b, b.free, Sized(b, k, v))
Withholds(b, k, v) == ~Offers(b, k, v) /\ ~Spin(b, b.free, Sized(b, k, v))

(* where the walk is *)
On(b, r, h, W) ==
  /\ h # None
  /\ \/ r.from = None /\ r.off = h
     \/ /\ r.from # None /\ h \notin W /\ r.off = r.ptrval /\ r.ptrval # None
        /\ r.from = h \/ r.ptrval \notin W

(* what _db_readidx has put into the handle *)
Load(r, i, x) == x \in DOMAIN i /\ r.idxoff = x /\ r.datoff = i[x].dat /\ r.datlen = i[x].len
-----------------------------------------------------------------------------
(* The files after some of the writes of a call *)
Point(i, x, p)   == [i EXCEPT ![x] = [@ EXCEPT !.ptr = p]]
Fill(i, x, k, p) == [i EXCEPT ![x] = [@ EXCEPT !.key = k, !.ptr = p]]

Wiped(b, k)  == [b.dat EXCEPT ![Its(b, k)] = Pair(Blank, Blank)]
Voided(b, k) == Fill(b.idx, Its(b, k), Blank, b.free)

(* a delete is over *)
Cleared(b, k) ==
  LET x == Its(b, k)
      h == Top(b, k)
  IN << [b.head EXCEPT ![Hash[k]] = IF x = h THEN b.ptrval ELSE h], x,
        IF x = h THEN Voided(b, k) ELSE Point(Voided(b, k), h, b.ptrval), Wiped(b, k) >>

(* a record was taken from the free list, was given its data, its key *)
Untied(b, k, v) ==
  LET f == Spare(b, k, v)
  IN << b.head, IF f = b.free THEN b.ptrval ELSE b.free,
        IF f = b.free THEN b.idx ELSE Point(b.idx, b.free, b.ptrval), b.dat >>
Supplied(b, k, v) ==
  << b.head, Untied(b, k, v)[2], Untied(b, k, v)[3],
     [b.dat EXCEPT ![Spare(b, k, v)] = Pair(k, v)] >>
Renamed(b, k, v) ==
  << b.head, Untied(b, k, v)[2], Fill(Untied(b, k, v)[3], Spare(b, k, v), k, Top(b, k)),
     [b.dat EXCEPT ![Spare(b, k, v)] = Pair(k, v)] >>

(* a record is appended to what a delete has left, or to all there was *)
Ground(b, k) == IF Has(b, k) THEN Cleared(b, k) ELSE Was(b)
Lengthened(g, k, v) ==
  << g[1], g[2],
     Append(g[3], [key |-> k, klen |-> KeyLen[k], ptr |-> g[1][Hash[k]],
                   dat |-> Len(g[3]) + 1, len |-> DatLen[v]]),
     Append(g[4], Pair(k, v)) >>

(* the chain leads to the record *)
Headed(g, k, x) == << [g[1] EXCEPT ![Hash[k]] = WritePtr(@, x)], g[2], g[3], g[4] >>
-----------------------------------------------------------------------------
(* What the process knows, and what it has written, by its place in a call *)

Plain(b, r, F) == F = Was(b) /\ r.ptrval = b.ptrval
Fresh(r)       == r.rc = 0 /\ (r.op # "store" => r.val = Blank)

Looking(b, r, F) == Plain(b, r, F) /\ Fresh(r) /\ r.from = None
Walks(b, r, F)   == Plain(b, r, F) /\ Fresh(r) /\ On(b, r, Top(b, r.key), Held(b, r.key))
Reading(b, r, F, i) ==
  /\ Plain(b, r, F) /\ r.rc = 0 /\ Has(b, r.key)
  /\ Load(r, i, Its(b, r.key)) /\ r.pos = Its(b, r.key) + 1
Over(b, r, F, i) ==
  Reading(b, r, F, i) /\ r.flag # "insert" /\ b.idx[Its(b, r.key)].len = DatLen[r.val]

Doomed(b, r, i) ==
  /\ Has(b, r.key) /\ Fresh(r)
  /\ Load(r, i, Its(b, r.key)) /\ r.from = Lead(b, r.key)
  /\ r.op = "store" => r.flag # "insert" /\ b.idx[Its(b, r.key)].len # DatLen[r.val]
Erasing(b, r, F, i) == Doomed(b, r, i) /\ Plain(b, r, F)
Wiping(b, r, F, i) ==
  /\ Doomed(b, r, i) /\ r.ptrval = b.ptrval
  /\ F = <<b.head, b.free, b.idx, Wiped(b, r.key)>>
Voiding(b, r, F, i) == Wiping(b, r, F, i) /\ r.new = b.free /\ r.save = b.ptrval
Freeing(b, r, F, i) ==
  /\ Doomed(b, r, i) /\ r.ptrval = b.free /\ r.save = b.ptrval
  /\ F = <<b.head, b.free, Voided(b, r.key), Wiped(b, r.key)>>
Cutting(b, r, F, i) ==
  /\ Doomed(b, r, i) /\ r.ptrval = b.free /\ r.save = b.ptrval
  /\ F = <<b.head, Its(b, r.key), Voided(b, r.key), Wiped(b, r.key)>>
Gone(b, r, F) ==
  /\ Has(b, r.key) /\ Fresh(r) /\ F = Cleared(b, r.key)
  /\ r.ptrval = b.free /\ r.pos = Astray
  /\ r.op = "store" => r.flag # "insert" /\ b.idx[Its(b, r.key)].len # DatLen[r.val]

Rereading(b, r, F) ==
  Plain(b, r, F) /\ Lacks(b, r.key) /\ r.rc = 0 /\ r.flag # "replace" /\ r.from = None
Choosing(b, r, F) == Rereading(b, r, F) /\ r.new = Top(b, r.key)
Trying(b, r, F) ==
  /\ Plain(b, r, F) /\ Lacks(b, r.key) /\ r.rc = 0 /\ r.flag # "replace"
  /\ r.new = Top(b, r.key)
  /\ On(b, r, b.free, Sized(b, r.key, r.val))
Chosen(b, r, i) ==
  /\ Lacks(b, r.key) /\ Offers(b, r.key, r.val) /\ r.rc = 0 /\ r.flag # "replace"
  /\ Load(r, i, Spare(b, r.key, r.val)) /\ r.new = Top(b, r.key)
  /\ r.datlen = DatLen[r.val]
Untying(b, r, F, i) ==
  /\ Chosen(b, r, i) /\ Plain(b, r, F)
  /\ r.off # None /\ r.from = Led(b.free, Sized(b, r.key, r.val))
Supplying(b, r, F, i) == Chosen(b, r, i) /\ F = Untied(b, r.key, r.val)
Renaming(b, r, F, i)  == Chosen(b, r, i) /\ F = Supplied(b, r.key, r.val)
Heading(b, r, F) ==
  /\ Lacks(b, r.key) /\ Offers(b, r.key, r.val) /\ r.rc = 0 /\ r.flag # "replace"
  /\ r.idxoff = Spare(b, r.key, r.val) /\ r.ptrval = Top(b, r.key)
  /\ F = Renamed(b, r.key, r.val)

(* there is no record to write the new one over *)
Adds(b, r) ==
  /\ r.rc = 0
  /\ Has(b, r.key) => r.flag # "insert" /\ b.idx[Its(b, r.key)].len # DatLen[r.val]
  /\ ~Has(b, r.key) => /\ r.flag # "replace" /\ Lacks(b, r.key)
                       /\ Withholds(b, r.key, r.val)
Placing(b, r, F) ==
  Adds(b, r) /\ F = Ground(b, r.key) /\ r.new = Ground(b, r.key)[1][Hash[r.key]]
Laying(b, r, F, i, d) ==
  Placing(b, r, F) /\ Len(i) < MaxRec /\ r.datoff = Len(d) + 1
Laid(b, r, F, i, d) ==
  /\ Placing(b, r, F) /\ Len(i) < MaxRec
  /\ r.datlen = DatLen[r.val] /\ Inside(d, r.datoff, r.datlen)
  /\ Tells(d, r.datoff, r.datlen, r.key, r.val)
  /\ \A x \in DOMAIN i : Beside(r.datoff, r.datlen, i[x].dat, i[x].len)
Aiming(b, r, F, i, d) ==
  Laid(b, r, F, i, d) /\ r.idxoff = Len(i) + 1 /\ r.ptrval = r.new
Linked(b, r, F) ==
  /\ Adds(b, r) /\ F = Lengthened(Ground(b, r.key), r.key, r.val)
  /\ r.ptrval = Ground(b, r.key)[1][Hash[r.key]]
  /\ Len(b.idx) < MaxRec /\ r.idxoff = Len(b.idx) + 1 /\ r.pos = Len(b.idx) + 2

(* the ways in which a call ends *)
Answered(b, r, F) ==
  /\ Plain(b, r, F) /\ r.pos = Seat(b, r.key) /\ r.op = "fetch"
  /\ \/ Has(b, r.key) /\ r.rc = 0 /\ r.val = b.dat[Its(b, r.key)].val
     \/ Lacks(b, r.key) /\ r.rc = -1 /\ r.val = Blank
Denied(b, r, F) ==
  /\ Plain(b, r, F) /\ r.pos = Seat(b, r.key)
  /\ \/ r.op = "delete" /\ Lacks(b, r.key) /\ r.rc = -1 /\ r.val = Blank
     \/ r.op = "store" /\ r.flag = "insert" /\ Has(b, r.key) /\ r.rc = 1
     \/ r.op = "store" /\ r.flag = "replace" /\ Lacks(b, r.key) /\ r.rc = -1
Removed(b, r, F) == r.op = "delete" /\ Gone(b, r, F)
Replaced(b, r, F) ==
  /\ r.op = "store" /\ r.flag # "insert" /\ Has(b, r.key) /\ r.rc = 0
  /\ b.idx[Its(b, r.key)].len = DatLen[r.val]
  /\ r.ptrval = b.ptrval /\ r.pos = Seat(b, r.key)
  /\ F = <<b.head, b.free, b.idx, [b.dat EXCEPT ![Its(b, r.key)] = Pair(r.key, r.val)]>>
Reused(b, r, F) ==
  /\ r.op = "store" /\ r.flag # "replace" /\ Lacks(b, r.key) /\ Offers(b, r.key, r.val)
  /\ r.rc = 0 /\ r.ptrval = Top(b, r.key) /\ r.pos = Astray
  /\ F = Headed(Renamed(b, r.key, r.val), r.key, Spare(b, r.key, r.val))
Added(b, r, F) ==
  /\ r.op = "store" /\ Adds(b, r) /\ Len(b.idx) < MaxRec
  /\ r.ptrval = Ground(b, r.key)[1][Hash[r.key]]
  /\ r.pos = IF Len(b.idx) + 1 <= PTR_MAX THEN Astray ELSE Len(b.idx) + 2
  /\ F = Headed(Lengthened(Ground(b, r.key), r.key, r.val), r.key, Len(b.idx) + 1)

Passing(b, r, F) ==
  /\ Plain(b, r, F) /\ b.pos # Astray /\ b.pos <= r.pos /\ r.val = Blank
  /\ \A x \in DOMAIN b.idx : b.pos <= x /\ x < r.pos => b.idx[x].key = Blank
Pausing(b, r, F, i) ==
  /\ Plain(b, r, F) /\ b.pos # Astray /\ r.rc = 0
  /\ r.pos - 1 \in DOMAIN i /\ b.pos <= r.pos - 1
  /\ \A x \in DOMAIN b.idx : b.pos <= x /\ x < r.pos - 1 => b.idx[x].key = Blank
  /\ r.key # Blank /\ r.key = b.idx[r.pos - 1].key
  /\ r.datoff = i[r.pos - 1].dat /\ r.datlen = i[r.pos - 1].len
Passed(b, r, F) ==
  /\ Plain(b, r, F) /\ b.pos # Astray
  /\ \/ /\ r.rc = -1 /\ r.pos = Len(b.idx) + 1
        /\ \A x \in DOMAIN b.idx : b.pos <= x => b.idx[x].key = Blank
     \/ /\ r.rc = 0 /\ r.pos - 1 \in DOMAIN b.idx /\ b.pos <= r.pos - 1
        /\ \A x \in DOMAIN b.idx : b.pos <= x /\ x < r.pos - 1 => b.idx[x].key = Blank
        /\ r.key # Blank /\ r.key = b.idx[r.pos - 1].key /\ r.val = b.dat[r.pos - 1].val

Simulated(b, r, F, i, d) ==
  /\ r.pc \in {"chain.lock", "chain.read"} => Looking(b, r, F)
  /\ r.pc = "chain.walk" => Walks(b, r, F)
  /\ r.pc = "dat.read" => Reading(b, r, F, i)
  /\ r.pc \in {"over.lock", "over.dat"} => Over(b, r, F, i)
  /\ r.pc \in {"del.lock", "erase.lock", "erase.dat"} => Erasing(b, r, F, i)
  /\ r.pc = "del.free" => Wiping(b, r, F, i)
  /\ r.pc = "del.idx" => Voiding(b, r, F, i)
  /\ r.pc = "del.head" => Freeing(b, r, F, i)
  /\ r.pc = "del.link" => Cutting(b, r, F, i)
  /\ r.pc \in {"del.unlock", "move.reread"} => Gone(b, r, F)
  /\ r.pc = "chain.reread" => Rereading(b, r, F)
  /\ r.pc \in {"free.lock", "free.read"} => Choosing(b, r, F)
  /\ r.pc = "free.walk" => Trying(b, r, F)
  /\ r.pc = "free.unlink" => Untying(b, r, F, i)
  /\ r.pc = "free.unlock" => IF r.off = None THEN Placing(b, r, F) /\ ~Has(b, r.key)
                             ELSE Supplying(b, r, F, i)
  /\ r.pc \in {"reuse.lock", "reuse.dat"} => Supplying(b, r, F, i)
  /\ r.pc = "reuse.idx" => Renaming(b, r, F, i)
  /\ r.pc = "new.seek" => Placing(b, r, F)
  /\ r.pc = "new.dat" => Laying(b, r, F, i, d)
  /\ r.pc \in {"new.unlock", "tail.lock", "tail.seek"} => Laid(b, r, F, i, d)
  /\ r.pc = "tail.idx" => Aiming(b, r, F, i, d)
  /\ r.pc = "tail.unlock" => Linked(b, r, F)
  /\ r.pc = "chain.link" => Linked(b, r, F) \/ Heading(b, r, F)
  /\ r.pc = "chain.unlock" =>
       \/ Answered(b, r, F) \/ Denied(b, r, F) \/ Removed(b, r, F)
       \/ Replaced(b, r, F) \/ Reused(b, r, F) \/ Added(b, r, F)
  /\ r.pc \in {"scan.lock", "scan.idx"} => Passing(b, r, F) /\ r.rc = 0
  /\ r.pc = "scan.dat" => Pausing(b, r, F, i)
  /\ r.pc = "scan.unlock" => Passed(b, r, F)

(* outside of a call *)
Opened == [Snapshot EXCEPT !.phase = "open", !.pos = 1]
Outdoors ==
  /\ reg[Me].pc = "idle" => base = Snapshot /\ reg[Me] = At("idle", reg[Me].ptrval, reg[Me].pos)
  /\ reg[Me].pc = "off" =>
       /\ reg[Me] = At("off", None, Astray)
       /\ base = Snapshot \/ (base = Opened /\ out = Answer("open", Blank, Blank, 0))

(* the pointers that are there, and the place of idxfd *)
Small(r) == r.ptrval <= PTR_MAX /\ r.new <= PTR_MAX /\ r.save <= PTR_MAX
Fitting == free <= PTR_MAX /\ (\A c \in Chains : head[c] <= PTR_MAX) /\ Small(reg[Me])
Seated  == reg[Me].pos \in 0 .. Len(idx) + 1

Sane(b) ==
  /\ b.head \in [Chains -> 0 .. Len(b.idx)] /\ \A c \in Chains : b.head[c] <= PTR_MAX
  /\ b.free \in 0 .. Len(b.idx) /\ b.free <= PTR_MAX
  /\ b.idx \in Seq(IdxRec) /\ b.dat \in Seq(Datums)
  /\ Len(b.dat) = Len(b.idx) /\ \A x \in DOMAIN b.idx : b.idx[x].dat = x
  /\ b.ptrval \in 0 .. Len(b.idx) /\ b.ptrval <= PTR_MAX
  /\ b.pos \in 0 .. Len(b.idx) + 1

Alone == \A l \in locks : l[1] = Me

Untroubled ==
  /\ Alone /\ Fitting /\ Seated /\ Pieces(idx, dat) /\ Sane(base) /\ Outdoors
  /\ reg[Me].pc # "off" => base.phase = "open"
  /\ Simulated(base, reg[Me], Now, idx, dat)
Follows == events = {} => Untroubled
-----------------------------------------------------------------------------
(* What a write to one of the files does to the files that ApueDb sees *)

LEMMA RenumberedIs ==
  ASSUME NEW t \in IdxRec, NEW x \in Nat
  PROVE  LET e == [t EXCEPT !.dat = x]
         IN e \in IdxRec /\ e.dat = x /\ e.key = t.key /\ e.klen = t.klen /\ e.len = t.len
BY SMT DEF IdxRec

LEMMA RecordSame ==
  ASSUME NEW s \in IdxRec, NEW t \in IdxRec, s.key = t.key, s.klen = t.klen, s.ptr = t.ptr,
         s.dat = t.dat, s.len = t.len
  PROVE  s = t
BY DEF IdxRec

LEMMA RecordPointed ==
  ASSUME NEW t \in IdxRec, NEW x \in Nat, NEW p \in Nat
  PROVE  /\ [t EXCEPT !.ptr = p] \in IdxRec
         /\ [[t EXCEPT !.ptr = p] EXCEPT !.dat = x] = [[t EXCEPT !.dat = x] EXCEPT !.ptr = p]
<1> PICK a, c : a = [t EXCEPT !.ptr = p] /\ c = [t EXCEPT !.dat = x]
  OBVIOUS
<1>1. a \in IdxRec /\ c \in IdxRec
  BY DEF IdxRec
<1>2. /\ a.key = t.key /\ a.klen = t.klen /\ a.ptr = p /\ a.len = t.len
      /\ c.key = t.key /\ c.klen = t.klen /\ c.dat = x /\ c.len = t.len
  BY SMT DEF IdxRec
<1> PICK u, w : u = [a EXCEPT !.dat = x] /\ w = [c EXCEPT !.ptr = p]
  OBVIOUS
<1>3. u \in IdxRec /\ w \in IdxRec
  BY <1>1 DEF IdxRec
<1>4. /\ u.key = a.key /\ u.klen = a.klen /\ u.ptr = a.ptr /\ u.dat = x /\ u.len = a.len
      /\ w.key = c.key /\ w.klen = c.klen /\ w.ptr = p /\ w.dat = c.dat /\ w.len = c.len
  BY <1>1, SMT DEF IdxRec
<1>5. u = w
  BY <1>2, <1>3, <1>4, RecordSame
<1> QED BY <1>1, <1>5

LEMMA RecordFilled ==
  ASSUME NEW t \in IdxRec, NEW x \in Nat, NEW p \in Nat, NEW k \in Keys \cup {Blank}
  PROVE  /\ [t EXCEPT !.key = k, !.ptr = p] \in IdxRec
         /\ [t EXCEPT !.key = k, !.ptr = p, !.dat = t.dat, !.len = t.len]
              = [t EXCEPT !.key = k, !.ptr = p]
         /\ [[t EXCEPT !.key = k, !.ptr = p] EXCEPT !.dat = x]
              = [[t EXCEPT !.dat = x] EXCEPT !.key = k, !.ptr = p]
<1> PICK a, c : a = [t EXCEPT !.key = k, !.ptr = p] /\ c = [t EXCEPT !.dat = x]
  OBVIOUS
<1>1. a \in IdxRec /\ c \in IdxRec
  BY DEF IdxRec
<1>2. /\ a.key = k /\ a.klen = t.klen /\ a.ptr = p /\ a.dat = t.dat /\ a.len = t.len
      /\ c.klen = t.klen /\ c.dat = x /\ c.len = t.len
  BY SMT DEF IdxRec
<1> PICK u, w, z : /\ u = [a EXCEPT !.dat = x] /\ w = [c EXCEPT !.key = k, !.ptr = p]
                  /\ z = [t EXCEPT !.key = k, !.ptr = p, !.dat = t.dat, !.len = t.len]
  OBVIOUS
<1>3. u \in IdxRec /\ w \in IdxRec /\ z \in IdxRec
  <2>1. z \in IdxRec
    BY DEF IdxRec
  <2> QED BY <1>1, <2>1 DEF IdxRec
<1>4. /\ u.key = a.key /\ u.klen = a.klen /\ u.ptr = a.ptr /\ u.dat = x /\ u.len = a.len
      /\ w.key = k /\ w.klen = c.klen /\ w.ptr = p /\ w.dat = c.dat /\ w.len = c.len
      /\ z.key = k /\ z.klen = t.klen /\ z.ptr = p /\ z.dat = t.dat /\ z.len = t.len
  BY <1>1, SMT DEF IdxRec
<1>5. u = w /\ z = a
  BY <1>1, <1>2, <1>3, <1>4, RecordSame
<1> QED BY <1>1, <1>5

LEMMA NumberedIs ==
  ASSUME NEW i \in Seq(IdxRec)
  PROVE  /\ Numbered(i) \in Seq(IdxRec) /\ Len(Numbered(i)) = Len(i)
         /\ DOMAIN Numbered(i) = 1 .. Len(i) /\ DOMAIN i = 1 .. Len(i) /\ Len(i) \in Nat
         /\ \A x \in 1 .. Len(i) :
              /\ Numbered(i)[x] = [i[x] EXCEPT !.dat = x]
              /\ Numbered(i)[x].dat = x /\ Numbered(i)[x].key = i[x].key
              /\ Numbered(i)[x].klen = i[x].klen /\ Numbered(i)[x].len = i[x].len
<1>0. Len(i) \in Nat /\ DOMAIN i = 1 .. Len(i)
  BY LenProperties
<1> DEFINE e(x) == [i[x] EXCEPT !.dat = x]
<1>1. ASSUME NEW x \in 1 .. Len(i)
      PROVE  /\ e(x) \in IdxRec /\ e(x).dat = x /\ e(x).key = i[x].key
             /\ e(x).klen = i[x].klen /\ e(x).len = i[x].len
  <2>1. i[x] \in IdxRec /\ x \in Nat
    BY ElementOfSeq
  <2> QED BY <2>1, RenumberedIs
<1>2. Numbered(i) = [x \in 1 .. Len(i) |-> e(x)]
  BY <1>0 DEF Numbered
<1> HIDE DEF e
<1>3. Numbered(i) \in [1 .. Len(i) -> IdxRec]
  BY <1>1, <1>2
<1>4. Numbered(i) \in Seq(IdxRec) /\ Len(Numbered(i)) = Len(i)
  BY <1>0, <1>3, SMT
<1>5. ASSUME NEW x \in 1 .. Len(i) PROVE Numbered(i)[x] = e(x)
  BY <1>2
<1> QED BY <1>0, <1>1, <1>2, <1>4, <1>5 DEF e

(* one record is written over *)
LEMMA NumberedWrite ==
  ASSUME NEW i \in Seq(IdxRec), NEW x \in 1 .. Len(i), NEW e \in IdxRec
  PROVE  Numbered([i EXCEPT ![x] = e]) = [Numbered(i) EXCEPT ![x] = [e EXCEPT !.dat = x]]
<1>0. Len(i) \in Nat /\ DOMAIN i = 1 .. Len(i)
  BY LenProperties
<1> PICK j : j = [i EXCEPT ![x] = e]
  OBVIOUS
<1>1. DOMAIN j = 1 .. Len(i) /\ \A y \in 1 .. Len(i) : j[y] = IF y = x THEN e ELSE i[y]
  BY <1>0
<1>2. Numbered(j) = [y \in 1 .. Len(i) |-> [j[y] EXCEPT !.dat = y]]
  BY <1>1 DEF Numbered
<1>3. Numbered(i) = [y \in 1 .. Len(i) |-> [i[y] EXCEPT !.dat = y]]
  BY <1>0 DEF Numbered
<1> PICK m : m = Numbered(i)
  OBVIOUS
<1> DEFINE n == [m EXCEPT ![x] = [e EXCEPT !.dat = x]]
<1>4. n = [y \in 1 .. Len(i) |-> IF y = x THEN [e EXCEPT !.dat = x] ELSE m[y]]
  <2>1. DOMAIN m = 1 .. Len(i)
    BY <1>3
  <2> QED BY <2>1
<1>5. ASSUME NEW y \in 1 .. Len(i)
      PROVE  [j[y] EXCEPT !.dat = y] = IF y = x THEN [e EXCEPT !.dat = x] ELSE m[y]
  <2>1. CASE y = x
    BY <1>1, <2>1
  <2>2. CASE y # x
    <3>1. j[y] = i[y] /\ m[y] = [i[y] EXCEPT !.dat = y]
      BY <1>1, <1>3, <2>2
    <3> QED BY <2>2, <3>1
  <2> QED BY <2>1, <2>2
<1> DEFINE a(y) == [j[y] EXCEPT !.dat = y]
           c(y) == IF y = x THEN [e EXCEPT !.dat = x] ELSE m[y]
<1>6. /\ Numbered(j) = [y \in 1 .. Len(i) |-> a(y)] /\ n = [y \in 1 .. Len(i) |-> c(y)]
      /\ \A y \in 1 .. Len(i) : a(y) = c(y)
  BY <1>2, <1>4, <1>5, Zenon
<1> HIDE DEF a, c, n
<1>7. Numbered(j) = n
  BY <1>6
<1> QED BY <1>7 DEF n

LEMMA NumberedPointed ==
  ASSUME Files, NEW x \in 1 .. Len(idx), NEW p \in Nat, p <= PTR_MAX
  PROVE  Numbered(Pointed(x, p)) = Point(Numbered(idx), x, p)
<1>0. idx \in Seq(IdxRec)
  BY DEF Files
<1>1. idx[x] \in IdxRec /\ x \in Nat
  BY <1>0, ElementOfSeq
<1> PICK t \in IdxRec : t = idx[x]
  BY <1>1
<1> PICK e : e = [t EXCEPT !.ptr = p]
  OBVIOUS
<1>2. e \in IdxRec /\ [e EXCEPT !.dat = x] = [[t EXCEPT !.dat = x] EXCEPT !.ptr = p]
  BY RecordPointed
<1>3. Pointed(x, p) = [idx EXCEPT ![x] = e]
  BY DEF Pointed, WritePtr
<1>4. Numbered(idx)[x] = [t EXCEPT !.dat = x]
  BY <1>0, NumberedIs
<1>5. Numbered(Pointed(x, p)) = [Numbered(idx) EXCEPT ![x] = [e EXCEPT !.dat = x]]
  <2>1. e \in IdxRec
    BY <1>2
  <2>2. Numbered([idx EXCEPT ![x] = e]) = [Numbered(idx) EXCEPT ![x] = [e EXCEPT !.dat = x]]
    BY <1>0, <2>1, NumberedWrite
  <2> QED BY <1>3, <2>2
<1> QED BY <1>2, <1>4, <1>5 DEF Point

LEMMA NumberedFilled ==
  ASSUME Files, NEW r, Load(r, idx, r.idxoff), NEW k \in Keys \cup {Blank}, r.new \in Nat
  PROVE  Numbered(Filled(r, k)) = Fill(Numbered(idx), r.idxoff, k, r.new)
<1>0. idx \in Seq(IdxRec) /\ DOMAIN idx = 1 .. Len(idx)
  BY LenProperties DEF Files
<1> PICK x \in 1 .. Len(idx) : x = r.idxoff
  BY <1>0 DEF Load
<1>1. idx[x] \in IdxRec /\ x \in Nat
  BY <1>0, ElementOfSeq
<1> PICK t \in IdxRec : t = idx[x]
  BY <1>1
<1> PICK p \in Nat : p = r.new
  OBVIOUS
<1> PICK e : e = [t EXCEPT !.key = k, !.ptr = p]
  OBVIOUS
<1>2. e \in IdxRec /\ [e EXCEPT !.dat = x] = [[t EXCEPT !.dat = x] EXCEPT !.key = k, !.ptr = p]
  BY RecordFilled
<1>3. [t EXCEPT !.key = k, !.ptr = p, !.dat = t.dat, !.len = t.len] = e
  BY RecordFilled
<1>4. r.datoff = t.dat /\ r.datlen = t.len
  BY DEF Load
<1>5. Filled(r, k) = [idx EXCEPT ![x] = e]
  BY <1>3, <1>4 DEF Filled
<1>6. Numbered(idx)[x] = [t EXCEPT !.dat = x]
  BY <1>0, NumberedIs
<1>7. Numbered(Filled(r, k)) = [Numbered(idx) EXCEPT ![x] = [e EXCEPT !.dat = x]]
  <2>1. e \in IdxRec
    BY <1>2
  <2>2. Numbered([idx EXCEPT ![x] = e]) = [Numbered(idx) EXCEPT ![x] = [e EXCEPT !.dat = x]]
    BY <1>0, <2>1, NumberedWrite
  <2> QED BY <1>5, <2>2
<1> QED BY <1>2, <1>6, <1>7 DEF Fill

LEMMA NumberedAppend ==
  ASSUME NEW i \in Seq(IdxRec), NEW e \in IdxRec
  PROVE  Numbered(Append(i, e)) = Append(Numbered(i), [e EXCEPT !.dat = Len(i) + 1])
<1> PICK n \in Nat : n = Len(i)
  BY LenProperties
<1> PICK j : j = Append(i, e)
  OBVIOUS
<1>1. /\ j \in Seq(IdxRec) /\ Len(j) = n + 1 /\ j[n + 1] = e
      /\ \A y \in 1 .. n : j[y] = i[y]
  BY SMT
<1> PICK f : f = [e EXCEPT !.dat = n + 1]
  OBVIOUS
<1>2. f \in IdxRec
  <2>1. n + 1 \in Nat
    OBVIOUS
  <2> QED BY <2>1, RenumberedIs
<1> PICK m \in Seq(IdxRec) : m = Numbered(i) /\ Len(m) = n
  BY NumberedIs
<1>3. Append(m, f) \in Seq(IdxRec) /\ Len(Append(m, f)) = n + 1 /\ Append(m, f)[n + 1] = f
      /\ \A y \in 1 .. n : Append(m, f)[y] = m[y]
  BY <1>2, SMT
<1>4. Numbered(j) \in Seq(IdxRec) /\ Len(Numbered(j)) = n + 1
  BY <1>1, NumberedIs
<1>5. ASSUME NEW y \in 1 .. n + 1 PROVE Numbered(j)[y] = Append(m, f)[y]
  <2>0. Numbered(j)[y] = [j[y] EXCEPT !.dat = y]
    BY <1>1, NumberedIs
  <2>1. CASE y = n + 1
    BY <1>1, <1>3, <2>0, <2>1
  <2>2. CASE y # n + 1
    <3>1. y \in 1 .. n
      BY <2>2, SMT
    <3>2. m[y] = [i[y] EXCEPT !.dat = y]
      BY <3>1, NumberedIs
    <3> QED BY <1>1, <1>3, <2>0, <3>1, <3>2
  <2> QED BY <2>1, <2>2
<1>6. Numbered(j) = Append(m, f)
  BY <1>3, <1>4, <1>5, SeqEqual
<1> QED BY <1>6
-----------------------------------------------------------------------------
LEMMA PiecesNat ==
  ASSUME Files, NEW x \in DOMAIN idx
  PROVE  idx[x] \in IdxRec /\ idx[x].dat \in Nat /\ idx[x].len \in Nat /\ idx[x].klen \in Nat
<1>1. idx[x] \in IdxRec
  BY ElementOfSeq, LenNat DEF Files
<1> QED BY <1>1 DEF IdxRec

LEMMA ToldIs ==
  ASSUME Files, Pieces(idx, dat)
  PROVE  Told(idx, dat) \in Seq(Datums) /\ Len(Told(idx, dat)) = Len(idx)
<1>0. Len(idx) \in Nat /\ DOMAIN idx = 1 .. Len(idx) /\ dat \in Seq(Cell)
  BY LenNat DEF Pieces
<1> DEFINE t(x) == Pair(dat[idx[x].dat].key, dat[idx[x].dat].val)
<1>1. ASSUME NEW x \in 1 .. Len(idx) PROVE t(x) \in Datums
  <2>0. x \in DOMAIN idx
    BY <1>0
  <2> PICK o \in Nat : o = idx[x].dat
    BY <2>0, PiecesNat
  <2> PICK n \in Nat : n = idx[x].len
    BY <2>0, PiecesNat
  <2>1. Inside(dat, o, n) /\ Len(dat) \in Nat
    BY <1>0, <2>0, LenProperties DEF Pieces
  <2>2. o \in 1 .. Len(dat)
    BY <2>1, SMT DEF Inside
  <2>3. dat[o] \in Cell
    BY <1>0, <2>2, ElementOfSeq
  <2>4. dat[o].key \in Keys \cup {Blank} /\ dat[o].val \in Vals \cup {Blank}
    BY <2>3 DEF Cell
  <2> QED BY <2>4 DEF Datums, Pair
<1>2. Told(idx, dat) = [x \in 1 .. Len(idx) |-> t(x)]
  BY <1>0 DEF Told
<1> HIDE DEF t
<1>3. Told(idx, dat) \in [1 .. Len(idx) -> Datums]
  BY <1>1, <1>2
<1> QED BY <1>0, <1>3, SMT

(* The data are where they were. *)
LEMMA ToldSame ==
  ASSUME NEW i, NEW j, NEW d, DOMAIN j = DOMAIN i,
         \A x \in DOMAIN i : j[x].dat = i[x].dat /\ j[x].len = i[x].len
  PROVE  Told(j, d) = Told(i, d) /\ (Pieces(i, d) => Pieces(j, d))
<1> DEFINE a(x) == Pair(d[i[x].dat].key, d[i[x].dat].val)
           c(x) == Pair(d[j[x].dat].key, d[j[x].dat].val)
<1>1. ASSUME NEW x \in DOMAIN i PROVE a(x) = c(x)
  OBVIOUS
<1>2. Told(i, d) = [x \in DOMAIN i |-> a(x)] /\ Told(j, d) = [x \in DOMAIN i |-> c(x)]
  BY Zenon DEF Told
<1> HIDE DEF a, c
<1>3. Told(j, d) = Told(i, d)
  BY <1>1, <1>2
<1> QED BY <1>3 DEF Pieces

LEMMA ToldAppend ==
  ASSUME NEW i \in Seq(IdxRec), NEW e, NEW d
  PROVE  Told(Append(i, e), d) = Append(Told(i, d), Pair(d[e.dat].key, d[e.dat].val))
<1> PICK n \in Nat : n = Len(i) /\ DOMAIN i = 1 .. n
  BY LenProperties
<1> PICK j : j = Append(i, e)
  OBVIOUS
<1>1. DOMAIN j = 1 .. n + 1 /\ j[n + 1] = e /\ \A x \in 1 .. n : j[x] = i[x]
  BY SMT
<1> PICK t : t = Pair(d[e.dat].key, d[e.dat].val)
  OBVIOUS
<1> PICK m : m = Told(i, d)
  OBVIOUS
<1> DEFINE a(x) == Pair(d[i[x].dat].key, d[i[x].dat].val)
           c(x) == Pair(d[j[x].dat].key, d[j[x].dat].val)
           S == {a(x) : x \in 1 .. n} \cup {t}
<1>2. m = [x \in 1 .. n |-> a(x)] /\ Told(j, d) = [x \in 1 .. n + 1 |-> c(x)]
  BY <1>1, Zenon DEF Told
<1>3. c(n + 1) = t /\ \A x \in 1 .. n : c(x) = a(x)
  BY <1>1
<1>4. \A x \in 1 .. n : a(x) \in S
  OBVIOUS
<1>5. t \in S
  OBVIOUS
<1> HIDE DEF a, c, S
<1>6. m \in Seq(S) /\ Len(m) = n /\ \A x \in 1 .. n : m[x] = a(x)
  <2>1. m \in [1 .. n -> S]
    BY <1>2, <1>4
  <2>2. m \in Seq(S) /\ Len(m) = n
    BY <2>1, SMT
  <2> QED BY <1>2, <2>2
<1>7. /\ Append(m, t) \in Seq(S) /\ Len(Append(m, t)) = n + 1 /\ Append(m, t)[n + 1] = t
      /\ \A x \in 1 .. n : Append(m, t)[x] = a(x)
  BY <1>5, <1>6, SMT
<1>8. ASSUME NEW x \in 1 .. n + 1 PROVE c(x) \in S /\ Append(m, t)[x] = c(x)
  <2>1. CASE x = n + 1
    BY <1>3, <1>5, <1>7, <2>1
  <2>2. CASE x # n + 1
    <3>1. x \in 1 .. n
      BY <2>2, SMT
    <3> QED BY <1>3, <1>4, <1>7, <3>1
  <2> QED BY <2>1, <2>2
<1>9. Told(j, d) \in Seq(S) /\ Len(Told(j, d)) = n + 1 /\ \A x \in 1 .. n + 1 : Told(j, d)[x] = c(x)
  <2>1. Told(j, d) \in [1 .. n + 1 -> S]
    BY <1>2, <1>8
  <2>2. Told(j, d) \in Seq(S) /\ Len(Told(j, d)) = n + 1
    BY <2>1, SMT
  <2> QED BY <1>2, <2>2
<1>10. Told(j, d) = Append(m, t)
  BY <1>7, <1>8, <1>9, SeqEqual
<1> QED BY <1>10

(* The datum of a record is written over. *)
LEMMA PieceWritten ==
  ASSUME Files, Pieces(idx, dat), NEW x \in DOMAIN idx,
         NEW k \in Keys \cup {Blank}, NEW v \in Vals \cup {Blank},
         dat' = WriteAt(idx[x].dat, Text(k, v, idx[x].len))
  PROVE  Pieces(idx, dat') /\ Told(idx, dat') = [Told(idx, dat) EXCEPT ![x] = Pair(k, v)]
<1> PICK o \in Nat : o = idx[x].dat
  BY PiecesNat
<1> PICK n \in Nat : n = idx[x].len
  BY PiecesNat
<1>0. dat \in Seq(Cell) /\ Len(dat) \in Nat /\ Inside(dat, o, n)
  BY LenProperties DEF Pieces
<1>1. 1 <= o /\ o <= Len(dat) + 1 /\ 1 <= n
  BY <1>0, SMT DEF Inside
<1>2. dat' \in Seq(Cell) /\ Written(dat, dat', o, n, k, v)
  BY <1>0, <1>1, WriteAtWrites
<1>3. Len(dat') \in Nat
  BY <1>2, LenProperties
<1>4. /\ Inside(dat', o, n) /\ Tells(dat', o, n, k, v)
      /\ dat'[o].key = k /\ dat'[o].val = v
  <2>1. Tells(dat', o, n, k, v)
    BY <1>2 DEF Written
  <2>2. Inside(dat', o, n)
    BY <1>0, <1>1, <1>2, <1>3, SMT DEF Inside, Written
  <2> QED BY <1>1, <2>1, <2>2, TellsFirst
<1>5. ASSUME NEW y \in DOMAIN idx, y # x
      PROVE  /\ Inside(dat', idx[y].dat, idx[y].len) /\ dat[idx[y].dat] = dat'[idx[y].dat]
             /\ \A l, w : Tells(dat', idx[y].dat, idx[y].len, l, w)
                            <=> Tells(dat, idx[y].dat, idx[y].len, l, w)
  <2> PICK u \in Nat : u = idx[y].dat
    BY PiecesNat
  <2> PICK m \in Nat : m = idx[y].len
    BY PiecesNat
  <2>1. Inside(dat, u, m) /\ Beside(u, m, o, n)
    BY <1>5 DEF Pieces
  <2> QED BY <1>0, <1>2, <1>3, <2>1, BesideStays
<1>6. Pieces(idx, dat')
  <2>1. ASSUME NEW y \in DOMAIN idx
        PROVE  /\ Inside(dat', idx[y].dat, idx[y].len)
               /\ Tells(dat', idx[y].dat, idx[y].len, dat'[idx[y].dat].key, dat'[idx[y].dat].val)
    BY <1>4, <1>5 DEF Pieces
  <2> QED BY <1>2, <2>1 DEF Pieces
<1>7. Told(idx, dat') = [Told(idx, dat) EXCEPT ![x] = Pair(k, v)]
  <2> DEFINE a(y) == Pair(dat[idx[y].dat].key, dat[idx[y].dat].val)
             c(y) == Pair(dat'[idx[y].dat].key, dat'[idx[y].dat].val)
             e(y) == IF y = x THEN Pair(k, v) ELSE a(y)
  <2>1. ASSUME NEW y \in DOMAIN idx PROVE c(y) = e(y)
    BY <1>4, <1>5
  <2> PICK m : m = Told(idx, dat)
    OBVIOUS
  <2>2. m = [y \in DOMAIN idx |-> a(y)] /\ Told(idx, dat') = [y \in DOMAIN idx |-> c(y)]
    BY Zenon DEF Told
  <2>3. \A y \in DOMAIN idx : e(y) = IF y = x THEN Pair(k, v) ELSE a(y)
    OBVIOUS
  <2> HIDE DEF a, c, e
  <2>4. [m EXCEPT ![x] = Pair(k, v)] = [y \in DOMAIN idx |-> e(y)]
    BY <2>2, <2>3
  <2> QED BY <2>1, <2>2, <2>4
<1> QED BY <1>6, <1>7

(* A datum is written behind all others. *)
LEMMA PieceAdded ==
  ASSUME Files, Pieces(idx, dat), NEW o \in Nat, o = Len(dat) + 1, NEW n \in Nat, 1 <= n,
         NEW k \in Keys \cup {Blank}, NEW v \in Vals \cup {Blank}, dat' = WriteAt(o, Text(k, v, n))
  PROVE  /\ Pieces(idx, dat') /\ Told(idx, dat') = Told(idx, dat)
         /\ Inside(dat', o, n) /\ Tells(dat', o, n, k, v)
         /\ \A x \in DOMAIN idx : Beside(o, n, idx[x].dat, idx[x].len)
<1>0. dat \in Seq(Cell) /\ Len(dat) \in Nat /\ 1 <= o /\ o <= Len(dat) + 1
  BY LenProperties, SMT DEF Pieces
<1>1. dat' \in Seq(Cell) /\ Written(dat, dat', o, n, k, v)
  BY <1>0, WriteAtWrites
<1>2. Len(dat') \in Nat
  BY <1>1, LenProperties
<1>3. Inside(dat', o, n) /\ Tells(dat', o, n, k, v)
  BY <1>0, <1>1, <1>2, SMT DEF Inside, Written
<1>4. ASSUME NEW y \in DOMAIN idx
      PROVE  /\ Inside(dat', idx[y].dat, idx[y].len) /\ dat[idx[y].dat] = dat'[idx[y].dat]
             /\ \A l, w : Tells(dat', idx[y].dat, idx[y].len, l, w)
                            <=> Tells(dat, idx[y].dat, idx[y].len, l, w)
             /\ Beside(o, n, idx[y].dat, idx[y].len)
  <2> PICK u \in Nat : u = idx[y].dat
    BY PiecesNat
  <2> PICK m \in Nat : m = idx[y].len
    BY PiecesNat
  <2>1. Inside(dat, u, m)
    BY DEF Pieces
  <2>2. Beside(u, m, o, n) /\ Beside(o, n, u, m)
    BY <1>0, <2>1, BeforeEnd
  <2> QED BY <1>0, <1>1, <1>2, <2>1, <2>2, BesideStays
<1>5. Pieces(idx, dat')
  <2>1. ASSUME NEW y \in DOMAIN idx
        PROVE  /\ Inside(dat', idx[y].dat, idx[y].len)
               /\ Tells(dat', idx[y].dat, idx[y].len, dat'[idx[y].dat].key, dat'[idx[y].dat].val)
    BY <1>4 DEF Pieces
  <2> QED BY <1>1, <2>1 DEF Pieces
<1>6. Told(idx, dat') = Told(idx, dat)
  <2> DEFINE a(y) == Pair(dat[idx[y].dat].key, dat[idx[y].dat].val)
             c(y) == Pair(dat'[idx[y].dat].key, dat'[idx[y].dat].val)
  <2>1. ASSUME NEW y \in DOMAIN idx PROVE c(y) = a(y)
    BY <1>4
  <2>2. Told(idx, dat) = [y \in DOMAIN idx |-> a(y)] /\ Told(idx, dat') = [y \in DOMAIN idx |-> c(y)]
    BY Zenon DEF Told
  <2> HIDE DEF a, c
  <2> QED BY <2>1, <2>2
<1> QED BY <1>3, <1>4, <1>5, <1>6
-----------------------------------------------------------------------------
(* A walk along the chain, or along the free list *)

LEMMA WalkHits ==
  ASSUME NEW b, NEW r, NEW h, NEW W, On(b, r, h, W), r.ptrval = b.ptrval, r.off \in W
  PROVE  Hit(b, h, W) /\ Met(b, h, W) = r.off /\ Led(h, W) = r.from
BY DEF On, Hit, Met, Led

LEMMA WalkEnds ==
  ASSUME NEW b, NEW r, NEW h, NEW W, On(b, r, h, W), r.ptrval = b.ptrval, r.off \notin W,
         r.ptrval = None, None \notin W
  PROVE  ~Hit(b, h, W) /\ ~Spin(b, h, W) /\ r.off = h /\ h # None
BY DEF On, Hit, Spin

LEMMA WalkGoes ==
  ASSUME NEW b, NEW r, NEW s, NEW h, NEW W, On(b, r, h, W), r.ptrval = b.ptrval, r.off \notin W,
         r.ptrval # None, s.from = r.off, s.off = r.ptrval, s.ptrval = r.ptrval
  PROVE  On(b, s, h, W)
BY DEF On

LEMMA WalkSpins ==
  ASSUME NEW b, NEW r, NEW h, NEW W, On(b, r, h, W), r.ptrval = b.ptrval, r.off \notin W,
         r.off = r.ptrval
  PROVE  Spin(b, h, W)
BY DEF On, Spin

(* What the index tells of base as long as nothing was written *)
LEMMA HeldIs ==
  ASSUME Files, NEW b, b.idx = Numbered(idx), NEW k, NEW v
  PROVE  /\ DOMAIN b.idx = DOMAIN idx
         /\ \A x \in DOMAIN idx :
              /\ x \in Held(b, k) <=> idx[x].key = k
              /\ x \in Sized(b, k, v) <=> idx[x].klen = KeyLen[k] /\ idx[x].len = DatLen[v]
         /\ None \notin Held(b, k) /\ None \notin Sized(b, k, v)
<1>0. idx \in Seq(IdxRec)
  BY DEF Files
<1> PICK m : m = Numbered(idx)
  OBVIOUS
<1>3. /\ DOMAIN m = 1 .. Len(idx) /\ DOMAIN idx = 1 .. Len(idx) /\ Len(idx) \in Nat
      /\ \A x \in 1 .. Len(idx) : /\ m[x].key = idx[x].key
                                  /\ m[x].klen = idx[x].klen /\ m[x].len = idx[x].len
  BY <1>0, NumberedIs
<1>1. /\ DOMAIN b.idx = 1 .. Len(idx) /\ DOMAIN idx = 1 .. Len(idx) /\ Len(idx) \in Nat
      /\ \A x \in 1 .. Len(idx) : /\ b.idx[x].key = idx[x].key
                                  /\ b.idx[x].klen = idx[x].klen /\ b.idx[x].len = idx[x].len
  BY <1>3
<1>2. None \notin 1 .. Len(idx)
  BY <1>1, SMT DEF None
<1> QED BY <1>1, <1>2 DEF Held, Sized
-----------------------------------------------------------------------------
(* A step inside of a call *)

Carried ==
  /\ reg'[Me].pc \notin {"idle", "off"} /\ Fitting' /\ Seated' /\ Pieces(idx', dat')
  /\ Simulated(base, reg'[Me], Now', idx', dat')

USE SharedAssumption DEF Fields, Searching, Deleting, Storing, Scanning, OnChain

LEMMA MeIs == Me \in Procs /\ Me \in Scanners
BY CallsAssumption DEF Me

LEMMA Here ==
  ASSUME Discipline, Offsets, Untroubled
  PROVE  /\ Me \in Procs /\ DOMAIN reg = Procs /\ DOMAIN reg[Me] = Fields /\ Place(reg[Me])
         /\ Within(reg[Me], Len(idx)) /\ Files /\ Len(idx) \in Nat /\ DOMAIN idx = 1 .. Len(idx)
         /\ Small(reg[Me]) /\ reg[Me].pos \in 0 .. Len(idx) + 1 /\ Pieces(idx, dat)
         /\ Simulated(base, reg[Me], Now, idx, dat)
BY MeIs, HereOf DEF Untroubled, Fitting, Seated

LEMMA SetIs ==
  ASSUME Discipline, NEW s, Set(Me, s)
  PROVE  reg'[Me] = s
BY MeIs, HandleOf, SMT DEF Set

(* one that leaves the files alone *)
LEMMA QuietCarries ==
  ASSUME Untroubled, UNCHANGED file, NEW s, s = reg'[Me], s.pc \notin {"idle", "off"},
         Small(s), s.pos \in 0 .. Len(idx) + 1, Simulated(base, s, Now, idx, dat)
  PROVE  Carried
<1>1. head' = head /\ free' = free /\ idx' = idx /\ dat' = dat
  BY DEF file
<1>2. Now' = Now
  BY <1>1 DEF Now
<1>3. Fitting' /\ Seated'
  BY <1>1 DEF Untroubled, Fitting, Seated
<1> QED BY <1>1, <1>2, <1>3 DEF Carried, Untroubled

LEMMA SimulatedBy ==
  ASSUME NEW b, NEW s, NEW F, NEW i, NEW d
  PROVE  /\ s.pc = "free.walk" /\ Trying(b, s, F) => Simulated(b, s, F, i, d)
         /\ s.pc = "free.unlink" /\ Untying(b, s, F, i) => Simulated(b, s, F, i, d)
         /\ s.pc \in {"reuse.lock", "reuse.dat"} /\ Supplying(b, s, F, i) => Simulated(b, s, F, i, d)
         /\ s.pc = "reuse.idx" /\ Renaming(b, s, F, i) => Simulated(b, s, F, i, d)
         /\ s.pc = "new.seek" /\ Placing(b, s, F) => Simulated(b, s, F, i, d)
         /\ s.pc = "new.dat" /\ Laying(b, s, F, i, d) => Simulated(b, s, F, i, d)
         /\ s.pc \in {"new.unlock", "tail.lock", "tail.seek"} /\ Laid(b, s, F, i, d) => Simulated(b, s, F, i, d)
         /\ s.pc = "tail.idx" /\ Aiming(b, s, F, i, d) => Simulated(b, s, F, i, d)
         /\ s.pc \in {"tail.unlock", "chain.link"} /\ Linked(b, s, F) => Simulated(b, s, F, i, d)
         /\ s.pc = "chain.link" /\ Heading(b, s, F) => Simulated(b, s, F, i, d)
         /\ s.pc = "del.free" /\ Wiping(b, s, F, i) => Simulated(b, s, F, i, d)
         /\ s.pc = "del.idx" /\ Voiding(b, s, F, i) => Simulated(b, s, F, i, d)
         /\ s.pc = "del.head" /\ Freeing(b, s, F, i) => Simulated(b, s, F, i, d)
         /\ s.pc = "del.link" /\ Cutting(b, s, F, i) => Simulated(b, s, F, i, d)
         /\ s.pc \in {"del.unlock", "move.reread"} /\ Gone(b, s, F) => Simulated(b, s, F, i, d)
         /\ s.pc = "chain.lock" /\ Looking(b, s, F) => Simulated(b, s, F, i, d)
         /\ s.pc \in {"scan.lock", "scan.idx"} /\ Passing(b, s, F) /\ s.rc = 0 => Simulated(b, s, F, i, d)
         /\ s.pc = "scan.dat" /\ Pausing(b, s, F, i) => Simulated(b, s, F, i, d)
         /\ s.pc = "scan.unlock" /\ Passed(b, s, F) => Simulated(b, s, F, i, d)
<1>1. ASSUME s.pc = "free.walk", Trying(b, s, F) PROVE Simulated(b, s, F, i, d)
  BY <1>1, SMT DEF Simulated
<1>2. ASSUME s.pc = "free.unlink", Untying(b, s, F, i) PROVE Simulated(b, s, F, i, d)
  BY <1>2, SMT DEF Simulated
<1>3. ASSUME s.pc \in {"reuse.lock", "reuse.dat"}, Supplying(b, s, F, i) PROVE Simulated(b, s, F, i, d)
  BY <1>3, SMT DEF Simulated
<1>4. ASSUME s.pc = "reuse.idx", Renaming(b, s, F, i) PROVE Simulated(b, s, F, i, d)
  BY <1>4, SMT DEF Simulated
<1>5. ASSUME s.pc = "new.seek", Placing(b, s, F) PROVE Simulated(b, s, F, i, d)
  BY <1>5, SMT DEF Simulated
<1>6. ASSUME s.pc = "new.dat", Laying(b, s, F, i, d) PROVE Simulated(b, s, F, i, d)
  BY <1>6, SMT DEF Simulated
<1>7. ASSUME s.pc \in {"new.unlock", "tail.lock", "tail.seek"}, Laid(b, s, F, i, d) PROVE Simulated(b, s, F, i, d)
  BY <1>7, SMT DEF Simulated
<1>8. ASSUME s.pc = "tail.idx", Aiming(b, s, F, i, d) PROVE Simulated(b, s, F, i, d)
  BY <1>8, SMT DEF Simulated
<1>9. ASSUME s.pc \in {"tail.unlock", "chain.link"}, Linked(b, s, F) PROVE Simulated(b, s, F, i, d)
  BY <1>9, SMT DEF Simulated
<1>10. ASSUME s.pc = "chain.link", Heading(b, s, F) PROVE Simulated(b, s, F, i, d)
  BY <1>10, SMT DEF Simulated
<1>11. ASSUME s.pc = "del.free", Wiping(b, s, F, i) PROVE Simulated(b, s, F, i, d)
  BY <1>11, SMT DEF Simulated
<1>12. ASSUME s.pc = "del.idx", Voiding(b, s, F, i) PROVE Simulated(b, s, F, i, d)
  BY <1>12, SMT DEF Simulated
<1>13. ASSUME s.pc = "del.head", Freeing(b, s, F, i) PROVE Simulated(b, s, F, i, d)
  BY <1>13, SMT DEF Simulated
<1>14. ASSUME s.pc = "del.link", Cutting(b, s, F, i) PROVE Simulated(b, s, F, i, d)
  BY <1>14, SMT DEF Simulated
<1>15. ASSUME s.pc \in {"del.unlock", "move.reread"}, Gone(b, s, F) PROVE Simulated(b, s, F, i, d)
  BY <1>15, SMT DEF Simulated
<1>16. ASSUME s.pc = "chain.lock", Looking(b, s, F) PROVE Simulated(b, s, F, i, d)
  BY <1>16, SMT DEF Simulated
<1>17. ASSUME s.pc \in {"scan.lock", "scan.idx"}, Passing(b, s, F) /\ s.rc = 0 PROVE Simulated(b, s, F, i, d)
  BY <1>17, SMT DEF Simulated
<1>18. ASSUME s.pc = "scan.dat", Pausing(b, s, F, i) PROVE Simulated(b, s, F, i, d)
  BY <1>18, SMT DEF Simulated
<1>19. ASSUME s.pc = "scan.unlock", Passed(b, s, F) PROVE Simulated(b, s, F, i, d)
  BY <1>19, SMT DEF Simulated
<1> QED BY <1>1, <1>2, <1>3, <1>4, <1>5, <1>6, <1>7, <1>8, <1>9, <1>10, <1>11, <1>12, <1>13, <1>14, <1>15, <1>16, <1>17, <1>18, <1>19

LEMMA Unlocks ==
  ASSUME NEW b, NEW s, NEW F, NEW i, NEW d, s.pc = "chain.unlock",
         \/ Answered(b, s, F) \/ Denied(b, s, F) \/ Removed(b, s, F)
         \/ Replaced(b, s, F) \/ Reused(b, s, F) \/ Added(b, s, F)
  PROVE  Simulated(b, s, F, i, d)
BY SMT DEF Simulated

(* no record is found *)
LEMMA MissedIs ==
  ASSUME NEW b, NEW r, NEW F, NEW i, NEW d, DOMAIN r = Fields, Plain(b, r, F), Fresh(r),
         r.op \in {"fetch", "delete", "store"}, Lacks(b, r.key), r.pos = Seat(b, r.key)
  PROVE  LET s == Missed(r)
         IN /\ s.pc \notin {"idle", "off"} /\ s.ptrval = r.ptrval /\ s.pos = r.pos
            /\ s.new = r.new /\ s.save = r.save /\ Simulated(b, s, F, i, d)
<1> PICK s : s = Missed(r)
  OBVIOUS
<1>1. /\ s.ptrval = r.ptrval /\ s.key = r.key /\ s.op = r.op /\ s.flag = r.flag
      /\ s.val = r.val /\ s.pos = r.pos /\ s.from = None /\ s.new = r.new /\ s.save = r.save
  BY SMT DEF Missed
<1>2. CASE r.op = "store" /\ r.flag # "replace"
  <2>1. s.pc = "chain.reread" /\ s.rc = r.rc
    BY <1>2, SMT DEF Missed
  <2>2. Rereading(b, s, F)
    BY <1>1, <1>2, <2>1 DEF Rereading, Plain, Fresh
  <2>3. Simulated(b, s, F, i, d)
    BY <2>1, <2>2, SMT DEF Simulated
  <2> QED BY <1>1, <2>1, <2>3
<1>3. CASE ~(r.op = "store" /\ r.flag # "replace")
  <2>1. s.pc = "chain.unlock" /\ s.rc = -1
    BY <1>3, SMT DEF Missed
  <2>2. Answered(b, s, F) \/ Denied(b, s, F)
    BY <1>1, <1>3, <2>1 DEF Answered, Denied, Plain, Fresh
  <2>3. Simulated(b, s, F, i, d)
    BY <2>1, <2>2, Unlocks
  <2> QED BY <1>1, <2>1, <2>3
<1> QED BY <1>2, <1>3

LEMMA ReadHeadCarries ==
  ASSUME Discipline, Offsets, Untroubled, ReadHead(Me) PROVE Carried
<1> PICK r : r = reg[Me]
  OBVIOUS
<1>0. /\ DOMAIN r = Fields /\ Place(r) /\ Small(r) /\ Files /\ Len(idx) \in Nat
      /\ r.pc = "chain.read" /\ r.pos \in 0 .. Len(idx) + 1
  BY Here DEF ReadHead
<1>1. Looking(base, r, Now) /\ r.op \in {"fetch", "delete", "store"}
  <2>1. Simulated(base, r, Now, idx, dat)
    BY Here
  <2>2. Looking(base, r, Now)
    BY <1>0, <2>1 DEF Simulated
  <2> QED BY <1>0, <2>2, SMT DEF Place
<1> PICK h : h = head[Hash[r.key]]
  OBVIOUS
<1>2. h = Top(base, r.key)
  BY <1>1 DEF Looking, Plain, Now, Was, Top
<1> PICK t : t = [r EXCEPT !.pos = Astray]
  OBVIOUS
<1>3. /\ DOMAIN t = Fields /\ t.ptrval = r.ptrval /\ t.key = r.key /\ t.op = r.op
      /\ t.val = r.val /\ t.rc = r.rc /\ t.from = r.from /\ t.pos = Astray
      /\ t.new = r.new /\ t.save = r.save
  BY <1>0, SMT
<1>4. Plain(base, t, Now) /\ Fresh(t)
  BY <1>1, <1>3 DEF Looking, Plain, Fresh
<1>5. PICK s : /\ s = IF h = None THEN Missed(t) ELSE [t EXCEPT !.pc = "chain.walk", !.off = h]
               /\ Set(Me, s) /\ UNCHANGED file
  BY DEF ReadHead, Chain
<1>6. /\ s.ptrval = r.ptrval /\ s.new = r.new /\ s.save = r.save /\ s.pos = Astray
      /\ s.pc \notin {"idle", "off"} /\ Simulated(base, s, Now, idx, dat)
  <2>1. CASE h = None
    <3>1. Lacks(base, t.key) /\ Seat(base, t.key) = Astray
      BY <1>2, <1>3, <2>1 DEF Lacks, Has, Hit, Spin, Seat
    <3>2. s = Missed(t)
      BY <1>5, <2>1
    <3>3. t.op \in {"fetch", "delete", "store"} /\ t.pos = Seat(base, t.key)
      BY <1>1, <1>3, <3>1
    <3>4. LET u == Missed(t)
          IN /\ u.pc \notin {"idle", "off"} /\ u.ptrval = t.ptrval /\ u.pos = t.pos
             /\ u.new = t.new /\ u.save = t.save /\ Simulated(base, u, Now, idx, dat)
      BY <1>3, <1>4, <3>1, <3>3, MissedIs
    <3> QED BY <1>3, <3>2, <3>4
  <2>2. CASE h # None
    <3>1. /\ s.ptrval = r.ptrval /\ s.key = r.key /\ s.op = r.op /\ s.val = r.val
          /\ s.rc = r.rc /\ s.from = r.from /\ s.off = h /\ s.pc = "chain.walk"
          /\ s.new = r.new /\ s.save = r.save /\ s.pos = Astray
      BY <1>3, <1>5, <2>2, SMT
    <3>2. Walks(base, s, Now)
      BY <1>1, <1>2, <2>2, <3>1 DEF Looking, Plain, Fresh, Walks, On
    <3>3. Simulated(base, s, Now, idx, dat)
      BY <3>1, <3>2, SMT DEF Simulated
    <3> QED BY <3>1, <3>3
  <2> QED BY <2>1, <2>2
<1>7. reg'[Me] = s
  BY <1>5, SetIs
<1>8. s.pos \in 0 .. Len(idx) + 1 /\ Small(s)
  BY <1>0, <1>6, SMT DEF Small, Astray
<1> QED BY <1>5, <1>6, <1>7, <1>8, QuietCarries
LEMMA SeatIs ==
  ASSUME NEW b, NEW k, Has(b, k), None \notin Held(b, k)
  PROVE  Seat(b, k) = Its(b, k) + 1
BY DEF Has, Hit, Seat, Its, Met

(* the record is found *)
LEMMA FoundIs ==
  ASSUME NEW b, NEW r, NEW F, NEW i, NEW d, DOMAIN r = Fields, Plain(b, r, F), Fresh(r),
         r.op \in {"fetch", "delete", "store"}, Has(b, r.key), None \notin Held(b, r.key),
         Load(r, i, Its(b, r.key)), r.from = Lead(b, r.key), r.pos = Its(b, r.key) + 1,
         b.idx[Its(b, r.key)].len = r.datlen
  PROVE  LET s == Found(r)
         IN /\ s.pc \notin {"idle", "off"} /\ s.ptrval = r.ptrval /\ s.pos = r.pos
            /\ s.new = r.new /\ s.save = r.save /\ Simulated(b, s, F, i, d)
<1> PICK s : s = Found(r)
  OBVIOUS
<1>1. SameCall(r, s) /\ SameOffsets(r, s)
  BY FoundGoes
<1>2. PICK f : f = [r EXCEPT !.off = None]
  OBVIOUS
<1>3. /\ DOMAIN f = Fields /\ f.op = r.op /\ f.flag = r.flag /\ f.val = r.val /\ f.datlen = r.datlen
      /\ f.from = r.from /\ f.rc = r.rc /\ f.pos = r.pos
  BY <1>2, SMT
<1>4. /\ r.op = "fetch" => s = [f EXCEPT !.pc = "dat.read", !.from = None]
      /\ r.op = "delete" => s = [f EXCEPT !.pc = "del.lock"]
      /\ r.op = "store" /\ r.flag = "insert" => s = [f EXCEPT !.pc = "chain.unlock", !.rc = 1]
      /\ r.op = "store" /\ r.flag # "insert" /\ r.datlen = DatLen[r.val] =>
           s = [f EXCEPT !.pc = "over.lock"]
      /\ r.op = "store" /\ r.flag # "insert" /\ r.datlen # DatLen[r.val] =>
           s = [f EXCEPT !.pc = "del.lock"]
  BY <1>2, <1>3, SMT DEF Found
<1>6. Plain(b, s, F) /\ Load(s, i, Its(b, s.key)) /\ Has(b, s.key)
  BY <1>1 DEF SameCall, SameOffsets, Plain, Load
<1>7. CASE r.op = "fetch"
  <2>0. s = [f EXCEPT !.pc = "dat.read", !.from = None]
    BY <1>4, <1>7
  <2>1. s.pc = "dat.read" /\ s.rc = r.rc /\ s.pos = r.pos
    BY <1>3, <2>0, SMT
  <2>2. Reading(b, s, F, i)
    BY <1>1, <1>6, <2>1 DEF Reading, Fresh, SameCall
  <2>3. Simulated(b, s, F, i, d)
    BY <2>1, <2>2, SMT DEF Simulated
  <2> QED BY <1>1, <2>1, <2>3 DEF SameCall, SameOffsets
<1>8. CASE r.op = "store" /\ r.flag = "insert"
  <2>0. s = [f EXCEPT !.pc = "chain.unlock", !.rc = 1]
    BY <1>4, <1>8
  <2>1. s.pc = "chain.unlock" /\ s.rc = 1 /\ s.pos = r.pos
    BY <1>3, <2>0, SMT
  <2>2. Denied(b, s, F)
    BY <1>1, <1>6, <1>8, <2>1, SeatIs DEF Denied, SameCall
  <2>3. Simulated(b, s, F, i, d)
    BY <2>1, <2>2, Unlocks
  <2> QED BY <1>1, <2>1, <2>3 DEF SameCall, SameOffsets
<1>9. CASE r.op = "store" /\ r.flag # "insert" /\ r.datlen = DatLen[r.val]
  <2>0. s = [f EXCEPT !.pc = "over.lock"]
    BY <1>4, <1>9
  <2>1. s.pc = "over.lock" /\ s.rc = r.rc /\ s.pos = r.pos
    BY <1>3, <2>0, SMT
  <2>2. Over(b, s, F, i)
    BY <1>1, <1>6, <1>9, <2>1 DEF Over, Reading, Fresh, SameCall
  <2>3. Simulated(b, s, F, i, d)
    BY <2>1, <2>2, SMT DEF Simulated
  <2> QED BY <1>1, <2>1, <2>3 DEF SameCall, SameOffsets
<1>10. CASE r.op = "delete" \/ (r.op = "store" /\ r.flag # "insert" /\ r.datlen # DatLen[r.val])
  <2>0. s = [f EXCEPT !.pc = "del.lock"]
    <3>1. CASE r.op = "delete"
      BY <1>4, <3>1
    <3>2. CASE r.op = "store" /\ r.flag # "insert" /\ r.datlen # DatLen[r.val]
      BY <1>4, <3>2
    <3> QED BY <1>10, <3>1, <3>2
  <2>1. s.pc = "del.lock" /\ s.rc = r.rc /\ s.from = r.from /\ s.pos = r.pos
    BY <1>3, <2>0, SMT
  <2>2. Erasing(b, s, F, i)
    BY <1>1, <1>6, <1>10, <2>1 DEF Erasing, Doomed, Fresh, SameCall
  <2>3. Simulated(b, s, F, i, d)
    BY <2>1, <2>2, SMT DEF Simulated
  <2> QED BY <1>1, <2>1, <2>3 DEF SameCall, SameOffsets
<1> QED BY <1>7, <1>8, <1>9, <1>10

(* One look at the record at off, on either list *)
LEMMA LoadedIs ==
  ASSUME Discipline, Offsets, Untroubled, reg[Me].pc \in {"chain.walk", "free.walk"}
  PROVE  LET r == reg[Me]
             l == Loaded(r)
         IN /\ DOMAIN l = Fields /\ l.pc = r.pc /\ l.off = r.off /\ l.off \in DOMAIN idx
            /\ l.ptrval = r.ptrval /\ l.key = r.key /\ l.op = r.op /\ l.flag = r.flag
            /\ l.val = r.val /\ l.rc = r.rc /\ l.from = r.from /\ l.new = r.new /\ l.save = r.save
            /\ Load(l, idx, l.off) /\ l.pos = l.off + 1 /\ l.pos \in 0 .. Len(idx) + 1
<1> PICK r : r = reg[Me]
  OBVIOUS
<1>0. /\ DOMAIN r = Fields /\ Within(r, Len(idx)) /\ DOMAIN idx = 1 .. Len(idx) /\ Len(idx) \in Nat
      /\ r.pc \in {"chain.walk", "free.walk"}
  BY Here
<1>1. r.off \in 1 .. Len(idx)
  BY <1>0, SMT DEF Within, None
<1> PICK n, m : n = idx[r.off].dat /\ m = idx[r.off].len
  OBVIOUS
<1> PICK l : l = Loaded(r)
  OBVIOUS
<1>2. l = [r EXCEPT !.idxoff = r.off, !.datoff = n, !.datlen = m, !.pos = r.off + 1]
  BY DEF Loaded
<1>3. /\ DOMAIN l = Fields /\ l.pc = r.pc /\ l.off = r.off
      /\ l.ptrval = r.ptrval /\ l.key = r.key /\ l.op = r.op /\ l.flag = r.flag
      /\ l.val = r.val /\ l.rc = r.rc /\ l.from = r.from /\ l.new = r.new /\ l.save = r.save
      /\ l.idxoff = r.off /\ l.datoff = n /\ l.datlen = m /\ l.pos = r.off + 1
  BY <1>0, <1>2, SMT
<1>4. l.pos \in 0 .. Len(idx) + 1
  BY <1>0, <1>1, <1>3, SMT
<1> QED BY <1>0, <1>1, <1>3, <1>4 DEF Load

LEMMA WalkCarries ==
  ASSUME Discipline, Offsets, Untroubled, Walk(Me) PROVE Carried
<1> PICK r : r = reg[Me]
  OBVIOUS
<1>0. /\ Place(r) /\ Small(r) /\ Files /\ r.pc = "chain.walk" /\ Simulated(base, r, Now, idx, dat)
  BY Here DEF Walk
<1>1. Walks(base, r, Now) /\ r.op \in {"fetch", "delete", "store"}
  <2>1. Walks(base, r, Now)
    BY <1>0 DEF Simulated
  <2> QED BY <1>0, <2>1, SMT DEF Place
<1> PICK l : l = Loaded(r)
  OBVIOUS
<1>2. /\ DOMAIN l = Fields /\ l.pc = r.pc /\ l.off = r.off /\ l.off \in DOMAIN idx
      /\ l.ptrval = r.ptrval /\ l.key = r.key /\ l.op = r.op /\ l.flag = r.flag
      /\ l.val = r.val /\ l.rc = r.rc /\ l.from = r.from /\ l.new = r.new /\ l.save = r.save
      /\ Load(l, idx, l.off) /\ l.pos = l.off + 1 /\ l.pos \in 0 .. Len(idx) + 1
  BY <1>0, LoadedIs
<1>3. Plain(base, l, Now) /\ Fresh(l) /\ On(base, l, Top(base, l.key), Held(base, l.key))
  BY <1>1, <1>2 DEF Walks, Plain, Fresh, On
<1>4. base.idx = Numbered(idx)
  BY <1>3 DEF Plain, Now, Was
<1>5. /\ l.off \in Held(base, l.key) <=> idx[l.off].key = l.key
      /\ None \notin Held(base, l.key) /\ base.idx[l.off].len = l.datlen
  <2>1. idx \in Seq(IdxRec)
    BY <1>0 DEF Files
  <2>2. PICK m : m = Numbered(idx)
    OBVIOUS
  <2>3. l.off \in 1 .. Len(idx)
    BY <1>2, <2>1, NumberedIs
  <2>4. m[l.off].len = idx[l.off].len
    <3>1. \A x \in 1 .. Len(idx) : m[x].len = idx[x].len
      BY <2>1, <2>2, NumberedIs
    <3> QED BY <2>3, <3>1
  <2>5. base.idx[l.off].len = idx[l.off].len
    BY <1>4, <2>2, <2>4
  <2>6. idx[l.off].len = l.datlen
    BY <1>2 DEF Load
  <2>7. l.off \in Held(base, l.key) <=> idx[l.off].key = l.key
    <3>0. Files
      BY <1>0
    <3>1. /\ DOMAIN base.idx = DOMAIN idx
          /\ \A x \in DOMAIN idx :
               /\ x \in Held(base, l.key) <=> idx[x].key = l.key
               /\ x \in Sized(base, l.key, l.val) <=>
                    idx[x].klen = KeyLen[l.key] /\ idx[x].len = DatLen[l.val]
          /\ None \notin Held(base, l.key) /\ None \notin Sized(base, l.key, l.val)
      BY <3>0, <1>4, HeldIs
    <3> QED BY <1>2, <3>1
  <2>8. None \notin Held(base, l.key)
    BY <1>0, <1>4, HeldIs
  <2> QED BY <2>5, <2>6, <2>7, <2>8
<1>6. PICK s : /\ Set(Me, s) /\ UNCHANGED file
               /\ s = IF idx[l.off].key = l.key THEN Found(l)
                      ELSE IF l.ptrval = None THEN Missed(l)
                      ELSE [l EXCEPT !.from = l.off, !.off = l.ptrval]
  BY DEF Walk
<1>7. /\ s.ptrval = l.ptrval /\ s.new = l.new /\ s.save = l.save /\ s.pos = l.pos
      /\ s.pc \notin {"idle", "off"} /\ Simulated(base, s, Now, idx, dat)
  <2>1. CASE idx[l.off].key = l.key
    <3>1. Has(base, l.key) /\ Its(base, l.key) = l.off /\ Lead(base, l.key) = l.from
      BY <1>3, <1>5, <2>1, WalkHits DEF Plain, Has, Its, Lead
    <3>2. Load(l, idx, Its(base, l.key)) /\ l.pos = Its(base, l.key) + 1
          /\ base.idx[Its(base, l.key)].len = l.datlen
      BY <1>2, <1>5, <3>1
    <3>3. l.op \in {"fetch", "delete", "store"} /\ s = Found(l)
      BY <1>1, <1>2, <1>6, <2>1
    <3>4. LET u == Found(l)
          IN /\ u.pc \notin {"idle", "off"} /\ u.ptrval = l.ptrval /\ u.pos = l.pos
             /\ u.new = l.new /\ u.save = l.save /\ Simulated(base, u, Now, idx, dat)
      <4>1. /\ DOMAIN l = Fields /\ Plain(base, l, Now) /\ Fresh(l)
            /\ l.op \in {"fetch", "delete", "store"} /\ Has(base, l.key)
            /\ None \notin Held(base, l.key) /\ Load(l, idx, Its(base, l.key))
            /\ l.from = Lead(base, l.key) /\ l.pos = Its(base, l.key) + 1
            /\ base.idx[Its(base, l.key)].len = l.datlen
        BY <1>2, <1>3, <1>5, <3>1, <3>2, <3>3
      <4> QED BY <4>1, FoundIs
    <3> QED BY <3>3, <3>4
  <2>2. CASE idx[l.off].key # l.key /\ l.ptrval = None
    <3>1. /\ ~Has(base, l.key) /\ ~Spin(base, Top(base, l.key), Held(base, l.key))
          /\ l.off = Top(base, l.key) /\ Top(base, l.key) # None
      BY <1>3, <1>5, <2>2, WalkEnds DEF Plain, Has
    <3>2. Lacks(base, l.key) /\ l.pos = Seat(base, l.key)
      BY <1>2, <1>3, <2>2, <3>1 DEF Lacks, Seat, Plain
    <3>3. l.op \in {"fetch", "delete", "store"} /\ s = Missed(l)
      BY <1>1, <1>2, <1>6, <2>2
    <3>4. LET u == Missed(l)
          IN /\ u.pc \notin {"idle", "off"} /\ u.ptrval = l.ptrval /\ u.pos = l.pos
             /\ u.new = l.new /\ u.save = l.save /\ Simulated(base, u, Now, idx, dat)
      BY <1>2, <1>3, <3>2, <3>3, MissedIs
    <3> QED BY <3>3, <3>4
  <2>3. CASE idx[l.off].key # l.key /\ l.ptrval # None
    <3>1. s = [l EXCEPT !.from = l.off, !.off = l.ptrval]
      BY <1>6, <2>3
    <3>2. /\ s.pc = l.pc /\ s.ptrval = l.ptrval /\ s.key = l.key /\ s.op = l.op /\ s.val = l.val
          /\ s.rc = l.rc /\ s.from = l.off /\ s.off = l.ptrval /\ s.new = l.new
          /\ s.save = l.save /\ s.pos = l.pos
      BY <1>2, <3>1, SMT
    <3>3. On(base, s, Top(base, l.key), Held(base, l.key))
      BY <1>3, <1>5, <2>3, <3>2, WalkGoes DEF Plain
    <3>4. Walks(base, s, Now)
      BY <1>3, <3>2, <3>3 DEF Walks, Plain, Fresh
    <3>5. s.pc = "chain.walk"
      BY <1>0, <1>2, <3>2
    <3>6. Simulated(base, s, Now, idx, dat)
      BY <3>4, <3>5, SMT DEF Simulated
    <3> QED BY <3>2, <3>5, <3>6
  <2> QED BY <2>1, <2>2, <2>3
<1>8. reg'[Me] = s
  BY <1>6, SetIs
<1>9. s.pos \in 0 .. Len(idx) + 1 /\ Small(s)
  BY <1>0, <1>2, <1>7 DEF Small
<1> QED BY <1>6, <1>7, <1>8, <1>9, QuietCarries
(* A step that only goes on, or that gives back a lock *)
Alike(r, s) ==
  /\ DOMAIN s = Fields
  /\ s.op = r.op /\ s.key = r.key /\ s.val = r.val /\ s.flag = r.flag /\ s.rc = r.rc
  /\ s.ptrval = r.ptrval /\ s.pos = r.pos /\ s.off = r.off /\ s.from = r.from
  /\ s.idxoff = r.idxoff /\ s.datoff = r.datoff /\ s.datlen = r.datlen
  /\ s.new = r.new /\ s.save = r.save

Onward(pc, g) ==
  \/ pc = "chain.lock" /\ g = "chain.read"
  \/ pc = "free.lock" /\ g = "free.read"
  \/ pc = "del.lock" /\ g = "erase.lock"
  \/ pc = "erase.lock" /\ g = "erase.dat"
  \/ pc = "over.lock" /\ g = "over.dat"
  \/ pc = "reuse.lock" /\ g = "reuse.dat"
  \/ pc = "tail.lock" /\ g = "tail.seek"
  \/ pc = "scan.lock" /\ g = "scan.idx"
  \/ pc = "new.unlock" /\ g = "tail.lock"
  \/ pc = "tail.unlock" /\ g = "chain.link"

LEMMA AlikeSimulated ==
  ASSUME NEW b, NEW r, NEW s, NEW F, NEW i, NEW d, Alike(r, s), Onward(r.pc, s.pc),
         Simulated(b, r, F, i, d)
  PROVE  Simulated(b, s, F, i, d)
<1> USE DEF Alike
<1>1. CASE r.pc = "chain.lock" /\ s.pc = "chain.read"
  <2>1. Looking(b, r, F)
    BY <1>1, SMT DEF Simulated
  <2>2. Looking(b, s, F)
    BY <2>1 DEF Looking, Plain, Fresh
  <2> QED BY <1>1, <2>2, SMT DEF Simulated
<1>2. CASE r.pc = "free.lock" /\ s.pc = "free.read"
  <2>1. Choosing(b, r, F)
    BY <1>2, SMT DEF Simulated
  <2>2. Choosing(b, s, F)
    BY <2>1 DEF Choosing, Rereading, Plain
  <2> QED BY <1>2, <2>2, SMT DEF Simulated
<1>3. CASE \/ r.pc = "del.lock" /\ s.pc = "erase.lock"
           \/ r.pc = "erase.lock" /\ s.pc = "erase.dat"
  <2>1. Erasing(b, r, F, i)
    BY <1>3, SMT DEF Simulated
  <2>2. Erasing(b, s, F, i)
    BY <2>1 DEF Erasing, Doomed, Load, Plain, Fresh
  <2> QED BY <1>3, <2>2, SMT DEF Simulated
<1>4. CASE r.pc = "over.lock" /\ s.pc = "over.dat"
  <2>1. Over(b, r, F, i)
    BY <1>4, SMT DEF Simulated
  <2>2. Over(b, s, F, i)
    BY <2>1 DEF Over, Reading, Load, Plain
  <2> QED BY <1>4, <2>2, SMT DEF Simulated
<1>5. CASE r.pc = "reuse.lock" /\ s.pc = "reuse.dat"
  <2>1. Supplying(b, r, F, i)
    BY <1>5, SMT DEF Simulated
  <2>2. Supplying(b, s, F, i)
    BY <2>1 DEF Supplying, Chosen, Load
  <2> QED BY <1>5, <2>2, SMT DEF Simulated
<1>6. CASE \/ r.pc = "tail.lock" /\ s.pc = "tail.seek"
           \/ r.pc = "new.unlock" /\ s.pc = "tail.lock"
  <2>1. Laid(b, r, F, i, d)
    BY <1>6, SMT DEF Simulated
  <2>2. Laid(b, s, F, i, d)
    BY <2>1 DEF Laid, Placing, Adds
  <2> QED BY <1>6, <2>2, SMT DEF Simulated
<1>7. CASE r.pc = "scan.lock" /\ s.pc = "scan.idx"
  <2>1. Passing(b, r, F) /\ r.rc = 0
    BY <1>7, SMT DEF Simulated
  <2>2. Passing(b, s, F) /\ s.rc = 0
    BY <2>1 DEF Passing, Plain
  <2> QED BY <1>7, <2>2, SMT DEF Simulated
<1>8. CASE r.pc = "tail.unlock" /\ s.pc = "chain.link"
  <2>1. Linked(b, r, F)
    BY <1>8, SMT DEF Simulated
  <2>2. Linked(b, s, F)
    BY <2>1 DEF Linked, Adds
  <2> QED BY <1>8, <2>2, SMT DEF Simulated
<1> QED BY <1>1, <1>2, <1>3, <1>4, <1>5, <1>6, <1>7, <1>8 DEF Onward

LEMMA GoCarries ==
  ASSUME Discipline, Offsets, Untroubled, NEW g, Go(Me, g), Onward(reg[Me].pc, g), UNCHANGED file
  PROVE  Carried
<1> PICK r : r = reg[Me]
  OBVIOUS
<1>0. /\ DOMAIN r = Fields /\ Small(r) /\ r.pos \in 0 .. Len(idx) + 1
      /\ Simulated(base, r, Now, idx, dat) /\ Onward(r.pc, g)
  BY Here
<1> PICK s : s = [r EXCEPT !.pc = g]
  OBVIOUS
<1>1. Alike(r, s) /\ s.pc = g
  BY <1>0, SMT DEF Alike
<1>2. reg'[Me] = s
  <2>1. Set(Me, s)
    BY DEF Go
  <2> QED BY <2>1, SetIs
<1>3. Simulated(base, s, Now, idx, dat)
  BY <1>0, <1>1, AlikeSimulated
<1>4. s.pc \notin {"idle", "off"}
  BY <1>0, <1>1 DEF Onward
<1>5. Small(s) /\ s.pos \in 0 .. Len(idx) + 1
  BY <1>0, <1>1 DEF Alike, Small
<1> QED BY <1>2, <1>3, <1>4, <1>5, QuietCarries

LEMMA AcquireCarries ==
  ASSUME Discipline, Offsets, Untroubled, Acquire(Me) PROVE Carried
<1> PICK g : g = Granted[reg[Me].pc]
  OBVIOUS
<1>1. Onward(reg[Me].pc, g)
  <2>1. reg[Me].pc \in Requesting
    BY DEF Acquire, Requests, Granted, Requesting
  <2> PICK c : c = reg[Me].pc
    OBVIOUS
  <2>2. c \in Requesting /\ g = Granted[c]
    BY <2>1
  <2>3. Onward(c, g)
    BY <2>2, GrantedIs, SMT DEF Onward, Requesting
  <2> QED BY <2>3
<1>2. Go(Me, g) /\ UNCHANGED file
  BY DEF Acquire
<1> QED BY <1>1, <1>2, GoCarries

LEMMA UnlockCarries ==
  ASSUME Discipline, Offsets, Untroubled, UnlockDat(Me) \/ UnlockTail(Me) PROVE Carried
<1>1. CASE UnlockDat(Me)
  <2>1. reg[Me].pc = "new.unlock" /\ Go(Me, "tail.lock") /\ UNCHANGED file
    BY <1>1 DEF UnlockDat
  <2>2. Onward(reg[Me].pc, "tail.lock")
    BY <2>1 DEF Onward
  <2> QED BY <2>1, <2>2, GoCarries
<1>2. CASE UnlockTail(Me)
  <2>1. reg[Me].pc = "tail.unlock" /\ Go(Me, "chain.link") /\ UNCHANGED file
    BY <1>2 DEF UnlockTail
  <2>2. Onward(reg[Me].pc, "chain.link")
    BY <2>1 DEF Onward
  <2> QED BY <2>1, <2>2, GoCarries
<1> QED BY <1>1, <1>2
-----------------------------------------------------------------------------
(* db_store of a new key: the search of the free list *)

LEMMA RereadCarries ==
  ASSUME Discipline, Offsets, Untroubled, Reread(Me) PROVE Carried
<1> PICK r : r = reg[Me]
  OBVIOUS
<1>0. /\ DOMAIN r = Fields /\ Place(r) /\ Small(r) /\ Len(idx) \in Nat /\ Files
      /\ r.pc \in {"chain.reread", "move.reread"} /\ Simulated(base, r, Now, idx, dat)
  BY Here DEF Reread
<1> PICK h : h = head[Hash[r.key]]
  OBVIOUS
<1>1. r.key \in Keys /\ r.op = "store"
  BY <1>0, SMT DEF Place
<1>2. h \in 0 .. Len(idx) /\ h <= PTR_MAX
  BY <1>0, <1>1 DEF Files, Untroubled, Fitting
<1> PICK c : c = IF r.pc = "chain.reread" THEN "free.lock" ELSE "new.seek"
  OBVIOUS
<1> PICK s : s = [r EXCEPT !.new = h, !.pos = Astray, !.pc = c]
  OBVIOUS
<1>3. /\ s.op = r.op /\ s.key = r.key /\ s.val = r.val /\ s.flag = r.flag /\ s.rc = r.rc
      /\ s.ptrval = r.ptrval /\ s.from = r.from /\ s.new = h /\ s.save = r.save /\ s.pos = Astray
      /\ s.pc = c
  BY <1>0, SMT
<1>4. ASSUME r.pc = "chain.reread" PROVE Simulated(base, s, Now, idx, dat)
  <2>1. Rereading(base, r, Now)
    BY <1>0, <1>4, SMT DEF Simulated
  <2>2. Choosing(base, s, Now)
    BY <1>3, <2>1 DEF Rereading, Choosing, Plain, Now, Was, Top
  <2>3. s.pc = "free.lock"
    BY <1>3, <1>4
  <2> QED BY <2>2, <2>3, SMT DEF Simulated
<1>5. ASSUME r.pc = "move.reread" PROVE Simulated(base, s, Now, idx, dat)
  <2>1. Gone(base, r, Now)
    BY <1>0, <1>5, SMT DEF Simulated
  <2>2. Now[1] = head
    BY DEF Now
  <2>3. Adds(base, s) /\ Now = Ground(base, s.key)
    BY <1>1, <1>3, <2>1 DEF Gone, Adds, Ground, Fresh
  <2>4. Placing(base, s, Now)
    BY <1>3, <2>2, <2>3 DEF Placing
  <2>5. s.pc = "new.seek"
    BY <1>3, <1>5
  <2> QED BY <2>4, <2>5, SimulatedBy
<1>6. Simulated(base, s, Now, idx, dat)
  BY <1>0, <1>4, <1>5
<1>7. Set(Me, s) /\ UNCHANGED file
  BY DEF Reread, Chain
<1>8. reg'[Me] = s
  BY <1>7, SetIs
<1>9. s.pc \notin {"idle", "off"} /\ Small(s) /\ s.pos \in 0 .. Len(idx) + 1
  BY <1>0, <1>2, <1>3, SMT DEF Small, Astray
<1> QED BY <1>6, <1>7, <1>8, <1>9, QuietCarries

LEMMA ReadFreeCarries ==
  ASSUME Discipline, Offsets, Untroubled, ReadFree(Me) PROVE Carried
<1> PICK r : r = reg[Me]
  OBVIOUS
<1>0. /\ DOMAIN r = Fields /\ Small(r) /\ Len(idx) \in Nat
      /\ r.pc = "free.read" /\ Simulated(base, r, Now, idx, dat)
  BY Here DEF ReadFree
<1>1. Choosing(base, r, Now)
  BY <1>0, SMT DEF Simulated
<1>2. base.free = free
  BY <1>1 DEF Choosing, Rereading, Plain, Now, Was
<1> PICK c : c = IF free = None THEN "free.unlock" ELSE "free.walk"
  OBVIOUS
<1> PICK s : s = [r EXCEPT !.pos = Astray, !.off = free, !.pc = c]
  OBVIOUS
<1>3. /\ s.op = r.op /\ s.key = r.key /\ s.val = r.val /\ s.flag = r.flag /\ s.rc = r.rc
      /\ s.ptrval = r.ptrval /\ s.from = r.from /\ s.new = r.new /\ s.save = r.save
      /\ s.pos = Astray /\ s.off = free /\ s.pc = c
  BY <1>0, SMT
<1>4. ASSUME free = None PROVE Simulated(base, s, Now, idx, dat)
  <2>1. s.pc = "free.unlock" /\ s.off = None
    BY <1>3, <1>4
  <2>2. ~Has(base, s.key) /\ Now = Was(base)
    BY <1>1, <1>3 DEF Choosing, Rereading, Lacks, Plain
  <2>3. Withholds(base, s.key, s.val)
    BY <1>2, <1>4 DEF Withholds, Offers, Hit, Spin
  <2>4. Adds(base, s)
    BY <1>1, <1>3, <2>2, <2>3 DEF Adds, Choosing, Rereading
  <2>5. s.new = Was(base)[1][Hash[s.key]]
    BY <1>1, <1>3 DEF Choosing, Top, Was
  <2>6. Placing(base, s, Now)
    BY <2>2, <2>4, <2>5 DEF Placing, Ground
  <2> QED BY <2>1, <2>2, <2>6, SMT DEF Simulated
<1>5. ASSUME free # None PROVE Simulated(base, s, Now, idx, dat)
  <2>1. s.pc = "free.walk"
    BY <1>3, <1>5
  <2>2. On(base, s, base.free, Sized(base, s.key, s.val))
    BY <1>1, <1>2, <1>3, <1>5 DEF On, Choosing, Rereading
  <2>3. Trying(base, s, Now)
    BY <1>1, <1>3, <2>2 DEF Choosing, Rereading, Trying, Plain
  <2> QED BY <2>1, <2>3, SimulatedBy
<1>6. Set(Me, s) /\ UNCHANGED file
  BY DEF ReadFree
<1>7. reg'[Me] = s
  BY <1>6, SetIs
<1>8. s.pc \notin {"idle", "off"} /\ Small(s) /\ s.pos \in 0 .. Len(idx) + 1
  BY <1>0, <1>3, SMT DEF Small, Astray
<1> QED BY <1>4, <1>5, <1>6, <1>7, <1>8, QuietCarries

LEMMA WalkFreeCarries ==
  ASSUME Discipline, Offsets, Untroubled, WalkFree(Me) PROVE Carried
<1> PICK r : r = reg[Me]
  OBVIOUS
<1>0. /\ Place(r) /\ Small(r) /\ Files /\ r.pc = "free.walk" /\ Simulated(base, r, Now, idx, dat)
  BY Here DEF WalkFree
<1>1. Trying(base, r, Now)
  BY <1>0, SMT DEF Simulated
<1> PICK l : l = Loaded(r)
  OBVIOUS
<1>2. /\ DOMAIN l = Fields /\ l.pc = r.pc /\ l.off = r.off /\ l.off \in DOMAIN idx
      /\ l.ptrval = r.ptrval /\ l.key = r.key /\ l.op = r.op /\ l.flag = r.flag
      /\ l.val = r.val /\ l.rc = r.rc /\ l.from = r.from /\ l.new = r.new /\ l.save = r.save
      /\ Load(l, idx, l.off) /\ l.pos = l.off + 1 /\ l.pos \in 0 .. Len(idx) + 1
  BY <1>0, LoadedIs
<1> PICK W : W = Sized(base, l.key, l.val)
  OBVIOUS
<1>3. /\ Plain(base, l, Now) /\ On(base, l, base.free, W) /\ Lacks(base, l.key) /\ l.rc = 0
      /\ l.flag # "replace" /\ l.new = Top(base, l.key)
  BY <1>1, <1>2 DEF Trying, Plain, On
<1>4. base.idx = Numbered(idx)
  BY <1>3 DEF Plain, Now, Was
<1>5. (l.off \in W <=> Fits(l)) /\ None \notin W
  <2>0. Files
    BY <1>0
  <2>1. /\ DOMAIN base.idx = DOMAIN idx
        /\ \A x \in DOMAIN idx :
             /\ x \in Held(base, l.key) <=> idx[x].key = l.key
             /\ x \in Sized(base, l.key, l.val) <=>
                  idx[x].klen = KeyLen[l.key] /\ idx[x].len = DatLen[l.val]
        /\ None \notin Held(base, l.key) /\ None \notin Sized(base, l.key, l.val)
    BY <2>0, <1>4, HeldIs
  <2> QED BY <1>2, <2>1 DEF Fits
<1>6. PICK s : /\ Set(Me, s) /\ UNCHANGED file
               /\ s = IF Fits(l) THEN [l EXCEPT !.pc = "free.unlink"]
                      ELSE IF l.ptrval = None THEN [l EXCEPT !.pc = "free.unlock", !.off = None]
                      ELSE [l EXCEPT !.from = l.off, !.off = l.ptrval]
  BY DEF WalkFree
<1>7. /\ s.ptrval = l.ptrval /\ s.new = l.new /\ s.save = l.save /\ s.pos = l.pos
      /\ s.pc \notin {"idle", "off"} /\ Simulated(base, s, Now, idx, dat)
  <2>1. CASE Fits(l)
    <3>0. s = [l EXCEPT !.pc = "free.unlink"]
      BY <1>6, <2>1
    <3>1. /\ s.pc = "free.unlink" /\ s.ptrval = l.ptrval /\ s.key = l.key /\ s.val = l.val
          /\ s.rc = l.rc /\ s.from = l.from /\ s.off = l.off /\ s.new = l.new /\ s.flag = l.flag
          /\ s.save = l.save /\ s.pos = l.pos
          /\ s.idxoff = l.idxoff /\ s.datoff = l.datoff /\ s.datlen = l.datlen
      BY <1>2, <3>0, SMT
    <3>2. Hit(base, base.free, W) /\ Met(base, base.free, W) = l.off /\ Led(base.free, W) = l.from
      <4>1. l.off \in W /\ On(base, l, base.free, W) /\ l.ptrval = base.ptrval
        BY <1>3, <1>5, <2>1 DEF Plain
      <4> QED BY <4>1, WalkHits
    <3>3. s.off # None
      BY <1>5, <2>1, <3>1
    <3>4. Offers(base, s.key, s.val) /\ Spare(base, s.key, s.val) = s.off
          /\ Led(base.free, Sized(base, s.key, s.val)) = s.from
      BY <3>1, <3>2 DEF Offers, Spare
    <3>5. Load(s, idx, Spare(base, s.key, s.val))
      BY <1>2, <3>1, <3>4 DEF Load
    <3>6. Chosen(base, s, idx)
      <4>1. s.datlen = DatLen[s.val]
        BY <1>2, <2>1, <3>1 DEF Fits, Load
      <4> QED BY <1>3, <3>1, <3>4, <3>5, <4>1 DEF Chosen
    <3>7. Untying(base, s, Now, idx)
      BY <1>3, <3>1, <3>3, <3>4, <3>6 DEF Untying, Plain
    <3> QED BY <3>1, <3>7, SMT DEF Simulated
  <2>2. CASE ~Fits(l) /\ l.ptrval = None
    <3>0. s = [l EXCEPT !.pc = "free.unlock", !.off = None]
      BY <1>6, <2>2
    <3>1. /\ s.pc = "free.unlock" /\ s.ptrval = l.ptrval /\ s.key = l.key /\ s.val = l.val
          /\ s.rc = l.rc /\ s.off = None /\ s.new = l.new /\ s.flag = l.flag
          /\ s.save = l.save /\ s.pos = l.pos
      BY <1>2, <3>0, SMT
    <3>2. ~Hit(base, base.free, W) /\ ~Spin(base, base.free, W)
      <4>1. /\ l.off \notin W /\ On(base, l, base.free, W) /\ l.ptrval = base.ptrval
            /\ l.ptrval = None /\ None \notin W
        BY <1>3, <1>5, <2>2 DEF Plain
      <4> QED BY <4>1, WalkEnds
    <3>3. Withholds(base, s.key, s.val) /\ Lacks(base, s.key) /\ ~Has(base, s.key)
      BY <1>3, <3>1, <3>2 DEF Withholds, Offers, Lacks
    <3>4. Adds(base, s)
      BY <1>3, <3>1, <3>3 DEF Adds
    <3>5. s.new = Was(base)[1][Hash[s.key]]
      BY <1>3, <3>1 DEF Top, Was
    <3>6. Placing(base, s, Now)
      BY <1>3, <3>3, <3>4, <3>5 DEF Placing, Ground, Plain
    <3> QED BY <3>1, <3>3, <3>6, SMT DEF Simulated
  <2>3. CASE ~Fits(l) /\ l.ptrval # None
    <3>1. s = [l EXCEPT !.from = l.off, !.off = l.ptrval]
      BY <1>6, <2>3
    <3>2. /\ s.pc = l.pc /\ s.ptrval = l.ptrval /\ s.key = l.key /\ s.val = l.val
          /\ s.rc = l.rc /\ s.from = l.off /\ s.off = l.ptrval /\ s.new = l.new
          /\ s.save = l.save /\ s.pos = l.pos /\ s.flag = l.flag
      BY <1>2, <3>1, SMT
    <3>3. On(base, s, base.free, W)
      BY <1>3, <1>5, <2>3, <3>2, WalkGoes DEF Plain
    <3>4. Trying(base, s, Now)
      BY <1>3, <3>2, <3>3 DEF Trying, Plain
    <3>5. s.pc = "free.walk"
      BY <1>0, <1>2, <3>2
    <3>6. Simulated(base, s, Now, idx, dat)
      BY <3>4, <3>5, SMT DEF Simulated
    <3> QED BY <3>2, <3>5, <3>6
  <2> QED BY <2>1, <2>2, <2>3
<1>8. reg'[Me] = s
  BY <1>6, SetIs
<1>9. s.pos \in 0 .. Len(idx) + 1 /\ Small(s)
  BY <1>0, <1>2, <1>7 DEF Small
<1> QED BY <1>6, <1>7, <1>8, <1>9, QuietCarries

LEMMA UnlockFreeCarries ==
  ASSUME Discipline, Offsets, Untroubled, UnlockFree(Me) PROVE Carried
<1> PICK r : r = reg[Me]
  OBVIOUS
<1>0. /\ DOMAIN r = Fields /\ Small(r) /\ r.pos \in 0 .. Len(idx) + 1
      /\ r.pc = "free.unlock" /\ Simulated(base, r, Now, idx, dat)
  BY Here DEF UnlockFree
<1> PICK c : c = IF r.off = None THEN "new.seek" ELSE "reuse.lock"
  OBVIOUS
<1> PICK s : s = [r EXCEPT !.off = None, !.from = None, !.pc = c]
  OBVIOUS
<1>1. /\ s.key = r.key /\ s.val = r.val /\ s.flag = r.flag /\ s.rc = r.rc
      /\ s.ptrval = r.ptrval /\ s.new = r.new /\ s.save = r.save /\ s.pos = r.pos
      /\ s.idxoff = r.idxoff /\ s.datoff = r.datoff /\ s.datlen = r.datlen /\ s.pc = c
  BY <1>0, SMT
<1>2. ASSUME r.off = None PROVE Simulated(base, s, Now, idx, dat)
  <2>1. Placing(base, r, Now)
    BY <1>0, <1>2, SMT DEF Simulated
  <2>2. Placing(base, s, Now)
    BY <1>1, <2>1 DEF Placing, Adds
  <2>3. s.pc = "new.seek"
    BY <1>1, <1>2
  <2> QED BY <2>2, <2>3, SimulatedBy
<1>3. ASSUME r.off # None PROVE Simulated(base, s, Now, idx, dat)
  <2>1. Supplying(base, r, Now, idx)
    BY <1>0, <1>3, SMT DEF Simulated
  <2>2. Supplying(base, s, Now, idx)
    BY <1>1, <2>1 DEF Supplying, Chosen, Load
  <2>3. s.pc = "reuse.lock"
    BY <1>1, <1>3
  <2> QED BY <2>2, <2>3, SimulatedBy
<1>4. Set(Me, s) /\ UNCHANGED file
  BY DEF UnlockFree
<1>5. reg'[Me] = s
  BY <1>4, SetIs
<1>6. s.pc \notin {"idle", "off"} /\ Small(s) /\ s.pos \in 0 .. Len(idx) + 1
  BY <1>0, <1>1 DEF Small
<1> QED BY <1>2, <1>3, <1>4, <1>5, <1>6, QuietCarries
-----------------------------------------------------------------------------
(* Data that are read, by a fetch and by a scan *)

LEMMA DatumRead ==
  ASSUME Files, Pieces(idx, dat), NEW x \in DOMAIN idx
  PROVE  LET n == idx[x].len
             t == Span(idx[x].dat, n)
         IN t[n].at = t[n].of /\ t[1].val = Told(idx, dat)[x].val
<1> PICK o, n : o = idx[x].dat /\ n = idx[x].len
  OBVIOUS
<1>1. o \in Nat /\ n \in Nat
  BY PiecesNat
<1> PICK k, v : k = dat[o].key /\ v = dat[o].val
  OBVIOUS
<1>2. Inside(dat, o, n) /\ Tells(dat, o, n, k, v) /\ dat \in Seq(Cell)
  BY DEF Pieces
<1>3. Span(o, n) = Text(k, v, n)
  BY <1>1, <1>2, SpanTells
<1>4. Text(k, v, n) = [j \in 1 .. n |-> Piece(k, v, j, n)]
  <2>1. Text(k, v, n) = [j \in 1 .. n |-> Piece(k, v, j, n)] /\ Len(Text(k, v, n)) = n
    BY <1>1, TextIs
  <2> QED BY <2>1
<1>5. 1 \in 1 .. n /\ n \in 1 .. n
  BY <1>1, <1>2, SMT DEF Inside
<1> PICK t : t = Span(o, n)
  OBVIOUS
<1>6. t[n] = Piece(k, v, n, n) /\ t[1] = Piece(k, v, 1, n)
  BY <1>3, <1>4, <1>5
<1>7. t[n].at = t[n].of /\ t[1].val = v
  BY <1>6 DEF Piece
<1>8. Told(idx, dat)[x].val = v
  BY DEF Told, Pair
<1> QED BY <1>7, <1>8

LEMMA ReadDatCarries ==
  ASSUME Discipline, Offsets, Untroubled, ReadDat(Me) PROVE Carried
<1> PICK r : r = reg[Me]
  OBVIOUS
<1>0. /\ DOMAIN r = Fields /\ Small(r) /\ r.pos \in 0 .. Len(idx) + 1 /\ Place(r) /\ Files
      /\ r.pc = "dat.read" /\ Simulated(base, r, Now, idx, dat) /\ Pieces(idx, dat)
  BY Here DEF ReadDat
<1>1. Reading(base, r, Now, idx)
  BY <1>0, SMT DEF Simulated
<1> PICK x : x = Its(base, r.key)
  OBVIOUS
<1>2. /\ Has(base, r.key) /\ x \in DOMAIN idx /\ r.datoff = idx[x].dat /\ r.datlen = idx[x].len
      /\ r.pos = x + 1 /\ r.rc = 0 /\ base.idx = Numbered(idx) /\ base.dat = Told(idx, dat)
      /\ r.op = "fetch"
  BY <1>0, <1>1 DEF Reading, Load, Plain, Now, Was, Place
<1> PICK t : t = Span(r.datoff, r.datlen)
  OBVIOUS
<1>3. t[r.datlen].at = t[r.datlen].of /\ t[1].val = base.dat[x].val
  BY <1>0, <1>2, DatumRead
<1> PICK v : v = t[1].val
  OBVIOUS
<1> PICK s : s = [r EXCEPT !.pc = "chain.unlock", !.val = v]
  OBVIOUS
<1>4. /\ s.pc = "chain.unlock" /\ s.op = r.op /\ s.key = r.key /\ s.val = v /\ s.rc = r.rc
      /\ s.ptrval = r.ptrval /\ s.new = r.new /\ s.save = r.save /\ s.pos = r.pos
  BY <1>0, SMT
<1>5. None \notin Held(base, r.key)
  BY <1>0, <1>2, HeldIs
<1>6. Seat(base, r.key) = x + 1
  BY <1>2, <1>5, SeatIs
<1>7. Answered(base, s, Now)
  BY <1>1, <1>2, <1>3, <1>4, <1>6 DEF Answered, Reading, Plain
<1>8. Simulated(base, s, Now, idx, dat)
  BY <1>4, <1>7, Unlocks
<1>9. Set(Me, s) /\ UNCHANGED file
  BY <1>3 DEF ReadDat
<1>10. reg'[Me] = s
  BY <1>9, SetIs
<1>11. s.pc \notin {"idle", "off"} /\ Small(s) /\ s.pos \in 0 .. Len(idx) + 1
  BY <1>0, <1>4 DEF Small
<1> QED BY <1>8, <1>9, <1>10, <1>11, QuietCarries

LEMMA ScanDatCarries ==
  ASSUME Discipline, Offsets, Untroubled, ScanDat(Me) PROVE Carried
<1> PICK r : r = reg[Me]
  OBVIOUS
<1>0. /\ DOMAIN r = Fields /\ Small(r) /\ r.pos \in 0 .. Len(idx) + 1 /\ Files
      /\ r.pc = "scan.dat" /\ Simulated(base, r, Now, idx, dat) /\ Pieces(idx, dat)
  BY Here DEF ScanDat
<1>1. Pausing(base, r, Now, idx)
  BY <1>0, SMT DEF Simulated
<1> PICK x : x = r.pos - 1
  OBVIOUS
<1>2. /\ x \in DOMAIN idx /\ r.datoff = idx[x].dat /\ r.datlen = idx[x].len
      /\ r.rc = 0 /\ base.idx = Numbered(idx) /\ base.dat = Told(idx, dat)
  BY <1>0, <1>1 DEF Pausing, Plain, Now, Was
<1> PICK t : t = Span(r.datoff, r.datlen)
  OBVIOUS
<1>3. t[r.datlen].at = t[r.datlen].of /\ t[1].val = base.dat[x].val
  BY <1>0, <1>2, DatumRead
<1> PICK v : v = t[1].val
  OBVIOUS
<1> PICK s : s = [r EXCEPT !.pc = "scan.unlock", !.val = v]
  OBVIOUS
<1>4. /\ s.pc = "scan.unlock" /\ s.op = r.op /\ s.key = r.key /\ s.val = v /\ s.rc = r.rc
      /\ s.ptrval = r.ptrval /\ s.new = r.new /\ s.save = r.save /\ s.pos = r.pos
  BY <1>0, SMT
<1>5. DOMAIN base.idx = DOMAIN idx
  BY <1>0, <1>2, HeldIs
<1>6. Passed(base, s, Now)
  <2>1. Plain(base, s, Now) /\ base.pos # Astray /\ s.rc = 0
    BY <1>1, <1>4 DEF Pausing, Plain
  <2>2. /\ s.pos - 1 \in DOMAIN base.idx /\ base.pos <= s.pos - 1
        /\ \A y \in DOMAIN base.idx : base.pos <= y /\ y < s.pos - 1 => base.idx[y].key = Blank
        /\ s.key # Blank /\ s.key = base.idx[s.pos - 1].key
    BY <1>1, <1>2, <1>4, <1>5 DEF Pausing
  <2>3. s.val = base.dat[s.pos - 1].val
    BY <1>3, <1>4
  <2> QED BY <2>1, <2>2, <2>3 DEF Passed
<1>7. Simulated(base, s, Now, idx, dat)
  BY <1>4, <1>6, SimulatedBy
<1>8. Set(Me, s) /\ UNCHANGED file
  BY <1>3 DEF ScanDat
<1>9. reg'[Me] = s
  BY <1>8, SetIs
<1>10. s.pc \notin {"idle", "off"} /\ Small(s) /\ s.pos \in 0 .. Len(idx) + 1
  BY <1>0, <1>4 DEF Small
<1> QED BY <1>7, <1>8, <1>9, <1>10, QuietCarries

LEMMA ScanIdxCarries ==
  ASSUME Discipline, Offsets, Untroubled, ScanIdx(Me) PROVE Carried
<1> PICK r : r = reg[Me]
  OBVIOUS
<1>0. /\ DOMAIN r = Fields /\ Small(r) /\ r.pos \in 0 .. Len(idx) + 1 /\ Files
      /\ DOMAIN idx = 1 .. Len(idx) /\ Len(idx) \in Nat
      /\ r.pc = "scan.idx" /\ Simulated(base, r, Now, idx, dat)
  BY Here DEF ScanIdx
<1>1. Passing(base, r, Now) /\ r.rc = 0 /\ base.pos \in Nat
  <2>1. base.pos \in Nat
    BY SMT DEF Untroubled, Sane
  <2> QED BY <1>0, <2>1, SMT DEF Simulated
<1>2. /\ Plain(base, r, Now) /\ base.pos # Astray /\ r.val = Blank
      /\ \A x \in DOMAIN base.idx : base.pos <= x /\ x < r.pos => base.idx[x].key = Blank
  BY <1>1 DEF Passing
<1>3. base.idx = Numbered(idx)
  BY <1>2 DEF Plain, Now, Was
<1>4. DOMAIN base.idx = DOMAIN idx /\ \A x \in DOMAIN idx : base.idx[x].key = idx[x].key
  <2>1. idx \in Seq(IdxRec)
    BY <1>0 DEF Files
  <2>2. PICK m : m = Numbered(idx)
    OBVIOUS
  <2>3. DOMAIN m = 1 .. Len(idx) /\ \A x \in 1 .. Len(idx) : m[x].key = idx[x].key
    BY <2>1, <2>2, NumberedIs
  <2> QED BY <1>0, <1>3, <2>2, <2>3
<1>5. PICK s :
        /\ s = IF r.pos \notin Recs THEN [r EXCEPT !.pc = "scan.unlock", !.rc = -1]
               ELSE IF idx[r.pos].key = Blank THEN [r EXCEPT !.pos = r.pos + 1]
               ELSE [r EXCEPT !.pc = "scan.dat", !.key = idx[r.pos].key,
                              !.datoff = idx[r.pos].dat, !.datlen = idx[r.pos].len,
                              !.pos = r.pos + 1]
        /\ Set(Me, s) /\ UNCHANGED file
  BY DEF ScanIdx
<1>6. /\ s.ptrval = r.ptrval /\ s.new = r.new /\ s.save = r.save /\ s.pos \in 0 .. Len(idx) + 1
      /\ s.pc \notin {"idle", "off"} /\ Simulated(base, s, Now, idx, dat)
  <2>1. CASE r.pos \notin Recs
    <3>0. s = [r EXCEPT !.pc = "scan.unlock", !.rc = -1]
      BY <1>5, <2>1
    <3>1. /\ s.ptrval = r.ptrval /\ s.new = r.new /\ s.save = r.save /\ s.pos = r.pos
          /\ s.pc = "scan.unlock" /\ s.rc = -1
      BY <1>0, <3>0, SMT
    <3>2. r.pos = Len(idx) + 1
      BY <1>0, <1>1, <2>1, SMT DEF Recs, Passing, Astray
    <3>3. Len(base.idx) = Len(idx)
      BY <1>0, <1>3, NumberedIs DEF Files
    <3>4. \A x \in DOMAIN base.idx : base.pos <= x => base.idx[x].key = Blank
      <4>1. \A x \in DOMAIN base.idx : x < r.pos
        BY <1>0, <1>4, <3>2, SMT
      <4> QED BY <1>2, <4>1
    <3>5. Passed(base, s, Now)
      BY <1>2, <3>1, <3>2, <3>3, <3>4 DEF Passed, Plain
    <3> QED BY <1>0, <3>1, <3>5, SimulatedBy
  <2>2. CASE r.pos \in Recs /\ idx[r.pos].key = Blank
    <3>0. s = [r EXCEPT !.pos = r.pos + 1]
      BY <1>5, <2>2
    <3>1. /\ s.ptrval = r.ptrval /\ s.new = r.new /\ s.save = r.save /\ s.pos = r.pos + 1
          /\ s.pc = "scan.idx" /\ s.rc = 0 /\ s.val = r.val
      BY <1>0, <1>1, <3>0, SMT
    <3>2. s.pos \in 0 .. Len(idx) + 1 /\ base.pos <= s.pos
      BY <1>0, <1>1, <2>2, <3>1, SMT DEF Recs, Passing
    <3>3. \A x \in DOMAIN base.idx : base.pos <= x /\ x < s.pos => base.idx[x].key = Blank
      <4> SUFFICES ASSUME NEW x \in DOMAIN base.idx, base.pos <= x, x < s.pos
                   PROVE  base.idx[x].key = Blank
        OBVIOUS
      <4>1. x < r.pos \/ x = r.pos
        BY <1>0, <1>4, <3>1, SMT
      <4> QED BY <1>2, <1>4, <2>2, <4>1
    <3>4. Passing(base, s, Now)
      BY <1>2, <3>1, <3>2, <3>3 DEF Passing, Plain
    <3> QED BY <3>1, <3>2, <3>4, SimulatedBy
  <2>3. CASE r.pos \in Recs /\ idx[r.pos].key # Blank
    <3> PICK k, o, n : k = idx[r.pos].key /\ o = idx[r.pos].dat /\ n = idx[r.pos].len
      OBVIOUS
    <3>0. s = [r EXCEPT !.pc = "scan.dat", !.key = k, !.datoff = o, !.datlen = n,
                        !.pos = r.pos + 1]
      BY <1>5, <2>3
    <3>1. /\ s.ptrval = r.ptrval /\ s.new = r.new /\ s.save = r.save /\ s.pos = r.pos + 1
          /\ s.pc = "scan.dat" /\ s.rc = 0 /\ s.key = k /\ s.datoff = o /\ s.datlen = n
      BY <1>0, <1>1, <3>0, SMT
    <3>2. s.pos \in 0 .. Len(idx) + 1 /\ s.pos - 1 = r.pos
      BY <1>0, <2>3, <3>1, SMT DEF Recs
    <3>3. k = base.idx[r.pos].key /\ r.pos \in DOMAIN idx
      BY <1>4, <2>3 DEF Recs
    <3>4. base.pos <= s.pos - 1
      BY <1>1, <3>2 DEF Passing
    <3>5. Pausing(base, s, Now, idx)
      BY <1>2, <2>3, <3>1, <3>2, <3>3, <3>4 DEF Pausing, Plain
    <3> QED BY <3>1, <3>2, <3>5, SimulatedBy
  <2> QED BY <2>1, <2>2, <2>3
<1>7. reg'[Me] = s
  BY <1>5, SetIs
<1>8. Small(s)
  BY <1>0, <1>6 DEF Small
<1> QED BY <1>5, <1>6, <1>7, <1>8, QuietCarries
-----------------------------------------------------------------------------
(* The steps between two writes *)

LEMMA SeekDatCarries ==
  ASSUME Discipline, Offsets, Untroubled, SeekDat(Me) PROVE Carried
<1> PICK r : r = reg[Me]
  OBVIOUS
<1>0. /\ DOMAIN r = Fields /\ Small(r) /\ r.pos \in 0 .. Len(idx) + 1
      /\ r.pc = "new.seek" /\ Simulated(base, r, Now, idx, dat)
  BY Here DEF SeekDat
<1>1. Placing(base, r, Now) /\ Len(idx) < MaxRec
  BY <1>0, SMT DEF Simulated, SeekDat
<1> PICK o : o = Len(dat) + 1
  OBVIOUS
<1> PICK s : s = [r EXCEPT !.pc = "new.dat", !.datoff = o]
  OBVIOUS
<1>2. /\ s.key = r.key /\ s.val = r.val /\ s.flag = r.flag /\ s.rc = r.rc
      /\ s.ptrval = r.ptrval /\ s.new = r.new /\ s.save = r.save /\ s.pos = r.pos
      /\ s.datoff = o /\ s.pc = "new.dat"
  BY <1>0, SMT
<1>3. Laying(base, s, Now, idx, dat)
  BY <1>1, <1>2 DEF Laying, Placing, Adds
<1>4. Simulated(base, s, Now, idx, dat)
  BY <1>2, <1>3, SimulatedBy
<1>5. Set(Me, s) /\ UNCHANGED file
  BY DEF SeekDat
<1>6. reg'[Me] = s
  BY <1>5, SetIs
<1>7. s.pc \notin {"idle", "off"} /\ Small(s) /\ s.pos \in 0 .. Len(idx) + 1
  BY <1>0, <1>2 DEF Small
<1> QED BY <1>4, <1>5, <1>6, <1>7, QuietCarries

LEMMA SeekIdxCarries ==
  ASSUME Discipline, Offsets, Untroubled, SeekIdx(Me) PROVE Carried
<1> PICK r : r = reg[Me]
  OBVIOUS
<1>0. /\ DOMAIN r = Fields /\ Small(r) /\ r.pos \in 0 .. Len(idx) + 1
      /\ r.pc = "tail.seek" /\ Simulated(base, r, Now, idx, dat)
  BY Here DEF SeekIdx
<1>1. Laid(base, r, Now, idx, dat)
  BY <1>0, SMT DEF Simulated
<1> PICK o : o = Len(idx) + 1
  OBVIOUS
<1> PICK s : s = [r EXCEPT !.pc = "tail.idx", !.idxoff = o, !.ptrval = r.new]
  OBVIOUS
<1>2. /\ s.key = r.key /\ s.val = r.val /\ s.flag = r.flag /\ s.rc = r.rc
      /\ s.ptrval = r.new /\ s.new = r.new /\ s.save = r.save /\ s.pos = r.pos
      /\ s.datoff = r.datoff /\ s.datlen = r.datlen /\ s.idxoff = o /\ s.pc = "tail.idx"
  BY <1>0, SMT
<1>3. Aiming(base, s, Now, idx, dat)
  BY <1>1, <1>2 DEF Aiming, Laid, Placing, Adds
<1>4. Simulated(base, s, Now, idx, dat)
  BY <1>2, <1>3, SimulatedBy
<1>5. Set(Me, s) /\ UNCHANGED file
  BY DEF SeekIdx
<1>6. reg'[Me] = s
  BY <1>5, SetIs
<1>7. s.pc \notin {"idle", "off"} /\ Small(s) /\ s.pos \in 0 .. Len(idx) + 1
  BY <1>0, <1>2 DEF Small
<1> QED BY <1>4, <1>5, <1>6, <1>7, QuietCarries

LEMMA DelFreeCarries ==
  ASSUME Discipline, Offsets, Untroubled, DelFree(Me) PROVE Carried
<1> PICK r : r = reg[Me]
  OBVIOUS
<1>0. /\ DOMAIN r = Fields /\ Small(r) /\ Len(idx) \in Nat
      /\ r.pc = "del.free" /\ Simulated(base, r, Now, idx, dat)
  BY Here DEF DelFree
<1>1. Wiping(base, r, Now, idx)
  BY <1>0, SMT DEF Simulated
<1> PICK s : s = [r EXCEPT !.pc = "del.idx", !.new = free, !.save = r.ptrval, !.pos = Astray]
  OBVIOUS
<1>2. /\ s.op = r.op /\ s.key = r.key /\ s.val = r.val /\ s.flag = r.flag /\ s.rc = r.rc
      /\ s.ptrval = r.ptrval /\ s.new = free /\ s.save = r.ptrval /\ s.pos = Astray
      /\ s.datoff = r.datoff /\ s.datlen = r.datlen /\ s.idxoff = r.idxoff /\ s.from = r.from
      /\ s.pc = "del.idx"
  BY <1>0, SMT
<1>3. base.free = free
  BY <1>1 DEF Wiping, Now
<1>4. Voiding(base, s, Now, idx)
  BY <1>1, <1>2, <1>3 DEF Voiding, Wiping, Doomed, Load, Fresh
<1>5. Simulated(base, s, Now, idx, dat)
  BY <1>2, <1>4, SimulatedBy
<1>6. Set(Me, s) /\ UNCHANGED file
  BY DEF DelFree
<1>7. reg'[Me] = s
  BY <1>6, SetIs
<1>8. s.pc \notin {"idle", "off"} /\ Small(s) /\ s.pos \in 0 .. Len(idx) + 1
  BY <1>0, <1>2, SMT DEF Small, Astray, Untroubled, Fitting
<1> QED BY <1>5, <1>6, <1>7, <1>8, QuietCarries

LEMMA DelUnlockCarries ==
  ASSUME Discipline, Offsets, Untroubled, DelUnlock(Me) PROVE Carried
<1> PICK r : r = reg[Me]
  OBVIOUS
<1>0. /\ DOMAIN r = Fields /\ Small(r) /\ r.pos \in 0 .. Len(idx) + 1 /\ Place(r)
      /\ r.pc = "del.unlock" /\ Simulated(base, r, Now, idx, dat)
  BY Here DEF DelUnlock
<1>1. Gone(base, r, Now)
  BY <1>0, SMT DEF Simulated
<1> PICK c : c = IF r.op = "delete" THEN "chain.unlock" ELSE "move.reread"
  OBVIOUS
<1> PICK s : s = [r EXCEPT !.pc = c, !.from = None, !.save = None]
  OBVIOUS
<1>2. /\ s.op = r.op /\ s.key = r.key /\ s.val = r.val /\ s.flag = r.flag /\ s.rc = r.rc
      /\ s.ptrval = r.ptrval /\ s.new = r.new /\ s.save = None /\ s.pos = r.pos /\ s.pc = c
  BY <1>0, SMT
<1>3. Gone(base, s, Now)
  BY <1>1, <1>2 DEF Gone, Fresh
<1>4. ASSUME r.op = "delete" PROVE Simulated(base, s, Now, idx, dat)
  <2>1. Removed(base, s, Now) /\ s.pc = "chain.unlock"
    BY <1>2, <1>3, <1>4 DEF Removed
  <2> QED BY <2>1, Unlocks
<1>5. ASSUME r.op # "delete" PROVE Simulated(base, s, Now, idx, dat)
  <2>1. s.pc = "move.reread"
    BY <1>2, <1>5
  <2> QED BY <1>3, <2>1, SimulatedBy
<1>6. Set(Me, s) /\ UNCHANGED file
  BY DEF DelUnlock, Deleted
<1>7. reg'[Me] = s
  BY <1>6, SetIs
<1>8. s.pc \notin {"idle", "off"} /\ Small(s) /\ s.pos \in 0 .. Len(idx) + 1
  BY <1>0, <1>2, SMT DEF Small, None
<1> QED BY <1>4, <1>5, <1>6, <1>7, <1>8, QuietCarries
-----------------------------------------------------------------------------
(* A step that writes one of the files *)

LEMMA WriteCarries ==
  ASSUME Discipline, NEW s, Set(Me, s), s.pc \notin {"idle", "off"}, Small(s),
         s.pos \in 0 .. Len(idx') + 1, free' <= PTR_MAX, \A c \in Chains : head'[c] <= PTR_MAX,
         Pieces(idx', dat'), Simulated(base, s, Now', idx', dat')
  PROVE  Carried
<1>1. reg'[Me] = s
  BY SetIs
<1> QED BY <1>1 DEF Carried, Fitting, Seated

LEMMA HeadFits ==
  ASSUME Files, Fitting, NEW c, NEW p, head' = [head EXCEPT ![c] = WritePtr(@, p)]
  PROVE  \A d \in Chains : head'[d] <= PTR_MAX
BY DEF Files, Fitting, WritePtr

LEMMA BaseIs ==
  ASSUME Untroubled
  PROVE  /\ base.ptrval \in Nat /\ base.ptrval <= PTR_MAX
         /\ base.free \in Nat /\ base.free <= PTR_MAX
         /\ \A k \in Keys : Top(base, k) \in Nat /\ Top(base, k) <= PTR_MAX
         /\ base.idx \in Seq(IdxRec) /\ base.dat \in Seq(Datums) /\ Len(base.dat) = Len(base.idx)
         /\ DOMAIN base.idx = 1 .. Len(base.idx) /\ Len(base.idx) \in Nat
         /\ free <= PTR_MAX /\ \A c \in Chains : head[c] <= PTR_MAX
<1>1. Sane(base) /\ Fitting
  BY DEF Untroubled
<1>2. base.idx \in Seq(IdxRec)
  BY <1>1 DEF Sane
<1>3. DOMAIN base.idx = 1 .. Len(base.idx) /\ Len(base.idx) \in Nat
  BY <1>2, LenProperties
<1>4. /\ base.ptrval \in Nat /\ base.ptrval <= PTR_MAX
      /\ base.free \in Nat /\ base.free <= PTR_MAX
  BY <1>1, <1>3, SMT DEF Sane
<1>5. ASSUME NEW k \in Keys PROVE Top(base, k) \in Nat /\ Top(base, k) <= PTR_MAX
  <2>1. Hash[k] \in Chains
    OBVIOUS
  <2>2. base.head[Hash[k]] \in 0 .. Len(base.idx) /\ base.head[Hash[k]] <= PTR_MAX
    BY <1>1, <2>1 DEF Sane
  <2> QED BY <1>3, <2>2, SMT DEF Top
<1> QED BY <1>1, <1>2, <1>3, <1>4, <1>5 DEF Sane, Fitting

LEMMA ItsFits ==
  ASSUME Untroubled, NEW k \in Keys PROVE Its(base, k) \in Nat /\ Its(base, k) <= PTR_MAX
BY BaseIs DEF Its, Met

LEMMA SpareFits ==
  ASSUME Untroubled, NEW k, NEW v
  PROVE  Spare(base, k, v) \in Nat /\ Spare(base, k, v) <= PTR_MAX
BY BaseIs DEF Spare, Met

LEMMA NumberedSize ==
  ASSUME Files, NEW x \in DOMAIN idx PROVE Numbered(idx)[x].len = idx[x].len
<1>1. idx \in Seq(IdxRec)
  BY DEF Files
<1>2. /\ DOMAIN idx = 1 .. Len(idx)
      /\ \A y \in 1 .. Len(idx) : Numbered(idx)[y].len = idx[y].len
  BY <1>1, NumberedIs
<1> QED BY <1>2
-----------------------------------------------------------------------------
LEMMA UnlinkCarries ==
  ASSUME Discipline, Offsets, Untroubled, Unlink(Me) PROVE Carried
<1> PICK r : r = reg[Me]
  OBVIOUS
<1>0. /\ DOMAIN r = Fields /\ Small(r) /\ Len(idx) \in Nat /\ DOMAIN idx = 1 .. Len(idx)
      /\ Within(r, Len(idx)) /\ Files /\ Pieces(idx, dat)
      /\ r.pc = "free.unlink" /\ Simulated(base, r, Now, idx, dat)
  BY Here DEF Unlink
<1> PICK W, f : W = Sized(base, r.key, r.val) /\ f = Spare(base, r.key, r.val)
  OBVIOUS
<1>1. Untying(base, r, Now, idx)
  BY <1>0, SMT DEF Simulated
<1>2. /\ Chosen(base, r, idx) /\ r.off # None /\ r.from = Led(base.free, W)
      /\ head = base.head /\ free = base.free /\ Numbered(idx) = base.idx
      /\ Told(idx, dat) = base.dat /\ r.ptrval = base.ptrval
  BY <1>1 DEF Untying, Plain, Now, Was
<1>3. Hit(base, base.free, W) /\ f = Met(base, base.free, W) /\ Load(r, idx, f)
  BY <1>2 DEF Chosen, Offers, Spare
<1> PICK s : s = [r EXCEPT !.pc = "free.unlock", !.pos = Astray]
  OBVIOUS
<1>4. /\ s.key = r.key /\ s.val = r.val /\ s.flag = r.flag /\ s.rc = r.rc
      /\ s.ptrval = r.ptrval /\ s.new = r.new /\ s.save = r.save /\ s.pos = Astray
      /\ s.off = r.off /\ s.idxoff = r.idxoff /\ s.datoff = r.datoff /\ s.datlen = r.datlen
      /\ s.pc = "free.unlock"
  BY <1>0, SMT
<1>5. Set(Me, s) /\ UNCHANGED <<head, dat>>
  BY DEF Unlink
<1>6. /\ Now' = Untied(base, r.key, r.val) /\ free' <= PTR_MAX /\ Pieces(idx', dat')
      /\ Len(idx') = Len(idx) /\ f \in DOMAIN idx'
      /\ idx'[f].dat = idx[f].dat /\ idx'[f].len = idx[f].len
  <2>1. CASE r.from = None
    <3>1. free' = WritePtr(free, r.ptrval) /\ idx' = idx
      BY <2>1 DEF Unlink
    <3>2. free' = base.ptrval
      BY <1>2, <3>1, BaseIs DEF WritePtr
    <3>3. f = base.free
      BY <1>2, <1>3, <2>1 DEF Hit, Led, Met
    <3>4. Now' = <<base.head, base.ptrval, base.idx, base.dat>>
      BY <1>2, <1>5, <3>1, <3>2 DEF Now
    <3>5. Now' = Untied(base, r.key, r.val)
      BY <3>3, <3>4 DEF Untied
    <3>6. dat' = dat /\ f \in DOMAIN idx
      BY <1>3, <1>5 DEF Load
    <3> QED BY <1>0, <3>1, <3>2, <3>5, <3>6, BaseIs
  <2>2. CASE r.from # None
    <3>1. free' = free /\ idx' = Pointed(r.from, r.ptrval)
      BY <2>2 DEF Unlink
    <3>2. r.from = base.free /\ f = base.ptrval /\ f # base.free
      BY <1>2, <1>3, <2>2 DEF Hit, Led, Met
    <3>3. r.from \in 1 .. Len(idx) /\ r.ptrval \in Nat
      BY <1>0, <2>2, SMT DEF Within, None
    <3>4. Numbered(idx') = Point(base.idx, base.free, base.ptrval)
      <4>1. Files /\ r.ptrval <= PTR_MAX
        BY <1>0 DEF Small
      <4>2. Numbered(Pointed(r.from, r.ptrval)) = Point(Numbered(idx), r.from, r.ptrval)
        BY <3>3, <4>1, NumberedPointed
      <4> QED BY <1>2, <3>1, <3>2, <4>2
    <3>5. Len(idx') = Len(idx) /\ DOMAIN idx' = DOMAIN idx
      BY <1>0, <3>1, <3>3, PointedKeeps, LenProperties
    <3>6. \A x \in DOMAIN idx : idx'[x].dat = idx[x].dat /\ idx'[x].len = idx[x].len
      BY <1>0, <3>1, PointedSame DEF SameRec
    <3>7. Told(idx', dat) = Told(idx, dat) /\ Pieces(idx', dat)
      BY <1>0, <3>5, <3>6, ToldSame
    <3>8. Now' = <<base.head, base.free, Point(base.idx, base.free, base.ptrval), base.dat>>
      BY <1>2, <1>5, <3>1, <3>4, <3>7 DEF Now
    <3>9. Now' = Untied(base, r.key, r.val)
      BY <3>2, <3>8 DEF Untied
    <3>10. dat' = dat /\ f \in DOMAIN idx
      BY <1>3, <1>5 DEF Load
    <3> QED BY <3>1, <3>5, <3>6, <3>7, <3>9, <3>10, BaseIs
  <2> QED BY <2>1, <2>2
<1>7. Chosen(base, s, idx')
  <2>1. Load(s, idx', f)
    BY <1>3, <1>4, <1>6 DEF Load
  <2>2. f = Spare(base, s.key, s.val)
    BY <1>4
  <2>3. Load(s, idx', Spare(base, s.key, s.val))
    BY <2>1, <2>2
  <2>4. /\ Lacks(base, s.key) /\ Offers(base, s.key, s.val) /\ s.rc = 0 /\ s.flag # "replace"
        /\ s.new = Top(base, s.key) /\ s.datlen = DatLen[s.val]
    BY <1>2, <1>4 DEF Chosen
  <2> QED BY <2>3, <2>4 DEF Chosen
<1>8. Supplying(base, s, Now', idx')
  BY <1>4, <1>6, <1>7 DEF Supplying
<1>9. Simulated(base, s, Now', idx', dat')
  <2>1. s.off # None
    BY <1>2, <1>4
  <2> QED BY <1>4, <1>8, <2>1, SMT DEF Simulated
<1>10. s.pc \notin {"idle", "off"} /\ Small(s) /\ s.pos \in 0 .. Len(idx') + 1
  BY <1>0, <1>4, <1>6, SMT DEF Small, Astray
<1>11. \A c \in Chains : head'[c] <= PTR_MAX
  BY <1>5, BaseIs
<1> QED BY <1>5, <1>6, <1>9, <1>10, <1>11, WriteCarries

LEMMA PieceStored ==
  ASSUME Files, Pieces(idx, dat), NEW x \in DOMAIN idx, NEW r, r.key \in Keys, r.val \in Vals,
         dat' = WriteAt(idx[x].dat, Text(r.key, r.val, idx[x].len))
  PROVE  Pieces(idx, dat') /\ Told(idx, dat') = [Told(idx, dat) EXCEPT ![x] = Pair(r.key, r.val)]
<1> PICK k \in Keys : k = r.key
  OBVIOUS
<1> PICK v \in Vals : v = r.val
  OBVIOUS
<1>1. Pieces(idx, dat') /\ Told(idx, dat') = [Told(idx, dat) EXCEPT ![x] = Pair(k, v)]
  BY PieceWritten
<1> QED BY <1>1

LEMMA OverCarries ==
  ASSUME Discipline, Offsets, Untroubled, WriteDat(Me), reg[Me].pc = "over.dat" PROVE Carried
<1> PICK r : r = reg[Me]
  OBVIOUS
<1>0. /\ DOMAIN r = Fields /\ Small(r) /\ r.pos \in 0 .. Len(idx) + 1 /\ Place(r)
      /\ Files /\ Pieces(idx, dat) /\ r.pc = "over.dat" /\ Simulated(base, r, Now, idx, dat)
  BY Here
<1> PICK x : x = Its(base, r.key)
  OBVIOUS
<1>1. Over(base, r, Now, idx)
  BY <1>0, SMT DEF Simulated
<1>2. /\ Has(base, r.key) /\ r.rc = 0 /\ r.flag # "insert" /\ r.pos = x + 1
      /\ head = base.head /\ free = base.free /\ Numbered(idx) = base.idx
      /\ Told(idx, dat) = base.dat /\ r.ptrval = base.ptrval
      /\ x \in DOMAIN idx /\ r.datoff = idx[x].dat /\ base.idx[x].len = DatLen[r.val]
  BY <1>1 DEF Over, Reading, Load, Plain, Now, Was
<1>3. r.op = "store" /\ r.key \in Keys /\ r.val \in Vals
  BY <1>0, SMT DEF Place
<1>4. idx[x].len = DatLen[r.val]
  BY <1>0, <1>2, NumberedSize
<1> PICK n : n = DatLen[r.val]
  OBVIOUS
<1> PICK s : s = [r EXCEPT !.datlen = n, !.pc = "chain.unlock"]
  OBVIOUS
<1>5. /\ s.key = r.key /\ s.val = r.val /\ s.flag = r.flag /\ s.rc = r.rc /\ s.op = r.op
      /\ s.ptrval = r.ptrval /\ s.new = r.new /\ s.save = r.save /\ s.pos = r.pos
      /\ s.pc = "chain.unlock"
  BY <1>0, SMT
<1>6. /\ dat' = WriteAt(idx[x].dat, Text(r.key, r.val, idx[x].len))
      /\ Set(Me, s) /\ UNCHANGED <<head, free, idx>>
  BY <1>0, <1>2, <1>4 DEF WriteDat
<1>7. Pieces(idx, dat') /\ Told(idx, dat') = [base.dat EXCEPT ![x] = Pair(r.key, r.val)]
  <2>1. /\ Files /\ Pieces(idx, dat) /\ x \in DOMAIN idx
        /\ r.key \in Keys \cup {Blank} /\ r.val \in Vals \cup {Blank}
    BY <1>0, <1>2, <1>3
  <2>2. Pieces(idx, dat') /\ Told(idx, dat') = [Told(idx, dat) EXCEPT ![x] = Pair(r.key, r.val)]
    BY <1>3, <2>1, <1>6, PieceStored
  <2> QED BY <1>2, <2>2
<1>8. Now' = <<base.head, base.free, base.idx, [base.dat EXCEPT ![x] = Pair(r.key, r.val)]>>
  BY <1>2, <1>6, <1>7 DEF Now
<1>9. Seat(base, r.key) = x + 1
  <2>1. None \notin Held(base, r.key)
    BY <1>0, <1>2, HeldIs
  <2> QED BY <1>2, <2>1, SeatIs
<1>10. Replaced(base, s, Now')
  BY <1>2, <1>3, <1>5, <1>8, <1>9 DEF Replaced
<1>11. Simulated(base, s, Now', idx', dat')
  BY <1>5, <1>10, Unlocks
<1>12. s.pc \notin {"idle", "off"} /\ Small(s) /\ s.pos \in 0 .. Len(idx') + 1
  BY <1>0, <1>5, <1>6 DEF Small
<1>13. free' <= PTR_MAX /\ \A c \in Chains : head'[c] <= PTR_MAX
  BY <1>6, BaseIs
<1> QED BY <1>6, <1>7, <1>11, <1>12, <1>13, WriteCarries

LEMMA EraseCarries ==
  ASSUME Discipline, Offsets, Untroubled, WriteDat(Me), reg[Me].pc = "erase.dat" PROVE Carried
<1> PICK r : r = reg[Me]
  OBVIOUS
<1>0. /\ DOMAIN r = Fields /\ Small(r) /\ r.pos \in 0 .. Len(idx) + 1
      /\ Files /\ Pieces(idx, dat) /\ r.pc = "erase.dat" /\ Simulated(base, r, Now, idx, dat)
  BY Here
<1> PICK x : x = Its(base, r.key)
  OBVIOUS
<1>1. Erasing(base, r, Now, idx)
  BY <1>0, SMT DEF Simulated
<1>2. /\ head = base.head /\ free = base.free /\ Numbered(idx) = base.idx
      /\ Told(idx, dat) = base.dat /\ r.ptrval = base.ptrval
      /\ x \in DOMAIN idx /\ r.datoff = idx[x].dat /\ r.datlen = idx[x].len
  BY <1>1 DEF Erasing, Doomed, Load, Plain, Now, Was
<1> PICK s : s = [r EXCEPT !.pc = "del.free"]
  OBVIOUS
<1>3. Alike(r, s) /\ s.pc = "del.free"
  BY <1>0, SMT DEF Alike
<1>4. /\ dat' = WriteAt(idx[x].dat, Text(Blank, Blank, idx[x].len))
      /\ Set(Me, s) /\ UNCHANGED <<head, free, idx>>
  BY <1>0, <1>2 DEF WriteDat, Go
<1>5. Pieces(idx, dat') /\ Told(idx, dat') = [base.dat EXCEPT ![x] = Pair(Blank, Blank)]
  <2>1. /\ Files /\ Pieces(idx, dat) /\ x \in DOMAIN idx
        /\ Blank \in Keys \cup {Blank} /\ Blank \in Vals \cup {Blank}
    BY <1>0, <1>2
  <2>2. Pieces(idx, dat') /\ Told(idx, dat') = [Told(idx, dat) EXCEPT ![x] = Pair(Blank, Blank)]
    BY <2>1, <1>4, PieceWritten
  <2> QED BY <1>2, <2>2
<1>6. Now' = <<base.head, base.free, base.idx, Wiped(base, r.key)>>
  BY <1>2, <1>4, <1>5 DEF Now, Wiped
<1>7. Doomed(base, s, idx)
  BY <1>1, <1>3 DEF Erasing, Doomed, Load, Fresh, Alike
<1>8. Wiping(base, s, Now', idx')
  BY <1>2, <1>3, <1>4, <1>6, <1>7 DEF Wiping, Alike
<1>9. Simulated(base, s, Now', idx', dat')
  BY <1>3, <1>8, SimulatedBy
<1>10. s.pc \notin {"idle", "off"} /\ Small(s) /\ s.pos \in 0 .. Len(idx') + 1
  BY <1>0, <1>3, <1>4 DEF Small, Alike
<1>11. free' <= PTR_MAX /\ \A c \in Chains : head'[c] <= PTR_MAX
  BY <1>4, BaseIs
<1> QED BY <1>4, <1>5, <1>9, <1>10, <1>11, WriteCarries

LEMMA ReuseCarries ==
  ASSUME Discipline, Offsets, Untroubled, WriteDat(Me), reg[Me].pc = "reuse.dat" PROVE Carried
<1> PICK r : r = reg[Me]
  OBVIOUS
<1>0. /\ DOMAIN r = Fields /\ Small(r) /\ r.pos \in 0 .. Len(idx) + 1 /\ Place(r)
      /\ Files /\ Pieces(idx, dat) /\ r.pc = "reuse.dat" /\ Simulated(base, r, Now, idx, dat)
  BY Here
<1> PICK x : x = Spare(base, r.key, r.val)
  OBVIOUS
<1>1. Supplying(base, r, Now, idx)
  BY <1>0, SMT DEF Simulated
<1>2. /\ head = base.head /\ free = Untied(base, r.key, r.val)[2]
      /\ Numbered(idx) = Untied(base, r.key, r.val)[3] /\ Told(idx, dat) = base.dat
      /\ x \in DOMAIN idx /\ r.datoff = idx[x].dat /\ r.datlen = idx[x].len
      /\ r.datlen = DatLen[r.val]
  BY <1>1 DEF Supplying, Chosen, Load, Untied, Now
<1>3. r.key \in Keys /\ r.val \in Vals
  BY <1>0, SMT DEF Place
<1> PICK n : n = DatLen[r.val]
  OBVIOUS
<1> PICK s : s = [r EXCEPT !.datlen = n, !.pc = "reuse.idx"]
  OBVIOUS
<1>4. Alike(r, s) /\ s.pc = "reuse.idx"
  BY <1>0, <1>2, SMT DEF Alike
<1>5. /\ dat' = WriteAt(idx[x].dat, Text(r.key, r.val, idx[x].len))
      /\ Set(Me, s) /\ UNCHANGED <<head, free, idx>>
  BY <1>0, <1>2 DEF WriteDat
<1>6. Pieces(idx, dat') /\ Told(idx, dat') = [base.dat EXCEPT ![x] = Pair(r.key, r.val)]
  <2>1. /\ Files /\ Pieces(idx, dat) /\ x \in DOMAIN idx
        /\ r.key \in Keys \cup {Blank} /\ r.val \in Vals \cup {Blank}
    BY <1>0, <1>2, <1>3
  <2>2. Pieces(idx, dat') /\ Told(idx, dat') = [Told(idx, dat) EXCEPT ![x] = Pair(r.key, r.val)]
    BY <1>3, <2>1, <1>5, PieceStored
  <2> QED BY <1>2, <2>2
<1>7. Now' = Supplied(base, r.key, r.val)
  BY <1>2, <1>5, <1>6 DEF Now, Supplied
<1>8. Chosen(base, s, idx)
  BY <1>1, <1>4 DEF Supplying, Chosen, Load, Alike
<1>9. Renaming(base, s, Now', idx')
  BY <1>4, <1>5, <1>7, <1>8 DEF Renaming, Alike
<1>10. Simulated(base, s, Now', idx', dat')
  BY <1>4, <1>9, SimulatedBy
<1>11. s.pc \notin {"idle", "off"} /\ Small(s) /\ s.pos \in 0 .. Len(idx') + 1
  BY <1>0, <1>4, <1>5 DEF Small, Alike
<1>12. free' <= PTR_MAX /\ \A c \in Chains : head'[c] <= PTR_MAX
  BY <1>5, BaseIs
<1> QED BY <1>5, <1>6, <1>10, <1>11, <1>12, WriteCarries

LEMMA WriteDatCarries ==
  ASSUME Discipline, Offsets, Untroubled, WriteDat(Me) PROVE Carried
BY OverCarries, EraseCarries, ReuseCarries DEF WriteDat

LEMMA FilledRecords ==
  ASSUME Files, NEW r, Load(r, idx, r.idxoff), r.new \in Nat, NEW k \in Keys \cup {Blank},
         idx' = Filled(r, k)
  PROVE  /\ Numbered(idx') = Fill(Numbered(idx), r.idxoff, k, r.new)
         /\ Len(idx') = Len(idx) /\ DOMAIN idx' = DOMAIN idx
         /\ \A y \in DOMAIN idx : idx'[y].dat = idx[y].dat /\ idx'[y].len = idx[y].len
<1>0. DOMAIN idx = 1 .. Len(idx) /\ r.idxoff \in DOMAIN idx
  BY LenNat DEF Load
<1>1. r.datoff \in Nat /\ r.datlen \in Nat
  BY <1>0, PiecesNat DEF Load
<1>2. Len(idx') = Len(idx) /\ DOMAIN idx' = DOMAIN idx
  BY <1>0, <1>1, FilledKeeps, LenProperties
<1>3. \A y \in DOMAIN idx : idx'[y].dat = idx[y].dat /\ idx'[y].len = idx[y].len
  <2> SUFFICES ASSUME NEW y \in DOMAIN idx
               PROVE  idx'[y].dat = idx[y].dat /\ idx'[y].len = idx[y].len
    OBVIOUS
  <2>1. y \in 1 .. Len(idx)
    BY <1>0
  <2>2. CASE y # r.idxoff
    BY <2>1, <2>2, FilledSame DEF SameRec
  <2>3. CASE y = r.idxoff
    BY <2>1, <2>3, FilledSame DEF Load
  <2> QED BY <2>2, <2>3
<1>4. Numbered(idx') = Fill(Numbered(idx), r.idxoff, k, r.new)
  BY NumberedFilled
<1> QED BY <1>2, <1>3, <1>4

LEMMA WriteIdxCarries ==
  ASSUME Discipline, Offsets, Untroubled, WriteIdx(Me) PROVE Carried
<1> PICK r : r = reg[Me]
  OBVIOUS
<1>0. /\ DOMAIN r = Fields /\ Small(r) /\ Place(r) /\ Within(r, Len(idx)) /\ Len(idx) \in Nat
      /\ DOMAIN idx = 1 .. Len(idx)
      /\ Files /\ Pieces(idx, dat) /\ r.pc = "reuse.idx" /\ Simulated(base, r, Now, idx, dat)
  BY Here DEF WriteIdx
<1> PICK x : x = Spare(base, r.key, r.val)
  OBVIOUS
<1>1. Renaming(base, r, Now, idx)
  BY <1>0, SMT DEF Simulated
<1>2. /\ head = base.head /\ free = Untied(base, r.key, r.val)[2]
      /\ Numbered(idx) = Untied(base, r.key, r.val)[3]
      /\ Told(idx, dat) = [base.dat EXCEPT ![x] = Pair(r.key, r.val)]
      /\ r.idxoff = x /\ Load(r, idx, r.idxoff) /\ r.new = Top(base, r.key)
  BY <1>1 DEF Renaming, Chosen, Load, Supplied, Now
<1>3. r.key \in Keys /\ r.new \in Nat /\ r.datoff \in Nat /\ r.datlen \in Nat
  BY <1>0, SMT DEF Place, Within
<1> PICK c, q : c = r.new /\ q = r.idxoff + 1
  OBVIOUS
<1> PICK s : s = [r EXCEPT !.pc = "chain.link", !.ptrval = c, !.pos = q]
  OBVIOUS
<1>4. /\ s.key = r.key /\ s.val = r.val /\ s.flag = r.flag /\ s.rc = r.rc /\ s.op = r.op
      /\ s.ptrval = r.new /\ s.new = r.new /\ s.save = r.save /\ s.pos = r.idxoff + 1
      /\ s.pc = "chain.link" /\ s.idxoff = r.idxoff
  BY <1>0, SMT
<1>5. idx' = Filled(r, r.key) /\ Set(Me, s) /\ UNCHANGED <<head, free, dat>>
  BY DEF WriteIdx
<1>6. /\ Numbered(idx') = Fill(Numbered(idx), r.idxoff, r.key, r.new)
      /\ Len(idx') = Len(idx) /\ DOMAIN idx' = DOMAIN idx
      /\ \A y \in DOMAIN idx : idx'[y].dat = idx[y].dat /\ idx'[y].len = idx[y].len
  BY <1>0, <1>2, <1>3, <1>5, FilledRecords
<1>9. Told(idx', dat) = Told(idx, dat) /\ Pieces(idx', dat)
  BY <1>0, <1>6, ToldSame
<1>10. Now' = Renamed(base, r.key, r.val)
  BY <1>2, <1>5, <1>6, <1>9 DEF Now, Renamed
<1>11. Heading(base, s, Now')
  BY <1>1, <1>2, <1>4, <1>10 DEF Heading, Renaming, Chosen
<1>12. Simulated(base, s, Now', idx', dat')
  BY <1>4, <1>11, SimulatedBy
<1>13. s.pc \notin {"idle", "off"} /\ Small(s) /\ s.pos \in 0 .. Len(idx') + 1
  BY <1>0, <1>2, <1>4, <1>6, SMT DEF Small, Load
<1>14. free' <= PTR_MAX /\ (\A d \in Chains : head'[d] <= PTR_MAX) /\ Pieces(idx', dat')
  BY <1>5, <1>9, BaseIs
<1> QED BY <1>5, <1>12, <1>13, <1>14, WriteCarries
-----------------------------------------------------------------------------
(* _db_dodelete, once the data are erased *)

LEMMA DelIdxCarries ==
  ASSUME Discipline, Offsets, Untroubled, DelIdx(Me) PROVE Carried
<1> PICK r : r = reg[Me]
  OBVIOUS
<1>0. /\ DOMAIN r = Fields /\ Small(r) /\ Within(r, Len(idx)) /\ Len(idx) \in Nat
      /\ DOMAIN idx = 1 .. Len(idx)
      /\ Files /\ Pieces(idx, dat) /\ r.pc = "del.idx" /\ Simulated(base, r, Now, idx, dat)
  BY Here DEF DelIdx
<1> PICK x : x = Its(base, r.key)
  OBVIOUS
<1>1. Voiding(base, r, Now, idx)
  BY <1>0, SMT DEF Simulated
<1>2. /\ head = base.head /\ free = base.free /\ Numbered(idx) = base.idx
      /\ Told(idx, dat) = Wiped(base, r.key) /\ r.new = base.free /\ r.save = base.ptrval
      /\ r.idxoff = x /\ Load(r, idx, r.idxoff)
  BY <1>1 DEF Voiding, Wiping, Doomed, Load, Now
<1>3. r.new \in Nat
  BY <1>0, SMT DEF Within
<1> PICK c, q : c = r.new /\ q = r.idxoff + 1
  OBVIOUS
<1> PICK s : s = [r EXCEPT !.pc = "del.head", !.ptrval = c, !.new = None, !.pos = q]
  OBVIOUS
<1>4. /\ s.op = r.op /\ s.key = r.key /\ s.val = r.val /\ s.flag = r.flag /\ s.rc = r.rc
      /\ s.ptrval = r.new /\ s.new = None /\ s.save = r.save /\ s.pos = r.idxoff + 1
      /\ s.pc = "del.head" /\ s.idxoff = r.idxoff /\ s.from = r.from
      /\ s.datoff = r.datoff /\ s.datlen = r.datlen
  BY <1>0, SMT
<1>5. idx' = Filled(r, Blank) /\ Set(Me, s) /\ UNCHANGED <<head, free, dat>>
  BY DEF DelIdx
<1>6. /\ Numbered(idx') = Fill(Numbered(idx), r.idxoff, Blank, r.new)
      /\ Len(idx') = Len(idx) /\ DOMAIN idx' = DOMAIN idx
      /\ \A y \in DOMAIN idx : idx'[y].dat = idx[y].dat /\ idx'[y].len = idx[y].len
  BY <1>0, <1>2, <1>3, <1>5, FilledRecords
<1>7. Told(idx', dat) = Told(idx, dat) /\ Pieces(idx', dat)
  BY <1>0, <1>6, ToldSame
<1>8. Numbered(idx') = Voided(base, r.key)
  BY <1>2, <1>6 DEF Voided
<1>9. Now' = <<base.head, base.free, Voided(base, r.key), Wiped(base, r.key)>>
  BY <1>2, <1>5, <1>7, <1>8 DEF Now
<1>10. Doomed(base, s, idx')
  <2>1. Load(s, idx', Its(base, s.key))
    BY <1>2, <1>4, <1>6 DEF Load
  <2> QED BY <1>1, <1>4, <2>1 DEF Voiding, Wiping, Doomed, Fresh
<1>11. Freeing(base, s, Now', idx')
  BY <1>2, <1>4, <1>9, <1>10 DEF Freeing
<1>12. Simulated(base, s, Now', idx', dat')
  BY <1>4, <1>11, SimulatedBy
<1>13. s.pc \notin {"idle", "off"} /\ Small(s) /\ s.pos \in 0 .. Len(idx') + 1
  BY <1>0, <1>2, <1>4, <1>6, SMT DEF Small, Load, None
<1>14. free' <= PTR_MAX /\ (\A d \in Chains : head'[d] <= PTR_MAX) /\ Pieces(idx', dat')
  BY <1>5, <1>7, BaseIs
<1> QED BY <1>5, <1>12, <1>13, <1>14, WriteCarries

LEMMA DelHeadCarries ==
  ASSUME Discipline, Offsets, Untroubled, DelHead(Me) PROVE Carried
<1> PICK r : r = reg[Me]
  OBVIOUS
<1>0. /\ DOMAIN r = Fields /\ Small(r) /\ Place(r) /\ Len(idx) \in Nat
      /\ Pieces(idx, dat) /\ r.pc = "del.head" /\ Simulated(base, r, Now, idx, dat)
  BY Here DEF DelHead
<1> PICK x : x = Its(base, r.key)
  OBVIOUS
<1>1. Freeing(base, r, Now, idx)
  BY <1>0, SMT DEF Simulated
<1>2. /\ head = base.head /\ free = base.free /\ Numbered(idx) = Voided(base, r.key)
      /\ Told(idx, dat) = Wiped(base, r.key) /\ r.idxoff = x
  BY <1>1 DEF Freeing, Doomed, Load, Now
<1>3. x <= PTR_MAX
  <2>1. r.key \in Keys
    BY <1>0, SMT DEF Place
  <2> QED BY <2>1, ItsFits
<1> PICK s : s = [r EXCEPT !.pc = "del.link", !.pos = Astray]
  OBVIOUS
<1>4. /\ s.op = r.op /\ s.key = r.key /\ s.val = r.val /\ s.flag = r.flag /\ s.rc = r.rc
      /\ s.ptrval = r.ptrval /\ s.new = r.new /\ s.save = r.save /\ s.pos = Astray
      /\ s.pc = "del.link" /\ s.idxoff = r.idxoff /\ s.from = r.from
      /\ s.datoff = r.datoff /\ s.datlen = r.datlen
  BY <1>0, SMT
<1>5. free' = WritePtr(free, r.idxoff) /\ Set(Me, s) /\ UNCHANGED <<head, idx, dat>>
  BY DEF DelHead
<1>6. free' = x
  BY <1>2, <1>3, <1>5 DEF WritePtr
<1>7. Now' = <<base.head, x, Voided(base, r.key), Wiped(base, r.key)>>
  BY <1>2, <1>5, <1>6 DEF Now
<1>8. Cutting(base, s, Now', idx')
  BY <1>1, <1>4, <1>5, <1>7 DEF Freeing, Cutting, Doomed, Load, Fresh
<1>9. Simulated(base, s, Now', idx', dat')
  BY <1>4, <1>8, SimulatedBy
<1>10. s.pc \notin {"idle", "off"} /\ Small(s) /\ s.pos \in 0 .. Len(idx') + 1
  BY <1>0, <1>4, <1>5, SMT DEF Small, Astray
<1>11. free' <= PTR_MAX /\ (\A d \in Chains : head'[d] <= PTR_MAX) /\ Pieces(idx', dat')
  BY <1>0, <1>3, <1>5, <1>6, BaseIs
<1> QED BY <1>5, <1>9, <1>10, <1>11, WriteCarries

LEMMA DelLinkCarries ==
  ASSUME Discipline, Offsets, Untroubled, DelLink(Me) PROVE Carried
<1> PICK r : r = reg[Me]
  OBVIOUS
<1>0. /\ DOMAIN r = Fields /\ Small(r) /\ Place(r) /\ Len(idx) \in Nat /\ DOMAIN idx = 1 .. Len(idx)
      /\ Within(r, Len(idx)) /\ Files /\ Pieces(idx, dat) /\ r.pc = "del.link"
      /\ Simulated(base, r, Now, idx, dat)
  BY Here DEF DelLink
<1> PICK x, h : x = Its(base, r.key) /\ h = Top(base, r.key)
  OBVIOUS
<1>1. Cutting(base, r, Now, idx)
  BY <1>0, SMT DEF Simulated
<1>2. /\ head = base.head /\ free = x /\ Numbered(idx) = Voided(base, r.key)
      /\ Told(idx, dat) = Wiped(base, r.key) /\ r.save = base.ptrval
      /\ Has(base, r.key) /\ r.from = Lead(base, r.key)
  BY <1>1 DEF Cutting, Doomed, Now
<1> PICK s : s = [r EXCEPT !.pc = "del.unlock", !.pos = Astray]
  OBVIOUS
<1>3. /\ s.op = r.op /\ s.key = r.key /\ s.val = r.val /\ s.flag = r.flag /\ s.rc = r.rc
      /\ s.ptrval = r.ptrval /\ s.new = r.new /\ s.save = r.save /\ s.pos = Astray
      /\ s.pc = "del.unlock"
  BY <1>0, SMT
<1>4. Set(Me, s) /\ UNCHANGED <<free, dat>>
  BY DEF DelLink
<1>5. /\ Now' = Cleared(base, r.key) /\ (\A c \in Chains : head'[c] <= PTR_MAX)
      /\ Pieces(idx', dat') /\ Len(idx') = Len(idx)
  <2>1. CASE r.from = None
    <3>1. /\ head' = [head EXCEPT ![Hash[r.key]] = WritePtr(@, r.save)] /\ idx' = idx
      BY <2>1 DEF DelLink, Chain
    <3>2. x = h
      BY <1>2, <2>1 DEF Has, Hit, Lead, Led, Its, Met
    <3>3. head' = [base.head EXCEPT ![Hash[r.key]] = base.ptrval]
      BY <1>2, <3>1, BaseIs DEF WritePtr
    <3>4. Now' = <<[base.head EXCEPT ![Hash[r.key]] = base.ptrval], x, Voided(base, r.key),
                   Wiped(base, r.key)>>
      BY <1>2, <1>4, <3>1, <3>3 DEF Now
    <3>5. Now' = Cleared(base, r.key)
      BY <3>2, <3>4 DEF Cleared
    <3>6. \A c \in Chains : head'[c] <= PTR_MAX
      BY <1>0, <3>1, HeadFits DEF Untroubled
    <3> QED BY <1>0, <1>4, <3>1, <3>5, <3>6
  <2>2. CASE r.from # None
    <3>1. head' = head /\ idx' = Pointed(r.from, r.save)
      BY <2>2 DEF DelLink
    <3>2. x # h /\ r.from = h
      BY <1>2, <2>2 DEF Has, Hit, Lead, Led, Its, Met
    <3>3. r.from \in 1 .. Len(idx) /\ r.save \in Nat
      BY <1>0, <2>2, SMT DEF Within, None
    <3>4. Numbered(idx') = Point(Voided(base, r.key), h, base.ptrval)
      <4>1. Files /\ r.save <= PTR_MAX
        BY <1>0 DEF Small
      <4>2. Numbered(Pointed(r.from, r.save)) = Point(Numbered(idx), r.from, r.save)
        BY <3>3, <4>1, NumberedPointed
      <4> QED BY <1>2, <3>1, <3>2, <4>2
    <3>5. Len(idx') = Len(idx) /\ DOMAIN idx' = DOMAIN idx
      BY <1>0, <3>1, <3>3, PointedKeeps, LenProperties
    <3>6. \A y \in DOMAIN idx : idx'[y].dat = idx[y].dat /\ idx'[y].len = idx[y].len
      BY <1>0, <3>1, PointedSame DEF SameRec
    <3>7. Told(idx', dat) = Told(idx, dat) /\ Pieces(idx', dat)
      BY <1>0, <3>5, <3>6, ToldSame
    <3>8. Now' = <<base.head, x, Point(Voided(base, r.key), h, base.ptrval), Wiped(base, r.key)>>
      BY <1>2, <1>4, <3>1, <3>4, <3>7 DEF Now
    <3>9. [base.head EXCEPT ![Hash[r.key]] = h] = base.head
      <4>1. base.head \in [Chains -> 0 .. Len(base.idx)]
        BY DEF Untroubled, Sane
      <4> QED BY <4>1 DEF Top
    <3>10. Now' = Cleared(base, r.key)
      BY <3>2, <3>8, <3>9 DEF Cleared
    <3> QED BY <1>4, <3>1, <3>5, <3>7, <3>10, BaseIs
  <2> QED BY <2>1, <2>2
<1>6. Gone(base, s, Now')
  BY <1>1, <1>3, <1>5 DEF Cutting, Doomed, Gone, Fresh
<1>7. Simulated(base, s, Now', idx', dat')
  BY <1>3, <1>6, SimulatedBy
<1>8. s.pc \notin {"idle", "off"} /\ Small(s) /\ s.pos \in 0 .. Len(idx') + 1
  BY <1>0, <1>3, <1>5, SMT DEF Small, Astray
<1>9. free' <= PTR_MAX
  BY <1>4, BaseIs
<1> QED BY <1>4, <1>5, <1>7, <1>8, <1>9, WriteCarries
-----------------------------------------------------------------------------
(* db_store: a record is appended to both files, and the chain is led to it *)

LEMMA ExceptLen ==
  ASSUME NEW S, NEW q \in Seq(S), NEW x, NEW e, NEW t, t = [q EXCEPT ![x] = e]
  PROVE  t \in Seq(S \cup {e}) /\ Len(t) = Len(q)
<1> PICK n \in Nat : n = Len(q) /\ DOMAIN q = 1 .. n
  BY LenProperties
<1>1. t = [y \in 1 .. n |-> IF y = x THEN e ELSE q[y]]
  OBVIOUS
<1>2. \A y \in 1 .. n : q[y] \in S
  BY ElementOfSeq
<1>3. t \in [1 .. n -> S \cup {e}]
  BY <1>1, <1>2
<1>4. t \in Seq(S \cup {e}) /\ Len(t) = n
  BY <1>3, SMT
<1> QED BY <1>4

LEMMA FillLen ==
  ASSUME NEW S, NEW i \in Seq(S), NEW x, NEW k, NEW p
  PROVE  \E T : Fill(i, x, k, p) \in Seq(T) /\ Len(Fill(i, x, k, p)) = Len(i)
<1>1. \E e : Fill(i, x, k, p) = [i EXCEPT ![x] = e]
  BY DEF Fill
<1> PICK t, e : t = [i EXCEPT ![x] = e] /\ t = Fill(i, x, k, p)
  BY <1>1
<1> HIDE DEF Fill
<1>7. t = [i EXCEPT ![x] = e]
  OBVIOUS
<1>2. Len(t) = Len(i)
  BY <1>7, ExceptLen
<1> PICK n \in Nat : n = Len(i) /\ DOMAIN i = 1 .. n
  BY LenProperties
<1>3. \A y \in 1 .. n : i[y] \in S
  BY ElementOfSeq
<1>4. t = [y \in 1 .. n |-> IF y = x THEN e ELSE i[y]]
  BY <1>7
<1>5. t \in [1 .. n -> S \cup {e}]
  BY <1>3, <1>4
<1>6. t \in Seq(S \cup {e})
  BY <1>5, SMT
<1> QED BY <1>2, <1>6

LEMMA PointLen ==
  ASSUME NEW S, NEW i \in Seq(S), NEW x, NEW p
  PROVE  Len(Point(i, x, p)) = Len(i)
<1> PICK e : e = [i[x] EXCEPT !.ptr = p]
  OBVIOUS
<1> PICK t : t = Point(i, x, p)
  OBVIOUS
<1>1. t = [i EXCEPT ![x] = e]
  BY DEF Point
<1>2. Len(t) = Len(i)
  BY <1>1, ExceptLen
<1> QED BY <1>2

LEMMA GroundLen ==
  ASSUME Untroubled, NEW k PROVE Len(Ground(base, k)[3]) = Len(base.idx)
<1> PICK m : m = Voided(base, k)
  OBVIOUS
<1> PICK j : j = Point(m, Top(base, k), base.ptrval)
  OBVIOUS
<1>1. PICK T : m \in Seq(T) /\ Len(m) = Len(base.idx)
  BY BaseIs, FillLen DEF Voided
<1>2. Len(j) = Len(base.idx)
  BY <1>1, PointLen
<1>3. Cleared(base, k)[3] \in {m, j}
  BY DEF Cleared
<1>4. Was(base)[3] = base.idx
  BY DEF Was
<1> QED BY <1>1, <1>2, <1>3, <1>4 DEF Ground

LEMMA NowLen ==
  ASSUME Files, Untroubled, NEW k, Now = Ground(base, k)
  PROVE  Len(idx) = Len(base.idx) /\ Len(Now[3]) = Len(idx)
<1>1. idx \in Seq(IdxRec)
  BY DEF Files
<1>2. Len(Numbered(idx)) = Len(idx)
  BY <1>1, NumberedIs
<1>3. Now[3] = Numbered(idx)
  BY DEF Now
<1> QED BY <1>2, <1>3, GroundLen

LEMMA AppendDatCarries ==
  ASSUME Discipline, Offsets, Untroubled, AppendDat(Me) PROVE Carried /\ events' = events
<1> PICK r : r = reg[Me]
  OBVIOUS
<1>0. /\ DOMAIN r = Fields /\ Small(r) /\ r.pos \in 0 .. Len(idx) + 1 /\ Place(r)
      /\ Within(r, Len(idx)) /\ Files /\ Pieces(idx, dat)
      /\ r.pc = "new.dat" /\ Simulated(base, r, Now, idx, dat)
  BY Here DEF AppendDat
<1>1. Laying(base, r, Now, idx, dat)
  BY <1>0, SMT DEF Simulated
<1>2. r.key \in Keys /\ r.val \in Vals
  BY <1>0, SMT DEF Place
<1>3. r.datoff \in Nat /\ r.datoff = Len(dat) + 1
  BY <1>0, <1>1 DEF Within, Laying
<1> PICK n : n = DatLen[r.val]
  OBVIOUS
<1>4. n \in Nat /\ 1 <= n
  <2>1. DatLen[r.val] \in Nat \ {0}
    BY <1>2
  <2> QED BY <2>1, SMT
<1> PICK s : s = [r EXCEPT !.pc = "new.unlock", !.datlen = n]
  OBVIOUS
<1>5. /\ s.key = r.key /\ s.val = r.val /\ s.flag = r.flag /\ s.rc = r.rc /\ s.op = r.op
      /\ s.ptrval = r.ptrval /\ s.new = r.new /\ s.save = r.save /\ s.pos = r.pos
      /\ s.pc = "new.unlock" /\ s.datoff = r.datoff /\ s.datlen = n
  BY <1>0, SMT
<1>6. /\ dat' = WriteAt(r.datoff, Text(r.key, r.val, n)) /\ Set(Me, s)
      /\ UNCHANGED <<head, free, idx>>
      /\ events' = IF r.datoff = Len(dat) + 1 THEN events ELSE events \cup {"race"}
  BY DEF AppendDat
<1>7. /\ Pieces(idx, dat') /\ Told(idx, dat') = Told(idx, dat)
      /\ Inside(dat', r.datoff, n) /\ Tells(dat', r.datoff, n, r.key, r.val)
      /\ \A x \in DOMAIN idx : Beside(r.datoff, n, idx[x].dat, idx[x].len)
  <2> PICK o, k, v : o = r.datoff /\ k = r.key /\ v = r.val
    OBVIOUS
  <2>1. /\ o \in Nat /\ o = Len(dat) + 1 /\ dat' = WriteAt(o, Text(k, v, n))
        /\ k \in Keys \cup {Blank} /\ v \in Vals \cup {Blank} /\ Files /\ Pieces(idx, dat)
    BY <1>0, <1>2, <1>3, <1>6
  <2>2. /\ Pieces(idx, dat') /\ Told(idx, dat') = Told(idx, dat)
        /\ Inside(dat', o, n) /\ Tells(dat', o, n, k, v)
        /\ \A x \in DOMAIN idx : Beside(o, n, idx[x].dat, idx[x].len)
    BY <1>4, <2>1, PieceAdded
  <2> QED BY <2>2
<1>8. Now' = Now
  BY <1>6, <1>7 DEF Now
<1>9. Placing(base, s, Now') /\ Len(idx) < MaxRec
  BY <1>1, <1>5, <1>8 DEF Laying, Placing, Adds
<1>10. Laid(base, s, Now', idx', dat')
  BY <1>5, <1>6, <1>7, <1>9 DEF Laid
<1>11. Simulated(base, s, Now', idx', dat')
  BY <1>5, <1>10, SimulatedBy
<1>12. s.pc \notin {"idle", "off"} /\ Small(s) /\ s.pos \in 0 .. Len(idx') + 1
  BY <1>0, <1>5, <1>6 DEF Small
<1>13. free' <= PTR_MAX /\ (\A d \in Chains : head'[d] <= PTR_MAX) /\ Pieces(idx', dat')
  BY <1>6, <1>7, BaseIs
<1>14. Carried
  BY <1>6, <1>11, <1>12, <1>13, WriteCarries
<1> QED BY <1>3, <1>6, <1>14

LEMMA AppendIdxCarries ==
  ASSUME Discipline, Offsets, Untroubled, AppendIdx(Me) PROVE Carried
<1> PICK r : r = reg[Me]
  OBVIOUS
<1>0. /\ DOMAIN r = Fields /\ Small(r) /\ Place(r) /\ Len(idx) \in Nat /\ DOMAIN idx = 1 .. Len(idx)
      /\ Within(r, Len(idx)) /\ Files /\ Pieces(idx, dat)
      /\ r.pc = "tail.idx" /\ Simulated(base, r, Now, idx, dat)
  BY Here DEF AppendIdx
<1>1. Aiming(base, r, Now, idx, dat)
  BY <1>0, SMT DEF Simulated
<1>2. r.key \in Keys /\ r.val \in Vals
  BY <1>0, SMT DEF Place
<1> PICK e : e = NewRec(r)
  OBVIOUS
<1> PICK n : n = Len(idx)
  OBVIOUS
<1>3. /\ r.idxoff = n + 1 /\ Placing(base, r, Now) /\ n < MaxRec /\ r.ptrval = r.new
      /\ r.datlen = DatLen[r.val] /\ Inside(dat, r.datoff, r.datlen)
      /\ Tells(dat, r.datoff, r.datlen, r.key, r.val)
      /\ \A x \in DOMAIN idx : Beside(r.datoff, r.datlen, idx[x].dat, idx[x].len)
  BY <1>1 DEF Aiming, Laid
<1>4. Adds(base, r) /\ Now = Ground(base, r.key) /\ r.new = Now[1][Hash[r.key]]
  BY <1>3 DEF Placing
<1>5. r.datoff \in Nat /\ r.datlen \in Nat /\ r.new \in Nat
  BY <1>0, SMT DEF Within
<1>6. /\ e \in IdxRec /\ e.dat = r.datoff /\ e.len = r.datlen
      /\ [e EXCEPT !.dat = n + 1] = [key |-> r.key, klen |-> KeyLen[r.key], ptr |-> r.new,
                                     dat |-> n + 1, len |-> DatLen[r.val]]
  <2>1. KeyLen[r.key] \in Nat
    BY <1>2
  <2>2. e = [key |-> r.key, klen |-> KeyLen[r.key], ptr |-> r.new, dat |-> r.datoff,
             len |-> r.datlen]
    BY DEF NewRec
  <2>3. e \in IdxRec
    BY <1>2, <1>5, <2>1, <2>2 DEF IdxRec
  <2> QED BY <1>3, <2>2, <2>3
<1>7. idx' = Append(idx, e)
  <2>1. r.idxoff \notin Recs
    BY <1>0, <1>3, SMT DEF Recs
  <2> QED BY <2>1 DEF AppendIdx
<1> PICK q : q = r.idxoff + 1
  OBVIOUS
<1> PICK s : s = [r EXCEPT !.pc = "tail.unlock", !.pos = q]
  OBVIOUS
<1>8. /\ s.key = r.key /\ s.val = r.val /\ s.flag = r.flag /\ s.rc = r.rc /\ s.op = r.op
      /\ s.ptrval = r.ptrval /\ s.new = r.new /\ s.save = r.save /\ s.pos = r.idxoff + 1
      /\ s.pc = "tail.unlock" /\ s.idxoff = r.idxoff
  BY <1>0, SMT
<1>9. Set(Me, s) /\ UNCHANGED <<head, free, dat>>
  BY DEF AppendIdx
<1>10. idx \in Seq(IdxRec)
  BY <1>0 DEF Files
<1>11. Numbered(idx') = Append(Numbered(idx), [e EXCEPT !.dat = n + 1])
  BY <1>6, <1>7, <1>10, NumberedAppend
<1>12. dat[r.datoff].key = r.key /\ dat[r.datoff].val = r.val
  <2>1. 1 <= r.datlen
    BY <1>3 DEF Inside
  <2> PICK o \in Nat, z \in Nat : o = r.datoff /\ z = r.datlen
    BY <1>5
  <2> PICK k, v : k = r.key /\ v = r.val
    OBVIOUS
  <2>2. Tells(dat, o, z, k, v) /\ 1 <= z
    BY <1>3, <2>1
  <2>3. dat[o].key = k /\ dat[o].val = v
    BY <2>2, TellsFirst
  <2> QED BY <2>3
<1>13. Told(idx', dat) = Append(Told(idx, dat), Pair(r.key, r.val))
  <2>1. Told(Append(idx, e), dat) = Append(Told(idx, dat), Pair(dat[e.dat].key, dat[e.dat].val))
    BY <1>10, ToldAppend
  <2> QED BY <1>6, <1>7, <1>12, <2>1
<1>14. Len(idx') = n + 1 /\ DOMAIN idx' = 1 .. n + 1 /\ idx'[n + 1] = e
       /\ \A x \in 1 .. n : idx'[x] = idx[x]
  BY <1>6, <1>7, <1>10, AppendProperties, LenProperties
<1>15. Pieces(idx', dat)
  <2>1. dat \in Seq(Cell)
    BY <1>0 DEF Pieces
  <2>2. ASSUME NEW x \in DOMAIN idx'
        PROVE  /\ Inside(dat, idx'[x].dat, idx'[x].len)
               /\ Tells(dat, idx'[x].dat, idx'[x].len, dat[idx'[x].dat].key, dat[idx'[x].dat].val)
    <3>1. CASE x \in 1 .. n
      BY <1>0, <1>14, <3>1 DEF Pieces
    <3>2. CASE x = n + 1
      BY <1>3, <1>6, <1>12, <1>14, <3>2
    <3> QED BY <1>0, <1>14, <3>1, <3>2, SMT
  <2>3. ASSUME NEW x \in DOMAIN idx', NEW y \in DOMAIN idx', x # y
        PROVE  Beside(idx'[x].dat, idx'[x].len, idx'[y].dat, idx'[y].len)
    <3>0. x \in 1 .. n \/ x = n + 1
      BY <1>0, <1>14, SMT
    <3>1. y \in 1 .. n \/ y = n + 1
      BY <1>0, <1>14, SMT
    <3>2. CASE x \in 1 .. n /\ y \in 1 .. n
      BY <1>0, <1>14, <2>3, <3>2 DEF Pieces
    <3>3. CASE x = n + 1 /\ y \in 1 .. n
      BY <1>0, <1>3, <1>6, <1>14, <3>3
    <3>4. CASE x \in 1 .. n /\ y = n + 1
      BY <1>0, <1>3, <1>6, <1>14, <3>4 DEF Beside
    <3> QED BY <2>3, <3>0, <3>1, <3>2, <3>3, <3>4
  <2> QED BY <2>1, <2>2, <2>3 DEF Pieces
<1>16. Len(base.idx) = n /\ Len(Now[3]) = n
  BY <1>0, <1>4, NowLen
<1>17. Now' = Lengthened(Now, r.key, r.val)
  <2>1. Now' = << head, free, Append(Numbered(idx), [e EXCEPT !.dat = n + 1]),
                  Append(Told(idx, dat), Pair(r.key, r.val)) >>
    BY <1>9, <1>11, <1>13 DEF Now
  <2>2. Now' = << Now[1], Now[2], Append(Now[3], [e EXCEPT !.dat = n + 1]),
                  Append(Now[4], Pair(r.key, r.val)) >>
    BY <2>1 DEF Now
  <2>3. [e EXCEPT !.dat = n + 1] = [key |-> r.key, klen |-> KeyLen[r.key],
           ptr |-> Now[1][Hash[r.key]], dat |-> Len(Now[3]) + 1, len |-> DatLen[r.val]]
    BY <1>4, <1>6, <1>16
  <2> QED BY <2>2, <2>3 DEF Lengthened
<1>18. Linked(base, s, Now')
  <2>1. Adds(base, s)
    BY <1>4, <1>8 DEF Adds
  <2>2. Now' = Lengthened(Ground(base, s.key), s.key, s.val)
        /\ s.ptrval = Ground(base, s.key)[1][Hash[s.key]]
    BY <1>3, <1>4, <1>8, <1>17
  <2>3. Len(base.idx) < MaxRec /\ s.idxoff = Len(base.idx) + 1 /\ s.pos = Len(base.idx) + 2
    BY <1>0, <1>3, <1>8, <1>16
  <2> QED BY <2>1, <2>2, <2>3 DEF Linked
<1>19. Simulated(base, s, Now', idx', dat')
  BY <1>8, <1>18, SimulatedBy
<1>20. s.pc \notin {"idle", "off"} /\ Small(s) /\ s.pos \in 0 .. Len(idx') + 1
  BY <1>0, <1>3, <1>8, <1>14, SMT DEF Small
<1>21. free' <= PTR_MAX /\ (\A d \in Chains : head'[d] <= PTR_MAX) /\ Pieces(idx', dat')
  BY <1>9, <1>15, BaseIs
<1> QED BY <1>9, <1>19, <1>20, <1>21, WriteCarries

LEMMA LinkCarries ==
  ASSUME Discipline, Offsets, Untroubled, Link(Me) PROVE Carried
<1> PICK r : r = reg[Me]
  OBVIOUS
<1>0. /\ DOMAIN r = Fields /\ Small(r) /\ r.pos \in 0 .. Len(idx) + 1 /\ Place(r)
      /\ Len(idx) \in Nat /\ Files /\ Pieces(idx, dat)
      /\ r.pc = "chain.link" /\ Simulated(base, r, Now, idx, dat)
  BY Here DEF Link
<1>1. r.op = "store"
  BY <1>0, SMT DEF Place
<1> PICK o : o = IF r.idxoff <= PTR_MAX THEN Astray ELSE r.pos
  OBVIOUS
<1> PICK s : s = [r EXCEPT !.pc = "chain.unlock", !.pos = o]
  OBVIOUS
<1>2. /\ s.key = r.key /\ s.val = r.val /\ s.flag = r.flag /\ s.rc = r.rc /\ s.op = r.op
      /\ s.ptrval = r.ptrval /\ s.new = r.new /\ s.save = r.save /\ s.pos = o
      /\ s.pc = "chain.unlock" /\ s.idxoff = r.idxoff
  BY <1>0, SMT
<1>3. /\ head' = [head EXCEPT ![Hash[r.key]] = WritePtr(@, r.idxoff)]
      /\ Set(Me, s) /\ UNCHANGED <<free, idx, dat>>
  <2>1. Set(Me, [r EXCEPT !.pc = "chain.unlock",
                   !.pos = IF r.idxoff <= PTR_MAX THEN Astray ELSE @])
    BY DEF Link
  <2>2. [r EXCEPT !.pc = "chain.unlock", !.pos = IF r.idxoff <= PTR_MAX THEN Astray ELSE @] = s
    BY <1>0
  <2> QED BY <2>1, <2>2 DEF Link, Chain
<1>4. Now' = Headed(Now, r.key, r.idxoff)
  <2>1. Now' = <<head', free, Numbered(idx), Told(idx, dat)>>
    BY <1>3 DEF Now
  <2> QED BY <1>3, <2>1 DEF Headed, Now
<1>5. ASSUME Linked(base, r, Now) PROVE Simulated(base, s, Now', idx', dat')
  <2>1. Added(base, s, Now')
    <3>1. Adds(base, s)
      BY <1>2, <1>5 DEF Linked, Adds
    <3>2. Now' = Headed(Lengthened(Ground(base, s.key), s.key, s.val), s.key, Len(base.idx) + 1)
      BY <1>2, <1>4, <1>5 DEF Linked
    <3>3. s.pos = IF Len(base.idx) + 1 <= PTR_MAX THEN Astray ELSE Len(base.idx) + 2
      BY <1>2, <1>5 DEF Linked
    <3> QED BY <1>1, <1>2, <1>5, <3>1, <3>2, <3>3 DEF Linked, Added
  <2> QED BY <1>2, <2>1, Unlocks
<1>6. ASSUME Heading(base, r, Now) PROVE Simulated(base, s, Now', idx', dat')
  <2>1. Reused(base, s, Now')
    <3>1. s.pos = Astray
      BY <1>2, <1>6, SpareFits DEF Heading
    <3>2. Now' = Headed(Renamed(base, s.key, s.val), s.key, Spare(base, s.key, s.val))
      BY <1>2, <1>4, <1>6 DEF Heading
    <3> QED BY <1>1, <1>2, <1>6, <3>1, <3>2 DEF Heading, Reused
  <2> QED BY <1>2, <2>1, Unlocks
<1>7. Simulated(base, s, Now', idx', dat')
  <2>1. Linked(base, r, Now) \/ Heading(base, r, Now)
    BY <1>0, SMT DEF Simulated
  <2> QED BY <1>5, <1>6, <2>1
<1>8. s.pc \notin {"idle", "off"} /\ Small(s) /\ s.pos \in 0 .. Len(idx') + 1
  BY <1>0, <1>2, <1>3, SMT DEF Small, Astray
<1>9. free' <= PTR_MAX /\ (\A d \in Chains : head'[d] <= PTR_MAX) /\ Pieces(idx', dat')
  BY <1>0, <1>3, HeadFits DEF Untroubled, Fitting
<1> QED BY <1>3, <1>7, <1>8, <1>9, WriteCarries
-----------------------------------------------------------------------------
(* What ApueDb is told of the files and the handle *)

LEMMA SnapshotIs ==
  /\ Was(Snapshot) = Now /\ Snapshot.ptrval = reg[Me].ptrval /\ Snapshot.pos = reg[Me].pos
  /\ Snapshot.head = head /\ Snapshot.free = free
  /\ Snapshot.idx = Numbered(idx) /\ Snapshot.dat = Told(idx, dat)
  /\ Snapshot.phase = IF reg[Me].pc = "off" THEN "closed" ELSE "open"
<1>1. Snapshot.idx = Numbered(idx)
  BY DEF Snapshot, Numbered, Recs
<1>2. Snapshot.dat = Told(idx, dat)
  BY DEF Snapshot, Told, Pair, Datum, Recs
<1>3. /\ Snapshot.ptrval = reg[Me].ptrval /\ Snapshot.pos = reg[Me].pos
      /\ Snapshot.head = head /\ Snapshot.free = free
      /\ Snapshot.phase = IF reg[Me].pc = "off" THEN "closed" ELSE "open"
  BY DEF Snapshot
<1> QED BY <1>1, <1>2, <1>3 DEF Was, Now

LEMMA OpenedIs ==
  /\ Was(Opened) = Now /\ Opened.ptrval = reg[Me].ptrval /\ Opened.pos = 1
  /\ Opened.head = head /\ Opened.free = free
  /\ Opened.idx = Numbered(idx) /\ Opened.dat = Told(idx, dat) /\ Opened.phase = "open"
<1>1. /\ Opened.head = Snapshot.head /\ Opened.free = Snapshot.free
      /\ Opened.idx = Snapshot.idx /\ Opened.dat = Snapshot.dat
      /\ Opened.ptrval = Snapshot.ptrval /\ Opened.pos = 1 /\ Opened.phase = "open"
  BY DEF Opened, Snapshot
<1> QED BY <1>1, SnapshotIs DEF Was

LEMMA SaneIs ==
  Files /\ Within(reg[Me], Len(idx)) /\ Fitting /\ Seated /\ Pieces(idx, dat)
    => Sane(Snapshot) /\ Sane(Opened)
<1> SUFFICES ASSUME Files, Within(reg[Me], Len(idx)), Fitting, Seated, Pieces(idx, dat)
             PROVE  Sane(Snapshot) /\ Sane(Opened)
  OBVIOUS
<1>0. Len(idx) \in Nat /\ idx \in Seq(IdxRec) /\ DOMAIN idx = 1 .. Len(idx)
  BY LenNat DEF Files
<1>1. /\ Numbered(idx) \in Seq(IdxRec) /\ Len(Numbered(idx)) = Len(idx)
      /\ DOMAIN Numbered(idx) = 1 .. Len(idx) /\ \A x \in 1 .. Len(idx) : Numbered(idx)[x].dat = x
  BY <1>0, NumberedIs
<1>2. Told(idx, dat) \in Seq(Datums) /\ Len(Told(idx, dat)) = Len(idx)
  BY ToldIs
<1>3. /\ reg[Me].ptrval \in 0 .. Len(idx) /\ reg[Me].ptrval <= PTR_MAX
      /\ reg[Me].pos \in 0 .. Len(idx) + 1
  BY DEF Within, Fitting, Small, Seated
<1>4. /\ head \in [Chains -> 0 .. Len(idx)] /\ \A c \in Chains : head[c] <= PTR_MAX
      /\ free \in 0 .. Len(idx) /\ free <= PTR_MAX
  BY DEF Files, Fitting
<1>5. 1 \in 0 .. Len(idx) + 1
  BY <1>0, SMT
<1>6. ASSUME NEW b, b.head = head, b.free = free, b.idx = Numbered(idx), b.dat = Told(idx, dat),
             b.ptrval = reg[Me].ptrval, b.pos = reg[Me].pos \/ b.pos = 1
      PROVE  Sane(b)
  <2>1. Len(b.idx) = Len(idx) /\ Len(b.dat) = Len(idx)
    BY <1>1, <1>2, <1>6
  <2>2. \A x \in DOMAIN b.idx : b.idx[x].dat = x
    BY <1>1, <1>6
  <2>3. b.pos \in 0 .. Len(b.idx) + 1
    BY <1>3, <1>5, <1>6, <2>1
  <2>4. b.idx \in Seq(IdxRec) /\ b.dat \in Seq(Datums)
    BY <1>1, <1>2, <1>6
  <2>5. /\ b.head \in [Chains -> 0 .. Len(b.idx)] /\ \A c \in Chains : b.head[c] <= PTR_MAX
        /\ b.free \in 0 .. Len(b.idx) /\ b.free <= PTR_MAX
    BY <1>4, <1>6, <2>1
  <2>6. b.ptrval \in 0 .. Len(b.idx) /\ b.ptrval <= PTR_MAX
    BY <1>3, <1>6, <2>1
  <2> QED BY <2>1, <2>2, <2>3, <2>4, <2>5, <2>6 DEF Sane
<1>7. Sane(Snapshot)
  BY <1>6, SnapshotIs
<1>8. Sane(Opened)
  BY <1>6, OpenedIs
<1> QED BY <1>7, <1>8
-----------------------------------------------------------------------------
(* A call begins. *)

LEMMA AtIs ==
  ASSUME NEW c, NEW q, NEW o
  PROVE  LET r == At(c, q, o)
         IN /\ DOMAIN r = Fields /\ r.pc = c /\ r.ptrval = q /\ r.pos = o /\ r.op = "none"
            /\ r.key = Blank /\ r.val = Blank /\ r.rc = 0 /\ r.from = None
            /\ r.new = None /\ r.save = None
BY SMT DEF At

LEMMA IdleIs ==
  ASSUME Untroubled, reg[Me].pc = "idle"
  PROVE  /\ base = Snapshot /\ DOMAIN reg[Me] = Fields /\ reg[Me].op = "none"
         /\ reg[Me].val = Blank /\ reg[Me].rc = 0 /\ reg[Me].from = None
         /\ Plain(base, reg[Me], Now) /\ base.pos = reg[Me].pos /\ base.phase = "open"
         /\ Small(reg[Me]) /\ reg[Me].pos \in 0 .. Len(idx) + 1
<1>1. base = Snapshot /\ reg[Me] = At("idle", reg[Me].ptrval, reg[Me].pos)
  BY DEF Untroubled, Outdoors
<1> PICK r : r = At("idle", reg[Me].ptrval, reg[Me].pos)
  OBVIOUS
<1>2. DOMAIN r = Fields /\ r.op = "none" /\ r.val = Blank /\ r.rc = 0 /\ r.from = None
  BY AtIs
<1>3. Plain(base, reg[Me], Now) /\ base.pos = reg[Me].pos /\ base.phase = "open"
  BY <1>1, SnapshotIs DEF Plain
<1>4. Small(reg[Me]) /\ reg[Me].pos \in 0 .. Len(idx) + 1
  BY DEF Untroubled, Fitting, Seated
<1> QED BY <1>1, <1>2, <1>3, <1>4

LEMMA CallCarries ==
  ASSUME Discipline, Offsets, Untroubled, NEW op, NEW k, NEW v, NEW flag,
         op # "store" => v = Blank, Call(Me, op, k, v, flag)
  PROVE  Carried
<1> PICK r : r = reg[Me]
  OBVIOUS
<1>0. r.pc = "idle" /\ UNCHANGED file
  BY DEF Call
<1>1. /\ DOMAIN r = Fields /\ r.rc = 0 /\ r.from = None /\ Plain(base, r, Now) /\ Small(r)
      /\ r.pos \in 0 .. Len(idx) + 1
  BY <1>0, IdleIs
<1> PICK s : s = [r EXCEPT !.pc = "chain.lock", !.op = op, !.key = k, !.val = v, !.flag = flag]
  OBVIOUS
<1>2. /\ s.pc = "chain.lock" /\ s.op = op /\ s.val = v /\ s.rc = r.rc /\ s.from = r.from
      /\ s.ptrval = r.ptrval /\ s.pos = r.pos /\ s.new = r.new /\ s.save = r.save
  BY <1>1, SMT
<1>3. Looking(base, s, Now)
  BY <1>1, <1>2 DEF Looking, Plain, Fresh
<1>4. Simulated(base, s, Now, idx, dat)
  BY <1>2, <1>3, SimulatedBy
<1>5. reg'[Me] = s
  <2>1. Set(Me, s)
    BY DEF Call
  <2> QED BY <2>1, SetIs
<1>6. Small(s) /\ s.pos \in 0 .. Len(idx) + 1
  BY <1>1, <1>2 DEF Small
<1>7. s.pc \notin {"idle", "off"}
  BY <1>2
<1> QED BY <1>0, <1>4, <1>5, <1>6, <1>7, QuietCarries

LEMMA CallNextCarries ==
  ASSUME Discipline, Offsets, Untroubled, CallNext(Me) PROVE Carried
<1> PICK r : r = reg[Me]
  OBVIOUS
<1>0. r.pc = "idle" /\ r.pos # Astray /\ UNCHANGED file
  BY DEF CallNext
<1>1. /\ DOMAIN r = Fields /\ r.rc = 0 /\ r.val = Blank /\ Plain(base, r, Now) /\ Small(r)
      /\ r.pos \in 0 .. Len(idx) + 1 /\ base.pos = r.pos
  BY <1>0, IdleIs
<1>2. Len(idx) \in Nat /\ DOMAIN base.idx = 1 .. Len(base.idx) /\ Len(base.idx) \in Nat
  BY Here, BaseIs
<1> PICK s : s = [r EXCEPT !.pc = "scan.lock", !.op = "next"]
  OBVIOUS
<1>3. /\ s.pc = "scan.lock" /\ s.val = r.val /\ s.rc = r.rc
      /\ s.ptrval = r.ptrval /\ s.pos = r.pos /\ s.new = r.new /\ s.save = r.save
  BY <1>1, SMT
<1>4. Passing(base, s, Now)
  <2>1. Plain(base, s, Now) /\ base.pos # Astray /\ s.val = Blank
    BY <1>0, <1>1, <1>3 DEF Plain
  <2>2. base.pos = s.pos /\ base.pos \in Nat
    BY <1>1, <1>2, <1>3, SMT
  <2>3. base.pos <= s.pos /\ \A x \in DOMAIN base.idx : ~(base.pos <= x /\ x < s.pos)
    BY <1>2, <2>2, SMT
  <2> QED BY <2>1, <2>3 DEF Passing
<1>5. Simulated(base, s, Now, idx, dat)
  BY <1>1, <1>3, <1>4, SimulatedBy
<1>6. reg'[Me] = s
  <2>1. Set(Me, s)
    BY DEF CallNext
  <2> QED BY <2>1, SetIs
<1>7. Small(s) /\ s.pos \in 0 .. Len(idx) + 1
  BY <1>1, <1>3 DEF Small
<1>8. s.pc \notin {"idle", "off"}
  BY <1>3
<1> QED BY <1>0, <1>5, <1>6, <1>7, <1>8, QuietCarries
-----------------------------------------------------------------------------
(* All steps of the process *)

LEMMA NotRefused == ASSUME Alone PROVE ~Refuse(Me)
<1>1. InTheWay(Me) = {}
  <2> SUFFICES ASSUME NEW m \in locks, m[1] # Me PROVE FALSE
    BY DEF InTheWay
  <2> QED BY DEF Alone
<1>2. ~Deadlocked(Me)
  BY <1>1 DEF Deadlocked
<1> QED BY <1>2 DEF Refuse

LEMMA AloneKeeps ==
  ASSUME Discipline, Alone, Begin(Me) \/ Step(Me) \/ Crash(Me) PROVE Alone'
<1> PICK p \in Procs : p = Me
  BY MeIs
<1>1. ASSUME Moves(p) PROVE Alone'
  BY <1>1 DEF Moves, Alone
<1>2. ASSUME NEW what, Drops(p, what) PROVE Alone'
  BY <1>2 DEF Drops, Release, Alone
<1>3. ASSUME Acquire(p) PROVE Alone'
  <2>1. locks' = locks \cup {<<p, Wanted(p)[1], Wanted(p)[2]>>}
    BY <1>3 DEF Acquire
  <2>2. ASSUME NEW l \in locks' PROVE l[1] = p
    BY <2>1, <2>2 DEF Alone
  <2> QED BY <2>2 DEF Alone
<1>4. ASSUME Close(p) \/ Crash(p) PROVE Alone'
  <2>1. locks' \subseteq locks
    BY <1>4 DEF Close, Crash
  <2> QED BY <2>1 DEF Alone
<1>5. ASSUME NEW op, NEW k, NEW v, NEW flag, Call(p, op, k, v, flag) PROVE Alone'
  BY <1>5 DEF Call, Alone
<1>6. CASE Begin(p)
  BY <1>1, <1>4, <1>5, <1>6, CallsMove, Zenon DEF Begin
<1>7. CASE Step(p)
  BY <1>1, <1>2, <1>3, <1>7, CallsMove, StepsMove, StepsDrop, Zenon DEF Step
<1> QED BY <1>4, <1>6, <1>7

(* where a call ends, and what is none *)
Leaves == Open(Me) \/ Close(Me) \/ Rewind(Me) \/ Return(Me) \/ ScanReturn(Me)

LEMMA StepInCall == ASSUME Step(Me) PROVE reg[Me].pc \notin {"off", "idle"}
<1>1. Acquire(Me) \/ Refuse(Me) => reg[Me].pc \notin {"off", "idle"}
  BY DEF Acquire, Refuse, Requests, Granted
<1>2. \/ ReadHead(Me) \/ Walk(Me) \/ ReadDat(Me) \/ Return(Me)
      \/ Reread(Me) \/ ReadFree(Me) \/ WalkFree(Me) \/ Unlink(Me) \/ UnlockFree(Me)
      => reg[Me].pc \notin {"off", "idle"}
  BY DEF ReadHead, Walk, ReadDat, Return, Reread, ReadFree, WalkFree, Unlink, UnlockFree
<1>3. \/ WriteDat(Me) \/ WriteIdx(Me) \/ SeekDat(Me) \/ AppendDat(Me) \/ UnlockDat(Me)
      \/ SeekIdx(Me) \/ AppendIdx(Me) \/ UnlockTail(Me) \/ Link(Me)
      => reg[Me].pc \notin {"off", "idle"}
  BY DEF WriteDat, WriteIdx, SeekDat, AppendDat, UnlockDat, SeekIdx, AppendIdx, UnlockTail, Link
<1>4. \/ DelFree(Me) \/ DelIdx(Me) \/ DelHead(Me) \/ DelLink(Me) \/ DelUnlock(Me)
      \/ ScanIdx(Me) \/ ScanDat(Me) \/ ScanReturn(Me)
      => reg[Me].pc \notin {"off", "idle"}
  BY DEF DelFree, DelIdx, DelHead, DelLink, DelUnlock, ScanIdx, ScanDat, ScanReturn
<1> QED BY <1>1, <1>2, <1>3, <1>4, Zenon DEF Step

LEMMA BeginNotIn == ASSUME Begin(Me) PROVE reg[Me].pc \in {"off", "idle"}
<1>1. Open(Me) \/ Close(Me) \/ Rewind(Me) \/ CallNext(Me) => reg[Me].pc \in {"off", "idle"}
  BY DEF Open, Close, Rewind, CallNext
<1>2. ASSUME NEW op, NEW k, NEW v, NEW flag, Call(Me, op, k, v, flag)
      PROVE  reg[Me].pc \in {"off", "idle"}
  BY <1>2 DEF Call
<1> QED BY <1>1, <1>2, Zenon DEF Begin

LEMMA EventsStay ==
  ASSUME Begin(Me) \/ Step(Me), ~AppendDat(Me), ~Refuse(Me) PROVE events' = events
<1>1. CASE Begin(Me)
  BY <1>1, Zenon DEF Begin, Open, Close, Rewind, CallNext, Call
<1>2. CASE Step(Me)
  <2>1. \/ Acquire(Me) \/ ReadHead(Me) \/ Walk(Me) \/ ReadDat(Me) \/ Return(Me)
        \/ Reread(Me) \/ ReadFree(Me) \/ WalkFree(Me) \/ Unlink(Me) \/ UnlockFree(Me)
        => events' = events
    BY Zenon DEF Acquire, ReadHead, Walk, ReadDat, Return, Reread, ReadFree, WalkFree, Unlink,
         UnlockFree
  <2>2. \/ WriteDat(Me) \/ WriteIdx(Me) \/ SeekDat(Me) \/ UnlockDat(Me)
        \/ SeekIdx(Me) \/ AppendIdx(Me) \/ UnlockTail(Me) \/ Link(Me)
        => events' = events
    BY Zenon DEF WriteDat, WriteIdx, SeekDat, UnlockDat, SeekIdx, AppendIdx, UnlockTail, Link
  <2>3. \/ DelFree(Me) \/ DelIdx(Me) \/ DelHead(Me) \/ DelLink(Me) \/ DelUnlock(Me)
        \/ ScanIdx(Me) \/ ScanDat(Me) \/ ScanReturn(Me)
        => events' = events
    BY Zenon DEF DelFree, DelIdx, DelHead, DelLink, DelUnlock, ScanIdx, ScanDat, ScanReturn
  <2> QED BY <1>2, <2>1, <2>2, <2>3, Zenon DEF Step
<1> QED BY <1>1, <1>2

LEMMA StepCarries ==
  ASSUME Discipline, Offsets, Untroubled, Begin(Me) \/ Step(Me), ~Leaves
  PROVE  Carried /\ events' = events
<1>1. ~Refuse(Me)
  BY NotRefused DEF Untroubled
<1>2. CASE Begin(Me)
  <2>1. ASSUME CallNext(Me) PROVE Carried
    BY <2>1, CallNextCarries
  <2>2. ASSUME NEW k \in Keys,
               Call(Me, "fetch", k, Blank, "none") \/ Call(Me, "delete", k, Blank, "none")
        PROVE  Carried
    <3>1. CASE Call(Me, "fetch", k, Blank, "none")
      BY <3>1, CallCarries
    <3>2. CASE Call(Me, "delete", k, Blank, "none")
      BY <3>2, CallCarries
    <3> QED BY <2>2, <3>1, <3>2
  <2>3. ASSUME NEW k \in Keys, NEW v \in Vals, NEW flag \in StoreFlags,
               Call(Me, "store", k, v, flag)
        PROVE  Carried
    BY <2>3, CallCarries
  <2>4. Carried
    BY <1>2, <2>1, <2>2, <2>3, Zenon DEF Begin, Leaves
  <2>5. ~AppendDat(Me)
    <3>1. reg[Me].pc \in {"off", "idle"}
      BY <1>2, BeginNotIn
    <3> QED BY <3>1 DEF AppendDat
  <2> QED BY <1>1, <2>4, <2>5, EventsStay
<1>3. CASE Step(Me)
  <2>1. Carried
    BY <1>1, <1>3, AcquireCarries, ReadHeadCarries, WalkCarries, ReadDatCarries, RereadCarries,
       ReadFreeCarries, WalkFreeCarries, UnlinkCarries, UnlockFreeCarries, WriteDatCarries,
       WriteIdxCarries, SeekDatCarries, AppendDatCarries, UnlockCarries, SeekIdxCarries,
       AppendIdxCarries, LinkCarries, DelFreeCarries, DelIdxCarries, DelHeadCarries,
       DelLinkCarries, DelUnlockCarries, ScanIdxCarries, ScanDatCarries, Zenon DEF Step, Leaves
  <2>2. events' = events
    BY <1>1, <1>3, AppendDatCarries, EventsStay
  <2> QED BY <2>1, <2>2
<1> QED BY <1>2, <1>3

LEMMA CarriedStays ==
  ASSUME Discipline, Untroubled, Carried, Begin(Me) \/ Step(Me), ~Leaves, base' = base
  PROVE  Untroubled'
<1>1. Alone'
  BY AloneKeeps DEF Untroubled
<1>2. reg[Me].pc # "off"
  <2>1. CASE Begin(Me)
    <3>1. CallNext(Me) \/ \E op, k, v, flag : Call(Me, op, k, v, flag)
      BY <2>1, Zenon DEF Begin, Leaves
    <3>2. CallNext(Me) => reg[Me].pc = "idle"
      BY DEF CallNext
    <3>3. ASSUME NEW op, NEW k, NEW v, NEW flag, Call(Me, op, k, v, flag) PROVE reg[Me].pc = "idle"
      BY <3>3 DEF Call
    <3>4. reg[Me].pc = "idle"
      BY <3>1, <3>2, <3>3
    <3> QED BY <3>4
  <2>2. CASE Step(Me)
    BY <2>2, StepInCall
  <2> QED BY <2>1, <2>2
<1>3. Outdoors' /\ (reg'[Me].pc # "off" => base'.phase = "open")
  BY <1>2 DEF Carried, Outdoors, Untroubled
<1>4. Sane(base')
  BY DEF Untroubled
<1> QED BY <1>1, <1>3, <1>4 DEF Carried, Untroubled
-----------------------------------------------------------------------------
(* A call ends. *)

LEMMA SaneThen ==
  (Files /\ Within(reg[Me], Len(idx)) /\ Fitting /\ Seated /\ Pieces(idx, dat)
    => Sane(Snapshot) /\ Sane(Opened))'
BY SaneIs, PTL

LEMMA SnapshotThen ==
  (/\ Was(Snapshot) = Now /\ Snapshot.ptrval = reg[Me].ptrval /\ Snapshot.pos = reg[Me].pos
   /\ Snapshot.head = head /\ Snapshot.free = free
   /\ Snapshot.idx = Numbered(idx) /\ Snapshot.dat = Told(idx, dat)
   /\ Snapshot.phase = IF reg[Me].pc = "off" THEN "closed" ELSE "open")'
BY SnapshotIs, PTL

LEMMA LeavesAt ==
  ASSUME Discipline, Untroubled, Leaves
  PROVE  /\ UNCHANGED <<file, events>>
         /\ reg[Me].pc = "off" =>
              Open(Me) /\ reg[Me] = At("off", None, Astray) /\ reg'[Me] = At("idle", None, 1)
         /\ Close(Me) => reg[Me].pc = "idle" /\ reg'[Me] = At("off", None, Astray)
         /\ Rewind(Me) => reg[Me].pc = "idle" /\ reg'[Me] = At("idle", reg[Me].ptrval, 1)
         /\ Return(Me) \/ ScanReturn(Me) => reg'[Me] = At("idle", reg[Me].ptrval, reg[Me].pos)
<1> PICK r : r = reg[Me]
  OBVIOUS
<1>0. Me \in Scanners
  BY MeIs
<1>1. UNCHANGED <<file, events>>
  BY DEF Leaves, Open, Close, Rewind, Return, ScanReturn
<1>2. ASSUME r.pc = "off"
      PROVE  Open(Me) /\ reg[Me] = At("off", None, Astray) /\ reg'[Me] = At("idle", None, 1)
  <2>1. r = At("off", None, Astray)
    BY <1>2 DEF Untroubled, Outdoors
  <2>2. Open(Me)
    BY <1>2 DEF Leaves, Close, Rewind, Return, ScanReturn
  <2>3. Set(Me, Outside(Me, [r EXCEPT !.pos = 1]))
    BY <2>2 DEF Open
  <2>4. Outside(Me, [r EXCEPT !.pos = 1]) = At("idle", None, 1)
    <3>1. DOMAIN r = Fields /\ r.ptrval = None
      BY <2>1, AtIs
    <3> PICK s : s = [r EXCEPT !.pos = 1]
      OBVIOUS
    <3>2. s.ptrval = None /\ s.pos = 1
      BY <3>1
    <3> QED BY <1>0, <3>2 DEF Outside
  <2> QED BY <2>1, <2>2, <2>3, <2>4, SetIs
<1>3. ASSUME Close(Me) PROVE reg[Me].pc = "idle" /\ reg'[Me] = At("off", None, Astray)
  <2>1. reg[Me].pc = "idle" /\ Set(Me, At("off", None, Astray))
    BY <1>3 DEF Close
  <2> QED BY <2>1, SetIs
<1>4. ASSUME Rewind(Me) PROVE reg[Me].pc = "idle" /\ reg'[Me] = At("idle", r.ptrval, 1)
  <2>1. r.pc = "idle" /\ Set(Me, [r EXCEPT !.pos = 1])
    BY <1>4 DEF Rewind
  <2>2. r = At("idle", r.ptrval, r.pos)
    BY <2>1 DEF Untroubled, Outdoors
  <2>3. [r EXCEPT !.pos = 1] = At("idle", r.ptrval, 1)
    <3> PICK q, o : q = r.ptrval /\ o = r.pos
      OBVIOUS
    <3>1. [At("idle", q, o) EXCEPT !.pos = 1] = At("idle", q, 1)
      BY DEF At
    <3> QED BY <2>2, <3>1
  <2> QED BY <2>1, <2>3, SetIs
<1>5. ASSUME Return(Me) \/ ScanReturn(Me) PROVE reg'[Me] = At("idle", r.ptrval, r.pos)
  <2>1. Set(Me, Outside(Me, r))
    BY <1>5 DEF Return, ScanReturn
  <2>2. Outside(Me, r) = At("idle", r.ptrval, r.pos)
    BY <1>0 DEF Outside
  <2> QED BY <2>1, <2>2, SetIs
<1> QED BY <1>1, <1>2, <1>3, <1>4, <1>5

LEMMA Rested ==
  ASSUME Untroubled, Offsets', Alone', UNCHANGED file, base' = Snapshot',
         NEW c \in {"idle", "off"}, NEW q, NEW o, reg'[Me] = At(c, q, o),
         q <= PTR_MAX, o \in 0 .. Len(idx) + 1, c = "off" => q = None /\ o = Astray
  PROVE  Untroubled'
<1> PICK s : s = At(c, q, o)
  OBVIOUS
<1>1. s = reg'[Me] /\ s.pc = c /\ s.ptrval = q /\ s.pos = o /\ s.new = None /\ s.save = None
  BY AtIs
<1>2. head' = head /\ free' = free /\ idx' = idx /\ dat' = dat
  BY DEF file
<1>3. Fitting' /\ Seated' /\ Pieces(idx, dat)'
  <2>1. Small(s)
    BY <1>1 DEF Small, None
  <2>2. Fitting'
    BY <1>1, <1>2, <2>1 DEF Untroubled, Fitting
  <2>3. Seated' /\ Pieces(idx, dat)'
    BY <1>1, <1>2 DEF Untroubled, Seated
  <2> QED BY <2>2, <2>3
<1>4. Sane(base')
  <2>1. Files' /\ Within(reg[Me], Len(idx))'
    BY MeIs DEF Offsets
  <2> QED BY <1>3, <2>1, SaneThen
<1>5. Outdoors'
  <2>1. c = "idle" => s = At("idle", s.ptrval, s.pos)
    BY <1>1
  <2>2. c = "off" => s = At("off", None, Astray)
    BY <1>1
  <2> QED BY <1>1, <2>1, <2>2 DEF Outdoors
<1>6. reg'[Me].pc # "off" => base'.phase = "open"
  BY SnapshotThen
<1>7. Simulated(base', s, Now', idx', dat')
  BY <1>1, SMT DEF Simulated
<1> QED BY <1>1, <1>3, <1>4, <1>5, <1>6, <1>7 DEF Untroubled

LEMMA LeavesStay ==
  ASSUME Discipline, Offsets, Offsets', Untroubled, Leaves, base' = Snapshot'
  PROVE  Untroubled'
<1>1. UNCHANGED file
  BY LeavesAt
<1>2. Alone'
  <2>1. Begin(Me) \/ Step(Me)
    BY Zenon DEF Leaves, Begin, Step
  <2> QED BY <2>1, AloneKeeps DEF Untroubled
<1>3. /\ Small(reg[Me]) /\ reg[Me].pos \in 0 .. Len(idx) + 1 /\ Len(idx) \in Nat
  BY Here
<1>4. /\ None <= PTR_MAX /\ Astray \in 0 .. Len(idx) + 1 /\ 1 \in 0 .. Len(idx) + 1
      /\ reg[Me].ptrval <= PTR_MAX
  BY <1>3, SMT DEF None, Astray, Small
<1>5. CASE Open(Me)
  <2>1. reg'[Me] = At("idle", None, 1)
    BY <1>5, LeavesAt DEF Open
  <2> QED BY <1>1, <1>2, <1>4, <2>1, Rested
<1>6. CASE Close(Me)
  <2>1. reg'[Me] = At("off", None, Astray)
    BY <1>6, LeavesAt
  <2> QED BY <1>1, <1>2, <1>4, <2>1, Rested
<1>7. CASE Rewind(Me)
  <2>1. reg'[Me] = At("idle", reg[Me].ptrval, 1)
    BY <1>7, LeavesAt
  <2> QED BY <1>1, <1>2, <1>4, <2>1, Rested
<1>8. CASE Return(Me) \/ ScanReturn(Me)
  <2>1. reg'[Me] = At("idle", reg[Me].ptrval, reg[Me].pos)
    BY <1>8, LeavesAt
  <2> QED BY <1>1, <1>2, <1>3, <1>4, <2>1, Rested
<1> QED BY <1>5, <1>6, <1>7, <1>8 DEF Leaves

LEMMA NextFollows ==
  ASSUME Discipline, Offsets, Offsets', Follows, [CallsNext]_<<vars, base, out>>
  PROVE  Follows'
<1> SUFFICES ASSUME events' = {} PROVE Untroubled'
  BY DEF Follows
<1>1. CASE UNCHANGED <<vars, base, out>>
  <2>1. /\ head' = head /\ free' = free /\ idx' = idx /\ dat' = dat /\ reg' = reg
        /\ locks' = locks /\ events' = events /\ base' = base /\ out' = out
    BY <1>1 DEF vars, file
  <2>2. Untroubled
    BY <2>1 DEF Follows
  <2>3. Snapshot' = Snapshot /\ Opened' = Opened /\ Now' = Now
    BY <2>1 DEF Snapshot, Opened, Now, Datum, Recs
  <2>4. Alone' /\ Fitting' /\ Seated' /\ Outdoors'
    BY <2>1, <2>2, <2>3 DEF Untroubled, Alone, Fitting, Seated, Outdoors
  <2> QED BY <2>1, <2>2, <2>3, <2>4 DEF Untroubled
<1>2. CASE Crash(Me)
  BY <1>2 DEF Crash
<1>3. CASE (Begin(Me) \/ Step(Me)) /\ Follow
  <2>1. events = {}
    <3>1. ~AppendDat(Me) /\ ~Refuse(Me) => events = {}
      BY <1>3, EventsStay
    <3>2. AppendDat(Me) \/ Refuse(Me) => events = {}
      BY DEF AppendDat, Refuse
    <3> QED BY <3>1, <3>2
  <2>2. Untroubled
    BY <2>1 DEF Follows
  <2>3. CASE Leaves
    <3>1. reg'[Me].pc \in {"idle", "off"}
      BY <2>2, <2>3, LeavesAt, AtIs DEF Leaves, Open
    <3>2. base' = Snapshot'
      BY <1>3, <2>1, <3>1 DEF Follow
    <3> QED BY <2>2, <2>3, <3>2, LeavesStay
  <2>4. CASE ~Leaves
    <3>1. Carried
      BY <1>3, <2>2, <2>4, StepCarries
    <3>2. base' = base
      BY <1>3, <3>1 DEF Carried, Follow
    <3> QED BY <1>3, <2>2, <2>4, <3>1, <3>2, CarriedStays
  <2> QED BY <2>3, <2>4
<1> QED BY <1>1, <1>2, <1>3 DEF CallsNext
-----------------------------------------------------------------------------
LEMMA InitFollows == CallsInit => Follows
<1> SUFFICES ASSUME CallsInit PROVE Untroubled
  BY DEF Follows
<1>1. /\ Files /\ idx = <<>> /\ dat = <<>> /\ head = [c \in Chains |-> None] /\ free = None
      /\ locks = {} /\ reg[Me] = At("off", None, Astray)
  <2>1. Init
    BY DEF CallsInit
  <2>2. Files
    BY <2>1, InitOffsets DEF Offsets
  <2>3. reg = [p \in Procs |-> At("off", None, Astray)]
    BY <2>1 DEF Init
  <2>4. reg[Me] = At("off", None, Astray)
    BY <2>3, MeIs
  <2> QED BY <2>1, <2>2, <2>4 DEF Init
<1> PICK r : r = At("off", None, Astray)
  OBVIOUS
<1>2. r.pc = "off" /\ r.ptrval = None /\ r.pos = Astray /\ r.new = None /\ r.save = None
  BY AtIs
<1>3. DOMAIN idx = {} /\ Len(idx) = 0 /\ dat \in Seq(Cell)
  BY <1>1, SMT
<1>4. Pieces(idx, dat)
  BY <1>3 DEF Pieces
<1>5. Fitting /\ Seated /\ Alone
  <2>1. Small(reg[Me])
    BY <1>1, <1>2, SMT DEF Small, None
  <2>2. \A c \in Chains : head[c] = None
    BY <1>1
  <2>3. free <= PTR_MAX /\ None <= PTR_MAX
    BY <1>1, SMT DEF None
  <2>4. Seated
    BY <1>1, <1>2, <1>3, SMT DEF Seated, Astray
  <2> QED BY <1>1, <2>1, <2>2, <2>3, <2>4 DEF Fitting, Alone
<1>6. base = Opened /\ out = Answer("open", Blank, Blank, 0)
  BY DEF CallsInit, Opened
<1>7. Sane(base)
  <2>1. Within(reg[Me], Len(idx))
    <3>1. Init
      BY DEF CallsInit
    <3> QED BY <3>1, InitOffsets, MeIs DEF Offsets
  <2> QED BY <1>1, <1>4, <1>5, <1>6, <2>1, SaneIs
<1>8. Outdoors
  BY <1>1, <1>2, <1>6 DEF Outdoors
<1>9. Simulated(base, r, Now, idx, dat)
  BY <1>2, SMT DEF Simulated
<1> QED BY <1>1, <1>2, <1>4, <1>5, <1>7, <1>8, <1>9 DEF Untroubled

LEMMA CallsAreSteps == CallsSpec => Spec
<1>1. CallsInit => Init
  BY DEF CallsInit
<1>2. [CallsNext]_<<vars, base, out>> => [Next]_vars
  BY MeIs DEF CallsNext, Next
<1> QED BY <1>1, <1>2, PTL DEF CallsSpec, Spec

(* As long as the process is not killed, the files are, at every point of  *)
(* every call, what the writes made so far of the one step that ApueDb     *)
(* takes for that call make of the store in which the call began.          *)
THEOREM CallsFollow == CallsSpec => []Follows
<1>1. Discipline /\ Offsets /\ Offsets' /\ Follows /\ [CallsNext]_<<vars, base, out>> => Follows'
  BY NextFollows
<1> QED BY <1>1, InitFollows, CallsAreSteps, LockDiscipline, OffsetsInFiles, PTL DEF CallsSpec
-----------------------------------------------------------------------------
(* The operators of ApueDb, applied to base *)

Hung == events = {} /\ Spinning(reg[Me])
Phase == IF Hung THEN "spinning" ELSE base.phase

LEMMA CallsAre ==
  /\ \A k : Calls!First(k) = Top(base, k) /\ Calls!Holding(k) = Held(base, k)
  /\ \A k : Calls!Present(k) <=> Has(base, k)
  /\ \A k : Calls!Rec(k) = Its(base, k)
  /\ \A k : Calls!PosAfterFind(k) = Seat(base, k)
  /\ \A k, v : Calls!Fitting(k, v) = Sized(base, k, v)
  /\ \A h, W : Calls!Spins(h, W) <=> Spin(base, h, W)
  /\ \A h, W : Calls!Hits(h, W) <=> Hit(base, h, W)
  /\ \A h, W : Calls!At(h, W) = Met(base, h, W)
<1>1. \A k : Calls!First(k) = Top(base, k) /\ Calls!Holding(k) = Held(base, k)
  BY DEF Calls!First, Calls!Holding, Calls!Recs, Top, Held
<1>2. \A h, W : Calls!Spins(h, W) <=> Spin(base, h, W)
  BY DEF Calls!Spins, Spin, Calls!None, None
<1>3. \A h, W : Calls!Hits(h, W) <=> Hit(base, h, W)
  BY DEF Calls!Hits, Hit, Calls!None, None
<1>4. \A h, W : Calls!At(h, W) = Met(base, h, W)
  BY DEF Calls!At, Met
<1>5. \A k, v : Calls!Fitting(k, v) = Sized(base, k, v)
  BY DEF Calls!Fitting, Calls!Recs, Sized
<1>6. \A k : Calls!Present(k) <=> Has(base, k)
  BY <1>1, <1>3 DEF Calls!Present, Has
<1>7. \A k : Calls!Rec(k) = Its(base, k)
  BY <1>1, <1>4 DEF Calls!Rec, Its
<1>8. \A k : Calls!PosAfterFind(k) = Seat(base, k)
  BY <1>1 DEF Calls!PosAfterFind, Seat, Calls!None, None, Calls!Astray, Astray
<1> QED BY <1>1, <1>2, <1>3, <1>4, <1>5, <1>6, <1>7, <1>8

LEMMA HeldOne ==
  ASSUME Files, NEW b, b.idx = Numbered(idx), NEW k, NEW x \in DOMAIN idx
  PROVE  x \in Held(b, k) <=> idx[x].key = k
<1>1. /\ DOMAIN b.idx = DOMAIN idx
      /\ \A y \in DOMAIN idx :
           /\ y \in Held(b, k) <=> idx[y].key = k
           /\ y \in Sized(b, k, Blank) <=>
                idx[y].klen = KeyLen[k] /\ idx[y].len = DatLen[Blank]
      /\ None \notin Held(b, k) /\ None \notin Sized(b, k, Blank)
  BY HeldIs
<1> QED BY <1>1

(* A call that spins, does so in ApueDb. *)
LEMMA SpinningHangs ==
  Discipline /\ Offsets /\ Untroubled /\ Spinning(reg[Me]) =>
    /\ Plain(base, reg[Me], Now)
    /\ \E k \in Keys : \/ Spin(base, Top(base, k), Held(base, k))
                       \/ /\ Lacks(base, k)
                          /\ \E v \in Vals : Spin(base, base.free, Sized(base, k, v))
<1> SUFFICES ASSUME Discipline, Offsets, Untroubled, Spinning(reg[Me])
             PROVE  /\ Plain(base, reg[Me], Now)
                    /\ \E k \in Keys : \/ Spin(base, Top(base, k), Held(base, k))
                                       \/ /\ Lacks(base, k)
                                          /\ \E v \in Vals : Spin(base, base.free, Sized(base, k, v))
  OBVIOUS
<1> PICK r : r = reg[Me]
  OBVIOUS
<1>0. /\ Place(r) /\ Within(r, Len(idx)) /\ Files /\ Len(idx) \in Nat /\ DOMAIN idx = 1 .. Len(idx)
      /\ Simulated(base, r, Now, idx, dat)
  BY Here
<1>1. CASE r.pc = "chain.walk" /\ r.off = r.ptrval /\ idx[r.off].key # r.key
  <2>1. Walks(base, r, Now)
    BY <1>0, <1>1, SMT DEF Simulated
  <2>2. Plain(base, r, Now) /\ On(base, r, Top(base, r.key), Held(base, r.key)) /\ r.key \in Keys
    BY <1>0, <1>1, <2>1, SMT DEF Walks, Place
  <2>3. base.idx = Numbered(idx) /\ r.ptrval = base.ptrval
    BY <2>2 DEF Plain, Now, Was
  <2>4. r.off \in DOMAIN idx
    BY <1>0, <1>1, SMT DEF Within, None
  <2>5. r.off \notin Held(base, r.key)
    <3>1. Files
      BY <1>0
    <3>2. r.off \in Held(base, r.key) <=> idx[r.off].key = r.key
      BY <2>3, <2>4, <3>1, HeldOne
    <3> QED BY <1>1, <3>2
  <2>6. Spin(base, Top(base, r.key), Held(base, r.key))
    BY <1>1, <2>2, <2>3, <2>5, WalkSpins
  <2> QED BY <2>2, <2>6
<1>2. CASE r.pc = "free.walk" /\ r.off = r.ptrval /\ ~Fits(r)
  <2>1. Trying(base, r, Now)
    BY <1>0, <1>2, SMT DEF Simulated
  <2>2. /\ Plain(base, r, Now) /\ On(base, r, base.free, Sized(base, r.key, r.val))
        /\ Lacks(base, r.key)
    BY <2>1 DEF Trying
  <2>3. r.key \in Keys /\ r.val \in Vals
    BY <1>0, <1>2, SMT DEF Place
  <2>4. base.idx = Numbered(idx) /\ r.ptrval = base.ptrval
    BY <2>2 DEF Plain, Now, Was
  <2>5. r.off \in DOMAIN idx
    BY <1>0, <1>2, SMT DEF Within, None
  <2>6. r.off \notin Sized(base, r.key, r.val)
    BY <1>0, <1>2, <2>4, <2>5, HeldIs DEF Fits
  <2>7. Spin(base, base.free, Sized(base, r.key, r.val))
    BY <1>2, <2>2, <2>4, <2>6, WalkSpins
  <2> QED BY <2>2, <2>3, <2>7
<1> QED BY <1>1, <1>2 DEF Spinning

LEMMA SpinningThen ==
  (Discipline /\ Offsets /\ Untroubled /\ Spinning(reg[Me]) =>
    /\ Plain(base, reg[Me], Now)
    /\ \E k \in Keys : \/ Spin(base, Top(base, k), Held(base, k))
                       \/ /\ Lacks(base, k)
                          /\ \E v \in Vals : Spin(base, base.free, Sized(base, k, v)))'
BY SpinningHangs, PTL

(* It goes on for ever, unless the process is killed. *)
LEMMA SpinningStays ==
  ASSUME Discipline, Offsets, Untroubled, Spinning(reg[Me]), Step(Me)
  PROVE  Spinning(reg[Me])'
<1> PICK r : r = reg[Me]
  OBVIOUS
<1>0. DOMAIN r = Fields /\ Within(r, Len(idx)) /\ Spinning(r)
  BY Here
<1>1. r.pc \in {"chain.walk", "free.walk"} /\ r.off # None /\ r.off = r.ptrval
  BY <1>0, SMT DEF Spinning, Within
<1>2. Walk(Me) \/ WalkFree(Me)
  <2>1. ~Acquire(Me) /\ ~Refuse(Me)
    BY <1>1 DEF Acquire, Refuse, Requests, Granted
  <2>2. ~(\/ ReadHead(Me) \/ ReadDat(Me) \/ Return(Me)
          \/ Reread(Me) \/ ReadFree(Me) \/ Unlink(Me) \/ UnlockFree(Me))
    BY <1>1 DEF ReadHead, ReadDat, Return, Reread, ReadFree, Unlink, UnlockFree
  <2>3. ~(\/ WriteDat(Me) \/ WriteIdx(Me) \/ SeekDat(Me) \/ AppendDat(Me) \/ UnlockDat(Me)
          \/ SeekIdx(Me) \/ AppendIdx(Me) \/ UnlockTail(Me) \/ Link(Me))
    BY <1>1 DEF WriteDat, WriteIdx, SeekDat, AppendDat, UnlockDat, SeekIdx, AppendIdx, UnlockTail, Link
  <2>4. ~(\/ DelFree(Me) \/ DelIdx(Me) \/ DelHead(Me) \/ DelLink(Me) \/ DelUnlock(Me)
          \/ ScanIdx(Me) \/ ScanDat(Me) \/ ScanReturn(Me))
    BY <1>1 DEF DelFree, DelIdx, DelHead, DelLink, DelUnlock, ScanIdx, ScanDat, ScanReturn
  <2> QED BY <2>1, <2>2, <2>3, <2>4, Zenon DEF Step
<1>3. idx' = idx
  BY <1>2 DEF Walk, WalkFree, file
<1> PICK l : l = Loaded(r)
  OBVIOUS
<1>4. /\ DOMAIN l = Fields /\ l.off = r.off /\ l.key = r.key /\ l.val = r.val /\ l.pc = r.pc
      /\ l.ptrval = r.ptrval
  BY <1>0, SMT DEF Loaded
<1> PICK s : s = [l EXCEPT !.from = l.off, !.off = l.ptrval]
  OBVIOUS
<1>5. s.off = l.ptrval /\ s.key = l.key /\ s.val = l.val /\ s.pc = l.pc /\ s.ptrval = l.ptrval
  BY <1>4, SMT
<1>6. CASE r.pc = "chain.walk"
  <2>1. idx[r.off].key # r.key
    BY <1>0, <1>6 DEF Spinning
  <2>2. Walk(Me)
    BY <1>2, <1>6 DEF WalkFree
  <2>3. Set(Me, s)
    BY <1>1, <1>4, <2>1, <2>2 DEF Walk
  <2>4. reg'[Me] = s
    BY <2>3, SetIs
  <2> QED BY <1>1, <1>3, <1>4, <1>5, <1>6, <2>1, <2>4 DEF Spinning
<1>7. CASE r.pc = "free.walk"
  <2>1. ~Fits(r)
    BY <1>0, <1>7 DEF Spinning
  <2>2. WalkFree(Me)
    BY <1>2, <1>7 DEF Walk
  <2>3. ~Fits(l)
    BY <1>4, <2>1 DEF Fits
  <2>4. Set(Me, s)
    BY <1>1, <1>4, <2>2, <2>3 DEF WalkFree
  <2>5. reg'[Me] = s
    BY <2>4, SetIs
  <2>6. ~Fits(reg[Me])'
    <3>1. s.off = r.off /\ s.key = r.key /\ s.val = r.val
      BY <1>1, <1>4, <1>5
    <3>2. ~(idx'[r.off].klen = KeyLen[r.key] /\ idx'[r.off].len = DatLen[r.val])
      BY <1>3, <2>1 DEF Fits
    <3> QED BY <2>5, <3>1, <3>2 DEF Fits
  <2> QED BY <1>1, <1>4, <1>5, <1>7, <2>5, <2>6 DEF Spinning
<1> QED BY <1>1, <1>6, <1>7
-----------------------------------------------------------------------------
(* What ApueDb sees of the end of a call *)

Ending(r, F) ==
  /\ base'.head = F[1] /\ base'.free = F[2] /\ base'.idx = F[3] /\ base'.dat = F[4]
  /\ base'.ptrval = r.ptrval /\ base'.pos = r.pos /\ Phase = "open" /\ Phase' = "open"

LEMMA WasIs ==
  ASSUME NEW b, NEW F, F = Was(b)
  PROVE  F[1] = b.head /\ F[2] = b.free /\ F[3] = b.idx /\ F[4] = b.dat
BY DEF Was

LEMMA NotHung ==
  ASSUME reg[Me].pc \notin {"chain.walk", "free.walk"} PROVE Phase = base.phase
BY DEF Phase, Hung, Spinning

LEMMA NotHungThen ==
  ASSUME reg'[Me].pc \notin {"chain.walk", "free.walk"} PROVE Phase' = base'.phase
BY DEF Phase, Hung, Spinning

LEMMA ReturnEnds ==
  ASSUME Discipline, Untroubled, events = {}, Return(Me) \/ ScanReturn(Me), Follow
  PROVE  Ending(reg[Me], Now) /\ out' = Ended(reg[Me])
<1>1. reg'[Me].pc = "idle" /\ reg'[Me].ptrval = reg[Me].ptrval /\ reg'[Me].pos = reg[Me].pos
  BY LeavesAt, AtIs DEF Leaves
<1>2. base' = Snapshot' /\ out' = Ended(reg[Me])
  BY <1>1 DEF Follow
<1>3. /\ base'.head = head' /\ base'.free = free' /\ base'.idx = Numbered(idx)'
      /\ base'.dat = Told(idx, dat)' /\ base'.ptrval = reg[Me].ptrval /\ base'.pos = reg[Me].pos
      /\ base'.phase = "open"
  BY <1>1, <1>2, SnapshotThen
<1>4. head' = head /\ free' = free /\ idx' = idx /\ dat' = dat
  BY DEF Return, ScanReturn, file
<1>5. /\ base'.head = Now[1] /\ base'.free = Now[2] /\ base'.idx = Now[3] /\ base'.dat = Now[4]
  BY <1>3, <1>4 DEF Now
<1>6. Phase' = "open"
  BY <1>1, <1>3, NotHungThen
<1>7. Phase = "open"
  <2>1. reg[Me].pc \in {"chain.unlock", "scan.unlock"}
    BY DEF Return, ScanReturn
  <2>2. base.phase = "open"
    BY <2>1 DEF Untroubled
  <2> QED BY <2>1, <2>2, NotHung
<1> QED BY <1>2, <1>3, <1>5, <1>6, <1>7 DEF Ending

(* one that changes nothing but the place of idxfd *)
LEMMA PlainEnds ==
  ASSUME NEW r, NEW F, Plain(base, r, F), Ending(r, F)
  PROVE  UNCHANGED <<Calls!file, base.ptrval, Phase>>
<1>1. F[1] = base.head /\ F[2] = base.free /\ F[3] = base.idx /\ F[4] = base.dat
  BY WasIs DEF Plain
<1> QED BY <1>1 DEF Calls!file, Ending, Plain

LEMMA HasNoSpin == ASSUME NEW b, NEW k, Has(b, k) PROVE ~Spin(b, Top(b, k), Held(b, k))
BY DEF Has, Hit, Spin

LEMMA HasIn ==
  ASSUME NEW b, NEW k, Has(b, k)
  PROVE  Its(b, k) \in DOMAIN b.idx
BY DEF Has, Hit, Its, Met, Held

LEMMA FetchEnds ==
  ASSUME Untroubled, NEW r, NEW F, Answered(base, r, F), Ending(r, F),
         out' = Answer(r.op, r.key, r.val, r.rc)
  PROVE  Calls!Fetch(r.key)
<1> PICK k : k = r.key
  OBVIOUS
<1>1. Plain(base, r, F) /\ r.pos = Seat(base, k) /\ r.op = "fetch"
  BY DEF Answered
<1>2. UNCHANGED <<Calls!file, base.ptrval, Phase>> /\ Phase = "open" /\ base'.pos = Seat(base, k)
  BY <1>1, PlainEnds DEF Ending
<1>3. /\ ~Spin(base, Top(base, k), Held(base, k))
      /\ \/ Has(base, k) /\ Calls!Return("fetch", k, base.dat[base.idx[Its(base, k)].dat].val, 0)
         \/ ~Has(base, k) /\ Calls!Return("fetch", k, Blank, -1)
  <2>1. CASE Has(base, k) /\ r.rc = 0 /\ r.val = base.dat[Its(base, k)].val
    <3>1. base.idx[Its(base, k)].dat = Its(base, k)
      BY <2>1, HasIn DEF Untroubled, Sane
    <3>2. out' = Answer("fetch", k, base.dat[base.idx[Its(base, k)].dat].val, 0)
      BY <1>1, <2>1, <3>1
    <3> QED BY <2>1, <3>2, HasNoSpin DEF Calls!Return, Answer
  <2>2. CASE Lacks(base, k) /\ r.rc = -1 /\ r.val = Blank
    <3>1. out' = Answer("fetch", k, Blank, -1)
      BY <1>1, <2>2
    <3> QED BY <2>2, <3>1 DEF Lacks, Calls!Return, Answer
  <2> QED BY <2>1, <2>2 DEF Answered
<1>4. Calls!Fetch(k)
  BY <1>2, <1>3, CallsAre DEF Calls!Fetch, Phase, Hung
<1> QED BY <1>4

LEMMA DenyEnds ==
  ASSUME NEW r, NEW F, Denied(base, r, F), Ending(r, F), out' = Answer(r.op, r.key, r.val, r.rc)
  PROVE  \/ r.op = "delete" /\ Calls!DeleteAbsent(r.key)
         \/ r.op = "store" /\ \E flag \in Calls!Flags : Calls!StoreRefused(r.key, r.val, flag)
<1> PICK k, v : k = r.key /\ v = r.val
  OBVIOUS
<1>1. Plain(base, r, F) /\ r.pos = Seat(base, k)
  BY DEF Denied
<1>2. UNCHANGED <<Calls!file, base.ptrval, Phase>> /\ Phase = "open" /\ base'.pos = Seat(base, k)
  BY <1>1, PlainEnds DEF Ending
<1>3. CASE r.op = "delete" /\ Lacks(base, k) /\ r.rc = -1 /\ v = Blank
  <2>1. out' = Answer("delete", k, Blank, -1)
    BY <1>3
  <2>2. Calls!Return("delete", k, Blank, -1)
    BY <2>1 DEF Calls!Return, Answer
  <2>3. ~Has(base, k) /\ ~Spin(base, Top(base, k), Held(base, k))
    BY <1>3 DEF Lacks
  <2>4. Calls!DeleteAbsent(k)
    BY <1>2, <2>2, <2>3, CallsAre DEF Calls!DeleteAbsent, Phase, Hung
  <2> QED BY <1>3, <2>4
<1>4. CASE r.op = "store" /\ r.flag = "insert" /\ Has(base, k) /\ r.rc = 1
  <2>1. out' = Answer("store", k, v, 1)
    BY <1>4
  <2>2. Calls!Return("store", k, v, 1)
    BY <2>1 DEF Calls!Return, Answer
  <2>3. Calls!StoreRefused(k, v, "insert")
    BY <1>2, <1>4, <2>2, CallsAre DEF Calls!StoreRefused, Phase, Hung
  <2> QED BY <1>4, <2>3 DEF Calls!Flags
<1>5. CASE r.op = "store" /\ r.flag = "replace" /\ Lacks(base, k) /\ r.rc = -1
  <2>1. out' = Answer("store", k, v, -1)
    BY <1>5
  <2>2. Calls!Return("store", k, v, -1)
    BY <2>1 DEF Calls!Return, Answer
  <2>3. ~Has(base, k) /\ ~Spin(base, Top(base, k), Held(base, k))
    BY <1>5 DEF Lacks
  <2>4. Calls!StoreRefused(k, v, "replace")
    BY <1>2, <2>2, <2>3, CallsAre DEF Calls!StoreRefused, Phase, Hung
  <2> QED BY <1>5, <2>4 DEF Calls!Flags
<1> QED BY <1>3, <1>4, <1>5 DEF Denied

LEMMA OverEnds ==
  ASSUME Untroubled, NEW r, NEW F, Replaced(base, r, F), Ending(r, F),
         out' = Answer(r.op, r.key, r.val, r.rc)
  PROVE  Calls!StoreOver(r.key, r.val, "store")
<1> PICK k, v : k = r.key /\ v = r.val
  OBVIOUS
<1> PICK x : x = Its(base, k)
  OBVIOUS
<1>1. /\ Has(base, k) /\ base.idx[x].len = DatLen[v] /\ r.op = "store" /\ r.rc = 0
      /\ r.ptrval = base.ptrval /\ r.pos = Seat(base, k)
      /\ F = <<base.head, base.free, base.idx, [base.dat EXCEPT ![x] = Pair(k, v)]>>
  BY DEF Replaced
<1>2. base.idx[x].dat = x
  BY <1>1, HasIn DEF Untroubled, Sane
<1>3. out' = Answer("store", k, v, 0)
  BY <1>1
<1>4. Calls!Return("store", k, v, 0)
  BY <1>3 DEF Calls!Return, Answer
<1>5. /\ base'.dat = [base.dat EXCEPT ![base.idx[x].dat] = Calls!Datum(k, v)]
      /\ UNCHANGED <<base.head, base.free, base.idx, base.ptrval, Phase>>
      /\ Phase = "open" /\ base'.pos = Seat(base, k)
  BY <1>1, <1>2 DEF Ending, Calls!Datum, Pair
<1>6. Calls!StoreOver(k, v, "store")
  BY <1>1, <1>4, <1>5, CallsAre DEF Calls!StoreOver, Phase, Hung
<1> QED BY <1>6

LEMMA ClearedIs ==
  ASSUME Untroubled, NEW k, Has(base, k)
  PROVE  /\ Cleared(base, k)[1] = [base.head EXCEPT ![Hash[k]] = Calls!HeadAfterCut(Hash[k], Its(base, k))]
         /\ Cleared(base, k)[2] = Its(base, k)
         /\ Cleared(base, k)[3] = Calls!Blanked(Hash[k], Its(base, k))
         /\ Cleared(base, k)[4] = [base.dat EXCEPT ![base.idx[Its(base, k)].dat] = Calls!BlankDatum]
<1> PICK x, h : x = Its(base, k) /\ h = Top(base, k)
  OBVIOUS
<1>0. base.idx[x].dat = x /\ base.head[Hash[k]] = h
  BY HasIn DEF Untroubled, Sane, Top
<1>1. Cleared(base, k)[1] = [base.head EXCEPT ![Hash[k]] = Calls!HeadAfterCut(Hash[k], x)]
  BY <1>0 DEF Cleared, Calls!HeadAfterCut
<1>2. Cleared(base, k)[3] = Calls!Blanked(Hash[k], x)
  <2>1. Voided(base, k) = Calls!Filled(base.idx, x, Blank, base.free)
    BY DEF Voided, Fill, Calls!Filled
  <2>2. Point(Voided(base, k), h, base.ptrval) = Calls!Pointed(Voided(base, k), h, base.ptrval)
    BY DEF Point, Calls!Pointed
  <2> QED BY <1>0, <2>1, <2>2 DEF Cleared, Calls!Blanked, Calls!Cut
<1>3. Cleared(base, k)[4] = [base.dat EXCEPT ![base.idx[x].dat] = Calls!BlankDatum]
  BY <1>0 DEF Cleared, Wiped, Calls!BlankDatum, Calls!Datum, Pair
<1>4. Cleared(base, k)[2] = x
  BY DEF Cleared
<1> QED BY <1>1, <1>2, <1>3, <1>4

LEMMA DeleteEnds ==
  ASSUME Untroubled, NEW r, NEW F, Removed(base, r, F), Ending(r, F),
         out' = Answer(r.op, r.key, r.val, r.rc)
  PROVE  Calls!Delete(r.key)
<1> PICK k, x : k = r.key /\ x = Its(base, k)
  OBVIOUS
<1>1. /\ Has(base, k) /\ r.rc = 0 /\ r.val = Blank /\ r.op = "delete" /\ F = Cleared(base, k)
      /\ r.ptrval = base.free /\ r.pos = Astray
  BY DEF Removed, Gone, Fresh
<1>2. out' = Answer("delete", k, Blank, 0)
  BY <1>1
<1>3. Calls!Return("delete", k, Blank, 0)
  BY <1>2 DEF Calls!Return, Answer
<1>4. /\ base'.dat = [base.dat EXCEPT ![base.idx[x].dat] = Calls!BlankDatum]
      /\ base'.idx = Calls!Blanked(Hash[k], x)
      /\ base'.head = [base.head EXCEPT ![Hash[k]] = Calls!HeadAfterCut(Hash[k], x)]
      /\ base'.free = x /\ base'.ptrval = base.free /\ base'.pos = Calls!Astray
      /\ Phase' = Phase /\ Phase = "open"
  BY <1>1, ClearedIs DEF Ending, Astray, Calls!Astray
<1>5. Calls!Delete(k)
  BY <1>1, <1>3, <1>4, CallsAre DEF Calls!Delete, Phase, Hung
<1> QED BY <1>5

LEMMA UntiedIs ==
  ASSUME NEW k, NEW v
  PROVE  LET f == Spare(base, k, v)
             u == IF f = base.free THEN base.idx ELSE Calls!Pointed(base.idx, base.free, base.ptrval)
         IN /\ Untied(base, k, v)[2] = IF f = base.free THEN base.ptrval ELSE base.free
            /\ Untied(base, k, v)[3] = u
            /\ Fill(Untied(base, k, v)[3], f, k, Top(base, k)) = Calls!Filled(u, f, k, Top(base, k))
<1> PICK f : f = Spare(base, k, v)
  OBVIOUS
<1> PICK u : u = IF f = base.free THEN base.idx ELSE Calls!Pointed(base.idx, base.free, base.ptrval)
  OBVIOUS
<1>1. Untied(base, k, v)[2] = IF f = base.free THEN base.ptrval ELSE base.free
  BY DEF Untied
<1>2. Untied(base, k, v)[3] = u
  BY DEF Untied, Point, Calls!Pointed
<1>3. Fill(u, f, k, Top(base, k)) = Calls!Filled(u, f, k, Top(base, k))
  BY DEF Fill, Calls!Filled
<1> QED BY <1>1, <1>2, <1>3

LEMMA ReuseEnds ==
  ASSUME Untroubled, NEW r, NEW F, Reused(base, r, F), Ending(r, F),
         out' = Answer(r.op, r.key, r.val, r.rc)
  PROVE  Calls!StoreReuse(r.key, r.val, "store")
<1> PICK k, v : k = r.key /\ v = r.val
  OBVIOUS
<1> PICK f, c : f = Spare(base, k, v) /\ c = Hash[k]
  OBVIOUS
<1> PICK u : u = IF f = base.free THEN base.idx ELSE Calls!Pointed(base.idx, base.free, base.ptrval)
  OBVIOUS
<1>1. /\ r.op = "store" /\ r.rc = 0 /\ Lacks(base, k) /\ Offers(base, k, v)
      /\ r.ptrval = Top(base, k) /\ r.pos = Astray /\ F = Headed(Renamed(base, k, v), k, f)
  BY DEF Reused
<1>2. out' = Answer("store", k, v, 0)
  BY <1>1
<1>3. Calls!Return("store", k, v, 0)
  BY <1>2 DEF Calls!Return, Answer
<1>4. f \in DOMAIN base.idx
  BY <1>1 DEF Offers, Hit, Spare, Met, Sized
<1>5. base.idx[f].dat = f /\ f <= PTR_MAX
  BY <1>4, SpareFits DEF Untroubled, Sane
<1>6. /\ F[1] = [base.head EXCEPT ![c] = f]
      /\ F[2] = IF f = base.free THEN base.ptrval ELSE base.free
      /\ F[3] = Calls!Filled(u, f, k, Top(base, k))
      /\ F[4] = [base.dat EXCEPT ![base.idx[f].dat] = Calls!Datum(k, v)]
  <2>1. F[1] = [base.head EXCEPT ![c] = f]
    BY <1>1, <1>5 DEF Headed, Renamed, WritePtr
  <2>2. F[2] = Untied(base, k, v)[2] /\ F[3] = Fill(Untied(base, k, v)[3], f, k, Top(base, k))
    BY <1>1 DEF Headed, Renamed
  <2>3. F[4] = [base.dat EXCEPT ![base.idx[f].dat] = Calls!Datum(k, v)]
    BY <1>1, <1>5 DEF Headed, Renamed, Calls!Datum, Pair
  <2> QED BY <2>1, <2>2, <2>3, UntiedIs
<1>7. /\ base'.free = IF f = base.free THEN base.ptrval ELSE base.free
      /\ base'.dat = [base.dat EXCEPT ![base.idx[f].dat] = Calls!Datum(k, v)]
      /\ base'.idx = Calls!Filled(u, f, k, Top(base, k))
      /\ base'.head = [base.head EXCEPT ![c] = f]
      /\ base'.ptrval = Top(base, k) /\ base'.pos = Calls!Astray
      /\ Phase' = Phase /\ Phase = "open"
  BY <1>1, <1>6 DEF Ending, Astray, Calls!Astray
<1>8. Calls!At(base.free, Calls!Fitting(k, v)) = f /\ Calls!Hits(base.free, Calls!Fitting(k, v))
  BY <1>1, CallsAre DEF Spare, Offers
<1>9. ~Calls!Present(k) /\ ~Calls!Spins(Calls!First(k), Calls!Holding(k)) /\ Calls!First(k) = Top(base, k)
  BY <1>1, CallsAre DEF Lacks
<1>10. Calls!StoreReuse(k, v, "store")
  BY <1>3, <1>7, <1>8, <1>9 DEF Calls!StoreReuse, Phase, Hung
<1> QED BY <1>10

(* a record is appended to what the first part of the step leaves *)
LEMMA AddedIs ==
  ASSUME Untroubled, NEW r, NEW F, Added(base, r, F), Ending(r, F),
         out' = Answer(r.op, r.key, r.val, r.rc), NEW g, g = Ground(base, r.key),
         Len(g[3]) = Len(base.idx)
  PROVE  LET p == g[1][Hash[r.key]]
         IN /\ base'.head = [g[1] EXCEPT ![Hash[r.key]] = Calls!WritePtr(@, Calls!Added)]
            /\ base'.free = g[2]
            /\ base'.idx = Append(g[3], Calls!NewRec(r.key, r.val, p))
            /\ base'.dat = Append(g[4], Calls!Datum(r.key, r.val))
            /\ base'.ptrval = p /\ base'.pos = Calls!PosAfterAppend
            /\ Phase' = Phase /\ Phase = "open" /\ Calls!Added <= MaxRec
            /\ Calls!Return("store", r.key, r.val, 0)
<1> PICK k, v : k = r.key /\ v = r.val
  OBVIOUS
<1> PICK p : p = g[1][Hash[k]]
  OBVIOUS
<1>0. Len(base.idx) \in Nat /\ Len(base.dat) = Len(base.idx)
  BY BaseIs
<1>1. /\ r.op = "store" /\ r.rc = 0 /\ Len(base.idx) < MaxRec /\ r.ptrval = p
      /\ r.pos = IF Len(base.idx) + 1 <= PTR_MAX THEN Astray ELSE Len(base.idx) + 2
      /\ F = Headed(Lengthened(g, k, v), k, Len(base.idx) + 1)
  BY DEF Added, Adds
<1>2. out' = Answer("store", k, v, 0)
  BY <1>1
<1>3. Calls!Return("store", k, v, 0)
  BY <1>2 DEF Calls!Return, Answer
<1>4. Calls!Added = Len(base.idx) + 1 /\ Calls!Added <= MaxRec
  BY <1>0, <1>1, SMT DEF Calls!Added
<1>5. r.pos = Calls!PosAfterAppend
  BY <1>0, <1>1, <1>4 DEF Calls!PosAfterAppend, Calls!Astray, Astray
<1>6. F[1] = [g[1] EXCEPT ![Hash[k]] = Calls!WritePtr(@, Calls!Added)]
  BY <1>1, <1>4 DEF Headed, Lengthened, Calls!WritePtr, WritePtr
<1>7. F[2] = g[2]
  BY <1>1 DEF Headed, Lengthened
<1>8. F[3] = Append(g[3], Calls!NewRec(k, v, p))
  <2>1. Calls!NewRec(k, v, p) = [key |-> k, klen |-> KeyLen[k], ptr |-> p,
                                 dat |-> Len(g[3]) + 1, len |-> DatLen[v]]
    BY <1>0 DEF Calls!NewRec
  <2> QED BY <1>1, <2>1 DEF Headed, Lengthened
<1>9. F[4] = Append(g[4], Calls!Datum(k, v))
  BY <1>1 DEF Headed, Lengthened, Calls!Datum, Pair
<1> QED BY <1>1, <1>3, <1>4, <1>5, <1>6, <1>7, <1>8, <1>9 DEF Ending

LEMMA AppendEnds ==
  ASSUME Untroubled, NEW r, NEW F, Added(base, r, F), ~Has(base, r.key), Ending(r, F),
         out' = Answer(r.op, r.key, r.val, r.rc)
  PROVE  Calls!StoreAppend(r.key, r.val, "store")
<1> PICK k, v, g : k = r.key /\ v = r.val /\ g = Ground(base, k)
  OBVIOUS
<1>1. g = Was(base)
  BY DEF Ground
<1>2. /\ g[1] = base.head /\ g[2] = base.free /\ g[3] = base.idx /\ g[4] = base.dat
      /\ g[1][Hash[k]] = Top(base, k)
  BY <1>1 DEF Was, Top
<1>3. Len(g[3]) = Len(base.idx)
  BY <1>2
<1>4. /\ base'.head = [base.head EXCEPT ![Hash[k]] = Calls!WritePtr(@, Calls!Added)]
      /\ base'.free = base.free
      /\ base'.idx = Append(base.idx, Calls!NewRec(k, v, Top(base, k)))
      /\ base'.dat = Append(base.dat, Calls!Datum(k, v))
      /\ base'.ptrval = Top(base, k) /\ base'.pos = Calls!PosAfterAppend
      /\ Phase' = Phase /\ Phase = "open" /\ Calls!Added <= MaxRec
      /\ Calls!Return("store", k, v, 0)
  <2>1. g = Ground(base, r.key)
    OBVIOUS
  <2>2. /\ base'.head = [g[1] EXCEPT ![Hash[r.key]] = Calls!WritePtr(@, Calls!Added)]
        /\ base'.free = g[2]
        /\ base'.idx = Append(g[3], Calls!NewRec(r.key, r.val, g[1][Hash[r.key]]))
        /\ base'.dat = Append(g[4], Calls!Datum(r.key, r.val))
        /\ base'.ptrval = g[1][Hash[r.key]] /\ base'.pos = Calls!PosAfterAppend
        /\ Phase' = Phase /\ Phase = "open" /\ Calls!Added <= MaxRec
        /\ Calls!Return("store", r.key, r.val, 0)
    BY <1>3, <2>1, AddedIs
  <2> QED BY <1>2, <2>2
<1>5. Lacks(base, k) /\ Withholds(base, k, v)
  BY DEF Added, Adds
<1>6. ~Calls!Present(k) /\ ~Calls!Spins(Calls!First(k), Calls!Holding(k)) /\ Calls!First(k) = Top(base, k)
  BY <1>5, CallsAre DEF Lacks
<1>7. ~Calls!Hits(base.free, Calls!Fitting(k, v)) /\ ~Calls!Spins(base.free, Calls!Fitting(k, v))
  BY <1>5, CallsAre DEF Withholds, Offers
<1>8. Calls!StoreAppend(k, v, "store")
  BY <1>4, <1>6, <1>7 DEF Calls!StoreAppend, Phase, Hung
<1> QED BY <1>8

LEMMA MoveEnds ==
  ASSUME Untroubled, NEW r, NEW F, Added(base, r, F), Has(base, r.key), r.key \in Keys,
         Ending(r, F), out' = Answer(r.op, r.key, r.val, r.rc)
  PROVE  Calls!StoreMove(r.key, r.val, "store")
<1> PICK k \in Keys : k = r.key
  OBVIOUS
<1> PICK v, g, c : v = r.val /\ g = Ground(base, k) /\ c = Hash[k]
  OBVIOUS
<1> PICK x, p : x = Its(base, k) /\ p = Calls!HeadAfterCut(c, x)
  OBVIOUS
<1>1. g = Cleared(base, k)
  BY DEF Ground
<1>2. /\ g[1] = [base.head EXCEPT ![c] = p] /\ g[2] = x /\ g[3] = Calls!Blanked(c, x)
      /\ g[4] = [base.dat EXCEPT ![base.idx[x].dat] = Calls!BlankDatum]
  BY <1>1, ClearedIs
<1>3. g[1][c] = p /\ c \in DOMAIN base.head
  <2>1. c \in Chains /\ DOMAIN base.head = Chains
    BY DEF Untroubled, Sane
  <2> QED BY <1>2, <2>1
<1>4. Len(g[3]) = Len(base.idx)
  BY GroundLen
<1>5. /\ base'.head = [g[1] EXCEPT ![c] = Calls!WritePtr(@, Calls!Added)]
      /\ base'.free = g[2]
      /\ base'.idx = Append(g[3], Calls!NewRec(k, v, p))
      /\ base'.dat = Append(g[4], Calls!Datum(k, v))
      /\ base'.ptrval = p /\ base'.pos = Calls!PosAfterAppend
      /\ Phase' = Phase /\ Phase = "open" /\ Calls!Added <= MaxRec
      /\ Calls!Return("store", k, v, 0)
  <2>1. g = Ground(base, r.key)
    OBVIOUS
  <2>2. /\ base'.head = [g[1] EXCEPT ![Hash[r.key]] = Calls!WritePtr(@, Calls!Added)]
        /\ base'.free = g[2]
        /\ base'.idx = Append(g[3], Calls!NewRec(r.key, r.val, g[1][Hash[r.key]]))
        /\ base'.dat = Append(g[4], Calls!Datum(r.key, r.val))
        /\ base'.ptrval = g[1][Hash[r.key]] /\ base'.pos = Calls!PosAfterAppend
        /\ Phase' = Phase /\ Phase = "open" /\ Calls!Added <= MaxRec
        /\ Calls!Return("store", r.key, r.val, 0)
    BY <1>4, <2>1, AddedIs
  <2> QED BY <1>3, <2>2
<1>6. base'.head = [base.head EXCEPT ![c] = Calls!WritePtr(p, Calls!Added)]
  <2> PICK a, h : a = Calls!WritePtr(p, Calls!Added) /\ h = base.head
    OBVIOUS
  <2>1. g[1] = [h EXCEPT ![c] = p]
    BY <1>2
  <2>2. base'.head = [g[1] EXCEPT ![c] = a]
    BY <1>3, <1>5
  <2>3. [[h EXCEPT ![c] = p] EXCEPT ![c] = a] = [h EXCEPT ![c] = a]
    OBVIOUS
  <2> QED BY <2>1, <2>2, <2>3
<1>7. base.idx[x].len # DatLen[v]
  BY DEF Added, Adds
<1>8. Calls!Present(k) /\ Calls!Rec(k) = x
  BY CallsAre
<1>9. Calls!StoreMove(k, v, "store")
  BY <1>2, <1>5, <1>6, <1>7, <1>8 DEF Calls!StoreMove, Phase, Hung
<1> QED BY <1>9

LEMMA ReturnIs ==
  ASSUME Discipline, Offsets, Untroubled, events = {}, Return(Me), Follow PROVE Calls!Next
<1> PICK r : r = reg[Me]
  OBVIOUS
<1>0. /\ Place(r) /\ r.pc = "chain.unlock" /\ Simulated(base, r, Now, idx, dat)
  BY Here DEF Return
<1>1. r.op \in {"fetch", "delete", "store"} /\ r.key \in Keys /\ (r.op = "store" => r.val \in Vals)
  BY <1>0, SMT DEF Place
<1>2. Ending(r, Now) /\ out' = Answer(r.op, r.key, r.val, r.rc)
  <2>1. Ending(r, Now) /\ out' = Ended(r)
    BY ReturnEnds
  <2>2. r.op # "none" /\ r.op # "next"
    BY <1>1
  <2>3. Ended(r) = Answer(r.op, r.key, r.val, r.rc)
    BY <2>2 DEF Ended
  <2> QED BY <2>1, <2>3
<1> PICK k, v, F : k = r.key /\ v = r.val /\ F = Now
  OBVIOUS
<1>3. \/ Answered(base, r, F) \/ Denied(base, r, F) \/ Removed(base, r, F)
      \/ Replaced(base, r, F) \/ Reused(base, r, F) \/ Added(base, r, F)
  BY <1>0, SMT DEF Simulated
<1>4. "store" \in Calls!Flags
  BY DEF Calls!Flags
<1>5. \A u \in Vals : Calls!Storable(u)
  BY CallsAssumption DEF Calls!Storable
<1>6. CASE Answered(base, r, F)
  BY <1>1, <1>2, <1>6, FetchEnds DEF Calls!Next
<1>7. CASE Denied(base, r, F)
  <2>1. CASE r.op = "delete" /\ Calls!DeleteAbsent(k)
    BY <1>1, <2>1 DEF Calls!Next
  <2>2. ASSUME r.op = "store", NEW flag \in Calls!Flags, Calls!StoreRefused(k, v, flag)
        PROVE  Calls!Next
    BY <1>1, <1>5, <2>2 DEF Calls!Next, Calls!Store
  <2> QED BY <1>2, <1>7, <2>1, <2>2, DenyEnds
<1>8. CASE Removed(base, r, F)
  BY <1>1, <1>2, <1>8, DeleteEnds DEF Calls!Next
<1>9. CASE Replaced(base, r, F)
  <2>1. Calls!StoreOver(k, v, "store") /\ v \in Vals
    BY <1>1, <1>2, <1>9, OverEnds DEF Replaced
  <2> QED BY <1>1, <1>4, <1>5, <2>1 DEF Calls!Next, Calls!Store
<1>10. CASE Reused(base, r, F)
  <2>1. Calls!StoreReuse(k, v, "store") /\ v \in Vals
    BY <1>1, <1>2, <1>10, ReuseEnds DEF Reused
  <2> QED BY <1>1, <1>4, <1>5, <2>1 DEF Calls!Next, Calls!Store
<1>11. CASE Added(base, r, F)
  <2>1. Calls!StoreAppend(k, v, "store") \/ Calls!StoreMove(k, v, "store")
    BY <1>1, <1>2, <1>11, AppendEnds, MoveEnds
  <2>2. v \in Vals
    BY <1>1, <1>11 DEF Added
  <2> QED BY <1>1, <1>4, <1>5, <2>1, <2>2 DEF Calls!Next, Calls!Store
<1> QED BY <1>3, <1>6, <1>7, <1>8, <1>9, <1>10, <1>11

LEMMA NextTold ==
  ASSUME NEW a, NEW d, NEW n, NEW k, NEW v,
         n = 0 => out' = Answer("next", k, v, 0), n = 0, k = a, v = d
  PROVE  Calls!Return("next", a, d, 0)
BY DEF Calls!Return, Answer

LEMMA ScanReturnIs ==
  ASSUME Discipline, Offsets, Untroubled, events = {}, ScanReturn(Me), Follow PROVE Calls!Next
<1> PICK r : r = reg[Me]
  OBVIOUS
<1>0. Place(r) /\ r.pc = "scan.unlock" /\ Simulated(base, r, Now, idx, dat)
  BY Here DEF ScanReturn
<1>1. r.op = "next"
  BY <1>0, SMT DEF Place
<1>2. Ending(r, Now) /\ out' = Ended(r)
  BY ReturnEnds
<1>3. /\ r.rc # 0 => out' = Answer("next", Blank, Blank, -1)
      /\ r.rc = 0 => out' = Answer("next", r.key, r.val, 0)
  <2>1. r.op # "none"
    BY <1>1
  <2>2. r.rc # 0 => Ended(r) = Answer("next", Blank, Blank, -1)
    BY <1>1, <2>1 DEF Ended
  <2>3. r.rc = 0 => Ended(r) = Answer("next", r.key, r.val, 0)
    BY <1>1, <2>1 DEF Ended
  <2> QED BY <1>2, <2>2, <2>3
<1>4. Passed(base, r, Now)
  BY <1>0, SMT DEF Simulated
<1>5. UNCHANGED <<Calls!file, base.ptrval, Phase>> /\ Phase = "open" /\ base'.pos = r.pos
      /\ base.pos # Calls!Astray
  BY <1>2, <1>4, PlainEnds DEF Passed, Ending, Calls!Astray, Astray
<1>6. /\ Len(base.idx) \in Nat /\ DOMAIN base.idx = 1 .. Len(base.idx)
      /\ base.pos \in Nat /\ \A x \in DOMAIN base.idx : base.idx[x].dat = x
  <2>1. Len(base.idx) \in Nat /\ DOMAIN base.idx = 1 .. Len(base.idx)
    BY BaseIs
  <2>2. base.pos \in 0 .. Len(base.idx) + 1 /\ \A x \in DOMAIN base.idx : base.idx[x].dat = x
    BY DEF Untroubled, Sane
  <2> QED BY <2>1, <2>2, SMT
<1>7. r.pos \in Int
  BY Here, SMT
<1>8. CASE /\ r.rc = -1 /\ r.pos = Len(base.idx) + 1
           /\ \A x \in DOMAIN base.idx : base.pos <= x => base.idx[x].key = Blank
  <2>1. Calls!Ahead = {}
    BY <1>6, <1>8 DEF Calls!Ahead, Calls!Recs
  <2>2. Calls!Return("next", Blank, Blank, -1)
    BY <1>3, <1>8 DEF Calls!Return, Answer
  <2>3. base'.pos = Calls!Added
    BY <1>5, <1>8 DEF Calls!Added
  <2>4. Calls!NextRec
    BY <1>5, <2>1, <2>2, <2>3 DEF Calls!NextRec, Phase, Hung
  <2> QED BY <2>4 DEF Calls!Next
<1>9. CASE /\ r.rc = 0 /\ r.pos - 1 \in DOMAIN base.idx /\ base.pos <= r.pos - 1
           /\ \A x \in DOMAIN base.idx : base.pos <= x /\ x < r.pos - 1 => base.idx[x].key = Blank
           /\ r.key # Blank /\ r.key = base.idx[r.pos - 1].key /\ r.val = base.dat[r.pos - 1].val
  <2> PICK x \in DOMAIN base.idx : x = r.pos - 1
    BY <1>9
  <2>1. x \in Nat /\ r.pos = x + 1
    BY <1>6, <1>7, SMT
  <2>2. x \in Calls!Ahead /\ \A y \in Calls!Ahead : x <= y
    BY <1>6, <1>9, <2>1 DEF Calls!Ahead, Calls!Recs
  <2>3. Calls!Return("next", base.idx[x].key, base.dat[base.idx[x].dat].val, 0)
    <3>1. base.idx[x].dat = x
      BY <1>6
    <3>2. r.rc = 0 /\ r.key = base.idx[x].key /\ r.val = base.dat[x].val
      BY <1>9, Zenon
    <3> QED BY <1>3, <3>1, <3>2, NextTold
  <2>4. Calls!NextRec
    BY <1>5, <2>1, <2>2, <2>3 DEF Calls!NextRec, Phase, Hung
  <2> QED BY <2>4 DEF Calls!Next
<1> QED BY <1>4, <1>8, <1>9 DEF Passed
-----------------------------------------------------------------------------
(* Steps outside of a call, and steps that ApueDb does not see *)

LEMMA Stutters ==
  ASSUME UNCHANGED <<base.head, base.free, base.idx, base.dat, base.ptrval, base.pos>>,
         Phase' = Phase, out' = out
  PROVE  UNCHANGED Calls!vars
BY DEF Calls!vars, Calls!file, Calls!handle, Phase, Hung

LEMMA RestEnds ==
  ASSUME Discipline, Untroubled, events = {}, Leaves, reg[Me].pc \in {"off", "idle"}, Follow
  PROVE  /\ reg'[Me].pc \in {"idle", "off"} /\ out' = Ended(reg[Me])
         /\ UNCHANGED <<base.head, base.free, base.idx, base.dat>>
         /\ base'.ptrval = reg'[Me].ptrval /\ base'.pos = reg'[Me].pos
         /\ Phase = base.phase /\ Phase' = IF reg'[Me].pc = "off" THEN "closed" ELSE "open"
<1>1. reg'[Me].pc \in {"idle", "off"}
  <2>1. CASE reg[Me].pc = "off"
    BY <2>1, LeavesAt, AtIs
  <2>2. CASE reg[Me].pc = "idle"
    <3>1. Close(Me) \/ Rewind(Me)
      BY <2>2 DEF Leaves, Open, Return, ScanReturn
    <3> QED BY <3>1, LeavesAt, AtIs
  <2> QED BY <2>1, <2>2
<1>2. base' = Snapshot' /\ out' = Ended(reg[Me])
  BY <1>1 DEF Follow
<1>3. /\ base'.head = head' /\ base'.free = free' /\ base'.idx = Numbered(idx)'
      /\ base'.dat = Told(idx, dat)' /\ base'.ptrval = reg'[Me].ptrval /\ base'.pos = reg'[Me].pos
      /\ base'.phase = IF reg'[Me].pc = "off" THEN "closed" ELSE "open"
  BY <1>2, SnapshotThen
<1>4. /\ base.head = head /\ base.free = free /\ base.idx = Numbered(idx)
      /\ base.dat = Told(idx, dat)
  <2>1. base = Snapshot \/ base = Opened
    BY DEF Untroubled, Outdoors
  <2> QED BY <2>1, SnapshotIs, OpenedIs
<1>5. head' = head /\ free' = free /\ idx' = idx /\ dat' = dat
  BY LeavesAt DEF file
<1>6. Phase = base.phase /\ Phase' = base'.phase
  BY <1>1, NotHung, NotHungThen
<1> QED BY <1>1, <1>2, <1>3, <1>4, <1>5, <1>6

LEMMA OpenIs ==
  ASSUME Discipline, Untroubled, events = {}, Leaves, reg[Me].pc = "off", Follow
  PROVE  Calls!Next \/ UNCHANGED Calls!vars
<1>1. reg[Me] = At("off", None, Astray) /\ reg'[Me] = At("idle", None, 1)
  BY LeavesAt
<1>2. /\ reg[Me].op = "none" /\ reg[Me].ptrval = None
      /\ reg'[Me].pc = "idle" /\ reg'[Me].ptrval = None /\ reg'[Me].pos = 1
  BY <1>1, AtIs
<1>3. /\ UNCHANGED <<base.head, base.free, base.idx, base.dat>>
      /\ base'.ptrval = None /\ base'.pos = 1 /\ Phase = base.phase /\ Phase' = "open"
      /\ out' = Ended(reg[Me])
  BY <1>2, RestEnds
<1>4. out' = Answer("open", Blank, Blank, 0)
  BY <1>2, <1>3 DEF Ended
<1>5. CASE base = Snapshot
  <2>1. Phase = "closed"
    BY <1>3, <1>5, SnapshotIs
  <2>2. Calls!Open
    BY <1>3, <1>4, <2>1 DEF Calls!Open, Calls!Return, Calls!file, Calls!None, None, Answer, Phase, Hung
  <2> QED BY <2>2 DEF Calls!Next
<1>6. CASE base = Opened /\ out = Answer("open", Blank, Blank, 0)
  <2>1. base.ptrval = None /\ base.pos = 1 /\ base.phase = "open"
    BY <1>2, <1>6, OpenedIs
  <2> QED BY <1>3, <1>4, <1>6, <2>1, Stutters
<1> QED BY <1>5, <1>6 DEF Untroubled, Outdoors

LEMMA CloseIs ==
  ASSUME Discipline, Untroubled, events = {}, Close(Me), Follow
  PROVE  Calls!Next
<1>1. reg[Me].pc = "idle" /\ reg'[Me] = At("off", None, Astray)
  BY LeavesAt DEF Leaves
<1>2. /\ reg[Me].op = "none" /\ base.phase = "open"
      /\ reg'[Me].pc = "off" /\ reg'[Me].ptrval = None /\ reg'[Me].pos = Astray
  BY <1>1, AtIs, IdleIs
<1>3. /\ UNCHANGED <<base.head, base.free, base.idx, base.dat>>
      /\ base'.ptrval = None /\ base'.pos = Astray /\ Phase = "open" /\ Phase' = "closed"
      /\ out' = Ended(reg[Me])
  BY <1>1, <1>2, RestEnds DEF Leaves
<1>4. out' = Answer("close", Blank, Blank, 0)
  BY <1>1, <1>2, <1>3 DEF Ended
<1>5. Calls!Close
  BY <1>3, <1>4 DEF Calls!Close, Calls!Return, Calls!file, Calls!None, None, Calls!Astray, Astray,
                    Answer, Phase, Hung
<1> QED BY <1>5 DEF Calls!Next

LEMMA RewindIs ==
  ASSUME Discipline, Untroubled, events = {}, Rewind(Me), Follow
  PROVE  Calls!Next
<1>1. reg[Me].pc = "idle" /\ reg'[Me] = At("idle", reg[Me].ptrval, 1)
  BY LeavesAt DEF Leaves
<1>2. /\ reg[Me].op = "none" /\ base.phase = "open" /\ base.ptrval = reg[Me].ptrval
      /\ reg'[Me].pc = "idle" /\ reg'[Me].ptrval = reg[Me].ptrval /\ reg'[Me].pos = 1
  BY <1>1, AtIs, IdleIs DEF Plain
<1>3. /\ UNCHANGED <<base.head, base.free, base.idx, base.dat, base.ptrval>>
      /\ base'.pos = 1 /\ Phase = "open" /\ Phase' = "open" /\ out' = Ended(reg[Me])
  BY <1>1, <1>2, RestEnds DEF Leaves
<1>4. out' = Answer("rewind", Blank, Blank, 0)
  BY <1>1, <1>2, <1>3 DEF Ended
<1>5. Calls!Rewind
  BY <1>3, <1>4 DEF Calls!Rewind, Calls!Return, Calls!file, Answer, Phase, Hung
<1> QED BY <1>5 DEF Calls!Next

(* inside of a call: nothing, or the call begins to spin *)
LEMMA HangIs ==
  ASSUME Discipline', Offsets', Untroubled', events' = {}, Spinning(reg[Me])',
         base' = base, out' = out, Phase = "open"
  PROVE  Calls!Next
<1>1. \E k \in Keys : \/ Spin(base, Top(base, k), Held(base, k))
                      \/ /\ Lacks(base, k)
                         /\ \E v \in Vals : Spin(base, base.free, Sized(base, k, v))
  <2>1. \E k \in Keys : \/ Spin(base', Top(base', k), Held(base', k))
                        \/ /\ Lacks(base', k)
                           /\ \E v \in Vals : Spin(base', base'.free, Sized(base', k, v))
    BY SpinningThen
  <2> QED BY <2>1
<1>2. PICK k \in Keys : \/ Calls!Spins(Calls!First(k), Calls!Holding(k))
                        \/ /\ ~Calls!Present(k)
                           /\ \E v \in Vals : Calls!Spins(base.free, Calls!Fitting(k, v))
  BY <1>1, CallsAre DEF Lacks
<1>3. \A v \in Vals : Calls!Storable(v)
  BY CallsAssumption DEF Calls!Storable
<1>4. Phase' = "spinning"
  BY DEF Phase, Hung
<1>5. UNCHANGED <<Calls!file, base.ptrval, base.pos, out>>
  BY DEF Calls!file
<1>6. Calls!Hang(k)
  BY <1>2, <1>3, <1>4, <1>5 DEF Calls!Hang, Phase, Hung
<1> QED BY <1>6 DEF Calls!Next

LEMMA InsideIs ==
  ASSUME Discipline, Discipline', Offsets, Offsets', Untroubled, Untroubled', events = {},
         Begin(Me) \/ Step(Me), ~Leaves, Follow
  PROVE  Calls!Next \/ UNCHANGED Calls!vars
<1>1. Carried /\ events' = {}
  BY StepCarries
<1>2. base' = base /\ out' = out
  BY <1>1 DEF Carried, Follow
<1>3. CASE ~Spinning(reg[Me]) /\ ~Spinning(reg[Me])'
  <2>1. Phase' = Phase
    BY <1>2, <1>3 DEF Phase, Hung
  <2> QED BY <1>2, <2>1, Stutters
<1>4. CASE Spinning(reg[Me])
  <2>1. Step(Me)
    BY <1>4, BeginNotIn DEF Spinning
  <2>2. Spinning(reg[Me])'
    BY <1>4, <2>1, SpinningStays
  <2>3. Phase' = Phase
    BY <1>1, <1>4, <2>2 DEF Phase, Hung
  <2> QED BY <1>2, <2>3, Stutters
<1>5. CASE ~Spinning(reg[Me]) /\ Spinning(reg[Me])'
  <2>1. base'.phase = "open"
    BY <1>5 DEF Spinning, Untroubled
  <2>2. Phase = "open"
    BY <1>2, <1>5, <2>1 DEF Phase, Hung
  <2> QED BY <1>1, <1>2, <1>5, <2>2, HangIs
<1> QED BY <1>3, <1>4, <1>5

(* The process is killed.  In ApueDb only the end of a call that spins is  *)
(* something that happens.                                                 *)
LEMMA CrashIs ==
  ASSUME Discipline, Offsets, Follows, Crash(Me), Killed
  PROVE  Calls!Next \/ UNCHANGED Calls!vars
<1>0. /\ reg'[Me] = At("off", None, Astray) /\ events' # {}
      /\ head' = head /\ free' = free /\ idx' = idx /\ dat' = dat
  <2>1. Set(Me, At("off", None, Astray))
    BY DEF Crash
  <2> QED BY <2>1, SetIs DEF Crash, file
<1>1. Phase' = base'.phase
  BY <1>0 DEF Phase, Hung
<1>2. CASE events = {} /\ Spinning(reg[Me])
  <2>1. Untroubled
    BY <1>2 DEF Follows
  <2>2. Plain(base, reg[Me], Now)
    BY <1>2, <2>1, SpinningHangs
  <2>3. base' = Snapshot' /\ out' = Answer("close", Blank, Blank, 0)
    BY <1>2 DEF Killed
  <2>4. reg'[Me].pc = "off" /\ reg'[Me].ptrval = None /\ reg'[Me].pos = Astray
    BY <1>0, AtIs
  <2>5. /\ base'.head = head' /\ base'.free = free' /\ base'.idx = Numbered(idx)'
        /\ base'.dat = Told(idx, dat)' /\ base'.ptrval = None /\ base'.pos = Astray
        /\ base'.phase = "closed"
    BY <2>3, <2>4, SnapshotThen
  <2>6. /\ base.head = head /\ base.free = free /\ base.idx = Numbered(idx)
        /\ base.dat = Told(idx, dat)
    BY <2>2 DEF Plain, Was, Now
  <2>7. UNCHANGED Calls!file
    BY <1>0, <2>5, <2>6 DEF Calls!file
  <2>8. Phase = "spinning"
    BY <1>2 DEF Phase, Hung
  <2>9. Calls!Close
    BY <1>1, <2>3, <2>5, <2>7, <2>8
    DEF Calls!Close, Calls!Return, Calls!None, None, Calls!Astray, Astray, Answer, Phase, Hung
  <2> QED BY <2>9 DEF Calls!Next
<1>3. CASE ~(events = {} /\ Spinning(reg[Me]))
  <2>1. base' = base /\ out' = out
    BY <1>3 DEF Killed
  <2>2. Phase' = Phase
    BY <1>1, <1>3, <2>1 DEF Phase, Hung
  <2> QED BY <2>1, <2>2, Stutters
<1> QED BY <1>2, <1>3

(* Every step of the process is, to ApueDb, a whole call or none at all. *)
LEMMA StepImplements ==
  ASSUME Discipline, Discipline', Offsets, Offsets', Follows, Follows',
         [CallsNext]_<<vars, base, out>>
  PROVE  [Calls!Next]_(Calls!vars)
<1>1. CASE UNCHANGED <<vars, base, out>>
  <2>1. Phase' = Phase
    <3>1. reg' = reg /\ idx' = idx /\ events' = events /\ base' = base
      BY <1>1 DEF vars, file
    <3> QED BY <3>1 DEF Phase, Hung, Spinning, Fits
  <2> QED BY <1>1, <2>1, Stutters
<1>2. CASE Crash(Me) /\ Killed
  BY <1>2, CrashIs
<1>3. CASE (Begin(Me) \/ Step(Me)) /\ Follow
  <2>1. CASE events # {}
    <3>1. events' # {}
      BY <1>3, <2>1, MeIs, EventsGrow DEF Next
    <3>2. base' = base /\ out' = out
      BY <1>3, <2>1 DEF Follow
    <3>3. Phase' = Phase
      BY <2>1, <3>1, <3>2 DEF Phase, Hung
    <3> QED BY <3>2, <3>3, Stutters
  <2>2. CASE events = {} /\ Leaves
    <3>1. Untroubled
      BY <2>2 DEF Follows
    <3>2. CASE reg[Me].pc = "off"
      BY <1>3, <2>2, <3>1, <3>2, OpenIs
    <3>3. CASE Close(Me)
      BY <1>3, <2>2, <3>1, <3>3, CloseIs
    <3>4. CASE Rewind(Me)
      BY <1>3, <2>2, <3>1, <3>4, RewindIs
    <3>5. CASE Return(Me)
      BY <1>3, <2>2, <3>1, <3>5, ReturnIs
    <3>6. CASE ScanReturn(Me)
      BY <1>3, <2>2, <3>1, <3>6, ScanReturnIs
    <3> QED BY <2>2, <3>2, <3>3, <3>4, <3>5, <3>6 DEF Leaves, Open
  <2>3. CASE events = {} /\ ~Leaves
    <3>1. Untroubled
      BY <2>3 DEF Follows
    <3>2. events' = {}
      BY <1>3, <2>3, <3>1, StepCarries
    <3>3. Untroubled'
      BY <3>2 DEF Follows
    <3> QED BY <1>3, <2>3, <3>1, <3>3, InsideIs
  <2> QED BY <2>1, <2>2, <2>3
<1> QED BY <1>1, <1>2, <1>3 DEF CallsNext

LEMMA InitImplements == CallsInit => Calls!Init
<1> SUFFICES ASSUME CallsInit PROVE Calls!Init
  OBVIOUS
<1>1. /\ idx = <<>> /\ head = [c \in Chains |-> None] /\ free = None
      /\ reg[Me] = At("off", None, Astray)
  <2>1. Init
    BY DEF CallsInit
  <2>2. reg = [p \in Procs |-> At("off", None, Astray)]
    BY <2>1 DEF Init
  <2> QED BY <2>1, <2>2, MeIs DEF Init
<1>2. base = Opened /\ out = Answer("open", Blank, Blank, 0)
  BY DEF CallsInit, Opened
<1>3. reg[Me].ptrval = None /\ reg[Me].pc = "off"
  BY <1>1, AtIs
<1>4. /\ base.head = head /\ base.free = free /\ base.idx = Numbered(idx)
      /\ base.dat = Told(idx, dat) /\ base.ptrval = None /\ base.pos = 1 /\ base.phase = "open"
  BY <1>2, <1>3, OpenedIs
<1>5. Numbered(idx) = <<>> /\ Told(idx, dat) = <<>>
  <2>1. DOMAIN idx = {}
    BY <1>1, SMT
  <2>2. Files /\ Pieces(idx, dat)
    <3>1. Init /\ events = {}
      BY DEF CallsInit, Init
    <3> QED BY <3>1, InitFollows, InitOffsets DEF Follows, Untroubled, Offsets
  <2>3. Numbered(idx) \in Seq(IdxRec) /\ Len(Numbered(idx)) = Len(idx)
    BY <2>2, NumberedIs DEF Files
  <2>4. Told(idx, dat) \in Seq(Datums) /\ Len(Told(idx, dat)) = Len(idx)
    BY <2>2, ToldIs
  <2>5. Len(idx) = 0
    BY <1>1, SMT
  <2> QED BY <2>3, <2>4, <2>5, EmptySeq
<1>6. Phase = "open"
  BY <1>3, <1>4, NotHung
<1>7. Calls!Format
  BY <1>1, <1>4, <1>5 DEF Calls!Format, Calls!None, None
<1> QED BY <1>2, <1>4, <1>6, <1>7 DEF Calls!Init, Calls!None, None, Answer, Phase, Hung

(* One process that runs the calls of apue_db.c system call by system call *)
(* does to the two files and to its handle what the one-step calls of      *)
(* ApueDb do, answers what they answer, and spins for ever exactly where   *)
(* they say so, for any number of records and any keys, data and lengths.  *)
THEOREM CallsImplement == CallsSpec => ImplementsCalls
<1>1. /\ Discipline /\ Discipline' /\ Offsets /\ Offsets' /\ Follows /\ Follows'
      /\ [CallsNext]_<<vars, base, out>>
      => [Calls!Next]_(Calls!vars)
  BY StepImplements
<1> QED BY <1>1, InitImplements, CallsFollow, CallsAreSteps, LockDiscipline, OffsetsInFiles, PTL
        DEF CallsSpec, ImplementsCalls, Calls!Spec
=============================================================================
