------------------------------- MODULE ApueDb -------------------------------
(***************************************************************************)
(* The record store of apue_db.c, used through one handle by one process.  *)
(* Every exported call is one step: with a single process nothing runs     *)
(* between the system calls of an operation.                               *)
(*                                                                         *)
(* The index file is a header (the head of the free list and one chain     *)
(* head per hash value) followed by index records; records are never moved *)
(* or resized, so a record is named by its position 1, 2, ... and 0 is the *)
(* null pointer.  The data file is a sequence of extents, one per append.  *)
(*                                                                         *)
(* One field of the handle outlives a call and matters: ptrval.            *)
(* _db_readidx reads the pointer of a record into a local buffer and       *)
(* returns db->ptrval, which only _db_writeidx assigns.  A walk along a    *)
(* chain therefore looks at the head and then, again and again, at the     *)
(* record that the last _db_writeidx of this handle pointed to.            *)
(***************************************************************************)
EXTENDS Integers, Sequences, FiniteSets

CONSTANTS
  Keys, Vals,              \* keys and data the callers use
  Chains,                  \* the hash values 0 .. nhash-1 that occur
  Hash,                    \* [Keys -> Chains], _db_hash
  KeyLen, DatLen,          \* lengths of keys, and of data with their newline
  DATLEN_MIN, DATLEN_MAX,  \* the lengths db_store accepts
  PTR_MAX,                 \* the last position a pointer field can hold
  Blank,                   \* what a deleted key or datum reads as: spaces
  MaxRec                   \* bound of the model: records in the index file

ASSUME ConstAssumption ==
  /\ Hash \in [Keys -> Chains]
  /\ KeyLen \in [Keys -> Nat]
  /\ DatLen \in [Vals -> Nat]
  /\ DATLEN_MIN \in Nat /\ DATLEN_MAX \in Nat
  /\ PTR_MAX \in Nat /\ MaxRec \in Nat
  /\ Blank \notin Keys /\ Blank \notin Vals

VARIABLES
  head,    \* chain heads in the index file
  free,    \* head of the free list, at FREE_OFF
  idx,     \* the index records
  dat,     \* the data file
  ptrval,  \* db->ptrval of the open handle
  pos,     \* position of idxfd: the next record, or Astray
  phase,   \* the handle: "closed", "open", or "spinning" inside a call
  out      \* what the last call returned

file   == <<head, free, idx, dat>>
handle == <<ptrval, pos, phase>>
vars   == <<file, handle, out>>

None   == 0                  \* the null pointer
Astray == 0                  \* idxfd stands in the middle of something
Flags  == {"insert", "replace", "store"}

Recs == DOMAIN idx

(* What an extent of the data file holds.  The file has only val in it;    *)
(* key says under which key it was written there.                          *)
Datum(k, v) == [key |-> k, val |-> v]
BlankDatum == Datum(Blank, Blank)
-----------------------------------------------------------------------------
(* Walking a chain: _db_find_and_lock and _db_findfree.  The records seen  *)
(* are the head h and then ptrval; want is the set of records that end the *)
(* walk.                                                                   *)

Hits(h, want)  == h # None /\ (h \in want \/ ptrval \in want)
Spins(h, want) == h # None /\ h \notin want /\ ptrval # None /\ ptrval \notin want
At(h, want)    == IF h \in want THEN h ELSE ptrval

Holding(k)    == {r \in Recs : idx[r].key = k}
(* Mutant of Fitting: the first free record that is large enough is taken. *)
FittingLarge(k, v) == {r \in Recs : idx[r].klen = KeyLen[k] /\ idx[r].len >= DatLen[v]}
Fitting(k, v) == {r \in Recs : idx[r].klen = KeyLen[k] /\ idx[r].len = DatLen[v]}

First(k)    == head[Hash[k]]
Present(k)  == Hits(First(k), Holding(k))
Rec(k)      == At(First(k), Holding(k))

(* Mutant of PosAfterFind: idxfd is put back before the record read last. *)
PosBeforeFound(k) ==
  IF First(k) = None THEN Astray
  ELSE IF First(k) \in Holding(k) \/ ptrval = None THEN First(k)
  ELSE ptrval

(* Where a failed or successful _db_find_and_lock leaves idxfd. *)
PosAfterFind(k) ==
  IF First(k) = None THEN Astray
  ELSE IF First(k) \in Holding(k) \/ ptrval = None THEN First(k) + 1
  ELSE ptrval + 1

Storable(v) == DatLen[v] \in DATLEN_MIN .. DATLEN_MAX

Return(op, k, v, rc) == out' = [op |-> op, key |-> k, val |-> v, rc |-> rc]

(* Mutant of WritePtr: the test against PTR_MAX is off by one. *)
WritePtrBelow(old, p) == IF p < PTR_MAX THEN p ELSE old

(* _db_writeptr refuses, without telling its caller, a pointer that does   *)
(* not fit the six digits of the field.                                    *)
WritePtr(old, p) == IF p <= PTR_MAX THEN p ELSE old
-----------------------------------------------------------------------------
Format ==
  /\ head = [c \in Chains |-> None] /\ free = None
  /\ idx = <<>> /\ dat = <<>>

Init ==
  /\ Format
  /\ ptrval = None /\ pos = 1 /\ phase = "open"
  /\ out = [op |-> "open", key |-> Blank, val |-> Blank, rc |-> 0]

(* db_open with O_CREAT | O_TRUNC *)
Create ==
  /\ phase = "closed"
  /\ head' = [c \in Chains |-> None] /\ free' = None
  /\ idx' = <<>> /\ dat' = <<>>
  /\ ptrval' = None /\ pos' = 1 /\ phase' = "open"
  /\ Return("create", Blank, Blank, 0)

(* db_open of an existing database *)
Open ==
  /\ phase = "closed"
  /\ ptrval' = None /\ pos' = 1 /\ phase' = "open"
  /\ Return("open", Blank, Blank, 0)
  /\ UNCHANGED file

(* db_close, or the end of the process, which may come while a call spins. *)
Close ==
  /\ phase # "closed"
  /\ phase' = "closed"
  /\ ptrval' = None /\ pos' = Astray
  /\ Return("close", Blank, Blank, 0)
  /\ UNCHANGED file

(* db_fetch *)
Fetch(k) ==
  /\ phase = "open"
  /\ ~Spins(First(k), Holding(k))
  /\ \/ Present(k) /\ Return("fetch", k, dat[idx[Rec(k)].dat].val, 0)
     \/ ~Present(k) /\ Return("fetch", k, Blank, -1)
  /\ pos' = PosAfterFind(k)
  /\ UNCHANGED <<file, ptrval, phase>>

(* _db_writeptr to the pointer field of record r, and _db_writeidx over r *)
Pointed(i, r, p)   == [i EXCEPT ![r] = [@ EXCEPT !.ptr = p]]
(* Mutant of Filled: only the pointer of a reused record is written. *)
FilledPtr(i, r, k, p) == Pointed(i, r, p)
Filled(i, r, k, p) == [i EXCEPT ![r] = [@ EXCEPT !.key = k, !.ptr = p]]

(* _db_dodelete of record r, found in chain c: the pointer that led to r   *)
(* gets the value ptrval had before, which is not the pointer stored in r. *)
Cut(c, r, i) == IF r = head[c] THEN i ELSE Pointed(i, head[c], ptrval)
(* Mutant of Blanked: the deleted record keeps its key. *)
BlankedNot(c, r) == Cut(c, r, Pointed(idx, r, free))
Blanked(c, r) == Cut(c, r, Filled(idx, r, Blank, free))
(* Mutant of HeadAfterCut: the chain still leads to the deleted record. *)
HeadUncut(c, r) == head[c]
HeadAfterCut(c, r) == IF r = head[c] THEN ptrval ELSE head[c]

(* db_delete *)
Delete(k) ==
  /\ phase = "open"
  /\ Present(k)
  /\ LET c == Hash[k]
         r == Rec(k)
     IN /\ dat' = [dat EXCEPT ![idx[r].dat] = BlankDatum]
        /\ idx' = Blanked(c, r)
        /\ head' = [head EXCEPT ![c] = HeadAfterCut(c, r)]
        /\ free' = r
  /\ ptrval' = free
  /\ pos' = Astray
  /\ Return("delete", k, Blank, 0)
  /\ UNCHANGED phase

DeleteAbsent(k) ==
  /\ phase = "open"
  /\ ~Present(k) /\ ~Spins(First(k), Holding(k))
  /\ pos' = PosAfterFind(k)
  /\ Return("delete", k, Blank, -1)
  /\ UNCHANGED <<file, ptrval, phase>>

(* Mutant of Added: idxoff is taken behind the record that was written. *)
AddedBehind == Len(idx) + 2

(* The index record and the data extent that an append at the end of both  *)
(* files adds, and the chain head that is to lead to them.                 *)
NewRec(k, v, p) == [key |-> k, klen |-> KeyLen[k], ptr |-> p,
                    dat |-> Len(dat) + 1, len |-> DatLen[v]]
Added == Len(idx) + 1
PosAfterAppend == IF Added <= PTR_MAX THEN Astray ELSE Added + 1

(* db_store of a new key when no free record fits: cnt_stor1 *)
StoreAppend(k, v, flag) ==
  /\ phase = "open" /\ flag # "replace"
  /\ ~Present(k) /\ ~Spins(First(k), Holding(k))
  /\ ~Hits(free, Fitting(k, v)) /\ ~Spins(free, Fitting(k, v))
  /\ Added <= MaxRec
  /\ dat' = Append(dat, Datum(k, v))
  /\ idx' = Append(idx, NewRec(k, v, First(k)))
  /\ head' = [head EXCEPT ![Hash[k]] = WritePtr(@, Added)]
  /\ ptrval' = First(k)
  /\ pos' = PosAfterAppend
  /\ Return("store", k, v, 0)
  /\ UNCHANGED <<free, phase>>

(* db_store of a new key in a record of the free list: cnt_stor2 *)
StoreReuse(k, v, flag) ==
  /\ phase = "open" /\ flag # "replace"
  /\ ~Present(k) /\ ~Spins(First(k), Holding(k))
  /\ Hits(free, Fitting(k, v))
  /\ LET f == At(free, Fitting(k, v))
         unlinked == IF f = free THEN idx ELSE Pointed(idx, free, ptrval)
     IN /\ free' = IF f = free THEN ptrval ELSE free
        /\ dat' = [dat EXCEPT ![idx[f].dat] = Datum(k, v)]
        /\ idx' = Filled(unlinked, f, k, First(k))
        /\ head' = [head EXCEPT ![Hash[k]] = f]
  /\ ptrval' = First(k)
  /\ pos' = Astray
  /\ Return("store", k, v, 0)
  /\ UNCHANGED phase

(* db_store of a key that is there, with data of another length: cnt_stor3 *)
StoreMove(k, v, flag) ==
  /\ phase = "open" /\ flag # "insert"
  /\ Present(k) /\ idx[Rec(k)].len # DatLen[v]
  /\ Added <= MaxRec
  /\ LET c == Hash[k]
         r == Rec(k)
         p == HeadAfterCut(c, r)
     IN /\ dat' = Append([dat EXCEPT ![idx[r].dat] = BlankDatum], Datum(k, v))
        /\ idx' = Append(Blanked(c, r), NewRec(k, v, p))
        /\ head' = [head EXCEPT ![c] = WritePtr(p, Added)]
        /\ free' = r
        /\ ptrval' = p
  /\ pos' = PosAfterAppend
  /\ Return("store", k, v, 0)
  /\ UNCHANGED phase

(* Mutant of StoreOver: the data go to the extent appended last. *)
StoreOverLast(k, v, flag) ==
  /\ phase = "open" /\ flag # "insert"
  /\ Present(k) /\ idx[Rec(k)].len = DatLen[v]
  /\ dat' = [dat EXCEPT ![Len(dat)] = Datum(k, v)]
  /\ pos' = PosAfterFind(k)
  /\ Return("store", k, v, 0)
  /\ UNCHANGED <<head, free, idx, ptrval, phase>>

(* db_store of a key that is there, with data of the same length: cnt_stor4 *)
StoreOver(k, v, flag) ==
  /\ phase = "open" /\ flag # "insert"
  /\ Present(k) /\ idx[Rec(k)].len = DatLen[v]
  /\ dat' = [dat EXCEPT ![idx[Rec(k)].dat] = Datum(k, v)]
  /\ pos' = PosAfterFind(k)
  /\ Return("store", k, v, 0)
  /\ UNCHANGED <<head, free, idx, ptrval, phase>>

(* DB_INSERT of a key that is there, DB_REPLACE of one that is not *)
StoreRefused(k, v, flag) ==
  /\ phase = "open"
  /\ \/ flag = "insert" /\ Present(k) /\ Return("store", k, v, 1)
     \/ /\ flag = "replace" /\ ~Present(k) /\ ~Spins(First(k), Holding(k))
        /\ Return("store", k, v, -1)
  /\ pos' = PosAfterFind(k)
  /\ UNCHANGED <<file, ptrval, phase>>

(* db_store with data that is too short or too long, before any lookup *)
StoreInvalid(k, v) ==
  /\ phase = "open"
  /\ ~Storable(v)
  /\ Return("store", k, v, -1)
  /\ UNCHANGED <<file, handle>>

(* A call that never leaves the loop of _db_find_and_lock, or the one of   *)
(* _db_findfree, and keeps the locks it holds.                             *)
Hang(k) ==
  /\ phase = "open"
  /\ \/ Spins(First(k), Holding(k))
     \/ /\ ~Present(k)
        /\ \E v \in Vals : Storable(v) /\ Spins(free, Fitting(k, v))
  /\ phase' = "spinning"
  /\ UNCHANGED <<file, ptrval, pos, out>>

(* db_rewind *)
Rewind ==
  /\ phase = "open"
  /\ pos' = 1
  /\ Return("rewind", Blank, Blank, 0)
  /\ UNCHANGED <<file, ptrval, phase>>

(* Mutant of Ahead: db_rewind goes one record too far. *)
AheadAfter == {r \in Recs : r > pos /\ idx[r].key # Blank}

(* db_nextrec: the next record whose key is not blank, or the end.  Only   *)
(* from a record boundary: after an update callers have to rewind first.   *)
Ahead == {r \in Recs : r >= pos /\ idx[r].key # Blank}

NextRec ==
  /\ phase = "open" /\ pos # Astray
  /\ \/ \E r \in Ahead :
          /\ \A s \in Ahead : r <= s
          /\ pos' = r + 1
          /\ Return("next", idx[r].key, dat[idx[r].dat].val, 0)
     \/ /\ Ahead = {}
        /\ pos' = Added
        /\ Return("next", Blank, Blank, -1)
  /\ UNCHANGED <<file, ptrval, phase>>

Store(k, v, flag) ==
  \/ StoreInvalid(k, v)
  \/ /\ Storable(v)
     /\ \/ StoreAppend(k, v, flag) \/ StoreReuse(k, v, flag)
        \/ StoreMove(k, v, flag) \/ StoreOver(k, v, flag)
        \/ StoreRefused(k, v, flag)

Next ==
  \/ Create \/ Open \/ Close \/ Rewind \/ NextRec
  \/ \E k \in Keys : Fetch(k) \/ Delete(k) \/ DeleteAbsent(k) \/ Hang(k)
  \/ \E k \in Keys, v \in Vals, flag \in Flags : Store(k, v, flag)

Spec == Init /\ [][Next]_vars

(* Callers that only add records: nothing ever enters the free list. *)
NextInsert ==
  \/ Open \/ Close
  \/ \E k \in Keys : Fetch(k) \/ Hang(k)
  \/ \E k \in Keys, v \in Vals : Store(k, v, "insert")

SpecInsert == Init /\ [][NextInsert]_vars
-----------------------------------------------------------------------------
(* The records of the two files, and the answers of the calls *)
IdxRec == [key : Keys \cup {Blank}, klen : Nat, ptr : Nat, dat : Nat, len : Nat]
DatRec == [key : Keys \cup {Blank}, val : Vals \cup {Blank}]

Calls  == {"open", "create", "close", "fetch", "store", "delete", "rewind", "next"}
Answer == [op : Calls, key : Keys \cup {Blank}, val : Vals \cup {Blank}, rc : {0, 1, -1}]

(* The state variables have the values their comments promise; index and   *)
(* data file grow together.                                                *)
TypeOK ==
  /\ head \in [Chains -> 0 .. Len(idx)]
  /\ free \in 0 .. Len(idx)
  /\ idx \in Seq(IdxRec)
  /\ dat \in Seq(DatRec)
  /\ Len(dat) = Len(idx)
  /\ ptrval \in 0 .. Len(idx)
  /\ pos \in 0 .. Len(idx) + 1
  /\ phase \in {"closed", "open", "spinning"}
  /\ out \in Answer

(* The data a record leads to was stored under the record's key, and a     *)
(* deleted record leads to erased data: a fetch never returns what was     *)
(* stored under another key, even where the walk takes over a record that  *)
(* is still in use.  And however records are freed, reused and moved, no   *)
(* two lead to the same extent of the data file.                           *)
OwnData ==
  \A r \in Recs :
    /\ dat[idx[r].dat].key = idx[r].key
    /\ \A s \in Recs : idx[r].dat = idx[s].dat => r = s

(* What is written into a record has the length of what was there: the     *)
(* text of a record never runs into the record after it.                   *)
ExactFit ==
  \A r \in Recs : idx[r].key # Blank =>
    /\ idx[r].klen = KeyLen[idx[r].key]
    /\ idx[r].len = DatLen[dat[idx[r].dat].val]

(* db->ptrval is stale whenever it is written to the index file, yet it is *)
(* only ever swapped with a chain head or with the head of the free list,  *)
(* never copied: no record is at the head of two lists.                    *)
PtrsDistinct ==
  /\ \A c, d \in Chains : head[c] = head[d] /\ head[c] # None => c = d
  /\ \A c \in Chains : head[c] # None => head[c] # free /\ head[c] # ptrval
  /\ free # None => free # ptrval

(* With no two keys on one chain a live record is the head of its chain:   *)
(* the only place but one where a lookup sees it.  So a key has at most    *)
(* one record, and no record in use is ever taken from the free list.      *)
LiveAtHead == \A r \in Recs : idx[r].key # Blank => head[Hash[idx[r].key]] = r

(* With no two keys on one chain, a call that never returns has a deleted  *)
(* record at the head of its list and another one in ptrval: with fewer    *)
(* than two deleted records in the file every call returns.                *)
HangsOnDeleted ==
  phase = "spinning" =>
    \E r, s \in Recs : r # s /\ idx[r].key = Blank /\ idx[s].key = Blank

(* The map the two files stand for *)
Content ==
  [k \in Keys |-> IF Holding(k) = {} THEN Blank
                  ELSE dat[idx[CHOOSE r \in Holding(k) : TRUE].dat].val]

Map == INSTANCE KeyedStore WITH content <- Content, Absent <- Blank

(* With no two keys on one chain, and as long as pointers fit, the store   *)
(* is a map: an entry is lost by nothing but a delete, and every call that *)
(* returns at all answers from the map.                                    *)
IsMap == Map!Spec

(* The records that the pointers in the index file lead to from a head *)
Follow(R) == R \cup {idx[r].ptr : r \in R \ {None}}
OnChain(c) ==
  LET walk[n \in Nat] == IF n = 0 THEN {head[c]} ELSE Follow(walk[n-1])
  IN  walk[Len(idx)]
(* While records are only added, the pointers in the index file lead from  *)
(* the head of each chain to every record of the chain that a pointer can  *)
(* hold: what a lookup misses is in the file.                              *)
Linked ==
  \A r \in Recs : r <= PTR_MAX => r \in OnChain(Hash[idx[r].key])
=============================================================================
