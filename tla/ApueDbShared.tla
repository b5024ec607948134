---------------------------- MODULE ApueDbShared ----------------------------
(***************************************************************************)
(* The record store of apue_db.c at the granularity of its system calls:   *)
(* several processes, each with a handle of its own on the same two files, *)
(* take turns between any two of them, wait for each other's record locks, *)
(* and may be killed at any point.                                         *)
(*                                                                         *)
(* fcntl locks belong to a process: a second request of the same one is    *)
(* granted, and all of them go when it closes the files or dies.  A        *)
(* request that would close a cycle of waiting processes fails (EDEADLK).  *)
(*                                                                         *)
(* Index records are numbered as in ApueDb.  The data file is a sequence   *)
(* of cells, as appends to it may overlap.  Files are formatted; a kill    *)
(* loses no write that was made.                                           *)
(***************************************************************************)
EXTENDS Integers, Sequences, FiniteSets

CONSTANTS
  Procs, Keys, Vals, StoreFlags,
  Mortal,            \* the processes that may be killed inside a call
  Scanners,          \* those that use db_rewind and db_nextrec
  Chains, Hash,      \* the hash values that occur, [Keys -> Chains]
  KeyLen, DatLen,    \* lengths of keys, and of data with their newline
  PTR_MAX, Blank,
  MaxRec, MaxDat     \* bounds of the model: no append beyond these lengths

ASSUME SharedAssumption ==
  /\ Hash \in [Keys -> Chains]
  /\ KeyLen \in [Keys -> Nat] /\ DatLen \in [Vals -> Nat \ {0}]
  /\ PTR_MAX \in Nat /\ MaxRec \in Nat /\ MaxDat \in Nat
  /\ Blank \notin Keys /\ Blank \notin Vals
  /\ Chains \cap {"free", "tail", "dat"} = {}

VARIABLES
  head, free, idx,  \* the index file
  dat,              \* the data file
  locks,            \* the record locks: process, what is locked, "r" or "w"
  reg,              \* of each process its program counter, handle and locals
  events            \* what has happened so far: "crash", "race", "refusal"

file == <<head, free, idx, dat>>
vars == <<file, locks, reg, events>>

None   == 0
Astray == 0
Recs   == DOMAIN idx
-----------------------------------------------------------------------------
(* A process outside of any call.  What the buffers and offsets of the     *)
(* handle hold is forgotten there, as every call sets them before use;     *)
(* only ptrval and the position of idxfd live on.                          *)
At(pc, ptrval, pos) ==
  [pc |-> pc, ptrval |-> ptrval, pos |-> pos,
   op |-> "none", key |-> Blank, val |-> Blank, flag |-> "none", rc |-> 0,
   off |-> None,                \* offset, in the loops
   from |-> None,               \* ptroff and saveoffset; None is the list head
   idxoff |-> None, datoff |-> 0, datlen |-> 0,
   new |-> None,                \* the pointer for _db_writeidx to write
   save |-> None]               \* saveptr

(* The end of a call.  A process that never scans does not care where idxfd *)
(* stands.                                                                  *)
Outside(p, r) == At("idle", r.ptrval, IF p \in Scanners THEN r.pos ELSE Astray)

Set(p, r) == reg' = [reg EXCEPT ![p] = r]
Go(p, pc) == Set(p, [reg[p] EXCEPT !.pc = pc])

(* Text of the data file: a datum of n cells, the last one with a newline. *)
Text(k, v, n) == [i \in 1 .. n |-> [key |-> k, val |-> v, at |-> i, of |-> n]]

Span(o, n)  == SubSeq(dat, o, o + n - 1)
Whole(o, n) == Span(o, n) = Text(dat[o].key, dat[o].val, n)

WriteAt(o, t) ==
  LET end == o + Len(t) - 1
  IN [i \in 1 .. (IF Len(dat) > end THEN Len(dat) ELSE end) |->
        IF i \in o .. end THEN t[i - o + 1] ELSE dat[i]]

WritePtr(old, ptr) == IF ptr <= PTR_MAX THEN ptr ELSE old
Pointed(r, ptr) == [idx EXCEPT ![r].ptr = WritePtr(@, ptr)]

Init ==
  /\ head = [c \in Chains |-> None] /\ free = None /\ idx = <<>> /\ dat = <<>>
  /\ locks = {}
  /\ reg = [p \in Procs |-> At("off", None, Astray)]
  /\ events = {}

Open(p) ==
  /\ reg[p].pc = "off"
  /\ Set(p, Outside(p, [reg[p] EXCEPT !.pos = 1]))
  /\ UNCHANGED <<file, locks, events>>

(* db_close and exit *)
Close(p) ==
  /\ reg[p].pc = "idle"
  /\ Set(p, At("off", None, Astray))
  /\ locks' = {l \in locks : l[1] # p}
  /\ UNCHANGED <<file, events>>

(* The process is killed inside a call.  A delete is torn if its record is *)
(* on the free list by then and still on its chain.                        *)
Crash(p) ==
  /\ p \in Mortal /\ reg[p].pc \notin {"idle", "off"}
  /\ Set(p, At("off", None, Astray))
  /\ locks' = {l \in locks : l[1] # p}
  /\ events' = events \cup {IF reg[p].pc = "del.link" THEN "torn" ELSE "crash"}
  /\ UNCHANGED file

Call(p, op, k, v, flag) ==
  /\ reg[p].pc = "idle"
  /\ Set(p, [reg[p] EXCEPT !.pc = "chain.lock", !.op = op, !.key = k,
                           !.val = v, !.flag = flag])
  /\ UNCHANGED <<file, locks, events>>

(* db_nextrec; callers rewind first if idxfd is astray *)
CallNext(p) ==
  /\ p \in Scanners /\ reg[p].pc = "idle" /\ reg[p].pos # Astray
  /\ Set(p, [reg[p] EXCEPT !.pc = "scan.lock", !.op = "next"])
  /\ UNCHANGED <<file, locks, events>>

Rewind(p) ==
  /\ p \in Scanners /\ reg[p].pc = "idle"
  /\ Set(p, [reg[p] EXCEPT !.pos = 1])
  /\ UNCHANGED <<file, locks, events>>
-----------------------------------------------------------------------------
(* Record locks: lock_reg *)

Chain(p) == Hash[reg[p].key]

(* Mutants of Wanted: a call that changes a chain locks it for reading;     *)
(* so does one that appends to the index.                                   *)
WantedShared(p) ==
  CASE reg[p].pc = "chain.lock" -> <<Chain(p), "r">>
    [] reg[p].pc \in {"free.lock", "del.lock"} -> <<"free", "w">>
    [] reg[p].pc = "scan.lock" -> <<"free", "r">>
    [] reg[p].pc = "tail.lock" -> <<"tail", "w">>
    [] OTHER -> <<"dat", "w">>
WantedTail(p) ==
  CASE reg[p].pc = "chain.lock" -> <<Chain(p), IF reg[p].op = "fetch" THEN "r" ELSE "w">>
    [] reg[p].pc \in {"free.lock", "del.lock"} -> <<"free", "w">>
    [] reg[p].pc = "scan.lock" -> <<"free", "r">>
    [] reg[p].pc = "tail.lock" -> <<"tail", "r">>
    [] OTHER -> <<"dat", "w">>

(* what a process asks for, where it goes with it, and where without *)
Wanted(p) ==
  CASE reg[p].pc = "chain.lock" -> <<Chain(p), IF reg[p].op = "fetch" THEN "r" ELSE "w">>
    [] reg[p].pc \in {"free.lock", "del.lock"} -> <<"free", "w">>
    [] reg[p].pc = "scan.lock" -> <<"free", "r">>
    [] reg[p].pc = "tail.lock" -> <<"tail", "w">>
    [] OTHER -> <<"dat", "w">>

Granted ==
  [pc \in {"chain.lock", "free.lock", "del.lock", "scan.lock", "tail.lock",
           "reuse.lock", "over.lock", "erase.lock"} |->
     CASE pc = "chain.lock" -> "chain.read" [] pc = "free.lock"  -> "free.read"
       [] pc = "del.lock"   -> "erase.lock" [] pc = "scan.lock"  -> "scan.idx"
       [] pc = "tail.lock"  -> "tail.seek"  [] pc = "reuse.lock" -> "reuse.dat"
       [] pc = "over.lock"  -> "over.dat"   [] pc = "erase.lock" -> "erase.dat"]

Requests(p) == reg[p].pc \in DOMAIN Granted
InTheWay(p) ==
  {l[1] : l \in {m \in locks : /\ m[1] # p /\ m[2] = Wanted(p)[1]
                               /\ "w" \in {m[3], Wanted(p)[2]}}}

Acquire(p) ==
  /\ Requests(p) /\ InTheWay(p) = {}
  /\ locks' = locks \cup {<<p, Wanted(p)[1], Wanted(p)[2]>>}
  /\ Go(p, Granted[reg[p].pc])
  /\ UNCHANGED <<file, events>>

(* p is one of some processes that all wait for each other *)
Deadlocked(p) ==
  \E Q \in SUBSET Procs :
    /\ p \in Q
    /\ \A q \in Q : Requests(q) /\ InTheWay(q) \cap Q # {}

(* _db_find_and_lock without a record: what db_store does next, or the end *)
(* of the call.                                                            *)
Missed(r) ==
  IF r.op = "store" /\ r.flag # "replace"
    THEN [r EXCEPT !.pc = "chain.reread", !.off = None, !.from = None]
    ELSE [r EXCEPT !.pc = "chain.unlock", !.off = None, !.from = None, !.rc = -1]

(* _db_dodelete returns to db_delete, or to db_store that moves a record *)
Deleted(r) ==
  [r EXCEPT !.pc = IF r.op = "delete" THEN "chain.unlock" ELSE "move.reread",
            !.from = None, !.save = None]

Refused(r) ==
  CASE r.pc = "chain.lock" -> Missed(r)
    [] r.pc = "free.lock"  -> [r EXCEPT !.pc = "new.seek"]
    [] r.pc = "del.lock"   -> Deleted(r)
    [] r.pc = "erase.lock" -> [r EXCEPT !.pc = "del.free"]
    [] r.pc = "reuse.lock" -> [r EXCEPT !.pc = "reuse.idx"]
    [] r.pc = "over.lock"  -> [r EXCEPT !.pc = "chain.unlock"]
    [] r.pc = "tail.lock"  -> [r EXCEPT !.pc = "chain.link", !.ptrval = r.new]
    [] r.pc = "scan.lock"  -> At("idle", r.ptrval, r.pos)

(* fcntl returns EDEADLK *)
Refuse(p) ==
  /\ Requests(p) /\ Deadlocked(p)
  /\ Set(p, Refused(reg[p]))
  /\ events' = events \cup {"refusal"}
  /\ UNCHANGED <<file, locks>>

Release(p, what) == locks' = {l \in locks : ~(l[1] = p /\ l[2] = what)}
-----------------------------------------------------------------------------
(* _db_find_and_lock *)

ReadHead(p) ==
  /\ reg[p].pc = "chain.read"
  /\ LET r == [reg[p] EXCEPT !.pos = Astray]
     IN Set(p, IF head[Chain(p)] = None THEN Missed(r)
               ELSE [r EXCEPT !.pc = "chain.walk", !.off = head[Chain(p)]])
  /\ UNCHANGED <<file, locks, events>>

(* _db_readidx of the record at off *)
Loaded(r) ==
  [r EXCEPT !.idxoff = r.off, !.datoff = idx[r.off].dat, !.datlen = idx[r.off].len,
            !.pos = r.off + 1]

(* Mutant of Found: data of any length are written in place. *)
FoundAny(r) ==
  LET f == [r EXCEPT !.off = None]
  IN CASE f.op = "fetch"  -> [f EXCEPT !.pc = "dat.read", !.from = None]
       [] f.op = "delete" -> [f EXCEPT !.pc = "del.lock"]
       [] f.op = "store" /\ f.flag = "insert" -> [f EXCEPT !.pc = "chain.unlock", !.rc = 1]
       [] f.op = "store" /\ f.flag # "insert" -> [f EXCEPT !.pc = "over.lock"]

(* The record is found: what each call does with it. *)
Found(r) ==
  LET f == [r EXCEPT !.off = None]
  IN CASE f.op = "fetch"  -> [f EXCEPT !.pc = "dat.read", !.from = None]
       [] f.op = "delete" -> [f EXCEPT !.pc = "del.lock"]
       [] f.op = "store" /\ f.flag = "insert" -> [f EXCEPT !.pc = "chain.unlock", !.rc = 1]
       [] f.op = "store" /\ f.flag # "insert" ->
            IF f.datlen = DatLen[f.val] THEN [f EXCEPT !.pc = "over.lock"]
                                        ELSE [f EXCEPT !.pc = "del.lock"]

(* The loop goes on with ptrval, which is not the pointer of the record. *)
Walk(p) ==
  /\ reg[p].pc = "chain.walk"
  /\ LET r == Loaded(reg[p])
     IN Set(p, IF idx[r.off].key = r.key THEN Found(r)
               ELSE IF r.ptrval = None THEN Missed(r)
               ELSE [r EXCEPT !.from = r.off, !.off = r.ptrval])
  /\ UNCHANGED <<file, locks, events>>

(* _db_readdat of db_fetch *)
ReadDat(p) ==
  /\ reg[p].pc = "dat.read"
  /\ LET r == reg[p]
         t == Span(r.datoff, r.datlen)
     IN Set(p, IF t[r.datlen].at = t[r.datlen].of
                 THEN [r EXCEPT !.pc = "chain.unlock", !.val = t[1].val]
                 ELSE [r EXCEPT !.pc = "chain.unlock", !.rc = -1])
  /\ UNCHANGED <<file, locks, events>>

Return(p) ==
  /\ reg[p].pc = "chain.unlock"
  /\ Release(p, Chain(p))
  /\ Set(p, Outside(p, reg[p]))
  /\ UNCHANGED <<file, events>>
-----------------------------------------------------------------------------
(* db_store of a new key: _db_findfree, then one of the two ways to write *)

(* _db_readptr of the chain head: the second one of db_store *)
Reread(p) ==
  /\ reg[p].pc \in {"chain.reread", "move.reread"}
  /\ Set(p, [reg[p] EXCEPT !.new = head[Chain(p)], !.pos = Astray,
               !.pc = IF reg[p].pc = "chain.reread" THEN "free.lock" ELSE "new.seek"])
  /\ UNCHANGED <<file, locks, events>>

ReadFree(p) ==
  /\ reg[p].pc = "free.read"
  /\ Set(p, [reg[p] EXCEPT !.pos = Astray, !.off = free,
               !.pc = IF free = None THEN "free.unlock" ELSE "free.walk"])
  /\ UNCHANGED <<file, locks, events>>

Fits(r) == idx[r.off].klen = KeyLen[r.key] /\ idx[r.off].len = DatLen[r.val]

WalkFree(p) ==
  /\ reg[p].pc = "free.walk"
  /\ LET r == Loaded(reg[p])
     IN Set(p, IF Fits(r) THEN [r EXCEPT !.pc = "free.unlink"]
               ELSE IF r.ptrval = None
                 THEN [r EXCEPT !.pc = "free.unlock", !.off = None]
               ELSE [r EXCEPT !.from = r.off, !.off = r.ptrval])
  /\ UNCHANGED <<file, locks, events>>

(* Mutant of Unlink: the record stays on the free list. *)
UnlinkNot(p) ==
  /\ reg[p].pc = "free.unlink"
  /\ Set(p, [reg[p] EXCEPT !.pc = "free.unlock", !.pos = Astray])
  /\ UNCHANGED <<file, locks, events>>

(* _db_writeptr of ptrval over the head of a list, or into a record *)
Unlink(p) ==
  /\ reg[p].pc = "free.unlink"
  /\ IF reg[p].from = None
       THEN free' = WritePtr(free, reg[p].ptrval) /\ UNCHANGED idx
       ELSE idx' = Pointed(reg[p].from, reg[p].ptrval) /\ UNCHANGED free
  /\ Set(p, [reg[p] EXCEPT !.pc = "free.unlock", !.pos = Astray])
  /\ UNCHANGED <<head, dat, locks, events>>

(* Mutant of UnlockFree: the free list stays locked. *)
UnlockFreeNot(p) ==
  /\ reg[p].pc = "free.unlock"
  /\ Set(p, [reg[p] EXCEPT !.off = None, !.from = None,
               !.pc = IF reg[p].off = None THEN "new.seek" ELSE "reuse.lock"])
  /\ UNCHANGED <<file, locks, events>>

UnlockFree(p) ==
  /\ reg[p].pc = "free.unlock"
  /\ Release(p, "free")
  /\ Set(p, [reg[p] EXCEPT !.off = None, !.from = None,
               !.pc = IF reg[p].off = None THEN "new.seek" ELSE "reuse.lock"])
  /\ UNCHANGED <<file, events>>

(* _db_writedat with SEEK_SET.  The lock on the data file is kept. *)
WriteDat(p) ==
  /\ reg[p].pc \in {"reuse.dat", "over.dat", "erase.dat"}
  /\ LET r == reg[p]
     IN IF r.pc = "erase.dat"
          THEN /\ dat' = WriteAt(r.datoff, Text(Blank, Blank, r.datlen))
               /\ Go(p, "del.free")
          ELSE /\ dat' = WriteAt(r.datoff, Text(r.key, r.val, DatLen[r.val]))
               /\ Set(p, [r EXCEPT !.datlen = DatLen[r.val],
                            !.pc = IF r.pc = "over.dat" THEN "chain.unlock" ELSE "reuse.idx"])
  /\ UNCHANGED <<head, free, idx, locks, events>>

(* _db_writeidx over a record *)
Filled(r, key) ==
  [idx EXCEPT ![r.idxoff] = [@ EXCEPT !.key = key, !.ptr = r.new,
                                      !.dat = r.datoff, !.len = r.datlen]]

WriteIdx(p) ==
  /\ reg[p].pc = "reuse.idx"
  /\ idx' = Filled(reg[p], reg[p].key)
  /\ Set(p, [reg[p] EXCEPT !.pc = "chain.link", !.ptrval = reg[p].new,
                           !.pos = reg[p].idxoff + 1])
  /\ UNCHANGED <<head, free, dat, locks, events>>

(* _db_writedat with SEEK_END: lseek, writev, and the unlock *)
SeekDat(p) ==
  /\ reg[p].pc = "new.seek"
  /\ Len(idx) < MaxRec /\ Len(dat) + DatLen[reg[p].val] <= MaxDat
  /\ Set(p, [reg[p] EXCEPT !.pc = "new.dat", !.datoff = Len(dat) + 1])
  /\ UNCHANGED <<file, locks, events>>

AppendDat(p) ==
  /\ reg[p].pc = "new.dat"
  /\ dat' = WriteAt(reg[p].datoff, Text(reg[p].key, reg[p].val, DatLen[reg[p].val]))
  /\ events' = IF reg[p].datoff = Len(dat) + 1 THEN events ELSE events \cup {"race"}
  /\ Set(p, [reg[p] EXCEPT !.pc = "new.unlock", !.datlen = DatLen[reg[p].val]])
  /\ UNCHANGED <<head, free, idx, locks>>

UnlockDat(p) ==
  /\ reg[p].pc = "new.unlock"
  /\ Release(p, "dat")
  /\ Go(p, "tail.lock")
  /\ UNCHANGED <<file, events>>

(* _db_writeidx with SEEK_END, under the lock of the tail *)
SeekIdx(p) ==
  /\ reg[p].pc = "tail.seek"
  /\ Set(p, [reg[p] EXCEPT !.pc = "tail.idx", !.idxoff = Len(idx) + 1,
                           !.ptrval = reg[p].new])
  /\ UNCHANGED <<file, locks, events>>

NewRec(r) == [key |-> r.key, klen |-> KeyLen[r.key], ptr |-> r.new,
              dat |-> r.datoff, len |-> r.datlen]

AppendIdx(p) ==
  /\ reg[p].pc = "tail.idx"
  /\ idx' = IF reg[p].idxoff \in Recs THEN [idx EXCEPT ![reg[p].idxoff] = NewRec(reg[p])]
            ELSE Append(idx, NewRec(reg[p]))
  /\ Set(p, [reg[p] EXCEPT !.pc = "tail.unlock", !.pos = reg[p].idxoff + 1])
  /\ UNCHANGED <<head, free, dat, locks, events>>

UnlockTail(p) ==
  /\ reg[p].pc = "tail.unlock"
  /\ Release(p, "tail")
  /\ Go(p, "chain.link")
  /\ UNCHANGED <<file, events>>

(* _db_writeptr of the chain head, the last write of db_store *)
Link(p) ==
  /\ reg[p].pc = "chain.link"
  /\ head' = [head EXCEPT ![Chain(p)] = WritePtr(@, reg[p].idxoff)]
  /\ Set(p, [reg[p] EXCEPT !.pc = "chain.unlock",
               !.pos = IF reg[p].idxoff <= PTR_MAX THEN Astray ELSE @])
  /\ UNCHANGED <<free, idx, dat, locks, events>>
-----------------------------------------------------------------------------
(* _db_dodelete, once the data are erased *)

(* Mutant of DelFree: saveptr is the head of the free list. *)
DelFreeSame(p) ==
  /\ reg[p].pc = "del.free"
  /\ Set(p, [reg[p] EXCEPT !.pc = "del.idx", !.new = free, !.save = free,
                           !.pos = Astray])
  /\ UNCHANGED <<file, locks, events>>

DelFree(p) ==
  /\ reg[p].pc = "del.free"
  /\ Set(p, [reg[p] EXCEPT !.pc = "del.idx", !.new = free, !.save = reg[p].ptrval,
                           !.pos = Astray])
  /\ UNCHANGED <<file, locks, events>>

DelIdx(p) ==
  /\ reg[p].pc = "del.idx"
  /\ idx' = Filled(reg[p], Blank)
  /\ Set(p, [reg[p] EXCEPT !.pc = "del.head", !.ptrval = reg[p].new, !.new = None,
                           !.pos = reg[p].idxoff + 1])
  /\ UNCHANGED <<head, free, dat, locks, events>>

DelHead(p) ==
  /\ reg[p].pc = "del.head"
  /\ free' = WritePtr(free, reg[p].idxoff)
  /\ Set(p, [reg[p] EXCEPT !.pc = "del.link", !.pos = Astray])
  /\ UNCHANGED <<head, idx, dat, locks, events>>

DelLink(p) ==
  /\ reg[p].pc = "del.link"
  /\ IF reg[p].from = None
       THEN head' = [head EXCEPT ![Chain(p)] = WritePtr(@, reg[p].save)] /\ UNCHANGED idx
       ELSE idx' = Pointed(reg[p].from, reg[p].save) /\ UNCHANGED head
  /\ Set(p, [reg[p] EXCEPT !.pc = "del.unlock", !.pos = Astray])
  /\ UNCHANGED <<free, dat, locks, events>>

DelUnlock(p) ==
  /\ reg[p].pc = "del.unlock"
  /\ Release(p, "free")
  /\ Set(p, Deleted(reg[p]))
  /\ UNCHANGED <<file, events>>
-----------------------------------------------------------------------------
(* db_nextrec *)

ScanIdx(p) ==
  /\ reg[p].pc = "scan.idx"
  /\ LET r == reg[p]
     IN IF r.pos \notin Recs THEN Set(p, [r EXCEPT !.pc = "scan.unlock", !.rc = -1])
        ELSE IF idx[r.pos].key = Blank THEN Set(p, [r EXCEPT !.pos = r.pos + 1])
        ELSE Set(p, [r EXCEPT !.pc = "scan.dat", !.key = idx[r.pos].key,
                              !.datoff = idx[r.pos].dat, !.datlen = idx[r.pos].len,
                              !.pos = r.pos + 1])
  /\ UNCHANGED <<file, locks, events>>

ScanDat(p) ==
  /\ reg[p].pc = "scan.dat"
  /\ LET r == reg[p]
         t == Span(r.datoff, r.datlen)
     IN Set(p, IF t[r.datlen].at = t[r.datlen].of
                 THEN [r EXCEPT !.pc = "scan.unlock", !.val = t[1].val]
                 ELSE [r EXCEPT !.pc = "scan.unlock", !.rc = -1])
  /\ UNCHANGED <<file, locks, events>>

ScanReturn(p) ==
  /\ reg[p].pc = "scan.unlock"
  /\ Release(p, "free")
  /\ Set(p, Outside(p, reg[p]))
  /\ UNCHANGED <<file, events>>
-----------------------------------------------------------------------------
Begin(p) ==
  \/ Open(p) \/ Close(p) \/ Rewind(p) \/ CallNext(p)
  \/ \E k \in Keys : Call(p, "fetch", k, Blank, "none") \/ Call(p, "delete", k, Blank, "none")
  \/ \E k \in Keys, v \in Vals, flag \in StoreFlags :
       Call(p, "store", k, v, flag)

Step(p) ==
  \/ Acquire(p) \/ Refuse(p)
  \/ ReadHead(p) \/ Walk(p) \/ ReadDat(p) \/ Return(p)
  \/ Reread(p) \/ ReadFree(p) \/ WalkFree(p) \/ Unlink(p) \/ UnlockFree(p)
  \/ WriteDat(p) \/ WriteIdx(p)
  \/ SeekDat(p) \/ AppendDat(p) \/ UnlockDat(p)
  \/ SeekIdx(p) \/ AppendIdx(p) \/ UnlockTail(p) \/ Link(p)
  \/ DelFree(p) \/ DelIdx(p) \/ DelHead(p) \/ DelLink(p) \/ DelUnlock(p)
  \/ ScanIdx(p) \/ ScanDat(p) \/ ScanReturn(p)

Next == \E p \in Procs : Begin(p) \/ Step(p) \/ Crash(p)

Spec == Init /\ [][Next]_vars
-----------------------------------------------------------------------------
InCall(p) == reg[p].pc \notin {"idle", "off"}
Settled   == \A p \in Procs : ~InCall(p)
Live      == {r \in Recs : idx[r].key # Blank}

PCs == {"off", "idle", "chain.lock", "chain.read", "chain.walk", "chain.reread",
        "chain.link", "chain.unlock", "dat.read", "free.lock", "free.read",
        "free.walk", "free.unlink", "free.unlock", "reuse.lock", "reuse.dat",
        "reuse.idx", "over.lock", "over.dat", "new.seek", "new.dat", "new.unlock",
        "tail.lock", "tail.seek", "tail.idx", "tail.unlock", "move.reread",
        "del.lock", "erase.lock", "erase.dat", "del.free", "del.idx", "del.head",
        "del.link", "del.unlock", "scan.lock", "scan.idx", "scan.dat", "scan.unlock"}

(* where a process holds the write lock of the tail, of the data file and  *)
(* of the free list                                                        *)
InTail == {"tail.seek", "tail.idx", "tail.unlock"}
InData == {"reuse.dat", "over.dat", "erase.dat"}
InFree == {"free.read", "free.walk", "free.unlink", "free.unlock", "erase.lock",
           "erase.dat", "del.free", "del.idx", "del.head", "del.link", "del.unlock"}

Conflict(l, m) == l[1] # m[1] /\ l[2] = m[2] /\ "w" \in {l[3], m[3]}

(* The index is a sequence of records, no two processes hold locks that    *)
(* exclude each other, each has those its program counter needs, and keeps *)
(* none but the one on the data file outside of a call.                    *)
TypeOK ==
  /\ idx \in Seq([key : Keys \cup {Blank}, klen : Nat, ptr : Nat, dat : Nat, len : Nat])
  /\ locks \subseteq Procs \X (Chains \cup {"free", "tail", "dat"}) \X {"r", "w"}
  /\ DOMAIN reg = Procs
  /\ \A p \in Procs :
       /\ reg[p].pc \in PCs
       /\ reg[p].pc \in InTail => <<p, "tail", "w">> \in locks
       /\ reg[p].pc \in InData => <<p, "dat", "w">> \in locks
       /\ reg[p].pc \in InFree => <<p, "free", "w">> \in locks
       /\ ~InCall(p) => \A l \in locks : l[1] = p => l[2] = "dat"
  /\ \A l, m \in locks : ~Conflict(l, m)

(* what db_fetch of a handle just opened reads for key k *)
Lookup(k) ==
  LET h == head[Hash[k]]
  IN IF h = None \/ idx[h].key # k THEN <<>> ELSE Span(idx[h].dat, idx[h].len)

(* Once all calls are over a live record is the head of its chain, however *)
(* the processes took turns: no call on one key unlinks the record of      *)
(* another.  (No two keys share a chain.)                                  *)
LiveAtHead ==
  Settled /\ events \subseteq {"race"} =>
    \A r \in Live : head[Hash[idx[r].key]] = r

(* and no record is at the head of two lists, nor remembered in the stale  *)
(* ptrval of any process while it is at the head of one.  A process that   *)
(* is killed, but for the torn delete, only makes records unreachable.     *)
Ends == {<<c, head[c]>> : c \in Chains} \cup {<<"free", free>>}
          \cup {<<p, reg[p].ptrval>> : p \in Procs}
ListsApart ==
  Settled /\ events \subseteq {"race", "crash"} =>
    \A a, b \in Ends : a[2] = b[2] /\ a[2] # None => a = b

(* A live record leads to a datum that was written for its key, in one     *)
(* piece, or to one that a delete has erased: at any moment, between any   *)
(* two writes, and for whoever opens the files after a process has been    *)
(* killed there.  What spoils it are two appends that race for the end of  *)
(* the data file, a refused lock, and a torn delete.                       *)
OwnOrErased ==
  events \subseteq {"crash"} =>
    \A r \in Live : /\ Whole(idx[r].dat, idx[r].len)
                    /\ dat[idx[r].dat].key \in {idx[r].key, Blank}

(* What a fetch or a scan found in the index still holds when it reads the *)
(* data: no other process moves, erases or reuses them in between.         *)
ReadsOwn ==
  events = {} =>
    \A p \in Procs : reg[p].pc \in {"dat.read", "scan.dat"} =>
      Span(reg[p].datoff, reg[p].datlen)
        \in {Text(reg[p].key, v, reg[p].datlen) : v \in Vals}

(* Two processes never append to the index at the same place: what a       *)
(* process has found to be the end of the file is the end when it writes.  *)
IndexAppendsApart ==
  \A p \in Procs : reg[p].pc = "tail.idx" => reg[p].idxoff = Len(idx) + 1

(* A request is refused only because of the lock on the data file, which   *)
(* _db_writedat with SEEK_SET leaves behind: some process has it without   *)
(* writing to that file.                                                   *)
RefusedForLeak ==
  (\E p \in Procs : Requests(p) /\ Deadlocked(p)) =>
     \E l \in locks : /\ l[2] = "dat"
                      /\ reg[l[1]].pc \notin InData

(* Whatever a lookup of k finds changes only by a call on k that has the   *)
(* write lock of its chain, and only into nothing, erased data or the data *)
(* being stored: so a process that is killed loses or half-stores the      *)
(* entry it was working on, and no other.                                  *)
Changes(p, k) ==
  /\ reg[p].key = k /\ reg[p].op \in {"store", "delete"}
  /\ <<p, Hash[k], "w">> \in locks
  /\ Lookup(k)' \in {<<>>} \cup {Text(Blank, Blank, n) : n \in 1 .. MaxDat}
                  \cup (IF reg[p].op = "delete" THEN {}
                        ELSE {Text(k, reg[p].val, DatLen[reg[p].val])})
ChangedByOwnCall ==
  [][events' \subseteq {"crash"} =>
       \A k \in Keys : Lookup(k)' # Lookup(k) => \E p \in Procs : Changes(p, k)]_vars
=============================================================================
