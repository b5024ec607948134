------------------------ MODULE ApueDbShared_proofs ------------------------
(***************************************************************************)
(* Proofs about ApueDbShared, for any number of processes, keys and        *)
(* records, with crashes and refused locks at any point.                   *)
(*                                                                         *)
(* The argument has three layers. Discipline says where in the program a   *)
(* process is and which locks it holds there; it is inductive whatever is  *)
(* in the files, and it orders the locks: chain, free list, data or tail.  *)
(* Offsets says that all pointers and offsets, in the files and in the     *)
(* handles, stay within the files; it needs Discipline for the locks on    *)
(* the tail of the index.                                                  *)
(*                                                                         *)
(* Above them are the chains and the free list.                            *)
(* Guards: a process has the locks its place in a call asks for, as long   *)
(* as none has been refused.  Lists: a call only passes records on, from   *)
(* the head of a list into its hands and from there to the head of a list, *)
(* so no record is in two of these places; all but the live ones at the    *)
(* heads, and those about to be linked, are deleted.  What a process has   *)
(* read of a list it has locked still holds.  A kill drops what was in the *)
(* hands, but for the one between the two writes of a delete.              *)
(*                                                                         *)
(* LiveReached: without kills, a live record that is not at the head of    *)
(* its chain is in the hands of a process about to put it there.           *)
(***************************************************************************)
EXTENDS ApueDbShared, SequenceTheorems, TLAPS

Fields == {"pc", "ptrval", "pos", "op", "key", "val", "flag", "rc", "off", "from",
           "idxoff", "datoff", "datlen", "new", "save"}

Searching == {"chain.lock", "chain.read", "chain.walk", "chain.unlock"}
Deleting  == {"del.lock", "erase.lock", "erase.dat", "del.free", "del.idx",
              "del.head", "del.link", "del.unlock"}
Storing   == {"chain.reread", "chain.link", "free.lock", "free.read", "free.walk",
              "free.unlink", "free.unlock", "reuse.lock", "reuse.dat", "reuse.idx",
              "over.lock", "over.dat", "new.seek", "new.dat", "new.unlock",
              "tail.lock", "tail.seek", "tail.idx", "tail.unlock", "move.reread"}
Scanning  == {"scan.lock", "scan.idx", "scan.dat", "scan.unlock"}
OnChain   == Searching \cup Deleting \cup Storing \cup {"dat.read"}

Things == Chains \cup {"free", "tail", "dat"}

(* The program counter tells which call a process is in. *)
Place(r) ==
  /\ r.pc \in {"off", "idle"} \cup OnChain \cup Scanning
  /\ r.pc \in Searching => r.op \in {"fetch", "delete", "store"}
  /\ r.pc \in Deleting  => r.op \in {"delete", "store"}
  /\ r.pc \in Storing   => r.op = "store"
  /\ r.pc = "dat.read"  => r.op = "fetch"
  /\ r.pc \in Scanning  => r.op = "next"
  /\ r.pc \in OnChain   => r.key \in Keys
  /\ r.op = "store"     => r.val \in Vals

(* the locks a process has to hold where it is, and the ones it may *)
Needs(p) ==
  /\ reg[p].pc \in InTail => <<p, "tail", "w">> \in locks
  /\ reg[p].pc \in InData => <<p, "dat", "w">> \in locks
  /\ reg[p].pc \in InFree => <<p, "free", "w">> \in locks

Entitled(l) ==
  LET r == reg[l[1]]
  IN \/ l[2] = "dat"
     \/ l[2] = "tail" /\ r.pc \in InTail
     \/ l[2] = "free" /\ r.pc \in InFree \cup (Scanning \ {"scan.lock"})
     \/ l[2] = Hash[r.key] /\ r.pc \in OnChain \ {"chain.lock"}

Shapes == DOMAIN reg = Procs /\ \A p \in Procs : DOMAIN reg[p] = Fields
LockSet == locks \subseteq Procs \X Things \X {"r", "w"}
Exclusive == \A l, m \in locks : ~Conflict(l, m)

Discipline ==
  /\ Shapes /\ LockSet /\ Exclusive
  /\ \A p \in Procs : Place(reg[p]) /\ Needs(p)
  /\ \A l \in locks : Entitled(l)
-----------------------------------------------------------------------------
(* What a step of one process does to Discipline, by what it does to the   *)
(* locks.                                                                  *)
USE SharedAssumption DEF Fields, Searching, Deleting, Storing, Scanning, OnChain,
  InTail, InData, InFree

(* p goes where it needs and may hold the same locks. *)
Moves(p) ==
  LET was == reg[p].pc
      pc  == reg'[p].pc
  IN /\ reg' = [reg EXCEPT ![p] = reg'[p]] /\ locks' = locks
     /\ DOMAIN reg'[p] = Fields /\ Place(reg'[p])
     /\ pc \in InTail <=> was \in InTail
     /\ pc \in InData => was \in InData
     /\ pc \in InFree => was \in InFree
     /\ was \in InFree \cup (Scanning \ {"scan.lock"})
          => pc \in InFree \cup (Scanning \ {"scan.lock"})
     /\ was \in OnChain \ {"chain.lock"} => pc \in OnChain \ {"chain.lock"}
     /\ was \in OnChain => reg'[p].key = reg[p].key

LEMMA MoveKeeps == ASSUME Discipline, NEW p \in Procs, Moves(p) PROVE Discipline'
<1>1. Shapes' /\ \A q \in Procs : q # p => reg'[q] = reg[q]
  BY SMT DEF Discipline, Shapes, Moves
<1>2. LockSet' /\ Exclusive'
  BY SMT DEF Discipline, LockSet, Exclusive, Conflict, Moves
<1>3. ASSUME NEW q \in Procs PROVE Place(reg'[q]) /\ Needs(q)'
  BY <1>1, SMT DEF Discipline, Needs, Moves
<1>4. ASSUME NEW l \in locks PROVE Entitled(l)'
  <2>1. l[1] \in Procs /\ Entitled(l)
    BY SMT DEF Discipline, LockSet
  <2> QED BY <1>1, <2>1, SMT DEF Entitled, Moves
<1> QED BY <1>1, <1>2, <1>3, <1>4, SMT DEF Discipline, Moves

(* p gives a lock back and goes where it does not need it. *)
Drops(p, what) ==
  LET was == reg[p].pc
      pc  == reg'[p].pc
  IN /\ reg' = [reg EXCEPT ![p] = reg'[p]] /\ Release(p, what)
     /\ DOMAIN reg'[p] = Fields /\ Place(reg'[p])
     /\ pc \notin InData \cup InTail \cup InFree
     /\ was \in InTail => what = "tail"
     /\ was \in InFree \cup (Scanning \ {"scan.lock"}) => what = "free"
     /\ was \in OnChain \ {"chain.lock"}
          => what = Chain(p) \/ (pc \in OnChain \ {"chain.lock"} /\ reg'[p].key = reg[p].key)

LEMMA DropKeeps ==
  ASSUME Discipline, NEW p \in Procs, NEW what, Drops(p, what) PROVE Discipline'
<1>1. Shapes' /\ \A q \in Procs : q # p => reg'[q] = reg[q]
  BY SMT DEF Discipline, Shapes, Drops
<1>2. LockSet' /\ Exclusive'
  BY SMT DEF Discipline, LockSet, Exclusive, Conflict, Drops, Release
<1>3. ASSUME NEW q \in Procs PROVE Place(reg'[q]) /\ Needs(q)'
  BY <1>1, SMT DEF Discipline, Needs, Drops, Release
<1>4. ASSUME NEW l \in locks' PROVE Entitled(l)'
  <2>1. l \in locks /\ l[1] \in Procs /\ Entitled(l) /\ ~(l[1] = p /\ l[2] = what)
    BY SMT DEF Discipline, LockSet, Drops, Release
  <2> QED BY <1>1, <2>1, SMT DEF Entitled, Drops, Chain
<1> QED BY <1>1, <1>2, <1>3, <1>4, SMT DEF Discipline

(* Closing the files or being killed releases all locks. *)
LEMMA LeaveKeeps ==
  ASSUME Discipline, NEW p \in Procs, reg' = [reg EXCEPT ![p] = At("off", None, Astray)],
         locks' = {l \in locks : l[1] # p}
  PROVE  Discipline'
<1> PICK r : r = At("off", None, Astray)
  OBVIOUS
<1>0. DOMAIN r = Fields /\ Place(r) /\ r.pc = "off" /\ reg' = [reg EXCEPT ![p] = r]
  BY SMT DEF At, Place
<1>1. Shapes'
  BY <1>0, SMT DEF Discipline, Shapes
<1>2. LockSet' /\ Exclusive'
  BY SMT DEF Discipline, LockSet, Exclusive, Conflict
<1>3. reg'[p] = r /\ \A q \in Procs : q # p => reg'[q] = reg[q]
  BY <1>0, SMT DEF Discipline, Shapes
<1>4. ASSUME NEW q \in Procs PROVE Place(reg'[q]) /\ Needs(q)'
  BY <1>0, <1>3, SMT DEF Discipline, Needs
<1>5. ASSUME NEW l \in locks' PROVE Entitled(l)'
  <2>1. l \in locks /\ l[1] \in Procs /\ Entitled(l) /\ l[1] # p
    BY SMT DEF Discipline, LockSet
  <2> QED BY <1>3, <2>1, SMT DEF Entitled
<1> QED BY <1>1, <1>2, <1>4, <1>5, SMT DEF Discipline

LEMMA GrantedIs ==
  /\ Granted["chain.lock"] = "chain.read" /\ Granted["free.lock"] = "free.read"
  /\ Granted["del.lock"] = "erase.lock"   /\ Granted["scan.lock"] = "scan.idx"
  /\ Granted["tail.lock"] = "tail.seek"   /\ Granted["reuse.lock"] = "reuse.dat"
  /\ Granted["over.lock"] = "over.dat"    /\ Granted["erase.lock"] = "erase.dat"
BY SMT DEF Granted

Requesting == {"chain.lock", "free.lock", "del.lock", "scan.lock", "tail.lock",
               "reuse.lock", "over.lock", "erase.lock"}

LEMMA WantedIs ==
  ASSUME NEW p \in Procs, reg[p].pc \in Requesting, Place(reg[p])
  PROVE  /\ Wanted(p) = <<Wanted(p)[1], Wanted(p)[2]>>
         /\ Wanted(p)[1] \in Things /\ Wanted(p)[2] \in {"r", "w"}
         /\ reg[p].pc = "chain.lock" => Wanted(p)[1] = Hash[reg[p].key]
         /\ reg[p].pc \in {"free.lock", "del.lock"} => Wanted(p) = <<"free", "w">>
         /\ reg[p].pc = "scan.lock" => Wanted(p) = <<"free", "r">>
         /\ reg[p].pc = "tail.lock" => Wanted(p) = <<"tail", "w">>
         /\ reg[p].pc \in {"reuse.lock", "over.lock", "erase.lock"}
              => Wanted(p) = <<"dat", "w">>
BY SMT DEF Requesting, Wanted, Chain, Things, Place

LEMMA AcquireKeeps == ASSUME Discipline, NEW p \in Procs, Acquire(p) PROVE Discipline'
<1>0. /\ DOMAIN reg[p] = Fields /\ Place(reg[p]) /\ Needs(p)
      /\ reg[p].pc \in Requesting
  BY SMT DEF Discipline, Shapes, Acquire, Requests, Granted, Requesting
<1>1. PICK pc : pc = Granted[reg[p].pc]
  OBVIOUS
<1>2. PICK r : r = [reg[p] EXCEPT !.pc = pc]
  OBVIOUS
<1>3. PICK what, mode : what = Wanted(p)[1] /\ mode = Wanted(p)[2]
  OBVIOUS
<1>4. /\ DOMAIN r = Fields /\ Place(r) /\ r.key = reg[p].key /\ r.pc = pc
  BY <1>0, <1>1, <1>2, GrantedIs, SMT DEF Place, Requesting
<1>5. locks' = locks \cup {<<p, what, mode>>} /\ reg' = [reg EXCEPT ![p] = r]
  BY <1>1, <1>2, <1>3, Zenon DEF Acquire, Go, Set
<1>6. Shapes' /\ reg'[p] = r /\ \A q \in Procs : q # p => reg'[q] = reg[q]
  BY <1>4, <1>5, SMT DEF Discipline, Shapes
<1>7. LockSet'
  BY <1>0, <1>3, <1>5, WantedIs, SMT DEF Discipline, LockSet
<1>8. Exclusive'
  <2>1. ASSUME NEW m \in locks, m[1] # p, m[2] = what PROVE "w" \notin {m[3], mode}
    BY <1>3, <2>1, SMT DEF Acquire, InTheWay
  <2> QED BY <1>5, <2>1, SMT DEF Discipline, Exclusive, Conflict
<1>9. ASSUME NEW q \in Procs PROVE Place(reg'[q]) /\ Needs(q)'
  <2>1. CASE q # p
    BY <1>5, <1>6, <2>1, SMT DEF Discipline, Needs
  <2>2. CASE q = p
    <3>1. /\ pc \in InTail => what = "tail" /\ mode = "w"
          /\ pc \in InData => what = "dat" /\ mode = "w"
          /\ pc \in InFree => (what = "free" /\ mode = "w") \/ reg[p].pc \in InFree
      BY <1>0, <1>1, <1>3, WantedIs, GrantedIs, SMT DEF Requesting
    <3> QED BY <1>0, <1>4, <1>5, <1>6, <2>2, <3>1, SMT DEF Needs
  <2> QED BY <2>1, <2>2
<1>10. ASSUME NEW l \in locks' PROVE Entitled(l)'
  <2>1. CASE l \in locks
    <3>1. l[1] \in Procs /\ Entitled(l)
      BY <2>1, SMT DEF Discipline, LockSet
    <3>2. /\ reg[p].pc \notin InTail
          /\ reg[p].pc \in InFree \cup (Scanning \ {"scan.lock"}) => pc \in InFree
          /\ reg[p].pc \in OnChain \ {"chain.lock"} => pc \in OnChain \ {"chain.lock"}
      BY <1>0, <1>1, GrantedIs, SMT DEF Requesting
    <3> QED BY <1>4, <1>6, <3>1, <3>2, SMT DEF Entitled
  <2>2. CASE l = <<p, what, mode>>
    <3>1. \/ what = "dat"
          \/ what = "tail" /\ pc \in InTail
          \/ what = "free" /\ pc \in InFree \cup (Scanning \ {"scan.lock"})
          \/ what = Hash[reg[p].key] /\ pc \in OnChain \ {"chain.lock"}
      BY <1>0, <1>1, <1>3, WantedIs, GrantedIs, SMT DEF Requesting
    <3> QED BY <1>4, <1>6, <2>2, <3>1, SMT DEF Entitled
  <2> QED BY <1>5, <2>1, <2>2
<1> QED BY <1>6, <1>7, <1>8, <1>9, <1>10, SMT DEF Discipline
-----------------------------------------------------------------------------
(* The control flow: every other step moves, drops a lock, or leaves. *)

LEMMA HandleOf ==
  ASSUME Discipline, NEW p \in Procs
  PROVE  DOMAIN reg = Procs /\ DOMAIN reg[p] = Fields /\ Place(reg[p])
BY SMT DEF Discipline, Shapes

(* p goes from one place in its call to another. *)
Goes(p, from, to) ==
  /\ reg[p].pc \in from /\ reg'[p].pc \in to
  /\ reg' = [reg EXCEPT ![p] = reg'[p]] /\ DOMAIN reg'[p] = Fields
  /\ reg'[p].op = reg[p].op /\ reg'[p].key = reg[p].key /\ reg'[p].val = reg[p].val

SameCall(r, s) ==
  /\ DOMAIN s = Fields
  /\ s.op = r.op /\ s.key = r.key /\ s.val = r.val /\ s.flag = r.flag
  /\ s.ptrval = r.ptrval

SameOffsets(r, s) ==
  /\ s.idxoff = r.idxoff /\ s.datoff = r.datoff /\ s.datlen = r.datlen
  /\ s.new = r.new /\ s.save = r.save
  /\ s.off = None /\ s.from \in {None, r.from}

LEMMA FoundGoes ==
  ASSUME NEW r, DOMAIN r = Fields, r.op \in {"fetch", "delete", "store"}
  PROVE  /\ SameCall(r, Found(r)) /\ SameOffsets(r, Found(r))
         /\ Found(r).pc \in {"dat.read", "del.lock", "chain.unlock", "over.lock"}
         /\ Found(r).pc = "over.lock" => r.op = "store"
         /\ Found(r).pc = "del.lock" => r.op \in {"delete", "store"}
         /\ Found(r).pc = "dat.read" => r.op = "fetch"
<1> PICK f : f = [r EXCEPT !.off = None]
  OBVIOUS
<1>0. SameCall(r, f) /\ SameOffsets(r, f) /\ f.from = r.from
  BY SMT DEF SameCall, SameOffsets
<1>1. CASE r.op = "fetch"
  <2>1. Found(r) = [f EXCEPT !.pc = "dat.read", !.from = None]
    BY <1>0, <1>1, SMT DEF Found, SameCall
  <2> QED BY <1>0, <1>1, <2>1, SMT DEF SameCall, SameOffsets
<1>2. CASE r.op = "delete"
  <2>1. Found(r) = [f EXCEPT !.pc = "del.lock"]
    BY <1>0, <1>2, SMT DEF Found, SameCall
  <2> QED BY <1>0, <1>2, <2>1, SMT DEF SameCall, SameOffsets
<1>3. CASE r.op = "store" /\ f.flag = "insert"
  <2>1. Found(r) = [f EXCEPT !.pc = "chain.unlock", !.rc = 1]
    BY <1>0, <1>3, SMT DEF Found, SameCall
  <2> QED BY <1>0, <1>3, <2>1, SMT DEF SameCall, SameOffsets
<1>4. CASE r.op = "store" /\ f.flag # "insert" /\ f.datlen = DatLen[f.val]
  <2>1. Found(r) = [f EXCEPT !.pc = "over.lock"]
    BY <1>0, <1>4, SMT DEF Found, SameCall
  <2> QED BY <1>0, <1>4, <2>1, SMT DEF SameCall, SameOffsets
<1>5. CASE r.op = "store" /\ f.flag # "insert" /\ f.datlen # DatLen[f.val]
  <2>1. Found(r) = [f EXCEPT !.pc = "del.lock"]
    BY <1>0, <1>5, SMT DEF Found, SameCall
  <2> QED BY <1>0, <1>5, <2>1, SMT DEF SameCall, SameOffsets
<1> QED BY <1>1, <1>2, <1>3, <1>4, <1>5

LEMMA MissedGoes ==
  ASSUME NEW r, DOMAIN r = Fields
  PROVE  /\ SameCall(r, Missed(r))
         /\ Missed(r).pc \in {"chain.reread", "chain.unlock"}
         /\ Missed(r).pc = "chain.reread" => r.op = "store"
BY SMT DEF Missed, SameCall

LEMMA StepsMove ==
  ASSUME Discipline, NEW p \in Procs
  PROVE  /\ ReadHead(p) \/ Walk(p) \/ ReadDat(p) => Moves(p)
         /\ Reread(p) \/ ReadFree(p) \/ WalkFree(p) \/ Unlink(p) => Moves(p)
         /\ WriteDat(p) \/ WriteIdx(p) \/ SeekDat(p) \/ AppendDat(p) => Moves(p)
         /\ SeekIdx(p) \/ AppendIdx(p) \/ Link(p) => Moves(p)
         /\ DelFree(p) \/ DelIdx(p) \/ DelHead(p) \/ DelLink(p) => Moves(p)
         /\ ScanIdx(p) \/ ScanDat(p) => Moves(p)
<1>0. DOMAIN reg = Procs /\ DOMAIN reg[p] = Fields /\ Place(reg[p])
  BY HandleOf
<1>1. ASSUME Reread(p) PROVE Moves(p)
  <2>1. Goes(p, {"chain.reread", "move.reread"}, {"free.lock", "new.seek"}) /\ locks' = locks
    BY <1>0, <1>1, SMT DEF Reread, Set, Goes
  <2> QED BY <1>0, <2>1, SMT DEF Goes, Moves, Place
<1>2. ASSUME ReadFree(p) PROVE Moves(p)
  <2>1. Goes(p, {"free.read"}, {"free.unlock", "free.walk"}) /\ locks' = locks
    BY <1>0, <1>2, SMT DEF ReadFree, Set, Goes
  <2> QED BY <1>0, <2>1, SMT DEF Goes, Moves, Place
<1>3. ASSUME WalkFree(p) PROVE Moves(p)
  <2>1. Goes(p, {"free.walk"}, {"free.unlink", "free.unlock", "free.walk"}) /\ locks' = locks
    BY <1>0, <1>3, SMT DEF WalkFree, Loaded, Set, Goes
  <2> QED BY <1>0, <2>1, SMT DEF Goes, Moves, Place
<1>4. ASSUME Unlink(p) PROVE Moves(p)
  <2>1. Goes(p, {"free.unlink"}, {"free.unlock"}) /\ locks' = locks
    BY <1>0, <1>4, SMT DEF Unlink, Set, Goes
  <2> QED BY <1>0, <2>1, SMT DEF Goes, Moves, Place
<1>5. ASSUME WriteIdx(p) PROVE Moves(p)
  <2>1. Goes(p, {"reuse.idx"}, {"chain.link"}) /\ locks' = locks
    BY <1>0, <1>5, SMT DEF WriteIdx, Set, Goes
  <2> QED BY <1>0, <2>1, SMT DEF Goes, Moves, Place
<1>6. ASSUME SeekDat(p) PROVE Moves(p)
  <2>1. Goes(p, {"new.seek"}, {"new.dat"}) /\ locks' = locks
    BY <1>0, <1>6, SMT DEF SeekDat, Set, Goes
  <2> QED BY <1>0, <2>1, SMT DEF Goes, Moves, Place
<1>7. ASSUME AppendDat(p) PROVE Moves(p)
  <2>1. Goes(p, {"new.dat"}, {"new.unlock"}) /\ locks' = locks
    BY <1>0, <1>7, SMT DEF AppendDat, Set, Goes
  <2> QED BY <1>0, <2>1, SMT DEF Goes, Moves, Place
<1>8. ASSUME SeekIdx(p) PROVE Moves(p)
  <2>1. Goes(p, {"tail.seek"}, {"tail.idx"}) /\ locks' = locks
    BY <1>0, <1>8, SMT DEF SeekIdx, Set, Goes
  <2> QED BY <1>0, <2>1, SMT DEF Goes, Moves, Place
<1>9. ASSUME AppendIdx(p) PROVE Moves(p)
  <2>1. Goes(p, {"tail.idx"}, {"tail.unlock"}) /\ locks' = locks
    BY <1>0, <1>9, SMT DEF AppendIdx, Set, Goes
  <2> QED BY <1>0, <2>1, SMT DEF Goes, Moves, Place
<1>10. ASSUME Link(p) PROVE Moves(p)
  <2>1. Goes(p, {"chain.link"}, {"chain.unlock"}) /\ locks' = locks
    BY <1>0, <1>10, SMT DEF Link, Set, Goes
  <2> QED BY <1>0, <2>1, SMT DEF Goes, Moves, Place
<1>11. ASSUME DelFree(p) PROVE Moves(p)
  <2>1. Goes(p, {"del.free"}, {"del.idx"}) /\ locks' = locks
    BY <1>0, <1>11, SMT DEF DelFree, Set, Goes
  <2> QED BY <1>0, <2>1, SMT DEF Goes, Moves, Place
<1>12. ASSUME DelIdx(p) PROVE Moves(p)
  <2>1. Goes(p, {"del.idx"}, {"del.head"}) /\ locks' = locks
    BY <1>0, <1>12, SMT DEF DelIdx, Set, Goes
  <2> QED BY <1>0, <2>1, SMT DEF Goes, Moves, Place
<1>13. ASSUME DelHead(p) PROVE Moves(p)
  <2>1. Goes(p, {"del.head"}, {"del.link"}) /\ locks' = locks
    BY <1>0, <1>13, SMT DEF DelHead, Set, Goes
  <2> QED BY <1>0, <2>1, SMT DEF Goes, Moves, Place
<1>14. ASSUME DelLink(p) PROVE Moves(p)
  <2>1. Goes(p, {"del.link"}, {"del.unlock"}) /\ locks' = locks
    BY <1>0, <1>14, SMT DEF DelLink, Set, Goes
  <2> QED BY <1>0, <2>1, SMT DEF Goes, Moves, Place
<1>15. ASSUME WriteDat(p) PROVE Moves(p)
  <2>1. CASE reg[p].pc = "erase.dat"
    <3>1. Goes(p, {"erase.dat"}, {"del.free"}) /\ locks' = locks
      BY <1>0, <1>15, <2>1, SMT DEF WriteDat, Go, Set, Goes
    <3> QED BY <1>0, <3>1, SMT DEF Goes, Moves, Place
  <2>2. CASE reg[p].pc = "over.dat"
    <3>1. /\ Set(p, [reg[p] EXCEPT !.datlen = DatLen[reg[p].val], !.pc = "chain.unlock"])
          /\ locks' = locks
      BY <1>15, <2>2, SMT DEF WriteDat, Set
    <3>2. Goes(p, {"over.dat"}, {"chain.unlock"})
      BY <1>0, <2>2, <3>1, SMT DEF Set, Goes
    <3> QED BY <1>0, <3>1, <3>2, SMT DEF Goes, Moves, Place
  <2>3. CASE reg[p].pc = "reuse.dat"
    <3>1. /\ Set(p, [reg[p] EXCEPT !.datlen = DatLen[reg[p].val], !.pc = "reuse.idx"])
          /\ locks' = locks
      BY <1>15, <2>3, SMT DEF WriteDat, Set
    <3>2. Goes(p, {"reuse.dat"}, {"reuse.idx"})
      BY <1>0, <2>3, <3>1, SMT DEF Set, Goes
    <3> QED BY <1>0, <3>1, <3>2, SMT DEF Goes, Moves, Place
  <2> QED BY <1>15, <2>1, <2>2, <2>3, SMT DEF WriteDat
<1>16. ASSUME ReadHead(p) PROVE Moves(p)
  <2>1. Goes(p, {"chain.read"}, {"chain.walk", "chain.reread", "chain.unlock"}) /\ locks' = locks
    BY <1>0, <1>16, SMT DEF ReadHead, Missed, Set, Goes
  <2>2. reg'[p].pc = "chain.reread" => reg[p].op = "store"
    BY <1>0, <1>16, SMT DEF ReadHead, Missed, Set
  <2> QED BY <1>0, <2>1, <2>2, SMT DEF Goes, Moves, Place
<1>17. ASSUME Walk(p) PROVE Moves(p)
  <2> PICK l : l = Loaded(reg[p])
    OBVIOUS
  <2>0. /\ reg[p].op \in {"fetch", "delete", "store"} /\ reg[p].pc = "chain.walk"
        /\ locks' = locks
    BY <1>0, <1>17, SMT DEF Walk, Place
  <2>1. SameCall(reg[p], l) /\ l.pc = "chain.walk"
    BY <1>0, <2>0, SMT DEF Loaded, SameCall
  <2>2. PICK r : Set(p, r) /\ \/ r = Found(l)
                              \/ r = Missed(l)
                              \/ r = [l EXCEPT !.from = l.off, !.off = l.ptrval]
    BY <1>17, SMT DEF Walk
  <2>3. /\ SameCall(reg[p], r)
        /\ r.pc \in {"chain.walk", "chain.reread", "chain.unlock", "dat.read",
                     "del.lock", "over.lock"}
        /\ r.pc \in {"chain.reread", "over.lock"} => r.op = "store"
        /\ r.pc = "del.lock" => r.op \in {"delete", "store"}
        /\ r.pc = "dat.read" => r.op = "fetch"
    <3>1. CASE r = Found(l)
      BY <2>0, <2>1, <3>1, FoundGoes, SMT DEF SameCall
    <3>2. CASE r = Missed(l)
      BY <2>0, <2>1, <3>2, MissedGoes, SMT DEF SameCall
    <3>3. CASE r = [l EXCEPT !.from = l.off, !.off = l.ptrval]
      BY <2>0, <2>1, <3>3, SMT DEF SameCall
    <3> QED BY <2>2, <3>1, <3>2, <3>3
  <2>4. Goes(p, {"chain.walk"}, {r.pc}) /\ reg'[p] = r
    BY <1>0, <2>0, <2>2, <2>3, SMT DEF Set, Goes, SameCall
  <2> QED BY <1>0, <2>0, <2>3, <2>4, SMT DEF Goes, Moves, Place, SameCall
<1>18. ASSUME ScanIdx(p) PROVE Moves(p)
  <2>0. reg[p].pc = "scan.idx" /\ locks' = locks
    BY <1>18, SMT DEF ScanIdx
  <2>1. PICK r : /\ Set(p, r)
                 /\ \/ r = [reg[p] EXCEPT !.pc = "scan.unlock", !.rc = -1]
                    \/ r = [reg[p] EXCEPT !.pos = reg[p].pos + 1]
                    \/ r = [reg[p] EXCEPT !.pc = "scan.dat", !.key = idx[reg[p].pos].key,
                              !.datoff = idx[reg[p].pos].dat, !.datlen = idx[reg[p].pos].len,
                              !.pos = reg[p].pos + 1]
    BY <1>18, SMT DEF ScanIdx
  <2>2. /\ DOMAIN r = Fields /\ r.op = reg[p].op
        /\ r.pc \in {"scan.idx", "scan.dat", "scan.unlock"}
    <3>1. CASE r = [reg[p] EXCEPT !.pc = "scan.unlock", !.rc = -1]
      BY <1>0, <3>1, SMT
    <3>2. CASE r = [reg[p] EXCEPT !.pos = reg[p].pos + 1]
      BY <1>0, <2>0, <3>2, SMT
    <3>3. CASE r = [reg[p] EXCEPT !.pc = "scan.dat", !.key = idx[reg[p].pos].key,
                              !.datoff = idx[reg[p].pos].dat, !.datlen = idx[reg[p].pos].len,
                              !.pos = reg[p].pos + 1]
      BY <1>0, <3>3, SMT
    <3> QED BY <2>1, <3>1, <3>2, <3>3
  <2>3. reg' = [reg EXCEPT ![p] = reg'[p]] /\ reg'[p] = r
    BY <1>0, <2>1, SMT DEF Set
  <2> QED BY <1>0, <2>0, <2>2, <2>3, SMT DEF Moves, Place
<1>19. ASSUME ReadDat(p) PROVE Moves(p)
  <2>1. /\ reg[p].pc = "dat.read" /\ reg'[p].pc = "chain.unlock"
        /\ reg' = [reg EXCEPT ![p] = reg'[p]] /\ locks' = locks
        /\ DOMAIN reg'[p] = Fields /\ reg'[p].op = reg[p].op
        /\ reg'[p].key = reg[p].key
    BY <1>0, <1>19, SMT DEF ReadDat, Set
  <2> QED BY <1>0, <2>1, SMT DEF Moves, Place
<1>20. ASSUME ScanDat(p) PROVE Moves(p)
  <2>1. /\ reg[p].pc = "scan.dat" /\ reg'[p].pc = "scan.unlock"
        /\ reg' = [reg EXCEPT ![p] = reg'[p]] /\ locks' = locks
        /\ DOMAIN reg'[p] = Fields /\ reg'[p].op = reg[p].op
    BY <1>0, <1>20, SMT DEF ScanDat, Set
  <2> QED BY <1>0, <2>1, SMT DEF Moves, Place
<1> QED BY <1>1, <1>2, <1>3, <1>4, <1>5, <1>6, <1>7, <1>8, <1>9, <1>10, <1>11, <1>12, <1>13, <1>14, <1>15, <1>16, <1>17, <1>18, <1>19, <1>20

LEMMA CallsMove ==
  ASSUME Discipline, NEW p \in Procs
  PROVE  Open(p) \/ Rewind(p) \/ CallNext(p) \/ Refuse(p) => Moves(p)
<1>0. DOMAIN reg = Procs /\ DOMAIN reg[p] = Fields /\ Place(reg[p])
  BY HandleOf
<1>1. ASSUME Open(p) PROVE Moves(p)
  <2>1. /\ reg[p].pc = "off" /\ reg'[p].pc = "idle" /\ reg'[p].op = "none"
        /\ reg' = [reg EXCEPT ![p] = reg'[p]] /\ locks' = locks /\ DOMAIN reg'[p] = Fields
    BY <1>0, <1>1, SMT DEF Open, Outside, At, Set
  <2> QED BY <1>0, <2>1, SMT DEF Moves, Place
<1>2. ASSUME Rewind(p) PROVE Moves(p)
  <2>1. Goes(p, {"idle"}, {"idle"}) /\ locks' = locks
    BY <1>0, <1>2, SMT DEF Rewind, Set, Goes
  <2> QED BY <1>0, <2>1, SMT DEF Goes, Moves, Place
<1>3. ASSUME CallNext(p) PROVE Moves(p)
  <2>1. /\ reg[p].pc = "idle" /\ reg'[p].pc = "scan.lock" /\ reg'[p].op = "next"
        /\ reg' = [reg EXCEPT ![p] = reg'[p]] /\ locks' = locks /\ DOMAIN reg'[p] = Fields
    BY <1>0, <1>3, SMT DEF CallNext, Set
  <2> QED BY <1>0, <2>1, SMT DEF Moves, Place
<1>4. ASSUME Refuse(p) PROVE Moves(p)
  <2>1. reg[p].pc \in Requesting /\ Set(p, Refused(reg[p])) /\ locks' = locks
    BY <1>4, SMT DEF Refuse, Requests, Granted, Requesting
  <2>2. reg[p].pc = "chain.lock" => Moves(p)
    <3> SUFFICES ASSUME reg[p].pc = "chain.lock" PROVE Moves(p)
      OBVIOUS
    <3>1. Goes(p, {"chain.lock"}, {"chain.reread", "chain.unlock"})
      BY <1>0, <2>1, SMT DEF Refused, Missed, Set, Goes
    <3>2. reg'[p].pc = "chain.reread" => reg[p].op = "store"
      BY <1>0, <2>1, SMT DEF Refused, Missed, Set
    <3> QED BY <1>0, <2>1, <3>1, <3>2, SMT DEF Goes, Moves, Place
  <2>3. reg[p].pc = "del.lock" => Moves(p)
    <3> SUFFICES ASSUME reg[p].pc = "del.lock" PROVE Moves(p)
      OBVIOUS
    <3>1. Goes(p, {"del.lock"}, {"chain.unlock", "move.reread"})
      BY <1>0, <2>1, SMT DEF Refused, Deleted, Set, Goes
    <3>2. reg'[p].pc = "move.reread" => reg[p].op = "store"
      BY <1>0, <2>1, SMT DEF Refused, Deleted, Set, Place
    <3> QED BY <1>0, <2>1, <3>1, <3>2, SMT DEF Goes, Moves, Place
  <2>4. reg[p].pc = "scan.lock" => Moves(p)
    <3> SUFFICES ASSUME reg[p].pc = "scan.lock" PROVE Moves(p)
      OBVIOUS
    <3>1. /\ reg'[p].pc = "idle" /\ reg'[p].op = "none"
          /\ reg' = [reg EXCEPT ![p] = reg'[p]] /\ DOMAIN reg'[p] = Fields
      BY <1>0, <2>1, SMT DEF Refused, At, Set
    <3> QED BY <1>0, <2>1, <3>1, SMT DEF Moves, Place
  <2>5. CASE reg[p].pc = "free.lock"
    <3>1. Refused(reg[p]) = [reg[p] EXCEPT !.pc = "new.seek"]
      BY <2>5, SMT DEF Refused
    <3>2. Goes(p, {"free.lock"}, {"new.seek"})
      BY <1>0, <2>1, <2>5, <3>1, SMT DEF Set, Goes
    <3> QED BY <1>0, <2>1, <3>2, SMT DEF Goes, Moves, Place
  <2>6. CASE reg[p].pc = "erase.lock"
    <3>1. Refused(reg[p]) = [reg[p] EXCEPT !.pc = "del.free"]
      BY <2>6, SMT DEF Refused
    <3>2. Goes(p, {"erase.lock"}, {"del.free"})
      BY <1>0, <2>1, <2>6, <3>1, SMT DEF Set, Goes
    <3> QED BY <1>0, <2>1, <3>2, SMT DEF Goes, Moves, Place
  <2>7. CASE reg[p].pc = "reuse.lock"
    <3>1. Refused(reg[p]) = [reg[p] EXCEPT !.pc = "reuse.idx"]
      BY <2>7, SMT DEF Refused
    <3>2. Goes(p, {"reuse.lock"}, {"reuse.idx"})
      BY <1>0, <2>1, <2>7, <3>1, SMT DEF Set, Goes
    <3> QED BY <1>0, <2>1, <3>2, SMT DEF Goes, Moves, Place
  <2>8. CASE reg[p].pc = "over.lock"
    <3>1. Refused(reg[p]) = [reg[p] EXCEPT !.pc = "chain.unlock"]
      BY <2>8, SMT DEF Refused
    <3>2. Goes(p, {"over.lock"}, {"chain.unlock"})
      BY <1>0, <2>1, <2>8, <3>1, SMT DEF Set, Goes
    <3> QED BY <1>0, <2>1, <3>2, SMT DEF Goes, Moves, Place
  <2>9. CASE reg[p].pc = "tail.lock"
    <3>1. Refused(reg[p]) = [reg[p] EXCEPT !.pc = "chain.link", !.ptrval = reg[p].new]
      BY <2>9, SMT DEF Refused
    <3>2. Goes(p, {"tail.lock"}, {"chain.link"})
      BY <1>0, <2>1, <2>9, <3>1, SMT DEF Set, Goes
    <3> QED BY <1>0, <2>1, <3>2, SMT DEF Goes, Moves, Place
  <2> QED BY <2>1, <2>2, <2>3, <2>4, <2>5, <2>6, <2>7, <2>8, <2>9, SMT DEF Requesting
<1> QED BY <1>1, <1>2, <1>3, <1>4

Valid(op, v) == op \in {"fetch", "delete", "store"} /\ (op = "store" => v \in Vals)

LEMMA CallMoves ==
  ASSUME Discipline, NEW p \in Procs, NEW k \in Keys, NEW op, NEW v, NEW flag,
         Valid(op, v), Call(p, op, k, v, flag)
  PROVE  Moves(p)
<1>0. DOMAIN reg = Procs /\ DOMAIN reg[p] = Fields /\ Place(reg[p])
  BY HandleOf
<1>1. /\ reg[p].pc = "idle" /\ reg'[p].pc = "chain.lock" /\ reg'[p].op = op
      /\ reg'[p].key = k /\ reg'[p].val = v
      /\ reg' = [reg EXCEPT ![p] = reg'[p]] /\ locks' = locks /\ DOMAIN reg'[p] = Fields
  BY <1>0, SMT DEF Call, Set
<1> QED BY <1>0, <1>1, SMT DEF Moves, Place, Valid

LEMMA StepsDrop ==
  ASSUME Discipline, NEW p \in Procs
  PROVE  /\ Return(p) => Drops(p, Chain(p))
         /\ UnlockFree(p) \/ DelUnlock(p) \/ ScanReturn(p) => Drops(p, "free")
         /\ UnlockDat(p) => Drops(p, "dat")
         /\ UnlockTail(p) => Drops(p, "tail")
<1>0. DOMAIN reg = Procs /\ DOMAIN reg[p] = Fields /\ Place(reg[p])
  BY HandleOf
<1>1. ASSUME Return(p) PROVE Drops(p, Chain(p))
  <2>1. /\ reg[p].pc = "chain.unlock" /\ reg'[p].pc = "idle" /\ reg'[p].op = "none"
        /\ reg' = [reg EXCEPT ![p] = reg'[p]] /\ DOMAIN reg'[p] = Fields
        /\ Release(p, Chain(p))
    BY <1>0, <1>1, SMT DEF Return, Outside, At, Set
  <2> QED BY <1>0, <2>1, SMT DEF Drops, Place
<1>2. ASSUME UnlockFree(p) PROVE Drops(p, "free")
  <2>1. Goes(p, {"free.unlock"}, {"new.seek", "reuse.lock"}) /\ Release(p, "free")
    BY <1>0, <1>2, SMT DEF UnlockFree, Set, Goes
  <2> QED BY <1>0, <2>1, SMT DEF Goes, Drops, Place
<1>3. ASSUME DelUnlock(p) PROVE Drops(p, "free")
  <2>1. Goes(p, {"del.unlock"}, {"chain.unlock", "move.reread"}) /\ Release(p, "free")
    BY <1>0, <1>3, SMT DEF DelUnlock, Deleted, Set, Goes
  <2>2. reg'[p].pc = "move.reread" => reg[p].op = "store"
    BY <1>0, <1>3, SMT DEF DelUnlock, Deleted, Set, Place
  <2> QED BY <1>0, <2>1, <2>2, SMT DEF Goes, Drops, Place
<1>4. ASSUME ScanReturn(p) PROVE Drops(p, "free")
  <2>1. /\ reg[p].pc = "scan.unlock" /\ reg'[p].pc = "idle" /\ reg'[p].op = "none"
        /\ reg' = [reg EXCEPT ![p] = reg'[p]] /\ DOMAIN reg'[p] = Fields
        /\ Release(p, "free")
    BY <1>0, <1>4, SMT DEF ScanReturn, Outside, At, Set
  <2> QED BY <1>0, <2>1, SMT DEF Drops, Place
<1>5. ASSUME UnlockDat(p) PROVE Drops(p, "dat")
  <2>1. Goes(p, {"new.unlock"}, {"tail.lock"}) /\ Release(p, "dat")
    BY <1>0, <1>5, SMT DEF UnlockDat, Go, Set, Goes
  <2> QED BY <1>0, <2>1, SMT DEF Goes, Drops, Place
<1>6. ASSUME UnlockTail(p) PROVE Drops(p, "tail")
  <2>1. Goes(p, {"tail.unlock"}, {"chain.link"}) /\ Release(p, "tail")
    BY <1>0, <1>6, SMT DEF UnlockTail, Go, Set, Goes
  <2> QED BY <1>0, <2>1, SMT DEF Goes, Drops, Place
<1> QED BY <1>1, <1>2, <1>3, <1>4, <1>5, <1>6
-----------------------------------------------------------------------------
LEMMA InitDiscipline == Init => Discipline
<1> SUFFICES ASSUME Init PROVE Discipline
  OBVIOUS
<1>1. PICK r : r = At("off", None, Astray)
  OBVIOUS
<1>2. DOMAIN r = Fields /\ Place(r) /\ r.pc = "off"
  BY <1>1, SMT DEF At, Place
<1>3. locks = {} /\ reg = [p \in Procs |-> r]
  BY <1>1, SMT DEF Init
<1> QED BY <1>2, <1>3, SMT DEF Discipline, Shapes, LockSet, Exclusive, Needs

LEMMA NextDiscipline == Discipline /\ [Next]_vars => Discipline'
<1> SUFFICES ASSUME Discipline, [Next]_vars PROVE Discipline'
  OBVIOUS
<1>1. CASE UNCHANGED vars
  <2>1. reg' = reg /\ locks' = locks
    BY <1>1, SMT DEF vars, file
  <2> QED BY <2>1, SMT DEF Discipline, Shapes, LockSet, Exclusive, Needs, Entitled, Conflict
<1>2. ASSUME NEW p \in Procs, Begin(p) PROVE Discipline'
  <2>1. CASE Open(p) \/ Rewind(p) \/ CallNext(p)
    BY <2>1, CallsMove, MoveKeeps
  <2>2. CASE Close(p)
    <3>1. reg' = [reg EXCEPT ![p] = At("off", None, Astray)]
          /\ locks' = {l \in locks : l[1] # p}
      BY <2>2, Zenon DEF Close, Set
    <3> QED BY <3>1, LeaveKeeps
  <2>3. ASSUME NEW k \in Keys,
               Call(p, "fetch", k, Blank, "none") \/ Call(p, "delete", k, Blank, "none")
        PROVE  Moves(p)
    <3>1. Valid("fetch", Blank) /\ Valid("delete", Blank)
      BY SMT DEF Valid
    <3> QED BY <2>3, <3>1, CallMoves
  <2>4. ASSUME NEW k \in Keys, NEW v \in Vals, NEW flag \in StoreFlags, Call(p, "store", k, v, flag)
        PROVE  Moves(p)
    <3>1. Valid("store", v)
      BY SMT DEF Valid
    <3> QED BY <2>4, <3>1, CallMoves
  <2>5. CASE Moves(p)
    BY <2>5, MoveKeeps
  <2> QED BY <1>2, <2>1, <2>2, <2>3, <2>4, <2>5, Zenon DEF Begin
<1>3. ASSUME NEW p \in Procs, Step(p) PROVE Discipline'
  <2>1. CASE Acquire(p)
    BY <2>1, AcquireKeeps
  <2>2. CASE Moves(p)
    BY <2>2, MoveKeeps
  <2>3. CASE \E what : Drops(p, what)
    BY <2>3, DropKeeps
  <2> QED BY <1>3, <2>1, <2>2, <2>3, CallsMove, StepsMove, StepsDrop, Zenon DEF Step
<1>4. ASSUME NEW p \in Procs, Crash(p) PROVE Discipline'
  <2>1. reg' = [reg EXCEPT ![p] = At("off", None, Astray)]
        /\ locks' = {l \in locks : l[1] # p}
    BY <1>4, Zenon DEF Crash, Set
  <2> QED BY <2>1, LeaveKeeps
<1> QED BY <1>1, <1>2, <1>3, <1>4, Zenon DEF Next

(* At all times every process holds the record locks its place in the      *)
(* program calls for, no others but a left-over one on the data file, and  *)
(* no two processes hold locks that exclude each other.                    *)
THEOREM LockDiscipline == Spec => []Discipline
<1>1. Discipline /\ [Next]_vars => Discipline'
  BY NextDiscipline
<1> QED BY <1>1, InitDiscipline, PTL DEF Spec

(* RefusedForLeak, for any number of processes.  The locks are ordered:    *)
(* whoever waits for the tail waits for a process that waits for nothing;  *)
(* whoever waits for the free list waits for one that waits at most for    *)
(* the data file, and whoever waits for a chain for one of these.  So on a *)
(* cycle some process waits for the data file, which a waiting process     *)
(* holds only because it never gave it back.                               *)
LEMMA LeakOnly == Discipline => RefusedForLeak
<1> SUFFICES ASSUME Discipline, NEW p \in Procs, Requests(p), Deadlocked(p)
             PROVE  \E l \in locks : l[2] = "dat" /\ reg[l[1]].pc \notin InData
  BY DEF RefusedForLeak
<1>1. PICK Q \in SUBSET Procs :
        p \in Q /\ \A q \in Q : Requests(q) /\ InTheWay(q) \cap Q # {}
  BY DEF Deadlocked
<1>2. ASSUME NEW q \in Q PROVE Place(reg[q]) /\ reg[q].pc \in Requesting
  BY <1>1, SMT DEF Discipline, Requests, Granted, Requesting
<1>3. ASSUME NEW q \in Q
      PROVE  \E l \in locks : l[1] \in Q /\ l[2] = Wanted(q)[1] /\ Entitled(l)
  BY <1>1, SMT DEF InTheWay, Discipline
<1>4. ASSUME NEW q \in Q, Wanted(q)[1] = "dat"
      PROVE  \E l \in locks : l[2] = "dat" /\ reg[l[1]].pc \notin InData
  BY <1>2, <1>3, <1>4, SMT DEF Requesting
<1>5. ASSUME NEW q \in Q PROVE Wanted(q)[1] # "tail"
  <2> SUFFICES ASSUME Wanted(q)[1] = "tail" PROVE FALSE
    OBVIOUS
  <2>1. PICK l \in locks : l[1] \in Q /\ l[2] = "tail" /\ Entitled(l)
    BY <1>3
  <2>2. reg[l[1]].key \in Keys \/ reg[l[1]].pc \notin OnChain
    BY <1>2, <2>1, SMT DEF Place
  <2>3. reg[l[1]].pc \in InTail
    BY <2>1, <2>2, SMT DEF Entitled
  <2> QED BY <1>2, <2>1, <2>3, SMT DEF Requesting
<1>6. ASSUME NEW q \in Q, Wanted(q)[1] = "free"
      PROVE  \E x \in Q : Wanted(x)[1] = "dat"
  <2>1. PICK l \in locks : l[1] \in Q /\ l[2] = "free" /\ Entitled(l)
    BY <1>3, <1>6
  <2>2. reg[l[1]].key \in Keys \/ reg[l[1]].pc \notin OnChain
    BY <1>2, <2>1, SMT DEF Place
  <2>3. reg[l[1]].pc = "erase.lock"
    BY <1>2, <2>1, <2>2, SMT DEF Entitled, Requesting
  <2> QED BY <1>1, <1>2, <2>1, <2>3, WantedIs, SMT
<1>7. ASSUME NEW q \in Q, Wanted(q)[1] \in Chains
      PROVE  \E x \in Q : Wanted(x)[1] \in {"free", "tail", "dat"}
  <2>1. PICK l \in locks : l[1] \in Q /\ l[2] = Wanted(q)[1] /\ Entitled(l)
    BY <1>3
  <2>2. reg[l[1]].pc \in OnChain \ {"chain.lock"}
    BY <1>7, <2>1, SMT DEF Entitled
  <2> QED BY <1>1, <1>2, <2>1, <2>2, WantedIs, SMT DEF Requesting
<1>8. Wanted(p)[1] \in Things
  BY <1>1, <1>2, WantedIs
<1> QED BY <1>1, <1>4, <1>5, <1>6, <1>7, <1>8, SMT DEF Things

THEOREM RefusalsAreLeaks == Spec => []RefusedForLeak
BY LockDiscipline, LeakOnly, PTL
-----------------------------------------------------------------------------
(* Pointers and offsets *)

IdxRec == [key : Keys \cup {Blank}, klen : Nat, ptr : Nat, dat : Nat, len : Nat]

Files ==
  /\ idx \in Seq(IdxRec) /\ Len(dat) \in Nat
  /\ head \in [Chains -> 0 .. Len(idx)] /\ free \in 0 .. Len(idx)

(* All that a handle remembers is the number of a record that exists, but  *)
(* for the one that is about to be appended.                               *)
Within(r, n) ==
  /\ r.off \in 0 .. n /\ r.from \in 0 .. n /\ r.ptrval \in 0 .. n
  /\ r.new \in 0 .. n /\ r.save \in 0 .. n
  /\ r.datoff \in Nat /\ r.datlen \in Nat
  /\ r.idxoff \in IF r.pc = "tail.idx" THEN {n + 1} ELSE 0 .. n
  /\ r.pc \in {"chain.walk", "free.walk"} => r.off # None

Offsets == Files /\ \A p \in Procs : Within(reg[p], Len(idx))

LEMMA LenNat == Files => Len(idx) \in Nat /\ DOMAIN idx = 1 .. Len(idx)
BY SMT DEF Files

LEMMA RecUpdate ==
  ASSUME NEW t \in IdxRec, NEW key \in Keys \cup {Blank}, NEW ptr \in Nat, NEW off \in Nat,
         NEW len \in Nat
  PROVE  [t EXCEPT !.key = key, !.ptr = ptr, !.dat = off, !.len = len] \in IdxRec
BY DEF IdxRec

LEMMA PointedKeeps ==
  ASSUME Files, NEW r, NEW ptr \in Nat
  PROVE  Pointed(r, ptr) \in Seq(IdxRec) /\ Len(Pointed(r, ptr)) = Len(idx)
<1> DEFINE e == [idx[r] EXCEPT !.ptr = WritePtr(idx[r].ptr, ptr)]
<1>0. idx \in Seq(IdxRec)
  BY DEF Files
<1>1. Pointed(r, ptr) = [idx EXCEPT ![r] = e]
  BY DEF Pointed
<1>2. CASE r \in 1 .. Len(idx)
  <2>1. idx[r] \in IdxRec
    BY <1>0, <1>2, ElementOfSeq
  <2>2. e \in IdxRec
    BY <2>1, SMT DEF IdxRec, WritePtr
  <2> HIDE DEF e
  <2> QED BY <1>0, <1>1, <1>2, <2>2, ExceptSeq
<1>3. CASE r \notin 1 .. Len(idx)
  <2>1. [idx EXCEPT ![r] = e] = idx
    BY <1>0, <1>3, SMT
  <2> QED BY <1>0, <1>1, <2>1
<1> QED BY <1>2, <1>3

LEMMA FilledKeeps ==
  ASSUME Files, NEW r, NEW key \in Keys \cup {Blank}, r.new \in Nat, r.datoff \in Nat,
         r.datlen \in Nat
  PROVE  Filled(r, key) \in Seq(IdxRec) /\ Len(Filled(r, key)) = Len(idx)
<1> DEFINE i == r.idxoff
           e == [idx[i] EXCEPT !.key = key, !.ptr = r.new, !.dat = r.datoff, !.len = r.datlen]
<1>0. idx \in Seq(IdxRec)
  BY DEF Files
<1>1. Filled(r, key) = [idx EXCEPT ![i] = e]
  BY DEF Filled
<1>2. CASE i \in 1 .. Len(idx)
  <2>1. idx[i] \in IdxRec
    BY <1>0, <1>2, ElementOfSeq
  <2>5. e \in IdxRec
    BY <2>1, RecUpdate
  <2> HIDE DEF e
  <2> QED BY <1>0, <1>1, <1>2, <2>5, ExceptSeq
<1>3. CASE i \notin 1 .. Len(idx)
  <2>1. [idx EXCEPT ![i] = e] = idx
    BY <1>0, <1>3, SMT
  <2> QED BY <1>0, <1>1, <2>1
<1> QED BY <1>2, <1>3

LEMMA OneKeeps ==
  ASSUME Discipline, Offsets, NEW p \in Procs, reg' = [reg EXCEPT ![p] = reg'[p]],
         Files', Len(idx') = Len(idx), Within(reg'[p], Len(idx))
  PROVE  Offsets'
BY SMT DEF Discipline, Shapes, Offsets
LEMMA HereOf ==
  ASSUME Discipline, Offsets, NEW p \in Procs
  PROVE  /\ DOMAIN reg = Procs /\ DOMAIN reg[p] = Fields /\ Place(reg[p])
         /\ Within(reg[p], Len(idx)) /\ Files /\ Len(idx) \in Nat /\ DOMAIN idx = 1 .. Len(idx)
BY HandleOf, LenNat DEF Offsets

LEMMA LoadedWithin ==
  ASSUME Files, NEW r, DOMAIN r = Fields, r.pc \in {"chain.walk", "free.walk"},
         Within(r, Len(idx))
  PROVE  /\ DOMAIN Loaded(r) = Fields /\ Loaded(r).pc = r.pc
         /\ Within(Loaded(r), Len(idx))
<1>1. r.off \in 1 .. Len(idx)
  BY LenNat, SMT DEF Within, None
<1>2. PICK dat1 \in Nat, len1 \in Nat : dat1 = idx[r.off].dat /\ len1 = idx[r.off].len
  <2>1. idx[r.off] \in IdxRec
    BY <1>1, ElementOfSeq DEF Files
  <2> QED BY <2>1 DEF IdxRec
<1>3. Loaded(r) = [r EXCEPT !.idxoff = r.off, !.datoff = dat1, !.datlen = len1, !.pos = r.off + 1]
  BY <1>2, Zenon DEF Loaded
<1> QED BY <1>3, SMT DEF Within

LEMMA MissedWithin ==
  ASSUME NEW r, NEW n \in Nat, DOMAIN r = Fields, r.pc # "tail.idx", Within(r, n)
  PROVE  Within(Missed(r), n)
<1>1. CASE r.op = "store" /\ r.flag # "replace"
  BY <1>1, SMT DEF Missed, Within, None
<1>2. CASE ~(r.op = "store" /\ r.flag # "replace")
  BY <1>2, SMT DEF Missed, Within, None
<1> QED BY <1>1, <1>2

(* the steps that leave the files alone *)
LEMMA ReadersKeep ==
  ASSUME Discipline, Offsets, NEW p \in Procs, UNCHANGED file,
         reg' = [reg EXCEPT ![p] = reg'[p]], Within(reg'[p], Len(idx))
  PROVE  Offsets'
<1>1. Files' /\ Len(idx') = Len(idx)
  BY DEF file, Files, Offsets
<1> QED BY <1>1, OneKeeps

LEMMA SilentSteps ==
  ASSUME Discipline, Offsets, NEW p \in Procs
  PROVE  /\ Open(p) \/ Close(p) \/ Rewind(p) \/ CallNext(p) \/ Crash(p) => Offsets'
         /\ Acquire(p) \/ Refuse(p) \/ ReadHead(p) \/ Walk(p) \/ ReadDat(p) => Offsets'
         /\ Return(p) \/ Reread(p) \/ ReadFree(p) \/ WalkFree(p) \/ UnlockFree(p) => Offsets'
         /\ SeekDat(p) \/ UnlockDat(p) \/ SeekIdx(p) \/ UnlockTail(p) => Offsets'
         /\ DelFree(p) \/ DelUnlock(p) => Offsets'
         /\ ScanIdx(p) \/ ScanDat(p) \/ ScanReturn(p) => Offsets'
<1>0. /\ DOMAIN reg = Procs /\ DOMAIN reg[p] = Fields /\ Place(reg[p])
      /\ Within(reg[p], Len(idx)) /\ Files /\ Len(idx) \in Nat /\ DOMAIN idx = 1 .. Len(idx)
  BY HereOf
<1>1. ASSUME Open(p) PROVE Offsets'
  <2>1. UNCHANGED file /\ reg' = [reg EXCEPT ![p] = reg'[p]]
    BY <1>0, <1>1, SMT DEF Open, Go, Set
  <2>2. Within(reg'[p], Len(idx))
    BY <1>0, <1>1, SMT DEF Open, Outside, At, None, Astray, Set, Within, Place
  <2> QED BY <2>1, <2>2, ReadersKeep
<1>2. ASSUME Close(p) PROVE Offsets'
  <2>1. UNCHANGED file /\ reg' = [reg EXCEPT ![p] = reg'[p]]
    BY <1>0, <1>2, SMT DEF Close, Go, Set
  <2>2. Within(reg'[p], Len(idx))
    BY <1>0, <1>2, SMT DEF Close, At, None, Astray, Set, Within, Place
  <2> QED BY <2>1, <2>2, ReadersKeep
<1>3. ASSUME Rewind(p) PROVE Offsets'
  <2>1. UNCHANGED file /\ reg' = [reg EXCEPT ![p] = reg'[p]]
    BY <1>0, <1>3, SMT DEF Rewind, Go, Set
  <2>2. Within(reg'[p], Len(idx))
    BY <1>0, <1>3, SMT DEF Rewind, Set, Within, Place
  <2> QED BY <2>1, <2>2, ReadersKeep
<1>4. ASSUME CallNext(p) PROVE Offsets'
  <2>1. UNCHANGED file /\ reg' = [reg EXCEPT ![p] = reg'[p]]
    BY <1>0, <1>4, SMT DEF CallNext, Go, Set
  <2>2. Within(reg'[p], Len(idx))
    BY <1>0, <1>4, SMT DEF CallNext, Set, Within, Place
  <2> QED BY <2>1, <2>2, ReadersKeep
<1>5. ASSUME Crash(p) PROVE Offsets'
  <2>1. UNCHANGED file /\ reg' = [reg EXCEPT ![p] = reg'[p]]
    BY <1>0, <1>5, SMT DEF Crash, Go, Set
  <2>2. Within(reg'[p], Len(idx))
    BY <1>0, <1>5, SMT DEF Crash, At, None, Astray, Set, Within, Place
  <2> QED BY <2>1, <2>2, ReadersKeep
<1>6. ASSUME Acquire(p) PROVE Offsets'
  <2>1. UNCHANGED file /\ reg' = [reg EXCEPT ![p] = reg'[p]]
    BY <1>0, <1>6, SMT DEF Acquire, Go, Set
  <2>2. Within(reg'[p], Len(idx))
    BY <1>0, <1>6, SMT DEF Acquire, Go, Requests, Granted, Set, Within, Place
  <2> QED BY <2>1, <2>2, ReadersKeep
<1>7. ASSUME Refuse(p) PROVE Offsets'
  <2>1. UNCHANGED file /\ reg' = [reg EXCEPT ![p] = reg'[p]] /\ reg'[p] = Refused(reg[p])
    BY <1>0, <1>7, SMT DEF Refuse, Set
  <2>2. reg[p].pc \in Requesting
    BY <1>7, SMT DEF Refuse, Requests, Granted, Requesting
  <2>3. CASE reg[p].pc = "chain.lock"
    <3>1. Refused(reg[p]) = Missed(reg[p])
      BY <2>3, SMT DEF Refused
    <3>2. Within(Missed(reg[p]), Len(idx))
      <4>1. reg[p].pc # "tail.idx"
        BY <2>3, SMT
      <4> QED BY <1>0, <4>1, MissedWithin
    <3> QED BY <2>1, <3>1, <3>2, ReadersKeep
  <2>4. CASE reg[p].pc = "free.lock"
    <3>1. Refused(reg[p]) = [reg[p] EXCEPT !.pc = "new.seek"]
      BY <2>4, SMT DEF Refused
    <3>5. Within(reg'[p], Len(idx))
      BY <1>0, <2>1, <2>4, <3>1, SMT DEF Within
    <3> QED BY <2>1, <3>5, ReadersKeep
  <2>5. CASE reg[p].pc = "del.lock"
    <3>1. Refused(reg[p]) = Deleted(reg[p])
      BY <2>5, SMT DEF Refused
    <3>5. Within(reg'[p], Len(idx))
      BY <1>0, <2>1, <2>5, <3>1, SMT DEF Within, Deleted, None
    <3> QED BY <2>1, <3>5, ReadersKeep
  <2>6. CASE reg[p].pc = "erase.lock"
    <3>1. Refused(reg[p]) = [reg[p] EXCEPT !.pc = "del.free"]
      BY <2>6, SMT DEF Refused
    <3>5. Within(reg'[p], Len(idx))
      BY <1>0, <2>1, <2>6, <3>1, SMT DEF Within
    <3> QED BY <2>1, <3>5, ReadersKeep
  <2>7. CASE reg[p].pc = "reuse.lock"
    <3>1. Refused(reg[p]) = [reg[p] EXCEPT !.pc = "reuse.idx"]
      BY <2>7, SMT DEF Refused
    <3>5. Within(reg'[p], Len(idx))
      BY <1>0, <2>1, <2>7, <3>1, SMT DEF Within
    <3> QED BY <2>1, <3>5, ReadersKeep
  <2>8. CASE reg[p].pc = "over.lock"
    <3>1. Refused(reg[p]) = [reg[p] EXCEPT !.pc = "chain.unlock"]
      BY <2>8, SMT DEF Refused
    <3>5. Within(reg'[p], Len(idx))
      BY <1>0, <2>1, <2>8, <3>1, SMT DEF Within
    <3> QED BY <2>1, <3>5, ReadersKeep
  <2>9. CASE reg[p].pc = "tail.lock"
    <3>1. Refused(reg[p]) = [reg[p] EXCEPT !.pc = "chain.link", !.ptrval = reg[p].new]
      BY <2>9, SMT DEF Refused
    <3>5. Within(reg'[p], Len(idx))
      BY <1>0, <2>1, <2>9, <3>1, SMT DEF Within
    <3> QED BY <2>1, <3>5, ReadersKeep
  <2>10. CASE reg[p].pc = "scan.lock"
    <3>1. Refused(reg[p]) = At("idle", reg[p].ptrval, reg[p].pos)
      BY <2>10, SMT DEF Refused
    <3>5. Within(reg'[p], Len(idx))
      BY <1>0, <2>1, <2>10, <3>1, SMT DEF Within, At, None
    <3> QED BY <2>1, <3>5, ReadersKeep
  <2> QED BY <2>2, <2>3, <2>4, <2>5, <2>6, <2>7, <2>8, <2>9, <2>10, SMT DEF Requesting
<1>8. ASSUME ReadHead(p) PROVE Offsets'
  <2>1. UNCHANGED file /\ reg' = [reg EXCEPT ![p] = reg'[p]]
    BY <1>0, <1>8, SMT DEF ReadHead, Go, Set
  <2>2. Within(reg'[p], Len(idx))
    BY <1>0, <1>8, SMT DEF ReadHead, Missed, Files, Chain, None, Set, Within, Place
  <2> QED BY <2>1, <2>2, ReadersKeep
<1>9. ASSUME Walk(p) PROVE Offsets'
  <2>1. UNCHANGED file /\ reg' = [reg EXCEPT ![p] = reg'[p]] /\ reg[p].pc = "chain.walk"
        /\ reg[p].op \in {"fetch", "delete", "store"}
    BY <1>0, <1>9, SMT DEF Walk, Set, Place
  <2>2. PICK l : l = Loaded(reg[p])
    OBVIOUS
  <2>3. DOMAIN l = Fields /\ l.pc = "chain.walk" /\ Within(l, Len(idx)) /\ l.op = reg[p].op
    <3>1. DOMAIN l = Fields /\ l.pc = "chain.walk" /\ Within(l, Len(idx))
      BY <1>0, <2>1, <2>2, LoadedWithin
    <3>2. l.op = reg[p].op
      BY <1>0, <2>2, SMT DEF Loaded
    <3> QED BY <3>1, <3>2
  <2>4. \/ reg'[p] = Found(l) \/ reg'[p] = Missed(l)
        \/ l.ptrval # None /\ reg'[p] = [l EXCEPT !.from = l.off, !.off = l.ptrval]
    BY <1>0, <1>9, <2>2, SMT DEF Walk, Set
  <2>5. Within(reg'[p], Len(idx))
    <3>1. CASE reg'[p] = Found(l)
      <4>1. PICK g : g = Found(l)
        OBVIOUS
      <4>2. /\ SameCall(l, g) /\ SameOffsets(l, g)
            /\ g.pc \in {"dat.read", "del.lock", "chain.unlock", "over.lock"}
        BY <2>1, <2>3, <4>1, FoundGoes
      <4>3. g.pc # "tail.idx" /\ g.pc \notin {"chain.walk", "free.walk"} /\ l.pc # "tail.idx"
        BY <2>3, <4>2, SMT
      <4>4. Within(g, Len(idx))
        BY <1>0, <2>3, <4>2, <4>3, SMT DEF Within, SameCall, SameOffsets, None
      <4> QED BY <3>1, <4>1, <4>4
    <3>2. CASE reg'[p] = Missed(l)
      BY <1>0, <2>3, <3>2, MissedWithin, SMT
    <3>3. CASE l.ptrval # None /\ reg'[p] = [l EXCEPT !.from = l.off, !.off = l.ptrval]
      BY <1>0, <2>3, <3>3, SMT DEF Within
    <3> QED BY <2>4, <3>1, <3>2, <3>3
  <2> QED BY <2>1, <2>5, ReadersKeep
<1>10. ASSUME ReadDat(p) PROVE Offsets'
  <2>1. UNCHANGED file /\ reg' = [reg EXCEPT ![p] = reg'[p]]
    BY <1>0, <1>10, SMT DEF ReadDat, Go, Set
  <2>2. Within(reg'[p], Len(idx))
    BY <1>0, <1>10, SMT DEF ReadDat, Set, Within, Place
  <2> QED BY <2>1, <2>2, ReadersKeep
<1>11. ASSUME Return(p) PROVE Offsets'
  <2>1. UNCHANGED file /\ reg' = [reg EXCEPT ![p] = reg'[p]]
    BY <1>0, <1>11, SMT DEF Return, Go, Set
  <2>2. Within(reg'[p], Len(idx))
    BY <1>0, <1>11, SMT DEF Return, Outside, At, None, Set, Within, Place
  <2> QED BY <2>1, <2>2, ReadersKeep
<1>12. ASSUME Reread(p) PROVE Offsets'
  <2>1. UNCHANGED file /\ reg' = [reg EXCEPT ![p] = reg'[p]]
    BY <1>0, <1>12, SMT DEF Reread, Set
  <2>2. PICK c \in 0 .. Len(idx) : c = head[Chain(p)]
    BY <1>0, <1>12, SMT DEF Reread, Chain, Place, Files
  <2>3. PICK pc : /\ pc \in {"free.lock", "new.seek"}
                  /\ reg'[p] = [reg[p] EXCEPT !.new = c, !.pos = Astray, !.pc = pc]
    <3> DEFINE pc == IF reg[p].pc = "chain.reread" THEN "free.lock" ELSE "new.seek"
    <3>1. reg'[p] = [reg[p] EXCEPT !.new = c, !.pos = Astray, !.pc = pc]
      BY <1>0, <1>12, <2>2, SMT DEF Reread, Set
    <3> QED BY <3>1
  <2>4. reg[p].pc # "tail.idx"
    BY <1>12, SMT DEF Reread
  <2>5. Within(reg'[p], Len(idx))
    BY <1>0, <2>3, <2>4, SMT DEF Within
  <2> QED BY <2>1, <2>5, ReadersKeep
<1>13. ASSUME ReadFree(p) PROVE Offsets'
  <2>1. UNCHANGED file /\ reg' = [reg EXCEPT ![p] = reg'[p]]
    BY <1>0, <1>13, SMT DEF ReadFree, Go, Set
  <2>2. Within(reg'[p], Len(idx))
    BY <1>0, <1>13, SMT DEF ReadFree, Files, None, Set, Within, Place
  <2> QED BY <2>1, <2>2, ReadersKeep
<1>14. ASSUME WalkFree(p) PROVE Offsets'
  <2>1. UNCHANGED file /\ reg' = [reg EXCEPT ![p] = reg'[p]] /\ reg[p].pc = "free.walk"
    BY <1>0, <1>14, SMT DEF WalkFree, Set
  <2>2. PICK l : l = Loaded(reg[p])
    OBVIOUS
  <2>3. DOMAIN l = Fields /\ l.pc = "free.walk" /\ Within(l, Len(idx))
    BY <1>0, <2>1, <2>2, LoadedWithin
  <2>4. \/ reg'[p] = [l EXCEPT !.pc = "free.unlink"]
        \/ reg'[p] = [l EXCEPT !.pc = "free.unlock", !.off = None]
        \/ l.ptrval # None /\ reg'[p] = [l EXCEPT !.from = l.off, !.off = l.ptrval]
    BY <1>0, <1>14, <2>2, SMT DEF WalkFree, Set
  <2>5. Within(reg'[p], Len(idx))
    <3>1. CASE reg'[p] = [l EXCEPT !.pc = "free.unlink"]
      BY <1>0, <2>3, <3>1, SMT DEF Within
    <3>2. CASE reg'[p] = [l EXCEPT !.pc = "free.unlock", !.off = None]
      BY <1>0, <2>3, <3>2, SMT DEF Within, None
    <3>3. CASE l.ptrval # None /\ reg'[p] = [l EXCEPT !.from = l.off, !.off = l.ptrval]
      BY <1>0, <2>3, <3>3, SMT DEF Within
    <3> QED BY <2>4, <3>1, <3>2, <3>3
  <2> QED BY <2>1, <2>5, ReadersKeep
<1>15. ASSUME UnlockFree(p) PROVE Offsets'
  <2>1. UNCHANGED file /\ reg' = [reg EXCEPT ![p] = reg'[p]]
    BY <1>0, <1>15, SMT DEF UnlockFree, Go, Set
  <2>2. Within(reg'[p], Len(idx))
    BY <1>0, <1>15, SMT DEF UnlockFree, None, Set, Within, Place
  <2> QED BY <2>1, <2>2, ReadersKeep
<1>16. ASSUME SeekDat(p) PROVE Offsets'
  <2>1. UNCHANGED file /\ reg' = [reg EXCEPT ![p] = reg'[p]]
    BY <1>0, <1>16, SMT DEF SeekDat, Go, Set
  <2>2. Within(reg'[p], Len(idx))
    BY <1>0, <1>16, SMT DEF SeekDat, Files, Set, Within, Place
  <2> QED BY <2>1, <2>2, ReadersKeep
<1>17. ASSUME UnlockDat(p) PROVE Offsets'
  <2>1. UNCHANGED file /\ reg' = [reg EXCEPT ![p] = reg'[p]]
    BY <1>0, <1>17, SMT DEF UnlockDat, Go, Set
  <2>2. Within(reg'[p], Len(idx))
    BY <1>0, <1>17, SMT DEF UnlockDat, Go, Set, Within, Place
  <2> QED BY <2>1, <2>2, ReadersKeep
<1>18. ASSUME SeekIdx(p) PROVE Offsets'
  <2>1. UNCHANGED file /\ reg' = [reg EXCEPT ![p] = reg'[p]]
    BY <1>0, <1>18, SMT DEF SeekIdx, Go, Set
  <2>2. Within(reg'[p], Len(idx))
    BY <1>0, <1>18, SMT DEF SeekIdx, Set, Within, Place
  <2> QED BY <2>1, <2>2, ReadersKeep
<1>19. ASSUME UnlockTail(p) PROVE Offsets'
  <2>1. UNCHANGED file /\ reg' = [reg EXCEPT ![p] = reg'[p]]
    BY <1>0, <1>19, SMT DEF UnlockTail, Go, Set
  <2>2. Within(reg'[p], Len(idx))
    BY <1>0, <1>19, SMT DEF UnlockTail, Go, Set, Within, Place
  <2> QED BY <2>1, <2>2, ReadersKeep
<1>20. ASSUME DelFree(p) PROVE Offsets'
  <2>1. UNCHANGED file /\ reg' = [reg EXCEPT ![p] = reg'[p]]
    BY <1>0, <1>20, SMT DEF DelFree, Go, Set
  <2>2. Within(reg'[p], Len(idx))
    BY <1>0, <1>20, SMT DEF DelFree, Files, Set, Within, Place
  <2> QED BY <2>1, <2>2, ReadersKeep
<1>21. ASSUME DelUnlock(p) PROVE Offsets'
  <2>1. UNCHANGED file /\ reg' = [reg EXCEPT ![p] = reg'[p]]
    BY <1>0, <1>21, SMT DEF DelUnlock, Go, Set
  <2>2. Within(reg'[p], Len(idx))
    BY <1>0, <1>21, SMT DEF DelUnlock, Deleted, None, Set, Within, Place
  <2> QED BY <2>1, <2>2, ReadersKeep
<1>22. ASSUME ScanIdx(p) PROVE Offsets'
  <2>1. UNCHANGED file /\ reg' = [reg EXCEPT ![p] = reg'[p]] /\ reg[p].pc = "scan.idx"
    BY <1>0, <1>22, SMT DEF ScanIdx, Set
  <2>2. \/ reg'[p] = [reg[p] EXCEPT !.pc = "scan.unlock", !.rc = -1]
        \/ reg'[p] = [reg[p] EXCEPT !.pos = reg[p].pos + 1]
        \/ reg[p].pos \in Recs
           /\ reg'[p] = [reg[p] EXCEPT !.pc = "scan.dat", !.key = idx[reg[p].pos].key,
                              !.datoff = idx[reg[p].pos].dat, !.datlen = idx[reg[p].pos].len,
                              !.pos = reg[p].pos + 1]
    BY <1>0, <1>22, SMT DEF ScanIdx, Set
  <2>3. CASE reg'[p] = [reg[p] EXCEPT !.pc = "scan.unlock", !.rc = -1]
    <3>1. Within(reg'[p], Len(idx))
      BY <1>0, <2>1, <2>3, SMT DEF Within
    <3> QED BY <2>1, <3>1, ReadersKeep
  <2>4. CASE reg'[p] = [reg[p] EXCEPT !.pos = reg[p].pos + 1]
    <3>1. Within(reg'[p], Len(idx))
      BY <1>0, <2>1, <2>4, SMT DEF Within
    <3> QED BY <2>1, <3>1, ReadersKeep
  <2>5. ASSUME reg[p].pos \in Recs,
               reg'[p] = [reg[p] EXCEPT !.pc = "scan.dat", !.key = idx[reg[p].pos].key,
                              !.datoff = idx[reg[p].pos].dat, !.datlen = idx[reg[p].pos].len,
                              !.pos = reg[p].pos + 1]
        PROVE  Offsets'
    <3>1. idx[reg[p].pos].dat \in Nat /\ idx[reg[p].pos].len \in Nat
      <4>1. idx[reg[p].pos] \in IdxRec
        BY <1>0, <2>5, ElementOfSeq DEF Files, Recs
      <4> QED BY <4>1 DEF IdxRec
    <3>5. Within(reg'[p], Len(idx))
      BY <1>0, <2>1, <2>5, <3>1, SMT DEF Within
    <3> QED BY <2>1, <3>5, ReadersKeep
  <2> QED BY <2>2, <2>3, <2>4, <2>5
<1>23. ASSUME ScanDat(p) PROVE Offsets'
  <2>1. UNCHANGED file /\ reg' = [reg EXCEPT ![p] = reg'[p]]
    BY <1>0, <1>23, SMT DEF ScanDat, Go, Set
  <2>2. Within(reg'[p], Len(idx))
    BY <1>0, <1>23, SMT DEF ScanDat, Set, Within, Place
  <2> QED BY <2>1, <2>2, ReadersKeep
<1>24. ASSUME ScanReturn(p) PROVE Offsets'
  <2>1. UNCHANGED file /\ reg' = [reg EXCEPT ![p] = reg'[p]]
    BY <1>0, <1>24, SMT DEF ScanReturn, Go, Set
  <2>2. Within(reg'[p], Len(idx))
    BY <1>0, <1>24, SMT DEF ScanReturn, Outside, At, None, Set, Within, Place
  <2> QED BY <2>1, <2>2, ReadersKeep
<1> QED BY <1>1, <1>2, <1>3, <1>4, <1>5, <1>6, <1>7, <1>8, <1>9, <1>10, <1>11, <1>12, <1>13, <1>14, <1>15, <1>16, <1>17, <1>18, <1>19, <1>20, <1>21, <1>22, <1>23, <1>24

LEMMA CallSilent ==
  ASSUME Discipline, Offsets, NEW p \in Procs, NEW op, NEW k, NEW v, NEW flag,
         Call(p, op, k, v, flag)
  PROVE  Offsets'
<1>0. DOMAIN reg = Procs /\ DOMAIN reg[p] = Fields /\ Within(reg[p], Len(idx))
  BY HereOf
<1>1. UNCHANGED file /\ reg' = [reg EXCEPT ![p] = reg'[p]]
  BY <1>0, SMT DEF Call, Set
<1>2. Within(reg'[p], Len(idx))
  BY <1>0, SMT DEF Call, Set, Within
<1> QED BY <1>1, <1>2, ReadersKeep

(* the steps that write *)

LEMMA WriteAtLen ==
  ASSUME Len(dat) \in Nat, NEW o \in Nat, NEW k, NEW v, NEW n \in Nat
  PROVE  Len(WriteAt(o, Text(k, v, n))) \in Nat
<1>1. Len(Text(k, v, n)) = n
  BY SMT DEF Text
<1>2. PICK t : t = Text(k, v, n)
  OBVIOUS
<1>3. PICK m \in Nat : WriteAt(o, t) = [i \in 1 .. m |->
        IF i \in o .. o + n - 1 THEN t[i - o + 1] ELSE dat[i]]
  <2>1. CASE Len(dat) > o + n - 1
    BY <1>1, <1>2, <2>1, SMT DEF WriteAt
  <2>2. CASE ~(Len(dat) > o + n - 1)
    BY <1>1, <1>2, <2>2, SMT DEF WriteAt
  <2> QED BY <2>1, <2>2
<1> QED BY <1>2, <1>3, SMT

LEMMA PointersWritten ==
  ASSUME Files, NEW ptr \in 0 .. Len(idx)
  PROVE  /\ WritePtr(free, ptr) \in 0 .. Len(idx)
         /\ \A c \in Chains : WritePtr(head[c], ptr) \in 0 .. Len(idx)
BY SMT DEF Files, WritePtr

LEMMA HeadWritten ==
  ASSUME Files, NEW ptr \in 0 .. Len(idx), NEW c \in Chains,
         head' = [head EXCEPT ![c] = WritePtr(@, ptr)], UNCHANGED <<free, idx, dat>>
  PROVE  Files' /\ Len(idx') = Len(idx)
<1>1. PICK w \in 0 .. Len(idx) : w = WritePtr(head[c], ptr)
  BY PointersWritten
<1>2. head' = [head EXCEPT ![c] = w]
  BY <1>1
<1> QED BY <1>2, SMT DEF Files

LEMMA WritingSteps ==
  ASSUME Discipline, Offsets, NEW p \in Procs
  PROVE  /\ Unlink(p) \/ WriteDat(p) \/ WriteIdx(p) \/ AppendDat(p) => Offsets'
         /\ Link(p) \/ DelIdx(p) \/ DelHead(p) \/ DelLink(p) => Offsets'
<1>0. /\ DOMAIN reg = Procs /\ DOMAIN reg[p] = Fields /\ Place(reg[p])
      /\ Within(reg[p], Len(idx)) /\ Files /\ Len(idx) \in Nat /\ DOMAIN idx = 1 .. Len(idx)
  BY HereOf
<1>1. ASSUME Unlink(p) PROVE Offsets'
  <2>1. reg' = [reg EXCEPT ![p] = reg'[p]]
    BY <1>0, <1>1, SMT DEF Unlink, Go, Set
  <2>2. Within(reg'[p], Len(idx))
    BY <1>0, <1>1, SMT DEF Unlink, Go, Set, Within, Place, None
  <2>3. Files' /\ Len(idx') = Len(idx)
    <3>0. reg[p].ptrval \in 0 .. Len(idx) /\ reg[p].ptrval \in Nat
      BY <1>0, SMT DEF Within
    <3>1. CASE reg[p].from = None
      <4>1. idx' = idx /\ dat' = dat /\ head' = head /\ free' = WritePtr(free, reg[p].ptrval)
        BY <1>1, <3>1 DEF Unlink
      <4> QED BY <1>0, <3>0, <4>1, PointersWritten, SMT DEF Files
    <3>2. CASE reg[p].from # None
      <4>1. /\ idx' = Pointed(reg[p].from, reg[p].ptrval)
            /\ dat' = dat /\ head' = head /\ free' = free
        BY <1>1, <3>2 DEF Unlink
      <4> QED BY <1>0, <3>0, <4>1, PointedKeeps DEF Files
    <3> QED BY <3>1, <3>2
  <2> QED BY <1>0, <2>1, <2>2, <2>3, OneKeeps
<1>2. ASSUME WriteDat(p) PROVE Offsets'
  <2>1. reg' = [reg EXCEPT ![p] = reg'[p]]
    BY <1>0, <1>2, SMT DEF WriteDat, Go, Set
  <2>2. Within(reg'[p], Len(idx))
    <3>1. DatLen[reg[p].val] \in Nat \/ reg[p].pc = "erase.dat"
      BY <1>0, <1>2, SMT DEF WriteDat, Place
    <3>2. CASE reg[p].pc = "erase.dat"
      BY <1>0, <1>2, <3>2, SMT DEF WriteDat, Go, Set, Within
    <3>3. CASE reg[p].pc = "over.dat"
      <4>1. reg'[p] = [reg[p] EXCEPT !.datlen = DatLen[reg[p].val], !.pc = "chain.unlock"]
        BY <1>0, <1>2, <3>3, SMT DEF WriteDat, Set
      <4> QED BY <1>0, <3>1, <3>3, <4>1, SMT DEF Within
    <3>4. CASE reg[p].pc = "reuse.dat"
      <4>1. reg'[p] = [reg[p] EXCEPT !.datlen = DatLen[reg[p].val], !.pc = "reuse.idx"]
        BY <1>0, <1>2, <3>4, SMT DEF WriteDat, Set
      <4> QED BY <1>0, <3>1, <3>4, <4>1, SMT DEF Within
    <3> QED BY <1>2, <3>2, <3>3, <3>4, SMT DEF WriteDat
  <2>3. Files' /\ Len(idx') = Len(idx)
    <3>1. UNCHANGED <<head, free, idx>>
      BY <1>2 DEF WriteDat
    <3>2. Len(dat') \in Nat
      <4>1. CASE reg[p].pc = "erase.dat"
        <5>1. dat' = WriteAt(reg[p].datoff, Text(Blank, Blank, reg[p].datlen))
          BY <1>2, <4>1 DEF WriteDat
        <5>2. reg[p].datlen \in Nat /\ reg[p].datoff \in Nat
          BY <1>0, SMT DEF Within
        <5> QED BY <1>0, <5>1, <5>2, WriteAtLen DEF Files
      <4>2. CASE reg[p].pc # "erase.dat"
        <5>1. dat' = WriteAt(reg[p].datoff, Text(reg[p].key, reg[p].val, DatLen[reg[p].val]))
          BY <1>2, <4>2 DEF WriteDat
        <5>2. DatLen[reg[p].val] \in Nat /\ reg[p].datoff \in Nat
          BY <1>0, <1>2, <4>2, SMT DEF WriteDat, Place, Within
        <5> QED BY <1>0, <5>1, <5>2, WriteAtLen DEF Files
      <4> QED BY <4>1, <4>2
    <3> QED BY <1>0, <3>1, <3>2 DEF Files
  <2> QED BY <1>0, <2>1, <2>2, <2>3, OneKeeps
<1>3. ASSUME WriteIdx(p) PROVE Offsets'
  <2>1. reg' = [reg EXCEPT ![p] = reg'[p]]
    BY <1>0, <1>3, SMT DEF WriteIdx, Go, Set
  <2>2. Within(reg'[p], Len(idx))
    BY <1>0, <1>3, SMT DEF WriteIdx, Go, Set, Within, Place, None
  <2>3. Files' /\ Len(idx') = Len(idx)
    <3>1. idx' = Filled(reg[p], reg[p].key) /\ head' = head /\ free' = free /\ dat' = dat
      BY <1>3 DEF WriteIdx
    <3>2. reg[p].key \in Keys \cup {Blank}
      BY <1>0, <1>3, SMT DEF WriteIdx, Place
    <3>3. reg[p].new \in Nat /\ reg[p].datoff \in Nat /\ reg[p].datlen \in Nat
      BY <1>0, SMT DEF Within
    <3> QED BY <1>0, <3>1, <3>2, <3>3, FilledKeeps DEF Files
  <2> QED BY <1>0, <2>1, <2>2, <2>3, OneKeeps
<1>4. ASSUME AppendDat(p) PROVE Offsets'
  <2>1. reg' = [reg EXCEPT ![p] = reg'[p]]
    BY <1>0, <1>4, SMT DEF AppendDat, Go, Set
  <2>2. Within(reg'[p], Len(idx))
    BY <1>0, <1>4, SMT DEF AppendDat, Go, Set, Within, Place, None
  <2>3. Files' /\ Len(idx') = Len(idx)
    <3>1. UNCHANGED <<head, free, idx>>
      BY <1>4 DEF AppendDat
    <3>2. dat' = WriteAt(reg[p].datoff, Text(reg[p].key, reg[p].val, DatLen[reg[p].val]))
      BY <1>4 DEF AppendDat
    <3>3. DatLen[reg[p].val] \in Nat /\ reg[p].datoff \in Nat
      BY <1>0, <1>4, SMT DEF AppendDat, Place, Within
    <3>4. Len(dat') \in Nat
      BY <1>0, <3>2, <3>3, WriteAtLen DEF Files
    <3> QED BY <1>0, <3>1, <3>4 DEF Files
  <2> QED BY <1>0, <2>1, <2>2, <2>3, OneKeeps
<1>5. ASSUME Link(p) PROVE Offsets'
  <2>1. reg' = [reg EXCEPT ![p] = reg'[p]]
    BY <1>0, <1>5, SMT DEF Link, Go, Set
  <2>2. Within(reg'[p], Len(idx))
    BY <1>0, <1>5, SMT DEF Link, Go, Set, Within, Place, None
  <2>3. Files' /\ Len(idx') = Len(idx)
    <3>1. reg[p].idxoff \in 0 .. Len(idx) /\ Chain(p) \in Chains
      BY <1>0, <1>5, SMT DEF Link, Within, Chain, Place
    <3> QED BY <1>0, <1>5, <3>1, HeadWritten DEF Link
  <2> QED BY <1>0, <2>1, <2>2, <2>3, OneKeeps
<1>6. ASSUME DelIdx(p) PROVE Offsets'
  <2>1. reg' = [reg EXCEPT ![p] = reg'[p]]
    BY <1>0, <1>6, SMT DEF DelIdx, Go, Set
  <2>2. Within(reg'[p], Len(idx))
    BY <1>0, <1>6, SMT DEF DelIdx, Go, Set, Within, Place, None
  <2>3. Files' /\ Len(idx') = Len(idx)
    <3>1. idx' = Filled(reg[p], Blank) /\ head' = head /\ free' = free /\ dat' = dat
      BY <1>6 DEF DelIdx
    <3>2. Blank \in Keys \cup {Blank}
      BY <1>0, <1>6, SMT DEF DelIdx, Place
    <3>3. reg[p].new \in Nat /\ reg[p].datoff \in Nat /\ reg[p].datlen \in Nat
      BY <1>0, SMT DEF Within
    <3> QED BY <1>0, <3>1, <3>2, <3>3, FilledKeeps DEF Files
  <2> QED BY <1>0, <2>1, <2>2, <2>3, OneKeeps
<1>7. ASSUME DelHead(p) PROVE Offsets'
  <2>1. reg' = [reg EXCEPT ![p] = reg'[p]]
    BY <1>0, <1>7, SMT DEF DelHead, Go, Set
  <2>2. Within(reg'[p], Len(idx))
    BY <1>0, <1>7, SMT DEF DelHead, Go, Set, Within, Place, None
  <2>3. Files' /\ Len(idx') = Len(idx)
    <3>1. reg[p].idxoff \in 0 .. Len(idx)
      BY <1>0, <1>7, SMT DEF DelHead, Within
    <3>2. /\ free' = WritePtr(free, reg[p].idxoff) /\ head' = head
          /\ idx' = idx /\ dat' = dat
      BY <1>7 DEF DelHead
    <3> QED BY <1>0, <3>1, <3>2, PointersWritten, SMT DEF Files
  <2> QED BY <1>0, <2>1, <2>2, <2>3, OneKeeps
<1>8. ASSUME DelLink(p) PROVE Offsets'
  <2>1. reg' = [reg EXCEPT ![p] = reg'[p]]
    BY <1>0, <1>8, SMT DEF DelLink, Go, Set
  <2>2. Within(reg'[p], Len(idx))
    BY <1>0, <1>8, SMT DEF DelLink, Go, Set, Within, Place, None
  <2>3. Files' /\ Len(idx') = Len(idx)
    <3>0. reg[p].save \in 0 .. Len(idx) /\ reg[p].save \in Nat
      BY <1>0, SMT DEF Within
    <3>1. CASE reg[p].from = None
      <4>1. Chain(p) \in Chains
        BY <1>0, <1>8, SMT DEF DelLink, Chain, Place
      <4> QED BY <1>0, <1>8, <3>0, <3>1, <4>1, HeadWritten DEF DelLink
    <3>2. CASE reg[p].from # None
      <4>1. /\ idx' = Pointed(reg[p].from, reg[p].save)
            /\ dat' = dat /\ head' = head /\ free' = free
        BY <1>8, <3>2 DEF DelLink
      <4> QED BY <1>0, <3>0, <4>1, PointedKeeps DEF Files
    <3> QED BY <3>1, <3>2
  <2> QED BY <1>0, <2>1, <2>2, <2>3, OneKeeps
<1> QED BY <1>1, <1>2, <1>3, <1>4, <1>5, <1>6, <1>7, <1>8

LEMMA WithinGrows ==
  ASSUME NEW r, NEW n \in Nat, Within(r, n), r.pc # "tail.idx"
  PROVE  Within(r, n + 1)
<1>1. r.idxoff \in 0 .. n + 1
  BY SMT DEF Within
<1>2. \A x \in 0 .. n : x \in 0 .. n + 1
  BY SMT
<1> QED BY <1>1, <1>2, Zenon DEF Within

(* The one step by which the index grows: no other process is about to     *)
(* append, as this one holds the lock of the tail.                         *)
LEMMA AppendIdxOffsets ==
  ASSUME Discipline, Offsets, NEW p \in Procs, AppendIdx(p) PROVE Offsets'
<1>0. /\ DOMAIN reg = Procs /\ DOMAIN reg[p] = Fields /\ Place(reg[p])
      /\ Within(reg[p], Len(idx)) /\ Files /\ Len(idx) \in Nat /\ DOMAIN idx = 1 .. Len(idx)
  BY HereOf
<1>1. reg[p].pc = "tail.idx" /\ reg[p].idxoff = Len(idx) + 1
  BY <1>0, SMT DEF AppendIdx, Within
<1>2. idx' = Append(idx, NewRec(reg[p])) /\ head' = head /\ free' = free /\ dat' = dat
  BY <1>0, <1>1, SMT DEF AppendIdx, Recs
<1>3. NewRec(reg[p]) \in IdxRec
  BY <1>0, <1>1, SMT DEF NewRec, IdxRec, Within, Place
<1>4. idx' \in Seq(IdxRec) /\ Len(idx') = Len(idx) + 1
  BY <1>0, <1>2, <1>3, AppendProperties DEF Files
<1>5. Files'
  BY <1>0, <1>2, <1>4, SMT DEF Files
<1>6. ASSUME NEW q \in Procs, q # p PROVE reg[q].pc # "tail.idx"
  <2>0. Needs(p) /\ Needs(q)
    BY DEF Discipline
  <2>1. <<p, "tail", "w">> \in locks
    BY <1>1, <2>0, SMT DEF Needs
  <2>2. reg[q].pc = "tail.idx" => <<q, "tail", "w">> \in locks
    BY <2>0, SMT DEF Needs
  <2> QED BY <1>6, <2>1, <2>2, SMT DEF Discipline, Exclusive, Conflict
<1>7. /\ reg'[p] = [reg[p] EXCEPT !.pc = "tail.unlock", !.pos = reg[p].idxoff + 1]
      /\ \A q \in Procs : q # p => reg'[q] = reg[q]
  BY <1>0, SMT DEF AppendIdx, Set
<1>8. Within(reg'[p], Len(idx) + 1)
  BY <1>0, <1>1, <1>7, SMT DEF Within
<1>9. ASSUME NEW q \in Procs, q # p PROVE Within(reg[q], Len(idx) + 1)
  <2>1. Within(reg[q], Len(idx))
    BY DEF Offsets
  <2>2. reg[q].pc # "tail.idx"
    BY <1>6, <1>9
  <2> QED BY <1>0, <2>1, <2>2, WithinGrows
<1> QED BY <1>4, <1>5, <1>7, <1>8, <1>9 DEF Offsets

LEMMA InitOffsets == Init => Offsets
<1> SUFFICES ASSUME Init PROVE Offsets
  OBVIOUS
<1>1. idx = <<>> /\ dat = <<>> /\ head = [c \in Chains |-> 0] /\ free = 0
  BY SMT DEF Init, None
<1>2. Len(idx) = 0 /\ idx \in Seq(IdxRec) /\ Len(dat) = 0
  BY <1>1, EmptySeq
<1>3. ASSUME NEW p \in Procs PROVE Within(reg[p], 0)
  <2>1. reg[p] = At("off", None, Astray)
    BY DEF Init
  <2> QED BY <2>1, SMT DEF At, None, Astray, Within
<1>4. Files
  BY <1>1, <1>2, SMT DEF Files
<1> QED BY <1>2, <1>3, <1>4 DEF Offsets

LEMMA NextOffsets == Discipline /\ Offsets /\ [Next]_vars => Offsets'
<1> SUFFICES ASSUME Discipline, Offsets, [Next]_vars PROVE Offsets'
  OBVIOUS
<1>1. CASE UNCHANGED vars
  BY <1>1 DEF vars, file, Offsets, Files
<1>2. ASSUME NEW p \in Procs, Begin(p) \/ Crash(p) PROVE Offsets'
  <2>1. ASSUME NEW op, NEW k, NEW v, NEW flag, Call(p, op, k, v, flag) PROVE Offsets'
    BY <2>1, CallSilent
  <2> QED BY <1>2, <2>1, SilentSteps, Zenon DEF Begin
<1>3. ASSUME NEW p \in Procs, Step(p) PROVE Offsets'
  BY <1>3, SilentSteps, WritingSteps, AppendIdxOffsets, Zenon DEF Step
<1> QED BY <1>1, <1>2, <1>3, Zenon DEF Next

(* No pointer or offset in the files, and none that a process remembers,   *)
(* ever leads out of the files, with the one exception of the record that  *)
(* a process is about to append.                                           *)
THEOREM OffsetsInFiles == Spec => []Offsets
<1>1. Discipline /\ Offsets /\ [Next]_vars => Offsets'
  BY NextOffsets
<1> QED BY <1>1, InitOffsets, LockDiscipline, PTL DEF Spec

(* IndexAppendsApart, for any number of processes: where a process is      *)
(* about to append to the index is the end of the index, so no two of them *)
(* ever write their records to the same place.                             *)
THEOREM IndexAppends == Spec => []IndexAppendsApart
<1>1. Offsets => IndexAppendsApart
  <2> SUFFICES ASSUME Offsets, NEW p \in Procs, reg[p].pc = "tail.idx"
               PROVE  reg[p].idxoff = Len(idx) + 1
    BY DEF IndexAppendsApart
  <2>1. Within(reg[p], Len(idx))
    BY DEF Offsets
  <2> QED BY <2>1, SMT DEF Within
<1> QED BY <1>1, OffsetsInFiles, PTL

(* TypeOK, for any number of processes.                                    *)
THEOREM TypeCorrect == Spec => []TypeOK
<1>1. Discipline /\ Offsets => TypeOK
  <2> SUFFICES ASSUME Discipline, Offsets PROVE TypeOK
    OBVIOUS
  <2>1. idx \in Seq([key : Keys \cup {Blank}, klen : Nat, ptr : Nat, dat : Nat, len : Nat])
    BY DEF Offsets, Files, IdxRec
  <2>2. /\ locks \subseteq Procs \X (Chains \cup {"free", "tail", "dat"}) \X {"r", "w"}
        /\ DOMAIN reg = Procs
        /\ \A l, m \in locks : ~Conflict(l, m)
    BY DEF Discipline, Shapes, LockSet, Exclusive, Things
  <2>3. ASSUME NEW p \in Procs
        PROVE  /\ reg[p].pc \in PCs
               /\ reg[p].pc \in InTail => <<p, "tail", "w">> \in locks
               /\ reg[p].pc \in InData => <<p, "dat", "w">> \in locks
               /\ reg[p].pc \in InFree => <<p, "free", "w">> \in locks
               /\ ~InCall(p) => \A l \in locks : l[1] = p => l[2] = "dat"
    <3>1. Place(reg[p]) /\ Needs(p)
      BY DEF Discipline
    <3>2. reg[p].pc \in PCs
      BY <3>1, SMT DEF Place, PCs
    <3>3. ASSUME ~InCall(p), NEW l \in locks, l[1] = p PROVE l[2] = "dat"
      <4>1. Entitled(l) /\ reg[l[1]].pc \in {"idle", "off"}
        BY <3>3 DEF Discipline, InCall
      <4> QED BY <4>1, SMT DEF Entitled
    <3> QED BY <3>1, <3>2, <3>3, Zenon DEF Needs
  <2> QED BY <2>1, <2>2, <2>3, Zenon DEF TypeOK
<1> QED BY <1>1, LockDiscipline, OffsetsInFiles, PTL
-----------------------------------------------------------------------------
(* While no lock has been refused, a process has its chain locked wherever *)
(* it works on it, and a scanning one has the free list.                   *)
Mode(r) == IF r.op = "fetch" THEN "r" ELSE "w"

InChain == OnChain \ {"chain.lock"}
InScan  == Scanning \ {"scan.lock"}

Guarded(p) ==
  /\ reg[p].pc \in InChain => <<p, Chain(p), Mode(reg[p])>> \in locks
  /\ reg[p].pc \in InScan  => <<p, "free", "r">> \in locks

Guards == \A p \in Procs : Guarded(p)

USE SharedAssumption DEF Fields, Searching, Deleting, Storing, Scanning, OnChain,
  InTail, InData, InFree, InChain, InScan

(* p stays under the locks it has *)
Stays(p) ==
  LET r == reg[p]
      s == reg'[p]
  IN /\ reg' = [reg EXCEPT ![p] = s] /\ DOMAIN s = Fields
     /\ \/ /\ r.pc \in InChain /\ s.pc \in InChain
           /\ s.op = r.op /\ s.key = r.key
        \/ r.pc \in InScan /\ s.pc \in InScan

(* or is where it needs none *)
Rests(p) ==
  /\ reg' = [reg EXCEPT ![p] = reg'[p]]
  /\ reg'[p].pc \in {"off", "idle", "chain.lock", "scan.lock"}

LEMMA StayKeeps ==
  ASSUME Discipline, Guards, NEW p \in Procs, Stays(p),
         \/ locks' = locks
         \/ reg[p].pc \in InChain /\ \E what \in {"free", "tail", "dat"} : Release(p, what)
  PROVE  Guards'
<1>0. DOMAIN reg = Procs /\ Place(reg[p]) /\ \A q \in Procs : Guarded(q) /\ Place(reg[q])
  BY SMT DEF Discipline, Shapes, Guards
<1>1. ASSUME NEW q \in Procs, q # p PROVE Guarded(q)'
  BY <1>0, <1>1, SMT DEF Guarded, Stays, Release, Chain, Mode
<1>2. Guarded(p)'
  <2>1. reg'[p].pc \in InChain => reg[p].pc \in InChain /\ Hash[reg[p].key] \in Chains
    BY <1>0, SMT DEF Stays, Place
  <2>2. reg'[p].pc \in InScan => reg[p].pc \in InScan /\ locks' = locks
    BY <1>0, SMT DEF Stays
  <2>3. ASSUME NEW what \in {"free", "tail", "dat"}, Release(p, what), Hash[reg[p].key] \in Chains,
               <<p, Hash[reg[p].key], Mode(reg[p])>> \in locks
        PROVE  <<p, Hash[reg[p].key], Mode(reg[p])>> \in locks'
    BY <2>3, SMT DEF Release
  <2> QED BY <1>0, <2>1, <2>2, <2>3, SMT DEF Guarded, Stays, Chain, Mode
<1> QED BY <1>1, <1>2 DEF Guards

LEMMA RestKeeps ==
  ASSUME Discipline, Guards, NEW p \in Procs, Rests(p),
         \A l \in locks : l[1] # p => l \in locks'
  PROVE  Guards'
<1>0. DOMAIN reg = Procs /\ \A q \in Procs : Guarded(q)
  BY SMT DEF Discipline, Shapes, Guards
<1>1. ASSUME NEW q \in Procs, q # p PROVE Guarded(q)'
  BY <1>0, <1>1, SMT DEF Guarded, Rests, Chain, Mode
<1>2. Guarded(p)'
  BY <1>0, SMT DEF Guarded, Rests
<1> QED BY <1>1, <1>2 DEF Guards

LEMMA StoreStays ==
  ASSUME Discipline, NEW p \in Procs
  PROVE  /\ Reread(p) \/ ReadFree(p) \/ WalkFree(p) \/ Unlink(p) \/ UnlockFree(p) => Stays(p)
         /\ WriteDat(p) \/ WriteIdx(p) \/ SeekDat(p) \/ AppendDat(p) \/ UnlockDat(p) => Stays(p)
         /\ SeekIdx(p) \/ AppendIdx(p) \/ UnlockTail(p) \/ Link(p) => Stays(p)
<1>0. DOMAIN reg = Procs /\ DOMAIN reg[p] = Fields /\ Place(reg[p])
  BY HandleOf
<1>1. ASSUME Reread(p) PROVE Stays(p)
  BY <1>0, <1>1, SMT DEF Reread, Set, Stays
<1>2. ASSUME ReadFree(p) PROVE Stays(p)
  BY <1>0, <1>2, SMT DEF ReadFree, Set, Stays
<1>3. ASSUME WalkFree(p) PROVE Stays(p)
  BY <1>0, <1>3, SMT DEF WalkFree, Loaded, Set, Stays
<1>4. ASSUME Unlink(p) PROVE Stays(p)
  BY <1>0, <1>4, SMT DEF Unlink, Set, Stays
<1>5. ASSUME UnlockFree(p) PROVE Stays(p)
  BY <1>0, <1>5, SMT DEF UnlockFree, Set, Stays
<1>6. ASSUME WriteIdx(p) PROVE Stays(p)
  BY <1>0, <1>6, SMT DEF WriteIdx, Set, Stays
<1>7. ASSUME SeekDat(p) PROVE Stays(p)
  BY <1>0, <1>7, SMT DEF SeekDat, Set, Stays
<1>8. ASSUME AppendDat(p) PROVE Stays(p)
  BY <1>0, <1>8, SMT DEF AppendDat, Set, Stays
<1>9. ASSUME UnlockDat(p) PROVE Stays(p)
  BY <1>0, <1>9, SMT DEF UnlockDat, Go, Set, Stays
<1>10. ASSUME SeekIdx(p) PROVE Stays(p)
  BY <1>0, <1>10, SMT DEF SeekIdx, Set, Stays
<1>11. ASSUME AppendIdx(p) PROVE Stays(p)
  BY <1>0, <1>11, SMT DEF AppendIdx, Set, Stays
<1>12. ASSUME UnlockTail(p) PROVE Stays(p)
  BY <1>0, <1>12, SMT DEF UnlockTail, Go, Set, Stays
<1>13. ASSUME Link(p) PROVE Stays(p)
  BY <1>0, <1>13, SMT DEF Link, Set, Stays
<1>14. ASSUME WriteDat(p) PROVE Stays(p)
  <2>1. CASE reg[p].pc = "erase.dat"
    BY <1>0, <1>14, <2>1, SMT DEF WriteDat, Go, Set, Stays
  <2>2. CASE reg[p].pc = "over.dat"
    <3>1. Set(p, [reg[p] EXCEPT !.datlen = DatLen[reg[p].val], !.pc = "chain.unlock"])
      BY <1>14, <2>2, SMT DEF WriteDat, Set
    <3> QED BY <1>0, <2>2, <3>1, SMT DEF Set, Stays
  <2>3. CASE reg[p].pc = "reuse.dat"
    <3>1. Set(p, [reg[p] EXCEPT !.datlen = DatLen[reg[p].val], !.pc = "reuse.idx"])
      BY <1>14, <2>3, SMT DEF WriteDat, Set
    <3> QED BY <1>0, <2>3, <3>1, SMT DEF Set, Stays
  <2> QED BY <1>14, <2>1, <2>2, <2>3, SMT DEF WriteDat
<1> QED BY <1>1, <1>2, <1>3, <1>4, <1>5, <1>6, <1>7, <1>8, <1>9, <1>10, <1>11, <1>12, <1>13, <1>14

LEMMA CallStays ==
  ASSUME Discipline, NEW p \in Procs
  PROVE  /\ ReadHead(p) \/ Walk(p) \/ ReadDat(p) => Stays(p)
         /\ DelFree(p) \/ DelIdx(p) \/ DelHead(p) \/ DelLink(p) \/ DelUnlock(p) => Stays(p)
         /\ ScanIdx(p) \/ ScanDat(p) => Stays(p)
<1>0. DOMAIN reg = Procs /\ DOMAIN reg[p] = Fields /\ Place(reg[p])
  BY HandleOf
<1>1. ASSUME ReadHead(p) PROVE Stays(p)
  BY <1>0, <1>1, SMT DEF ReadHead, Missed, Set, Stays
<1>2. ASSUME Walk(p) PROVE Stays(p)
  <2> PICK l : l = Loaded(reg[p])
    OBVIOUS
  <2>0. reg[p].op \in {"fetch", "delete", "store"} /\ reg[p].pc = "chain.walk"
    BY <1>0, <1>2, SMT DEF Walk, Place
  <2>1. SameCall(reg[p], l) /\ l.pc = "chain.walk"
    BY <1>0, <2>0, SMT DEF Loaded, SameCall
  <2>2. PICK r : Set(p, r) /\ \/ r = Found(l)
                              \/ r = Missed(l)
                              \/ r = [l EXCEPT !.from = l.off, !.off = l.ptrval]
    BY <1>2, SMT DEF Walk
  <2>3. SameCall(reg[p], r) /\ r.pc \in InChain
    <3>1. CASE r = Found(l)
      BY <2>0, <2>1, <3>1, FoundGoes, SMT DEF SameCall
    <3>2. CASE r = Missed(l)
      BY <2>0, <2>1, <3>2, MissedGoes, SMT DEF SameCall
    <3>3. CASE r = [l EXCEPT !.from = l.off, !.off = l.ptrval]
      BY <2>0, <2>1, <3>3, SMT DEF SameCall
    <3> QED BY <2>2, <3>1, <3>2, <3>3
  <2> QED BY <1>0, <2>0, <2>2, <2>3, SMT DEF Set, Stays, SameCall
<1>3. ASSUME ReadDat(p) PROVE Stays(p)
  BY <1>0, <1>3, SMT DEF ReadDat, Set, Stays
<1>4. ASSUME DelFree(p) PROVE Stays(p)
  BY <1>0, <1>4, SMT DEF DelFree, Set, Stays
<1>5. ASSUME DelIdx(p) PROVE Stays(p)
  BY <1>0, <1>5, SMT DEF DelIdx, Set, Stays
<1>6. ASSUME DelHead(p) PROVE Stays(p)
  BY <1>0, <1>6, SMT DEF DelHead, Set, Stays
<1>7. ASSUME DelLink(p) PROVE Stays(p)
  BY <1>0, <1>7, SMT DEF DelLink, Set, Stays
<1>8. ASSUME DelUnlock(p) PROVE Stays(p)
  BY <1>0, <1>8, SMT DEF DelUnlock, Deleted, Set, Stays
<1>9. ASSUME ScanDat(p) PROVE Stays(p)
  BY <1>0, <1>9, SMT DEF ScanDat, Set, Stays
<1>10. ASSUME ScanIdx(p) PROVE Stays(p)
  <2>0. reg[p].pc = "scan.idx"
    BY <1>10, SMT DEF ScanIdx
  <2>1. PICK s : /\ Set(p, s)
                 /\ \/ s = [reg[p] EXCEPT !.pc = "scan.unlock", !.rc = -1]
                    \/ s = [reg[p] EXCEPT !.pos = reg[p].pos + 1]
                    \/ s = [reg[p] EXCEPT !.pc = "scan.dat", !.key = idx[reg[p].pos].key,
                              !.datoff = idx[reg[p].pos].dat, !.datlen = idx[reg[p].pos].len,
                              !.pos = reg[p].pos + 1]
    BY <1>10, SMT DEF ScanIdx
  <2>2. DOMAIN s = Fields /\ s.pc \in InScan
    <3>1. CASE s = [reg[p] EXCEPT !.pc = "scan.unlock", !.rc = -1]
      BY <1>0, <3>1, SMT
    <3>2. CASE s = [reg[p] EXCEPT !.pos = reg[p].pos + 1]
      BY <1>0, <2>0, <3>2, SMT
    <3>3. CASE s = [reg[p] EXCEPT !.pc = "scan.dat", !.key = idx[reg[p].pos].key,
                              !.datoff = idx[reg[p].pos].dat, !.datlen = idx[reg[p].pos].len,
                              !.pos = reg[p].pos + 1]
      BY <1>0, <3>3, SMT
    <3> QED BY <2>1, <3>1, <3>2, <3>3
  <2> QED BY <1>0, <2>0, <2>1, <2>2, SMT DEF Set, Stays
<1> QED BY <1>1, <1>2, <1>3, <1>4, <1>5, <1>6, <1>7, <1>8, <1>9, <1>10

LEMMA AcquireGuards == ASSUME Discipline, Guards, NEW p \in Procs, Acquire(p) PROVE Guards'
<1>0. DOMAIN reg = Procs /\ DOMAIN reg[p] = Fields /\ Place(reg[p]) /\ \A q \in Procs : Guarded(q)
  BY HandleOf DEF Guards
<1>1. PICK pc : pc = Granted[reg[p].pc]
  OBVIOUS
<1>2. PICK r : r = [reg[p] EXCEPT !.pc = pc]
  OBVIOUS
<1>3. PICK what, mode : what = Wanted(p)[1] /\ mode = Wanted(p)[2]
  OBVIOUS
<1>4. r.key = reg[p].key /\ r.op = reg[p].op /\ r.pc = pc /\ reg[p].pc \in Requesting
  BY <1>0, <1>2, SMT DEF Acquire, Requests, Granted, Requesting
<1>5. locks' = locks \cup {<<p, what, mode>>} /\ reg' = [reg EXCEPT ![p] = r]
  BY <1>1, <1>2, <1>3, Zenon DEF Acquire, Go, Set
<1>6. ASSUME NEW q \in Procs, q # p PROVE Guarded(q)'
  BY <1>0, <1>5, <1>6, SMT DEF Guarded, Chain, Mode
<1>10. reg'[p] = r
  BY <1>0, <1>5, SMT
<1> SUFFICES Guarded(p)'
  BY <1>6 DEF Guards
<1>7. CASE reg[p].pc = "chain.lock"
  <2>1. pc = "chain.read" /\ what = Hash[reg[p].key] /\ mode = Mode(reg[p])
    BY <1>1, <1>3, <1>7, GrantedIs, SMT DEF Wanted, Chain, Mode
  <2> QED BY <1>4, <1>5, <1>10, <2>1, SMT DEF Guarded, Chain, Mode
<1>8. CASE reg[p].pc = "scan.lock"
  <2>1. pc = "scan.idx" /\ what = "free" /\ mode = "r"
    BY <1>1, <1>3, <1>8, GrantedIs, SMT DEF Wanted
  <2> QED BY <1>4, <1>5, <1>10, <2>1, SMT DEF Guarded
<1>9. CASE reg[p].pc \notin {"chain.lock", "scan.lock"}
  <2>1. pc \in InChain /\ reg[p].pc \in InChain
    BY <1>1, <1>4, <1>9, GrantedIs, SMT DEF Requesting
  <2> QED BY <1>0, <1>4, <1>5, <1>10, <2>1, SMT DEF Guarded, Chain, Mode
<1> QED BY <1>7, <1>8, <1>9

LEMMA RestingSteps ==
  ASSUME Discipline, NEW p \in Procs,
         \/ Open(p) \/ Close(p) \/ Rewind(p) \/ CallNext(p) \/ Crash(p) \/ Return(p)
         \/ ScanReturn(p) \/ (\E k, op, v, flag : Call(p, op, k, v, flag))
  PROVE  Rests(p) /\ \A l \in locks : l[1] # p => l \in locks'
<1>0. DOMAIN reg = Procs /\ DOMAIN reg[p] = Fields /\ Place(reg[p])
  BY HandleOf
<1>1. Open(p) => Rests(p) /\ locks' = locks
  BY <1>0, SMT DEF Open, Outside, At, Set, Rests
<1>2. Close(p) => Rests(p) /\ locks' = {l \in locks : l[1] # p}
  BY <1>0, SMT DEF Close, At, Set, Rests
<1>3. Rewind(p) => Rests(p) /\ locks' = locks
  BY <1>0, SMT DEF Rewind, Set, Rests
<1>4. CallNext(p) => Rests(p) /\ locks' = locks
  BY <1>0, SMT DEF CallNext, Set, Rests
<1>5. Crash(p) => Rests(p) /\ locks' = {l \in locks : l[1] # p}
  BY <1>0, SMT DEF Crash, At, Set, Rests
<1>6. Return(p) => Rests(p) /\ Release(p, Chain(p))
  BY <1>0, SMT DEF Return, Outside, At, Set, Rests
<1>7. ScanReturn(p) => Rests(p) /\ Release(p, "free")
  BY <1>0, SMT DEF ScanReturn, Outside, At, Set, Rests
<1>8. ASSUME NEW k, NEW op, NEW v, NEW flag, Call(p, op, k, v, flag) PROVE Rests(p) /\ locks' = locks
  <2> PICK s : s = [reg[p] EXCEPT !.pc = "chain.lock", !.op = op, !.key = k, !.val = v, !.flag = flag]
    OBVIOUS
  <2>1. reg' = [reg EXCEPT ![p] = s] /\ locks' = locks
    BY <1>8, Zenon DEF Call, Set
  <2>2. s.pc = "chain.lock"
    BY <1>0, SMT
  <2> QED BY <1>0, <2>1, <2>2, SMT DEF Rests
<1>9. ASSUME NEW what, Release(p, what) PROVE \A l \in locks : l[1] # p => l \in locks'
  BY <1>9 DEF Release
<1>10. locks' = {l \in locks : l[1] # p} => \A l \in locks : l[1] # p => l \in locks'
  OBVIOUS
<1> QED BY <1>1, <1>2, <1>3, <1>4, <1>5, <1>6, <1>7, <1>8, <1>9, <1>10

Refusals == "refusal" \in events

LEMMA InitGuards == Init => Guards
<1> SUFFICES ASSUME Init, NEW p \in Procs PROVE Guarded(p)
  BY DEF Guards
<1>1. reg[p].pc = "off"
  BY SMT DEF Init, At
<1> QED BY <1>1, SMT DEF Guarded

LEMMA NextGuards ==
  ASSUME Discipline, Guards, [Next]_vars, ~Refusals'
  PROVE  Guards'
<1>1. CASE UNCHANGED vars
  <2>1. reg' = reg /\ locks' = locks
    BY <1>1 DEF vars
  <2> QED BY <2>1, Zenon DEF Guards, Guarded, Chain, Mode
<1>2. ASSUME NEW p \in Procs, Begin(p) \/ Crash(p) \/ Return(p) \/ ScanReturn(p) PROVE Guards'
  <2>1. \/ Open(p) \/ Close(p) \/ Rewind(p) \/ CallNext(p) \/ Crash(p) \/ Return(p)
        \/ ScanReturn(p) \/ (\E k, op, v, flag : Call(p, op, k, v, flag))
    BY <1>2, Zenon DEF Begin
  <2>2. Rests(p) /\ \A l \in locks : l[1] # p => l \in locks'
    BY <2>1, RestingSteps
  <2> QED BY <2>2, RestKeeps
<1>3. ASSUME NEW p \in Procs, Step(p) PROVE Guards'
  <2>1. CASE Acquire(p)
    BY <2>1, AcquireGuards
  <2>2. ~Refuse(p)
    BY SMT DEF Refuse, Refusals
  <2>3. CASE Return(p) \/ ScanReturn(p)
    BY <2>3, <1>2
  <2>4. CASE UnlockFree(p) \/ UnlockDat(p) \/ UnlockTail(p) \/ DelUnlock(p)
    <3>1. reg[p].pc \in InChain /\ \E what \in {"free", "tail", "dat"} : Release(p, what)
      BY <2>4, SMT DEF UnlockFree, UnlockDat, UnlockTail, DelUnlock
    <3> QED BY <2>4, <3>1, StoreStays, CallStays, StayKeeps
  <2>5. CASE locks' = locks /\ Stays(p)
    BY <2>5, StayKeeps
  <2>6. /\ ReadHead(p) \/ Walk(p) \/ ReadDat(p) => locks' = locks
        /\ Reread(p) \/ ReadFree(p) \/ WalkFree(p) \/ Unlink(p) => locks' = locks
        /\ WriteDat(p) \/ WriteIdx(p) \/ SeekDat(p) \/ AppendDat(p) => locks' = locks
        /\ SeekIdx(p) \/ AppendIdx(p) \/ Link(p) => locks' = locks
        /\ DelFree(p) \/ DelIdx(p) \/ DelHead(p) \/ DelLink(p) => locks' = locks
        /\ ScanIdx(p) \/ ScanDat(p) => locks' = locks
    BY Zenon DEF ReadHead, Walk, ReadDat, Reread, ReadFree, WalkFree, Unlink, WriteDat,
      WriteIdx, SeekDat, AppendDat, SeekIdx, AppendIdx, Link, DelFree, DelIdx, DelHead,
      DelLink, ScanIdx, ScanDat
  <2> QED BY <1>3, <2>1, <2>2, <2>3, <2>4, <2>5, <2>6, StoreStays, CallStays, Zenon DEF Step
<1> QED BY <1>1, <1>2, <1>3, Zenon DEF Next
-----------------------------------------------------------------------------
(* The lists: the records at their heads, and those in the hands of the    *)
(* processes.  A call only passes records on from one of these places to   *)
(* another, so none of them is ever in two places.                         *)

Reusing == {"reuse.lock", "reuse.dat", "reuse.idx"}
Linking == {"tail.unlock", "chain.link"}
Adding  == {"free.lock", "free.read", "free.walk", "free.unlink", "free.unlock",
            "new.seek", "new.dat", "new.unlock", "tail.lock", "tail.seek", "tail.idx"}
             \cup Reusing \cup Linking
OnHead  == {"dat.read", "over.lock", "over.dat", "del.lock", "erase.lock",
            "erase.dat", "del.free", "del.idx"}

(* A free record that is taken off its list *)
Taken(r) == r.pc \in Reusing \/ (r.pc = "free.unlock" /\ r.off # None)

(* The records in a process's hands: the one its ptrval still names though *)
(* no list does, and the one it has taken off a list or is about to link.  *)
Ptr(r) ==
  IF Taken(r) \/ r.pc \in Linking \cup {"tail.idx"} THEN None
  ELSE IF r.pc = "del.head" THEN r.save ELSE r.ptrval
Rec(r) ==
  IF Taken(r) \/ r.pc \in Linking THEN r.idxoff
  ELSE IF r.pc = "del.link" THEN r.save ELSE None

Claims(r, x) == x # None /\ x \in {Ptr(r), Rec(r)}

HeadsApart == \A c, d \in Chains : head[c] = head[d] /\ head[c] # None => c = d

(* Between the two writes of a delete its record is on both lists. *)
FreeApart ==
  \A c \in Chains : head[c] = free /\ free # None =>
    \E p \in Procs : reg[p].pc = "del.link" /\ Chain(p) = c

HandApart(p) ==
  /\ Ptr(reg[p]) = Rec(reg[p]) => Rec(reg[p]) = None
  /\ ~Claims(reg[p], free)
  /\ \A c \in Chains : ~Claims(reg[p], head[c])

HandsApart ==
  \A p, q \in Procs : p # q => \A x : ~(Claims(reg[p], x) /\ Claims(reg[q], x))

Apart == HeadsApart /\ FreeApart /\ HandsApart /\ \A p \in Procs : HandApart(p)

(* All of these records are deleted ones, but for that of a key on the     *)
(* chain of the key, or about to be put there.                             *)
Empty(i, x) == x = None \/ i[x].key = Blank

HandBlank(r, i) == Empty(i, Ptr(r)) /\ (r.pc \in Linking \/ Empty(i, Rec(r)))

Blanks ==
  /\ \A c \in Chains : Empty(idx, head[c]) \/ (idx[head[c]].key \in Keys /\ Hash[idx[head[c]].key] = c)
  /\ Empty(idx, free)
  /\ \A p \in Procs : HandBlank(reg[p], idx)

(* In its loop a process is at the head of the list, h, or at ptrval. *)
Walking(r, h) == (r.from = None /\ r.off = h) \/ (r.from # None /\ r.off = r.ptrval)

(* What it knows of the lists it has locked. *)
Knows(r, h, f, i) ==
  /\ r.pc \in {"idle", "chain.lock", "chain.read", "chain.reread", "free.lock", "free.read"}
       => r.from = None
  /\ r.pc = "chain.walk" => Walking(r, h)
  /\ r.pc \in OnHead => /\ r.from = None /\ r.idxoff = h /\ h # None /\ i[h].key = r.key
                        /\ r.datoff = i[h].dat /\ r.datlen = i[h].len
  /\ r.pc = "del.idx" => r.new = f /\ r.save = r.ptrval
  /\ r.pc \in {"del.head", "del.link"} =>
       r.from = None /\ r.idxoff = h /\ h # None /\ Empty(i, h)
  /\ r.pc = "del.head" => r.ptrval = f
  /\ r.pc = "del.link" => h = f
  /\ r.pc \in {"chain.reread", "move.reread", "del.unlock"} => Empty(i, h)
  /\ r.pc \in Adding => r.new = h /\ Empty(i, h)
  /\ r.pc \in {"free.walk", "free.unlink"} => Walking(r, f)
  /\ r.pc = "free.unlink" => r.off # None
  /\ r.pc \in Reusing => r.idxoff # None
  /\ r.pc = "free.unlink" \/ (r.pc = "free.unlock" /\ r.off # None) => r.idxoff = r.off
  /\ r.pc \in Linking \cup {"tail.idx"} => r.ptrval = h
  /\ r.pc \in Linking => r.idxoff # None /\ i[r.idxoff].key = r.key

Doing(p) == Knows(reg[p], head[Chain(p)], free, idx)

Lists == Apart /\ Blanks /\ \A p \in Procs : Doing(p)
-----------------------------------------------------------------------------
USE DEF Reusing, Linking, Adding, OnHead

(* No two processes work on the free list, nor on a chain that one writes. *)
LEMMA FreeAlone ==
  ASSUME Discipline, NEW p \in Procs, NEW q \in Procs, p # q, reg[p].pc \in InFree
  PROVE  reg[q].pc \notin InFree
<1>1. Needs(p) /\ Needs(q) /\ Exclusive
  BY DEF Discipline
<1>2. /\ reg[q].pc \in InFree => <<q, "free", "w">> \in locks
      /\ <<p, "free", "w">> \in locks
  BY <1>1, SMT DEF Needs
<1> QED BY <1>1, <1>2, SMT DEF Exclusive, Conflict

LEMMA ChainAlone ==
  ASSUME Discipline, Guards, NEW p \in Procs, NEW q \in Procs, p # q,
         reg[p].pc \in InChain, reg[p].op # "fetch", reg[q].pc \in InChain
  PROVE  Chain(p) # Chain(q)
<1>1. Guarded(p) /\ Guarded(q) /\ Exclusive
  BY DEF Discipline, Guards
<1>2. <<q, Chain(q), Mode(reg[q])>> \in locks /\ <<p, Chain(p), "w">> \in locks
  BY <1>1, SMT DEF Guarded, Mode
<1> QED BY <1>1, <1>2, SMT DEF Exclusive, Conflict

(* The fields of a record that the calls of others rely on *)
SameRec(i, j, x) == j[x].key = i[x].key /\ j[x].dat = i[x].dat /\ j[x].len = i[x].len

LEMMA KnowsStill ==
  ASSUME NEW r, NEW h, NEW f, NEW i, NEW k, NEW g, NEW j, Knows(r, h, f, i),
         r.pc \in InFree => g = f,
         r.pc \in InChain => k = h /\ (h # None => SameRec(i, j, h)),
         r.pc \in Linking => SameRec(i, j, r.idxoff)
  PROVE  Knows(r, k, g, j)
BY SMT DEF Knows, SameRec, Empty, Walking

(* A step that leaves the lists alone, and at most drops what p has in its *)
(* hands.                                                                  *)
Quiet(p) ==
  LET r == reg[p]
      s == reg'[p]
  IN /\ reg' = [reg EXCEPT ![p] = s]
     /\ head' = head /\ free' = free /\ idx' = idx
     /\ r.pc # "del.link"
     /\ Ptr(s) \in {Ptr(r), None} /\ Rec(s) \in {Rec(r), None}
     /\ r.pc \in Linking => s.pc \in Linking \/ Rec(s) = None

LEMMA QuietKeeps ==
  ASSUME Discipline, Lists, NEW p \in Procs, Quiet(p),
         Knows(reg'[p], head[Hash[reg'[p].key]], free, idx)
  PROVE  Lists'
<1>0. /\ DOMAIN reg = Procs /\ \A q \in Procs : q # p => reg'[q] = reg[q]
      /\ head' = head /\ free' = free /\ idx' = idx
  BY SMT DEF Discipline, Shapes, Quiet
<1>1. \A x : Claims(reg'[p], x) => Claims(reg[p], x)
  BY SMT DEF Quiet, Claims
<1>2. HeadsApart' /\ FreeApart'
  BY <1>0, SMT DEF Lists, Apart, HeadsApart, FreeApart, Quiet, Chain
<1>3. HandsApart'
  BY <1>0, <1>1, SMT DEF Lists, Apart, HandsApart
<1>4. ASSUME NEW q \in Procs PROVE HandApart(q)'
  <2>1. HandApart(q)
    BY DEF Lists, Apart
  <2>2. CASE q # p
    BY <1>0, <2>1, <2>2, SMT DEF HandApart
  <2>3. CASE q = p
    <3>1. Ptr(reg'[p]) = Rec(reg'[p]) => Rec(reg'[p]) = None
      BY <2>1, <2>3, SMT DEF HandApart, Quiet
    <3> QED BY <1>0, <1>1, <2>1, <2>3, <3>1, SMT DEF HandApart
  <2> QED BY <2>2, <2>3
<1>5. Blanks'
  <2>1. HandBlank(reg'[p], idx)
    BY SMT DEF Lists, Blanks, HandBlank, Quiet, Empty
  <2> QED BY <1>0, <2>1, SMT DEF Lists, Blanks
<1>6. ASSUME NEW q \in Procs PROVE Doing(q)'
  BY <1>0, SMT DEF Lists, Doing, Chain
<1> QED BY <1>2, <1>3, <1>4, <1>5, <1>6 DEF Lists, Apart
(* Entering and leaving a call, and the steps of db_nextrec *)
LEMMA QuietCalls ==
  ASSUME Discipline, Lists, NEW p \in Procs
  PROVE  /\ Open(p) \/ Close(p) \/ Rewind(p) \/ CallNext(p) => Lists'
         /\ \A k, op, v, flag : Call(p, op, k, v, flag) => Lists'
         /\ Crash(p) /\ reg[p].pc # "del.link" => Lists'
         /\ Return(p) \/ ScanReturn(p) \/ ScanIdx(p) \/ ScanDat(p) => Lists'
<1>0. DOMAIN reg = Procs /\ DOMAIN reg[p] = Fields /\ Place(reg[p]) /\ Doing(p)
  BY HandleOf DEF Lists
<1>1. ASSUME Open(p) PROVE Lists'
  <2>1. Quiet(p)
    BY <1>0, <1>1, SMT DEF Open, Outside, At, Set, file, Quiet, Ptr, Rec, Taken
  <2>2. Knows(reg'[p], head[Hash[reg'[p].key]], free, idx)
    BY <1>0, <1>1, SMT DEF Open, Outside, At, Set, Knows
  <2> QED BY <2>1, <2>2, QuietKeeps
<1>2. ASSUME Close(p) PROVE Lists'
  <2>1. Quiet(p)
    BY <1>0, <1>2, SMT DEF Close, At, Set, file, Quiet, Ptr, Rec, Taken
  <2>2. Knows(reg'[p], head[Hash[reg'[p].key]], free, idx)
    BY <1>0, <1>2, SMT DEF Close, At, Set, Knows
  <2> QED BY <2>1, <2>2, QuietKeeps
<1>3. ASSUME Rewind(p) PROVE Lists'
  <2>1. Quiet(p)
    BY <1>0, <1>3, SMT DEF Rewind, Set, file, Quiet, Ptr, Rec, Taken
  <2>2. Knows(reg'[p], head[Hash[reg'[p].key]], free, idx)
    BY <1>0, <1>3, SMT DEF Rewind, Set, Knows, Doing
  <2> QED BY <2>1, <2>2, QuietKeeps
<1>4. ASSUME CallNext(p) PROVE Lists'
  <2>1. Quiet(p)
    BY <1>0, <1>4, SMT DEF CallNext, Set, file, Quiet, Ptr, Rec, Taken
  <2>2. Knows(reg'[p], head[Hash[reg'[p].key]], free, idx)
    BY <1>0, <1>4, SMT DEF CallNext, Set, Knows
  <2> QED BY <2>1, <2>2, QuietKeeps
<1>5. ASSUME Crash(p), reg[p].pc # "del.link" PROVE Lists'
  <2>1. Quiet(p)
    BY <1>0, <1>5, SMT DEF Crash, At, Set, file, Quiet, Ptr, Rec, Taken
  <2>2. Knows(reg'[p], head[Hash[reg'[p].key]], free, idx)
    BY <1>0, <1>5, SMT DEF Crash, At, Set, Knows
  <2> QED BY <2>1, <2>2, QuietKeeps
<1>6. ASSUME Return(p) PROVE Lists'
  <2>1. Quiet(p)
    BY <1>0, <1>6, SMT DEF Return, Outside, At, Set, file, Quiet, Ptr, Rec, Taken
  <2>2. Knows(reg'[p], head[Hash[reg'[p].key]], free, idx)
    BY <1>0, <1>6, SMT DEF Return, Outside, At, Set, Knows
  <2> QED BY <2>1, <2>2, QuietKeeps
<1>7. ASSUME ScanReturn(p) PROVE Lists'
  <2>1. Quiet(p)
    BY <1>0, <1>7, SMT DEF ScanReturn, Outside, At, Set, file, Quiet, Ptr, Rec, Taken
  <2>2. Knows(reg'[p], head[Hash[reg'[p].key]], free, idx)
    BY <1>0, <1>7, SMT DEF ScanReturn, Outside, At, Set, Knows
  <2> QED BY <2>1, <2>2, QuietKeeps
<1>8. ASSUME ScanDat(p) PROVE Lists'
  <2>1. Quiet(p)
    BY <1>0, <1>8, SMT DEF ScanDat, Set, file, Quiet, Ptr, Rec, Taken
  <2>2. Knows(reg'[p], head[Hash[reg'[p].key]], free, idx)
    BY <1>0, <1>8, SMT DEF ScanDat, Set, Knows
  <2> QED BY <2>1, <2>2, QuietKeeps
<1>9. ASSUME NEW k, NEW op, NEW v, NEW flag, Call(p, op, k, v, flag) PROVE Lists'
  <2> PICK s : s = [reg[p] EXCEPT !.pc = "chain.lock", !.op = op, !.key = k, !.val = v, !.flag = flag]
    OBVIOUS
  <2>1. reg' = [reg EXCEPT ![p] = s] /\ reg[p].pc = "idle" /\ UNCHANGED file
    BY <1>9, Zenon DEF Call, Set
  <2>2. s.pc = "chain.lock" /\ s.ptrval = reg[p].ptrval /\ s.from = reg[p].from
    BY <1>0, SMT
  <2>3. Quiet(p)
    BY <1>0, <2>1, <2>2, SMT DEF file, Quiet, Ptr, Rec, Taken
  <2>4. Knows(reg'[p], head[Hash[reg'[p].key]], free, idx)
    BY <1>0, <2>1, <2>2, SMT DEF Knows, Doing
  <2> QED BY <2>3, <2>4, QuietKeeps
<1>10. ASSUME ScanIdx(p) PROVE Lists'
  <2>0. reg[p].pc = "scan.idx" /\ UNCHANGED file
    BY <1>10, SMT DEF ScanIdx
  <2>1. PICK s : /\ Set(p, s)
                 /\ \/ s = [reg[p] EXCEPT !.pc = "scan.unlock", !.rc = -1]
                    \/ s = [reg[p] EXCEPT !.pos = reg[p].pos + 1]
                    \/ s = [reg[p] EXCEPT !.pc = "scan.dat", !.key = idx[reg[p].pos].key,
                              !.datoff = idx[reg[p].pos].dat, !.datlen = idx[reg[p].pos].len,
                              !.pos = reg[p].pos + 1]
    BY <1>10, SMT DEF ScanIdx
  <2>2. s.pc \in {"scan.idx", "scan.dat", "scan.unlock"} /\ s.ptrval = reg[p].ptrval
    <3>1. CASE s = [reg[p] EXCEPT !.pc = "scan.unlock", !.rc = -1]
      BY <1>0, <3>1, SMT
    <3>2. CASE s = [reg[p] EXCEPT !.pos = reg[p].pos + 1]
      BY <1>0, <2>0, <3>2, SMT
    <3>3. CASE s = [reg[p] EXCEPT !.pc = "scan.dat", !.key = idx[reg[p].pos].key,
                              !.datoff = idx[reg[p].pos].dat, !.datlen = idx[reg[p].pos].len,
                              !.pos = reg[p].pos + 1]
      BY <1>0, <3>3, SMT
    <3> QED BY <2>1, <3>1, <3>2, <3>3
  <2>3. Quiet(p)
    BY <1>0, <2>0, <2>1, <2>2, SMT DEF Set, file, Quiet, Ptr, Rec, Taken
  <2>4. Knows(reg'[p], head[Hash[reg'[p].key]], free, idx)
    BY <1>0, <2>1, <2>2, SMT DEF Set, Knows
  <2> QED BY <2>3, <2>4, QuietKeeps
<1> QED BY <1>1, <1>2, <1>3, <1>4, <1>5, <1>6, <1>7, <1>8, <1>9, <1>10
(* The steps of a call that write nothing to the index *)
HashApart == \A k, l \in Keys : Hash[k] = Hash[l] => k = l

LEMMA QuietStores ==
  ASSUME Discipline, Lists, NEW p \in Procs
  PROVE  /\ Acquire(p) \/ ReadDat(p) \/ Reread(p) \/ ReadFree(p) \/ UnlockFree(p) => Lists'
         /\ WriteDat(p) \/ SeekDat(p) \/ AppendDat(p) \/ UnlockDat(p) => Lists'
         /\ SeekIdx(p) \/ UnlockTail(p) \/ DelFree(p) \/ DelUnlock(p) => Lists'
<1>0. DOMAIN reg = Procs /\ DOMAIN reg[p] = Fields /\ Place(reg[p]) /\ Doing(p)
  BY HandleOf DEF Lists
<1>1. ASSUME ReadDat(p) PROVE Lists'
  <2>1. Quiet(p)
    BY <1>0, <1>1, SMT DEF ReadDat, Set, file, Quiet, Ptr, Rec, Taken
  <2>2. Knows(reg'[p], head[Hash[reg'[p].key]], free, idx)
    BY <1>0, <1>1, SMT DEF ReadDat, Set, Knows, Doing, Walking, Chain, Place
  <2> QED BY <2>1, <2>2, QuietKeeps
<1>2. ASSUME Reread(p) PROVE Lists'
  <2>1. Quiet(p)
    BY <1>0, <1>2, SMT DEF Reread, Set, file, Quiet, Ptr, Rec, Taken
  <2>2. Knows(reg'[p], head[Hash[reg'[p].key]], free, idx)
    BY <1>0, <1>2, SMT DEF Reread, Set, Knows, Doing, Walking, Chain, Place
  <2> QED BY <2>1, <2>2, QuietKeeps
<1>3. ASSUME ReadFree(p) PROVE Lists'
  <2>1. Quiet(p)
    BY <1>0, <1>3, SMT DEF ReadFree, Set, file, Quiet, Ptr, Rec, Taken
  <2>2. Knows(reg'[p], head[Hash[reg'[p].key]], free, idx)
    BY <1>0, <1>3, SMT DEF ReadFree, Set, Knows, Doing, Walking, Chain, Place
  <2> QED BY <2>1, <2>2, QuietKeeps
<1>4. ASSUME UnlockFree(p) PROVE Lists'
  <2>1. Quiet(p)
    BY <1>0, <1>4, SMT DEF UnlockFree, Set, file, Quiet, Ptr, Rec, Taken
  <2>2. Knows(reg'[p], head[Hash[reg'[p].key]], free, idx)
    BY <1>0, <1>4, SMT DEF UnlockFree, Set, Knows, Doing, Walking, Chain, Place
  <2> QED BY <2>1, <2>2, QuietKeeps
<1>5. ASSUME SeekDat(p) PROVE Lists'
  <2>1. Quiet(p)
    BY <1>0, <1>5, SMT DEF SeekDat, Set, file, Quiet, Ptr, Rec, Taken
  <2>2. Knows(reg'[p], head[Hash[reg'[p].key]], free, idx)
    BY <1>0, <1>5, SMT DEF SeekDat, Set, Knows, Doing, Walking, Chain, Place
  <2> QED BY <2>1, <2>2, QuietKeeps
<1>6. ASSUME AppendDat(p) PROVE Lists'
  <2>1. Quiet(p)
    BY <1>0, <1>6, SMT DEF AppendDat, Set, file, Quiet, Ptr, Rec, Taken
  <2>2. Knows(reg'[p], head[Hash[reg'[p].key]], free, idx)
    BY <1>0, <1>6, SMT DEF AppendDat, Set, Knows, Doing, Walking, Chain, Place
  <2> QED BY <2>1, <2>2, QuietKeeps
<1>7. ASSUME UnlockDat(p) PROVE Lists'
  <2>1. Quiet(p)
    BY <1>0, <1>7, SMT DEF UnlockDat, Go, Set, file, Quiet, Ptr, Rec, Taken
  <2>2. Knows(reg'[p], head[Hash[reg'[p].key]], free, idx)
    BY <1>0, <1>7, SMT DEF UnlockDat, Go, Set, Knows, Doing, Walking, Chain, Place
  <2> QED BY <2>1, <2>2, QuietKeeps
<1>8. ASSUME SeekIdx(p) PROVE Lists'
  <2>1. Quiet(p)
    BY <1>0, <1>8, SMT DEF SeekIdx, Set, file, Quiet, Ptr, Rec, Taken
  <2>2. Knows(reg'[p], head[Hash[reg'[p].key]], free, idx)
    BY <1>0, <1>8, SMT DEF SeekIdx, Set, Knows, Doing, Walking, Chain, Place
  <2> QED BY <2>1, <2>2, QuietKeeps
<1>9. ASSUME UnlockTail(p) PROVE Lists'
  <2>1. Quiet(p)
    BY <1>0, <1>9, SMT DEF UnlockTail, Go, Set, file, Quiet, Ptr, Rec, Taken
  <2>2. Knows(reg'[p], head[Hash[reg'[p].key]], free, idx)
    BY <1>0, <1>9, SMT DEF UnlockTail, Go, Set, Knows, Doing, Walking, Chain, Place
  <2> QED BY <2>1, <2>2, QuietKeeps
<1>10. ASSUME DelFree(p) PROVE Lists'
  <2>1. Quiet(p)
    BY <1>0, <1>10, SMT DEF DelFree, Set, file, Quiet, Ptr, Rec, Taken
  <2>2. Knows(reg'[p], head[Hash[reg'[p].key]], free, idx)
    BY <1>0, <1>10, SMT DEF DelFree, Set, Knows, Doing, Walking, Chain, Place
  <2> QED BY <2>1, <2>2, QuietKeeps
<1>11. ASSUME DelUnlock(p) PROVE Lists'
  <2>1. Quiet(p)
    BY <1>0, <1>11, SMT DEF DelUnlock, Deleted, Set, file, Quiet, Ptr, Rec, Taken
  <2>2. Knows(reg'[p], head[Hash[reg'[p].key]], free, idx)
    BY <1>0, <1>11, SMT DEF DelUnlock, Deleted, Set, Knows, Doing, Walking, Chain, Place
  <2> QED BY <2>1, <2>2, QuietKeeps
<1>12. ASSUME Acquire(p) PROVE Lists'
  <2> PICK s : s = [reg[p] EXCEPT !.pc = Granted[reg[p].pc]]
    OBVIOUS
  <2>1. reg' = [reg EXCEPT ![p] = s] /\ reg[p].pc \in Requesting /\ UNCHANGED file
    BY <1>12, SMT DEF Acquire, Go, Set, Requests, Granted, Requesting
  <2>2. /\ s.pc = Granted[reg[p].pc] /\ s.ptrval = reg[p].ptrval /\ s.idxoff = reg[p].idxoff
        /\ s.save = reg[p].save /\ s.off = reg[p].off /\ s.from = reg[p].from
        /\ s.new = reg[p].new /\ s.key = reg[p].key /\ s.datoff = reg[p].datoff
        /\ s.datlen = reg[p].datlen
    BY <1>0, SMT
  <2>3. Quiet(p)
    BY <1>0, <2>1, <2>2, GrantedIs, SMT DEF file, Quiet, Ptr, Rec, Taken, Requesting
  <2>4. Knows(reg'[p], head[Hash[reg'[p].key]], free, idx)
    BY <1>0, <2>1, <2>2, GrantedIs, SMT DEF Knows, Doing, Chain, Walking, Requesting
  <2> QED BY <2>3, <2>4, QuietKeeps
<1>13. ASSUME WriteDat(p) PROVE Lists'
  <2>1. reg[p].pc \in {"reuse.dat", "over.dat", "erase.dat"}
    BY <1>13, SMT DEF WriteDat
  <2>2. UNCHANGED <<head, free, idx>>
    BY <1>13, SMT DEF WriteDat
  <2>3. CASE reg[p].pc = "erase.dat"
    <3>0. reg' = [reg EXCEPT ![p] = [reg[p] EXCEPT !.pc = "del.free"]]
      BY <1>13, <2>3, SMT DEF WriteDat, Go, Set
    <3>1. Quiet(p)
      BY <1>0, <2>2, <2>3, <3>0, SMT DEF Quiet, Ptr, Rec, Taken
    <3>2. Knows(reg'[p], head[Hash[reg'[p].key]], free, idx)
      BY <1>0, <2>3, <3>0, SMT DEF Knows, Doing, Chain
    <3> QED BY <3>1, <3>2, QuietKeeps
  <2>4. CASE reg[p].pc = "over.dat"
    <3>0. reg' = [reg EXCEPT ![p] = [reg[p] EXCEPT !.datlen = DatLen[reg[p].val], !.pc = "chain.unlock"]]
      BY <1>13, <2>4, SMT DEF WriteDat, Go, Set
    <3>1. Quiet(p)
      BY <1>0, <2>2, <2>4, <3>0, SMT DEF Quiet, Ptr, Rec, Taken
    <3>2. Knows(reg'[p], head[Hash[reg'[p].key]], free, idx)
      BY <1>0, <2>4, <3>0, SMT DEF Knows, Doing, Chain
    <3> QED BY <3>1, <3>2, QuietKeeps
  <2>5. CASE reg[p].pc = "reuse.dat"
    <3>0. reg' = [reg EXCEPT ![p] = [reg[p] EXCEPT !.datlen = DatLen[reg[p].val], !.pc = "reuse.idx"]]
      BY <1>13, <2>5, SMT DEF WriteDat, Go, Set
    <3>1. Quiet(p)
      BY <1>0, <2>2, <2>5, <3>0, SMT DEF Quiet, Ptr, Rec, Taken
    <3>2. Knows(reg'[p], head[Hash[reg'[p].key]], free, idx)
      BY <1>0, <2>5, <3>0, SMT DEF Knows, Doing, Chain
    <3> QED BY <3>1, <3>2, QuietKeeps
  <2> QED BY <2>1, <2>3, <2>4, <2>5
<1> QED BY <1>1, <1>2, <1>3, <1>4, <1>5, <1>6, <1>7, <1>8, <1>9, <1>10, <1>11, <1>12, <1>13

LEMMA QuietSearch ==
  ASSUME Discipline, Offsets, Lists, HashApart, NEW p \in Procs
  PROVE  ReadHead(p) \/ Walk(p) \/ WalkFree(p) => Lists'
<1>0. /\ DOMAIN reg = Procs /\ DOMAIN reg[p] = Fields /\ Place(reg[p]) /\ Doing(p)
      /\ Within(reg[p], Len(idx)) /\ HandBlank(reg[p], idx)
  BY HereOf DEF Lists, Blanks
<1>1. ASSUME ReadHead(p) PROVE Lists'
  <2>1. Quiet(p)
    BY <1>0, <1>1, SMT DEF ReadHead, Missed, Set, file, Quiet, Ptr, Rec, Taken
  <2>2. Knows(reg'[p], head[Hash[reg'[p].key]], free, idx)
    BY <1>0, <1>1, SMT DEF ReadHead, Missed, Set, Knows, Doing, Chain, Walking, Place, Empty
  <2> QED BY <2>1, <2>2, QuietKeeps
<1>2. ASSUME WalkFree(p) PROVE Lists'
  <2>1. Quiet(p)
    BY <1>0, <1>2, SMT DEF WalkFree, Loaded, Set, file, Quiet, Ptr, Rec, Taken
  <2> DEFINE r == reg[p]
             s == reg'[p]
  <2>3. /\ Knows(r, head[Chain(p)], free, idx) /\ r.off # None /\ r.pc = "free.walk"
        /\ Walking(r, free)
    BY <1>0, <1>2, SMT DEF WalkFree, Doing, Knows, Within
  <2>4. /\ s.key = r.key /\ s.new = r.new /\ s.ptrval = r.ptrval /\ s.idxoff = r.off
        /\ \/ s.pc = "free.unlink" /\ s.off = r.off /\ s.from = r.from
           \/ s.pc = "free.unlock" /\ s.off = None
           \/ s.pc = "free.walk" /\ s.from = r.off /\ s.off = r.ptrval
    BY <1>0, <1>2, SMT DEF WalkFree, Loaded, Set
  <2>2. Knows(s, head[Hash[s.key]], free, idx)
    BY <2>3, <2>4, SMT DEF Knows, Chain, Walking
  <2> QED BY <2>1, <2>2, QuietKeeps
<1>3. ASSUME Walk(p) PROVE Lists'
  <2> DEFINE h == head[Chain(p)]
  <2> PICK l : l = Loaded(reg[p])
    OBVIOUS
  <2>0. reg[p].pc = "chain.walk" /\ reg[p].op \in {"fetch", "delete", "store"} /\ UNCHANGED file
    BY <1>0, <1>3, SMT DEF Walk, Place
  <2>1. /\ SameCall(reg[p], l) /\ l.pc = "chain.walk" /\ l.from = reg[p].from /\ l.off = reg[p].off
        /\ l.idxoff = l.off /\ l.datoff = idx[l.off].dat /\ l.datlen = idx[l.off].len
    BY <1>0, <2>0, SMT DEF Loaded, SameCall
  <2>2. PICK s : /\ Set(p, s)
                 /\ \/ idx[l.off].key = l.key /\ s = Found(l)
                    \/ idx[l.off].key # l.key /\ l.ptrval = None /\ s = Missed(l)
                    \/ idx[l.off].key # l.key /\ l.ptrval # None
                         /\ s = [l EXCEPT !.from = l.off, !.off = l.ptrval]
    BY <1>3, SMT DEF Walk
  <2>3. Walking(reg[p], h) /\ l.off # None /\ l.key \in Keys
    BY <1>0, <2>0, <2>1, SMT DEF Doing, Knows, Within, Place, SameCall
  <2>4. CASE idx[l.off].key = l.key /\ s = Found(l)
    <3>1. l.from = None /\ l.off = h
      BY <1>0, <2>0, <2>1, <2>3, <2>4, SMT DEF Walking, HandBlank, Ptr, Taken, Empty
    <3>2. /\ SameCall(l, s) /\ SameOffsets(l, s)
          /\ s.pc \in {"dat.read", "del.lock", "chain.unlock", "over.lock"}
      BY <2>0, <2>1, <2>4, FoundGoes, SMT DEF SameCall
    <3>3. Quiet(p)
      BY <1>0, <2>0, <2>1, <2>2, <3>2, SMT DEF Set, file, Quiet, Ptr, Rec, Taken, SameCall
    <3>5. /\ s.from = None /\ s.idxoff = h /\ h # None /\ idx[h].key = s.key
          /\ s.datoff = idx[h].dat /\ s.datlen = idx[h].len
      <4>1. s.from \in {None, l.from} /\ s.idxoff = l.idxoff /\ s.key = l.key
            /\ s.datoff = l.datoff /\ s.datlen = l.datlen
        BY <3>2 DEF SameCall, SameOffsets
      <4> HIDE DEF h
      <4> QED BY <2>1, <2>3, <2>4, <3>1, <4>1
    <3>4. Knows(s, h, free, idx)
      BY <3>2, <3>5, SMT DEF Knows
    <3> QED BY <1>0, <2>1, <2>2, <3>2, <3>3, <3>4, QuietKeeps, SMT DEF Set, SameCall, Chain
  <2>5. CASE idx[l.off].key # l.key /\ l.ptrval = None /\ s = Missed(l)
    <3>1. h = l.off
      BY <2>1, <2>3, <2>5, SMT DEF Walking, SameCall
    <3>2. Hash[reg[p].key] \in Chains
      BY <1>0, <2>0, SMT DEF Place
    <3>3. Empty(idx, h)
      BY <1>0, <2>1, <2>3, <2>5, <3>1, <3>2, SMT DEF Lists, Blanks, Chain, HashApart, SameCall
    <3>4. SameCall(l, s) /\ s.pc \in {"chain.reread", "chain.unlock"}
      BY <2>1, <2>5, MissedGoes, SMT DEF SameCall
    <3>5. Quiet(p)
      BY <1>0, <2>0, <2>1, <2>2, <3>4, SMT DEF Set, file, Quiet, Ptr, Rec, Taken, SameCall
    <3>7. s.from = None
      BY <2>1, <2>5, SMT DEF Missed, SameCall
    <3>6. Knows(s, h, free, idx)
      BY <3>3, <3>4, <3>7, SMT DEF Knows
    <3> QED BY <1>0, <2>1, <2>2, <3>4, <3>5, <3>6, QuietKeeps, SMT DEF Set, SameCall, Chain
  <2>6. CASE l.ptrval # None /\ s = [l EXCEPT !.from = l.off, !.off = l.ptrval]
    <3>1. SameCall(l, s) /\ s.pc = "chain.walk" /\ s.from # None /\ s.off = s.ptrval
      BY <2>1, <2>3, <2>6, SMT DEF SameCall
    <3>2. Quiet(p)
      BY <1>0, <2>0, <2>1, <2>2, <3>1, SMT DEF Set, file, Quiet, Ptr, Rec, Taken, SameCall
    <3>3. Knows(s, h, free, idx)
      BY <3>1, SMT DEF Knows, Walking
    <3> QED BY <1>0, <2>1, <2>2, <3>1, <3>2, <3>3, QuietKeeps, SMT DEF Set, SameCall, Chain
  <2> QED BY <2>2, <2>4, <2>5, <2>6
<1> QED BY <1>1, <1>2, <1>3
-----------------------------------------------------------------------------
(* A writing step passes records on between the hands of p, the head of    *)
(* its chain and that of the free list; what it puts there comes from      *)
(* there, or is the record appended.                                       *)
Shuffles(p) ==
  LET r == reg[p]
      s == reg'[p]
      c == Chain(p)
      Local == {None, Ptr(r), Rec(r), head[c], free, Len(idx) + 1}
  IN /\ reg' = [reg EXCEPT ![p] = s] /\ s.key = r.key
     /\ r.pc \in InChain /\ r.op # "fetch"
     /\ r.pc \in InFree \/ (free' = free /\ s.pc \notin InFree)
     /\ head' = [head EXCEPT ![c] = head'[c]]
     /\ Ptr(s) \in Local /\ Rec(s) \in Local /\ head'[c] \in Local /\ free' \in Local
     /\ Ptr(s) = Rec(s) => Rec(s) = None
     /\ ~Claims(s, head'[c]) /\ ~Claims(s, free')
     /\ head'[c] = free' /\ free' # None => s.pc = "del.link"

(* Whoever writes a list has no other list with the same record. *)
LEMMA NotFree ==
  ASSUME Discipline, Guards, Lists, NEW p \in Procs, NEW c \in Chains, head[c] = free, free # None
  PROVE  /\ reg[p].pc \in InFree => reg[p].pc = "del.link" /\ Chain(p) = c
         /\ reg[p].pc \in InChain /\ reg[p].op # "fetch" /\ Chain(p) = c => reg[p].pc = "del.link"
<1>1. PICK q \in Procs : reg[q].pc = "del.link" /\ Chain(q) = c
  BY DEF Lists, Apart, FreeApart
<1>2. reg[p].pc \in InFree => p = q
  BY <1>1, FreeAlone, SMT
<1>3. reg[p].pc \in InChain /\ reg[p].op # "fetch" /\ Chain(p) = c => p = q
  BY <1>1, ChainAlone, SMT
<1> QED BY <1>1, <1>2, <1>3

LEMMA ClaimsWithin ==
  ASSUME Discipline, Offsets, NEW q \in Procs, NEW x, Claims(reg[q], x)
  PROVE  x \in 1 .. Len(idx)
<1>1. Within(reg[q], Len(idx)) /\ Len(idx) \in Nat
  BY HereOf
<1> QED BY <1>1, SMT DEF Claims, Ptr, Rec, Taken, Within, None

LEMMA ShuffleKeeps ==
  ASSUME Discipline, Guards, Offsets, Lists, NEW p \in Procs, Shuffles(p)
  PROVE  Apart'
<1> DEFINE r == reg[p]
           s == reg'[p]
           c == Chain(p)
<1>0. /\ DOMAIN reg = Procs /\ \A q \in Procs : q # p => reg'[q] = reg[q]
      /\ c \in Chains /\ Len(idx) \in Nat /\ head \in [Chains -> 0 .. Len(idx)]
      /\ \A d \in Chains : d # c => head'[d] = head[d]
      /\ free \in 0 .. Len(idx) /\ DOMAIN head' = Chains
  <2>1. Place(r) /\ r.pc \in OnChain
    BY HandleOf, SMT DEF Shuffles
  <2> QED BY <2>1, HereOf, SMT DEF Shuffles, Place, Chain, Files
<1>1. /\ HeadsApart /\ FreeApart /\ HandsApart /\ \A q \in Procs : HandApart(q)
  BY DEF Lists, Apart
<1>2. ASSUME NEW d \in Chains, d # c, head[d] = free, free # None
      PROVE  r.pc \notin InFree /\ free' = free /\ s.pc # "del.link"
  BY <1>0, <1>2, NotFree, SMT DEF Shuffles
<1> DEFINE Local == {None, Ptr(r), Rec(r), head[c], free, Len(idx) + 1}
<1>3. /\ Ptr(s) \in Local /\ Rec(s) \in Local /\ head'[c] \in Local /\ free' \in Local
      /\ Ptr(s) = Rec(s) => Rec(s) = None
      /\ ~Claims(s, head'[c]) /\ ~Claims(s, free')
      /\ head'[c] = free' /\ free' # None => s.pc = "del.link"
      /\ r.pc \in InFree \/ free' = free
  BY Zenon DEF Shuffles
<1>4. ASSUME NEW x \in Local, x # None, NEW d \in Chains, d # c, head[d] = x
      PROVE  x = free /\ free' = free /\ s.pc # "del.link"
  BY <1>0, <1>1, <1>2, <1>4, SMT DEF HeadsApart, HandApart, Claims, None
<1>5. ASSUME NEW x \in Local, x # None, NEW q \in Procs, q # p PROVE ~Claims(reg[q], x)
  <2> SUFFICES ASSUME Claims(reg[q], x) PROVE FALSE
    OBVIOUS
  <2>1. x \in 1 .. Len(idx)
    BY ClaimsWithin
  <2>2. x # free /\ x # head[c]
    BY <1>0, <1>1 DEF HandApart
  <2>3. ~Claims(r, x)
    BY <1>1, <1>5 DEF HandsApart
  <2> QED BY <1>0, <1>5, <2>1, <2>2, <2>3, SMT DEF Claims
<1>6. HeadsApart'
  BY <1>0, <1>1, <1>3, <1>4, SMT DEF HeadsApart
<1>7. FreeApart'
  <2> SUFFICES ASSUME NEW d \in Chains, head'[d] = free', free' # None
               PROVE  \E q \in Procs : reg'[q].pc = "del.link" /\ Chain(q)' = d
    BY DEF FreeApart
  <2>1. CASE d = c
    BY <1>3, <2>1, SMT DEF Shuffles, Chain
  <2>2. CASE d # c
    <3>1. head[d] = free /\ free' = free
      BY <1>0, <1>3, <1>4, <2>2
    <3>2. PICK q \in Procs : reg[q].pc = "del.link" /\ Chain(q) = d
      BY <1>1, <3>1 DEF FreeApart
    <3>3. q # p
      BY <2>2, <3>2
    <3> QED BY <1>0, <3>2, <3>3 DEF Chain
  <2> QED BY <2>1, <2>2
<1>8. HandsApart'
  <2>1. \A x : Claims(s, x) => x \in Local /\ x # None
    BY <1>3 DEF Claims
  <2> QED BY <1>0, <1>1, <1>5, <2>1, SMT DEF HandsApart
<1>9. ASSUME NEW q \in Procs PROVE HandApart(q)'
  <2>1. CASE q # p
    <3>1. ~Claims(reg[q], free') /\ ~Claims(reg[q], head'[c])
      BY <1>3, <1>5, <2>1 DEF Claims
    <3>2. \A d \in Chains : d # c => ~Claims(reg[q], head'[d])
      BY <1>0, <1>1 DEF HandApart
    <3>3. Ptr(reg[q]) = Rec(reg[q]) => Rec(reg[q]) = None
      BY <1>1 DEF HandApart
    <3> QED BY <1>0, <2>1, <3>1, <3>2, <3>3 DEF HandApart
  <2>2. CASE q = p
    <3>1. ASSUME NEW d \in Chains PROVE ~Claims(s, head'[d])
      <4>1. CASE d = c
        BY <1>3, <4>1
      <4>2. CASE d # c
        <5> SUFFICES ASSUME Claims(s, head'[d]) PROVE FALSE
          OBVIOUS
        <5>1. head[d] \in Local /\ head[d] # None
          BY <1>0, <1>3, <4>2 DEF Claims
        <5>2. head[d] = free'
          BY <1>4, <4>2, <5>1
        <5> QED BY <1>0, <1>3, <4>2, <5>2
      <4> QED BY <4>1, <4>2
    <3> QED BY <1>3, <2>2, <3>1 DEF HandApart
  <2> QED BY <2>1, <2>2
<1> QED BY <1>6, <1>7, <1>8, <1>9 DEF Apart
(* What a writing step of p leaves for the others: the record w that it    *)
(* rewrites is in no hands but its own.                                    *)
Rewrites(p, w) ==
  /\ w \in {None, Rec(reg[p]), head[Chain(p)]}
  /\ \A x \in 1 .. Len(idx) : x # w => SameRec(idx, idx', x)

OnList(i, c, x) == Empty(i, x) \/ (i[x].key \in Keys /\ Hash[i[x].key] = c)

LEMMA OthersKeep ==
  ASSUME Discipline, Guards, Offsets, Lists, NEW p \in Procs, Shuffles(p), NEW w, Rewrites(p, w)
  PROVE  /\ \A q \in Procs : q # p => Doing(q)' /\ HandBlank(reg'[q], idx')
         /\ \A d \in Chains : d # Chain(p) => OnList(idx', d, head'[d])
<1> DEFINE r == reg[p]
           c == Chain(p)
<1>0. /\ DOMAIN reg = Procs /\ \A q \in Procs : q # p => reg'[q] = reg[q]
      /\ c \in Chains /\ Len(idx) \in Nat /\ head \in [Chains -> 0 .. Len(idx)]
      /\ \A d \in Chains : d # c => head'[d] = head[d]
  <2>1. Place(r) /\ r.pc \in OnChain
    BY HandleOf, SMT DEF Shuffles
  <2> QED BY <2>1, HereOf, SMT DEF Shuffles, Place, Chain, Files
<1>1. /\ HeadsApart /\ FreeApart /\ HandsApart /\ \A q \in Procs : HandApart(q)
  BY DEF Lists, Apart
<1>2. ASSUME NEW d \in Chains, d # c, head[d] # None PROVE SameRec(idx, idx', head[d])
  <2>1. head[d] # w
    BY <1>0, <1>1, <1>2, SMT DEF Rewrites, HeadsApart, HandApart, Claims
  <2> QED BY <1>0, <1>2, <2>1, SMT DEF Rewrites, None
<1>3. ASSUME NEW q \in Procs, q # p, NEW x, Claims(reg[q], x) PROVE SameRec(idx, idx', x)
  <2>1. x \in 1 .. Len(idx)
    BY <1>3, ClaimsWithin
  <2>2. x # w
    <3>1. x # head[c] /\ x # None
      BY <1>0, <1>1, <1>3 DEF HandApart, Claims
    <3>2. ~Claims(r, x)
      BY <1>1, <1>3 DEF HandsApart
    <3> QED BY <3>1, <3>2 DEF Rewrites, Claims
  <2> QED BY <2>1, <2>2 DEF Rewrites
<1>4. ASSUME NEW q \in Procs, q # p PROVE Doing(q)'
  <2>1. Knows(reg[q], head[Chain(q)], free, idx) /\ Place(reg[q])
    BY HandleOf DEF Lists, Doing
  <2>2. reg[q].pc \in InFree => free' = free
    BY <1>4, <1>0, FreeAlone, SMT DEF Shuffles
  <2>3. reg[q].pc \in InChain =>
          /\ head'[Chain(q)] = head[Chain(q)]
          /\ head[Chain(q)] # None => SameRec(idx, idx', head[Chain(q)])
    <3> SUFFICES ASSUME reg[q].pc \in InChain
                 PROVE  head'[Chain(q)] = head[Chain(q)] /\
                        (head[Chain(q)] # None => SameRec(idx, idx', head[Chain(q)]))
      OBVIOUS
    <3>1. Chain(q) # c /\ Chain(q) \in Chains
      BY <1>4, <2>1, ChainAlone, SMT DEF Shuffles, Place, Chain
    <3> QED BY <1>0, <1>2, <3>1
  <2>4. reg[q].pc \in Linking => SameRec(idx, idx', reg[q].idxoff)
    BY <1>3, <1>4, <2>1, SMT DEF Claims, Rec, Knows
  <2>5. Knows(reg[q], head'[Chain(q)], free', idx')
    BY <2>1, <2>2, <2>3, <2>4, KnowsStill
  <2> QED BY <1>0, <1>4, <2>5 DEF Doing, Chain
<1>5. ASSUME NEW q \in Procs, q # p PROVE HandBlank(reg'[q], idx')
  <2>1. HandBlank(reg[q], idx)
    BY DEF Lists, Blanks
  <2>2. /\ Ptr(reg[q]) # None => SameRec(idx, idx', Ptr(reg[q]))
        /\ Rec(reg[q]) # None => SameRec(idx, idx', Rec(reg[q]))
    BY <1>3, <1>5 DEF Claims
  <2> QED BY <1>0, <1>5, <2>1, <2>2 DEF HandBlank, Empty, SameRec
<1>6. ASSUME NEW d \in Chains, d # c PROVE OnList(idx', d, head'[d])
  <2>1. OnList(idx, d, head[d])
    BY DEF Lists, Blanks, OnList
  <2> QED BY <1>0, <1>2, <1>6, <2>1 DEF OnList, Empty, SameRec
<1> QED BY <1>4, <1>5, <1>6

LEMMA WriteKeeps ==
  ASSUME Discipline, Guards, Offsets, Lists, NEW p \in Procs, Shuffles(p), NEW w, Rewrites(p, w),
         Knows(reg'[p], head'[Chain(p)], free', idx'), HandBlank(reg'[p], idx'),
         Empty(idx', free'), OnList(idx', Chain(p), head'[Chain(p)])
  PROVE  Lists'
<1>1. Apart'
  BY ShuffleKeeps
<1>2. /\ \A q \in Procs : q # p => Doing(q)' /\ HandBlank(reg'[q], idx')
      /\ \A d \in Chains : d # Chain(p) => OnList(idx', d, head'[d])
  BY OthersKeep
<1>3. Doing(p)'
  BY DEF Doing, Chain, Shuffles
<1>4. Blanks'
  BY <1>2 DEF Blanks, OnList
<1> QED BY <1>1, <1>2, <1>3, <1>4 DEF Lists
(* What the writes do to the records *)
LEMMA PointedSame ==
  ASSUME Files, NEW r, NEW ptr, NEW x \in 1 .. Len(idx)
  PROVE  SameRec(idx, Pointed(r, ptr), x)
<1>1. idx[x] \in IdxRec /\ DOMAIN idx = 1 .. Len(idx)
  BY ElementOfSeq, LenNat DEF Files
<1> QED BY <1>1, SMT DEF SameRec, Pointed, IdxRec

LEMMA FilledSame ==
  ASSUME Files, NEW r, NEW key, NEW x \in 1 .. Len(idx)
  PROVE  /\ x # r.idxoff => SameRec(idx, Filled(r, key), x)
         /\ x = r.idxoff => /\ Filled(r, key)[x].key = key
                            /\ Filled(r, key)[x].dat = r.datoff
                            /\ Filled(r, key)[x].len = r.datlen
<1>1. idx[x] \in IdxRec /\ DOMAIN idx = 1 .. Len(idx)
  BY ElementOfSeq, LenNat DEF Files
<1> QED BY <1>1, SMT DEF SameRec, Filled, IdxRec

(* What is known where a step of p begins, that changes its chain *)
LEMMA Before ==
  ASSUME Discipline, Guards, Offsets, Lists, NEW p \in Procs, reg[p].pc \in InChain
  PROVE  /\ DOMAIN reg = Procs /\ DOMAIN reg[p] = Fields /\ Place(reg[p])
         /\ Within(reg[p], Len(idx)) /\ Files /\ Len(idx) \in Nat /\ DOMAIN idx = 1 .. Len(idx)
         /\ Chain(p) \in Chains /\ Chain(p) = Hash[reg[p].key] /\ reg[p].key \in Keys
         /\ head \in [Chains -> 0 .. Len(idx)] /\ free \in 0 .. Len(idx)
         /\ Knows(reg[p], head[Chain(p)], free, idx)
         /\ HandApart(p) /\ HandBlank(reg[p], idx)
         /\ OnList(idx, Chain(p), head[Chain(p)]) /\ Empty(idx, free)
         /\ reg[p].op # "fetch" /\ reg[p].pc # "del.link" => head[Chain(p)] # free \/ free = None
<1>1. /\ DOMAIN reg = Procs /\ DOMAIN reg[p] = Fields /\ Place(reg[p])
      /\ Within(reg[p], Len(idx)) /\ Files /\ Len(idx) \in Nat /\ DOMAIN idx = 1 .. Len(idx)
  BY HereOf
<1>2. Chain(p) \in Chains /\ Chain(p) = Hash[reg[p].key] /\ reg[p].key \in Keys
  BY <1>1, SMT DEF Place, Chain
<1>3. /\ Knows(reg[p], head[Chain(p)], free, idx)
      /\ HandApart(p) /\ HandBlank(reg[p], idx)
      /\ OnList(idx, Chain(p), head[Chain(p)]) /\ Empty(idx, free)
  BY <1>2 DEF Lists, Apart, Blanks, Doing, OnList
<1>4. reg[p].op # "fetch" /\ reg[p].pc # "del.link" => head[Chain(p)] # free \/ free = None
  BY <1>2, NotFree
<1> QED BY <1>1, <1>2, <1>3, <1>4 DEF Files

LEMMA LinkKeeps ==
  ASSUME Discipline, Guards, Offsets, Lists, Len(idx) <= PTR_MAX, NEW p \in Procs, Link(p)
  PROVE  Lists'
<1> DEFINE r == reg[p]
           s == reg'[p]
           c == Chain(p)
<1>1. r.pc = "chain.link" /\ free' = free /\ idx' = idx
  BY DEF Link
<1>2. /\ DOMAIN reg = Procs /\ DOMAIN reg[p] = Fields /\ Place(reg[p])
      /\ Within(reg[p], Len(idx)) /\ Files /\ Len(idx) \in Nat
      /\ c \in Chains /\ c = Hash[reg[p].key] /\ reg[p].key \in Keys
      /\ head \in [Chains -> 0 .. Len(idx)]
      /\ Knows(reg[p], head[c], free, idx)
      /\ HandApart(p) /\ Empty(idx, free)
      /\ reg[p].op # "fetch" => head[c] # free \/ free = None
  BY <1>1, Before, SMT
<1>3. r.idxoff \in 1 .. Len(idx) /\ r.op = "store"
  BY <1>1, <1>2, SMT DEF Within, Knows, Place, None
<1>4. head' = [head EXCEPT ![c] = r.idxoff]
  <2>1. WritePtr(head[c], r.idxoff) = r.idxoff
    BY <1>2, <1>3, SMT DEF WritePtr
  <2> QED BY <2>1 DEF Link
<1>5. /\ reg' = [reg EXCEPT ![p] = s] /\ s.key = r.key
      /\ s.pc = "chain.unlock" /\ s.ptrval = r.ptrval
  BY <1>1, <1>2, SMT DEF Link, Set
<1>6. /\ Ptr(r) = None /\ Rec(r) = r.idxoff /\ Ptr(s) = head[c] /\ Rec(s) = None
      /\ Empty(idx, head[c]) /\ idx[r.idxoff].key = r.key
  BY <1>1, <1>2, <1>5, SMT DEF Ptr, Rec, Taken, Knows
<1>7. head[c] # r.idxoff /\ free # r.idxoff
  BY <1>2, <1>3, <1>6, SMT DEF HandApart, Claims, None
<1>8. Shuffles(p)
  <2>1. head'[c] = r.idxoff /\ head' = [head EXCEPT ![c] = head'[c]]
    <3> HIDE DEF c, r
    <3>1. c \in Chains /\ DOMAIN head = Chains
      BY <1>2
    <3> QED BY <1>4, <3>1, Zenon
  <2>2. ~Claims(s, head'[c]) /\ ~Claims(s, free')
    BY <1>1, <1>2, <1>3, <1>6, <1>7, <2>1, SMT DEF Claims
  <2>3. Ptr(s) = Rec(s) => Rec(s) = None
    BY <1>6
  <2>4. head'[c] # free'
    BY <1>1, <1>7, <2>1
  <2>5. r.pc \in InChain /\ r.op # "fetch" /\ s.pc \notin InFree
    BY <1>1, <1>3, <1>5, SMT
  <2> QED BY <1>1, <1>5, <1>6, <2>1, <2>2, <2>3, <2>4, <2>5, Zenon DEF Shuffles
<1>9. Rewrites(p, None)
  BY <1>1 DEF Rewrites, SameRec
<1>10. Knows(s, head'[c], free', idx')
  BY <1>5, SMT DEF Knows
<1>11. HandBlank(s, idx') /\ Empty(idx', free')
  BY <1>1, <1>2, <1>6 DEF HandBlank, Empty
<1>12. OnList(idx', c, head'[c])
  BY <1>1, <1>2, <1>4, <1>6, SMT DEF OnList
<1> QED BY <1>8, <1>9, <1>10, <1>11, <1>12, WriteKeeps


LEMMA Same ==
  ASSUME NEW S, NEW T, NEW f \in [S -> T], NEW x PROVE f = [f EXCEPT ![x] = f[x]]
BY SMT

LEMMA UnlinkKeeps ==
  ASSUME Discipline, Guards, Offsets, Lists, Len(idx) <= PTR_MAX, NEW p \in Procs, Unlink(p)
  PROVE  Lists'
<1> DEFINE r == reg[p]
           s == reg'[p]
           c == Chain(p)
<1>1. r.pc = "free.unlink" /\ head' = head
  BY DEF Unlink
<1>2. /\ DOMAIN reg = Procs /\ DOMAIN reg[p] = Fields /\ Place(reg[p])
      /\ Within(reg[p], Len(idx)) /\ Files /\ Len(idx) \in Nat /\ DOMAIN idx = 1 .. Len(idx)
      /\ c \in Chains /\ c = Hash[reg[p].key] /\ reg[p].key \in Keys
      /\ head \in [Chains -> 0 .. Len(idx)] /\ free \in 0 .. Len(idx)
      /\ Knows(reg[p], head[c], free, idx)
      /\ HandApart(p) /\ HandBlank(reg[p], idx) /\ Empty(idx, free)
      /\ OnList(idx, c, head[c])
      /\ reg[p].op # "fetch" /\ reg[p].pc # "del.link" => head[c] # free \/ free = None
  BY <1>1, Before, SMT
<1>3. r.op = "store" /\ r.ptrval <= PTR_MAX
  BY <1>1, <1>2, SMT DEF Within, Place
<1>4. /\ reg' = [reg EXCEPT ![p] = s] /\ s.key = r.key /\ s.pc = "free.unlock"
      /\ s.off = r.off /\ s.from = r.from /\ s.idxoff = r.idxoff /\ s.new = r.new
  BY <1>1, <1>2, SMT DEF Unlink, Set
<1>5. /\ r.off # None /\ r.idxoff = r.off /\ r.new = head[c] /\ Empty(idx, head[c])
      /\ Walking(r, free)
  BY <1>1, <1>2, SMT DEF Knows
<1>6. Ptr(r) = r.ptrval /\ Rec(r) = None /\ Ptr(s) = None /\ Rec(s) = r.off
  BY <1>1, <1>4, <1>5, SMT DEF Ptr, Rec, Taken
<1>7. /\ r.from = None => free' = r.ptrval /\ idx' = idx
      /\ r.from # None => free' = free /\ idx' = Pointed(r.from, r.ptrval)
  BY <1>3, SMT DEF Unlink, WritePtr
<1>8. (head[c] # free /\ head[c] # r.ptrval) \/ head[c] = None
  BY <1>1, <1>2, <1>3, <1>6, SMT DEF HandApart, Claims
<1>9. r.ptrval # free \/ r.ptrval = None
  BY <1>2, <1>6, SMT DEF HandApart, Claims
<1>10. /\ r.off \in {free, r.ptrval} /\ free' \in {free, r.ptrval}
       /\ free' = r.off => free' = None
  BY <1>5, <1>7, <1>9, SMT DEF Walking
<1>11. Shuffles(p)
  <2> HIDE DEF c, r, s
  <2>1. head' = [head EXCEPT ![c] = head'[c]] /\ head'[c] = head[c]
    BY <1>1, <1>2, Same
  <2>2. ~Claims(s, head'[c]) /\ ~Claims(s, free')
    BY <1>1, <1>5, <1>6, <1>8, <1>10 DEF Claims
  <2>3. head'[c] = free' => free' = None
    BY <1>1, <1>8, <1>10
  <2>4. Ptr(s) = Rec(s) => Rec(s) = None
    BY <1>6
  <2>5. r.pc \in InChain /\ r.op # "fetch" /\ r.pc \in InFree
    BY <1>1, <1>3, SMT
  <2>6. /\ Ptr(s) \in {None, Ptr(r), Rec(r), head[c], free, Len(idx) + 1}
        /\ Rec(s) \in {None, Ptr(r), Rec(r), head[c], free, Len(idx) + 1}
        /\ head'[c] \in {None, Ptr(r), Rec(r), head[c], free, Len(idx) + 1}
        /\ free' \in {None, Ptr(r), Rec(r), head[c], free, Len(idx) + 1}
    BY <1>6, <1>10, <2>1
  <2> USE DEF c, r, s
  <2> QED BY <1>4, <2>1, <2>2, <2>3, <2>4, <2>5, <2>6, Zenon DEF Shuffles
<1>12. \A x \in 1 .. Len(idx) : SameRec(idx, idx', x)
  BY <1>2, <1>7, PointedSame DEF SameRec
<1>13. Rewrites(p, None)
  BY <1>12 DEF Rewrites
<1>14. \A x \in 0 .. Len(idx) : Empty(idx, x) => Empty(idx', x)
  BY <1>2, <1>12, SMT DEF Empty, SameRec, None
<1>15. Empty(idx', head[c]) /\ Empty(idx', r.ptrval) /\ Empty(idx', free)
  BY <1>2, <1>5, <1>6, <1>14 DEF HandBlank, Within
<1>16. Knows(s, head'[c], free', idx')
  BY <1>1, <1>4, <1>5, <1>15, SMT DEF Knows
<1>17. HandBlank(s, idx') /\ Empty(idx', free')
  BY <1>6, <1>10, <1>15 DEF HandBlank, Empty
<1>18. OnList(idx', c, head'[c])
  BY <1>1, <1>15 DEF OnList
<1> QED BY <1>11, <1>13, <1>16, <1>17, <1>18, WriteKeeps

LEMMA WriteIdxKeeps ==
  ASSUME Discipline, Guards, Offsets, Lists, NEW p \in Procs, WriteIdx(p)
  PROVE  Lists'
<1> DEFINE r == reg[p]
           s == reg'[p]
           c == Chain(p)
<1>1. /\ r.pc = "reuse.idx" /\ head' = head /\ free' = free
      /\ idx' = Filled(r, r.key)
  BY DEF WriteIdx
<1>2. /\ DOMAIN reg = Procs /\ DOMAIN reg[p] = Fields /\ Place(reg[p])
      /\ Within(reg[p], Len(idx)) /\ Files /\ Len(idx) \in Nat /\ DOMAIN idx = 1 .. Len(idx)
      /\ c \in Chains /\ c = Hash[reg[p].key] /\ reg[p].key \in Keys
      /\ head \in [Chains -> 0 .. Len(idx)] /\ free \in 0 .. Len(idx)
      /\ Knows(reg[p], head[c], free, idx)
      /\ HandApart(p) /\ HandBlank(reg[p], idx) /\ Empty(idx, free)
      /\ OnList(idx, c, head[c])
      /\ reg[p].op # "fetch" /\ reg[p].pc # "del.link" => head[c] # free \/ free = None
  BY <1>1, Before, SMT
<1>3. r.op = "store"
  BY <1>1, <1>2, SMT DEF Place
<1>4. /\ reg' = [reg EXCEPT ![p] = s] /\ s.key = r.key /\ s.pc = "chain.link"
      /\ s.ptrval = r.new /\ s.idxoff = r.idxoff /\ s.new = r.new
  BY <1>1, <1>2, SMT DEF WriteIdx, Set
<1>5. r.idxoff \in 1 .. Len(idx) /\ r.new = head[c] /\ Empty(idx, head[c])
  BY <1>1, <1>2, SMT DEF Knows, Within, None
<1>6. Ptr(r) = None /\ Rec(r) = r.idxoff /\ Ptr(s) = None /\ Rec(s) = r.idxoff
  BY <1>1, <1>4, SMT DEF Ptr, Rec, Taken
<1>7. head[c] # r.idxoff /\ free # r.idxoff /\ (head[c] # free \/ free = None)
  BY <1>1, <1>2, <1>3, <1>5, <1>6, SMT DEF HandApart, Claims, None
<1>8. Shuffles(p)
  <2> HIDE DEF c, r, s
  <2>1. head' = [head EXCEPT ![c] = head'[c]] /\ head'[c] = head[c]
    BY <1>1, <1>2, Same
  <2>2. ~Claims(s, head'[c]) /\ ~Claims(s, free')
    BY <1>1, <1>6, <1>7, <2>1 DEF Claims
  <2>3. /\ head'[c] = free' /\ free' # None => s.pc = "del.link"
        /\ Ptr(s) = Rec(s) => Rec(s) = None
    BY <1>1, <1>5, <1>6, <1>7, <2>1, SMT DEF None
  <2>4. r.pc \in InChain /\ r.op # "fetch" /\ free' = free /\ s.pc \notin InFree
    BY <1>1, <1>3, <1>4, SMT
  <2>5. /\ Ptr(s) \in {None, Ptr(r), Rec(r), head[c], free, Len(idx) + 1}
        /\ Rec(s) \in {None, Ptr(r), Rec(r), head[c], free, Len(idx) + 1}
        /\ head'[c] \in {None, Ptr(r), Rec(r), head[c], free, Len(idx) + 1}
        /\ free' \in {None, Ptr(r), Rec(r), head[c], free, Len(idx) + 1}
    BY <1>1, <1>6, <2>1
  <2> USE DEF c, r, s
  <2> QED BY <1>1, <1>4, <2>1, <2>2, <2>3, <2>4, <2>5, Zenon DEF Shuffles
<1>9. \A x \in 1 .. Len(idx) : x # r.idxoff => SameRec(idx, idx', x)
  BY <1>1, <1>2, FilledSame
<1>10. Rewrites(p, r.idxoff)
  BY <1>6, <1>9 DEF Rewrites
<1>11. Empty(idx', head[c]) /\ Empty(idx', free)
  BY <1>2, <1>5, <1>7, <1>9, SMT DEF Empty, SameRec, None
<1>12. idx'[r.idxoff].key = r.key
  BY <1>1, <1>2, <1>5, FilledSame
<1>13. Knows(s, head'[c], free', idx')
  BY <1>1, <1>4, <1>5, <1>11, <1>12, SMT DEF Knows, None
<1>14. HandBlank(s, idx') /\ Empty(idx', free')
  BY <1>1, <1>4, <1>6, <1>11 DEF HandBlank, Empty
<1>15. OnList(idx', c, head'[c])
  BY <1>1, <1>11 DEF OnList
<1> QED BY <1>8, <1>10, <1>13, <1>14, <1>15, WriteKeeps

LEMMA AppendIdxKeeps ==
  ASSUME Discipline, Guards, Offsets, Lists, NEW p \in Procs, AppendIdx(p)
  PROVE  Lists'
<1> DEFINE r == reg[p]
           s == reg'[p]
           c == Chain(p)
<1>1. r.pc = "tail.idx" /\ head' = head /\ free' = free
  BY DEF AppendIdx
<1>2. /\ DOMAIN reg = Procs /\ DOMAIN reg[p] = Fields /\ Place(reg[p])
      /\ Within(reg[p], Len(idx)) /\ Files /\ Len(idx) \in Nat /\ DOMAIN idx = 1 .. Len(idx)
      /\ c \in Chains /\ c = Hash[reg[p].key] /\ reg[p].key \in Keys
      /\ head \in [Chains -> 0 .. Len(idx)] /\ free \in 0 .. Len(idx)
      /\ Knows(reg[p], head[c], free, idx)
      /\ HandApart(p) /\ HandBlank(reg[p], idx) /\ Empty(idx, free)
      /\ OnList(idx, c, head[c])
      /\ reg[p].op # "fetch" /\ reg[p].pc # "del.link" => head[c] # free \/ free = None
  BY <1>1, Before, SMT
<1>3. r.op = "store" /\ r.idxoff = Len(idx) + 1
  BY <1>1, <1>2, SMT DEF Place, Within
<1>4. /\ reg' = [reg EXCEPT ![p] = s] /\ s.key = r.key /\ s.pc = "tail.unlock"
      /\ s.ptrval = r.ptrval /\ s.idxoff = r.idxoff /\ s.new = r.new
  BY <1>1, <1>2, SMT DEF AppendIdx, Set
<1>5. r.ptrval = head[c] /\ r.new = head[c] /\ Empty(idx, head[c])
  BY <1>1, <1>2, SMT DEF Knows
<1>6. Ptr(r) = None /\ Rec(r) = None /\ Ptr(s) = None /\ Rec(s) = Len(idx) + 1
  BY <1>1, <1>3, <1>4, SMT DEF Ptr, Rec, Taken
<1>7. idx' = Append(idx, NewRec(r))
  BY <1>2, <1>3, SMT DEF AppendIdx, Recs
<1>8. (head[c] # free \/ free = None) /\ head[c] # Len(idx) + 1 /\ free # Len(idx) + 1
  BY <1>1, <1>2, <1>3, SMT
<1>9. Shuffles(p)
  <2> HIDE DEF c, r, s
  <2>1. head' = [head EXCEPT ![c] = head'[c]] /\ head'[c] = head[c]
    BY <1>1, <1>2, Same
  <2>2. ~Claims(s, head'[c]) /\ ~Claims(s, free')
    BY <1>1, <1>6, <1>8, <2>1 DEF Claims
  <2>3. /\ head'[c] = free' /\ free' # None => s.pc = "del.link"
        /\ Ptr(s) = Rec(s) => Rec(s) = None
    BY <1>1, <1>2, <1>6, <1>8, <2>1, SMT DEF None
  <2>4. r.pc \in InChain /\ r.op # "fetch" /\ free' = free /\ s.pc \notin InFree
    BY <1>1, <1>3, <1>4, SMT
  <2>5. /\ Ptr(s) \in {None, Ptr(r), Rec(r), head[c], free, Len(idx) + 1}
        /\ Rec(s) \in {None, Ptr(r), Rec(r), head[c], free, Len(idx) + 1}
        /\ head'[c] \in {None, Ptr(r), Rec(r), head[c], free, Len(idx) + 1}
        /\ free' \in {None, Ptr(r), Rec(r), head[c], free, Len(idx) + 1}
    BY <1>1, <1>6, <2>1
  <2> USE DEF c, r, s
  <2> QED BY <1>1, <1>4, <2>1, <2>2, <2>3, <2>4, <2>5, Zenon DEF Shuffles
<1>10. (\A x \in 1 .. Len(idx) : idx'[x] = idx[x]) /\ idx'[Len(idx) + 1] = NewRec(r)
  BY <1>2, <1>7, SMT
<1>11. Rewrites(p, None)
  BY <1>10 DEF Rewrites, SameRec
<1>12. Empty(idx', head[c]) /\ Empty(idx', free)
  BY <1>2, <1>5, <1>10, SMT DEF Empty, None
<1>13. idx'[s.idxoff].key = s.key /\ s.idxoff # None
  BY <1>2, <1>3, <1>4, <1>10, SMT DEF NewRec, None
<1>14. Knows(s, head'[c], free', idx')
  BY <1>1, <1>4, <1>5, <1>12, <1>13, SMT DEF Knows
<1>15. HandBlank(s, idx') /\ Empty(idx', free')
  BY <1>1, <1>4, <1>6, <1>12 DEF HandBlank, Empty
<1>16. OnList(idx', c, head'[c])
  BY <1>1, <1>12 DEF OnList
<1> QED BY <1>9, <1>11, <1>14, <1>15, <1>16, WriteKeeps

LEMMA DelIdxKeeps ==
  ASSUME Discipline, Guards, Offsets, Lists, NEW p \in Procs, DelIdx(p)
  PROVE  Lists'
<1> DEFINE r == reg[p]
           s == reg'[p]
           c == Chain(p)
<1>1. /\ r.pc = "del.idx" /\ head' = head /\ free' = free
      /\ idx' = Filled(r, Blank)
  BY DEF DelIdx
<1>2. /\ DOMAIN reg = Procs /\ DOMAIN reg[p] = Fields /\ Place(reg[p])
      /\ Within(reg[p], Len(idx)) /\ Files /\ Len(idx) \in Nat /\ DOMAIN idx = 1 .. Len(idx)
      /\ c \in Chains /\ c = Hash[reg[p].key] /\ reg[p].key \in Keys
      /\ head \in [Chains -> 0 .. Len(idx)] /\ free \in 0 .. Len(idx)
      /\ Knows(reg[p], head[c], free, idx)
      /\ HandApart(p) /\ HandBlank(reg[p], idx) /\ Empty(idx, free)
      /\ OnList(idx, c, head[c])
      /\ reg[p].op # "fetch" /\ reg[p].pc # "del.link" => head[c] # free \/ free = None
  BY <1>1, Before, SMT
<1>3. r.op # "fetch"
  BY <1>1, <1>2, SMT DEF Place
<1>4. /\ reg' = [reg EXCEPT ![p] = s] /\ s.key = r.key /\ s.pc = "del.head"
      /\ s.ptrval = r.new /\ s.idxoff = r.idxoff /\ s.save = r.save /\ s.from = r.from
  BY <1>1, <1>2, SMT DEF DelIdx, Set
<1>5. /\ r.idxoff = head[c] /\ head[c] # None /\ r.from = None
      /\ r.new = free /\ r.save = r.ptrval
  BY <1>1, <1>2, SMT DEF Knows
<1>6. Ptr(r) = r.ptrval /\ Rec(r) = None /\ Ptr(s) = r.ptrval /\ Rec(s) = None
  BY <1>1, <1>4, <1>5, SMT DEF Ptr, Rec, Taken
<1>7. /\ ~Claims(s, head[c]) /\ ~Claims(s, free) /\ (head[c] # free \/ free = None)
  BY <1>1, <1>2, <1>3, <1>6, SMT DEF HandApart, Claims
<1>8. Shuffles(p)
  <2> HIDE DEF c, r, s
  <2>1. head' = [head EXCEPT ![c] = head'[c]] /\ head'[c] = head[c]
    BY <1>1, <1>2, Same
  <2>2. ~Claims(s, head'[c]) /\ ~Claims(s, free')
    BY <1>1, <1>7, <2>1
  <2>3. /\ head'[c] = free' /\ free' # None => s.pc = "del.link"
        /\ Ptr(s) = Rec(s) => Rec(s) = None
    BY <1>1, <1>5, <1>6, <1>7, <2>1
  <2>4. r.pc \in InChain /\ r.op # "fetch" /\ r.pc \in InFree
    BY <1>1, <1>3, <1>4, SMT
  <2>5. /\ Ptr(s) \in {None, Ptr(r), Rec(r), head[c], free, Len(idx) + 1}
        /\ Rec(s) \in {None, Ptr(r), Rec(r), head[c], free, Len(idx) + 1}
        /\ head'[c] \in {None, Ptr(r), Rec(r), head[c], free, Len(idx) + 1}
        /\ free' \in {None, Ptr(r), Rec(r), head[c], free, Len(idx) + 1}
    BY <1>1, <1>6, <2>1
  <2> USE DEF c, r, s
  <2> QED BY <1>1, <1>4, <2>1, <2>2, <2>3, <2>4, <2>5, Zenon DEF Shuffles
<1>9. /\ \A x \in 1 .. Len(idx) : x # head[c] => SameRec(idx, idx', x)
      /\ idx'[head[c]].key = Blank
  BY <1>1, <1>2, <1>5, FilledSame, SMT DEF None
<1>10. Rewrites(p, head[c])
  BY <1>9 DEF Rewrites
<1>11. ASSUME NEW x \in 0 .. Len(idx), Empty(idx, x) PROVE Empty(idx', x)
  <2>1. CASE x = None
    BY <2>1 DEF Empty
  <2>2. CASE x # None /\ x = head[c]
    BY <1>9, <2>2, Zenon DEF Empty
  <2>3. CASE x # None /\ x # head[c]
    <3>1. x \in 1 .. Len(idx) /\ idx[x].key = Blank
      BY <1>2, <1>11, <2>3, SMT DEF Empty, None
    <3> QED BY <1>9, <2>3, <3>1, Zenon DEF Empty, SameRec
  <2> QED BY <2>1, <2>2, <2>3
<1>12. Empty(idx', head[c]) /\ Empty(idx', free) /\ Empty(idx', r.ptrval)
  BY <1>2, <1>6, <1>9, <1>11 DEF Empty, HandBlank, Within
<1>13. Knows(s, head'[c], free', idx')
  BY <1>1, <1>4, <1>5, <1>12, SMT DEF Knows
<1>14. HandBlank(s, idx') /\ Empty(idx', free')
  BY <1>1, <1>6, <1>12 DEF HandBlank, Empty
<1>15. OnList(idx', c, head'[c])
  BY <1>1, <1>12 DEF OnList
<1> QED BY <1>8, <1>10, <1>13, <1>14, <1>15, WriteKeeps

LEMMA DelHeadKeeps ==
  ASSUME Discipline, Guards, Offsets, Lists, Len(idx) <= PTR_MAX, NEW p \in Procs, DelHead(p)
  PROVE  Lists'
<1> DEFINE r == reg[p]
           s == reg'[p]
           c == Chain(p)
<1>1. r.pc = "del.head" /\ head' = head /\ idx' = idx
  BY DEF DelHead
<1>2. /\ DOMAIN reg = Procs /\ DOMAIN reg[p] = Fields /\ Place(reg[p])
      /\ Within(reg[p], Len(idx)) /\ Files /\ Len(idx) \in Nat /\ DOMAIN idx = 1 .. Len(idx)
      /\ c \in Chains /\ c = Hash[reg[p].key] /\ reg[p].key \in Keys
      /\ head \in [Chains -> 0 .. Len(idx)] /\ free \in 0 .. Len(idx)
      /\ Knows(reg[p], head[c], free, idx)
      /\ HandApart(p) /\ HandBlank(reg[p], idx) /\ Empty(idx, free)
      /\ OnList(idx, c, head[c])
      /\ reg[p].op # "fetch" /\ reg[p].pc # "del.link" => head[c] # free \/ free = None
  BY <1>1, Before, SMT
<1>3. r.op # "fetch"
  BY <1>1, <1>2, SMT DEF Place
<1>4. /\ reg' = [reg EXCEPT ![p] = s] /\ s.key = r.key /\ s.pc = "del.link"
      /\ s.ptrval = r.ptrval /\ s.idxoff = r.idxoff /\ s.save = r.save /\ s.from = r.from
  BY <1>1, <1>2, SMT DEF DelHead, Set
<1>5. /\ r.idxoff = head[c] /\ head[c] # None /\ r.from = None /\ Empty(idx, head[c])
      /\ r.ptrval = free
  BY <1>1, <1>2, SMT DEF Knows
<1>6. Ptr(r) = r.save /\ Rec(r) = None /\ Ptr(s) = free /\ Rec(s) = r.save
  BY <1>1, <1>4, <1>5, SMT DEF Ptr, Rec, Taken
<1>7. free' = head[c]
  BY <1>2, <1>5, SMT DEF DelHead, WritePtr
<1>8. /\ head[c] # free \/ free = None
      /\ r.save # head[c] \/ r.save = None
      /\ r.save # free \/ r.save = None
  BY <1>1, <1>2, <1>3, <1>6, SMT DEF HandApart, Claims
<1>9. Shuffles(p)
  <2> HIDE DEF c, r, s
  <2>1. head' = [head EXCEPT ![c] = head'[c]] /\ head'[c] = head[c]
    BY <1>1, <1>2, Same
  <2>2. ~Claims(s, head'[c]) /\ ~Claims(s, free')
    BY <1>1, <1>5, <1>6, <1>7, <1>8, <2>1 DEF Claims
  <2>3. /\ head'[c] = free' /\ free' # None => s.pc = "del.link"
        /\ Ptr(s) = Rec(s) => Rec(s) = None
    BY <1>4, <1>6, <1>8
  <2>4. r.pc \in InChain /\ r.op # "fetch" /\ r.pc \in InFree
    BY <1>1, <1>3, <1>4, SMT
  <2>5. /\ Ptr(s) \in {None, Ptr(r), Rec(r), head[c], free, Len(idx) + 1}
        /\ Rec(s) \in {None, Ptr(r), Rec(r), head[c], free, Len(idx) + 1}
        /\ head'[c] \in {None, Ptr(r), Rec(r), head[c], free, Len(idx) + 1}
        /\ free' \in {None, Ptr(r), Rec(r), head[c], free, Len(idx) + 1}
    BY <1>1, <1>6, <1>7, <2>1
  <2> USE DEF c, r, s
  <2> QED BY <1>1, <1>4, <2>1, <2>2, <2>3, <2>4, <2>5, Zenon DEF Shuffles
<1>10. Rewrites(p, None)
  BY <1>1 DEF Rewrites, SameRec
<1>11. Knows(s, head'[c], free', idx')
  BY <1>1, <1>4, <1>5, <1>7, SMT DEF Knows
<1>12. HandBlank(s, idx') /\ Empty(idx', free')
  BY <1>1, <1>2, <1>5, <1>6, <1>7 DEF HandBlank
<1>13. OnList(idx', c, head'[c])
  BY <1>1, <1>5 DEF OnList
<1> QED BY <1>9, <1>10, <1>11, <1>12, <1>13, WriteKeeps

LEMMA DelLinkKeeps ==
  ASSUME Discipline, Guards, Offsets, Lists, Len(idx) <= PTR_MAX, NEW p \in Procs, DelLink(p)
  PROVE  Lists'
<1> DEFINE r == reg[p]
           s == reg'[p]
           c == Chain(p)
<1>1. r.pc = "del.link" /\ free' = free
  BY DEF DelLink
<1>2. /\ DOMAIN reg = Procs /\ DOMAIN reg[p] = Fields /\ Place(reg[p])
      /\ Within(reg[p], Len(idx)) /\ Files /\ Len(idx) \in Nat /\ DOMAIN idx = 1 .. Len(idx)
      /\ c \in Chains /\ c = Hash[reg[p].key] /\ reg[p].key \in Keys
      /\ head \in [Chains -> 0 .. Len(idx)] /\ free \in 0 .. Len(idx)
      /\ Knows(reg[p], head[c], free, idx)
      /\ HandApart(p) /\ HandBlank(reg[p], idx) /\ Empty(idx, free)
      /\ OnList(idx, c, head[c])
      /\ reg[p].op # "fetch" /\ reg[p].pc # "del.link" => head[c] # free \/ free = None
  BY <1>1, Before, SMT
<1>3. r.op # "fetch" /\ r.save <= PTR_MAX /\ r.from = None /\ head[c] = free
  BY <1>1, <1>2, SMT DEF Place, Within, Knows
<1>4. /\ reg' = [reg EXCEPT ![p] = s] /\ s.key = r.key /\ s.pc = "del.unlock"
      /\ s.ptrval = r.ptrval
  BY <1>1, <1>2, SMT DEF DelLink, Set
<1>5. idx' = idx /\ head' = [head EXCEPT ![c] = r.save]
  <2>1. WritePtr(head[c], r.save) = r.save
    BY <1>3 DEF WritePtr
  <2> QED BY <1>3, <2>1 DEF DelLink
<1>6. Ptr(r) = r.ptrval /\ Rec(r) = r.save /\ Ptr(s) = r.ptrval /\ Rec(s) = None
  BY <1>1, <1>4, SMT DEF Ptr, Rec, Taken
<1>7. /\ r.ptrval # r.save \/ r.save = None
      /\ r.ptrval # free \/ free = None
      /\ r.save # free \/ free = None
  BY <1>2, <1>6, SMT DEF HandApart, Claims
<1>8. Shuffles(p)
  <2> HIDE DEF c, r, s
  <2>1. head' = [head EXCEPT ![c] = head'[c]] /\ head'[c] = r.save
    BY <1>2, <1>5
  <2>2. ~Claims(s, head'[c]) /\ ~Claims(s, free')
    BY <1>1, <1>6, <1>7, <2>1 DEF Claims
  <2>3. /\ head'[c] = free' /\ free' # None => s.pc = "del.link"
        /\ Ptr(s) = Rec(s) => Rec(s) = None
    BY <1>1, <1>6, <1>7, <2>1
  <2>4. r.pc \in InChain /\ r.op # "fetch" /\ r.pc \in InFree
    BY <1>1, <1>3, <1>4, SMT
  <2>5. /\ Ptr(s) \in {None, Ptr(r), Rec(r), head[c], free, Len(idx) + 1}
        /\ Rec(s) \in {None, Ptr(r), Rec(r), head[c], free, Len(idx) + 1}
        /\ head'[c] \in {None, Ptr(r), Rec(r), head[c], free, Len(idx) + 1}
        /\ free' \in {None, Ptr(r), Rec(r), head[c], free, Len(idx) + 1}
    BY <1>1, <1>6, <2>1
  <2> USE DEF c, r, s
  <2> QED BY <1>1, <1>4, <2>1, <2>2, <2>3, <2>4, <2>5, Zenon DEF Shuffles
<1>9. Rewrites(p, None)
  BY <1>5 DEF Rewrites, SameRec
<1>10. Empty(idx, r.save) /\ Empty(idx, r.ptrval)
  BY <1>1, <1>2, <1>6, SMT DEF HandBlank
<1>11. head'[c] = r.save
  BY <1>2, <1>5
<1>12. Knows(s, head'[c], free', idx')
  BY <1>4, <1>5, <1>10, <1>11, SMT DEF Knows
<1>13. HandBlank(s, idx') /\ Empty(idx', free')
  BY <1>1, <1>2, <1>5, <1>6, <1>10 DEF HandBlank, Empty
<1>14. OnList(idx', c, head'[c])
  BY <1>5, <1>10, <1>11 DEF OnList
<1> QED BY <1>8, <1>9, <1>12, <1>13, <1>14, WriteKeeps
-----------------------------------------------------------------------------
(* While nothing but kills and races has happened *)
Sound     == events \subseteq {"race", "crash"}
SoundLists == Sound => Guards /\ Lists

Fit == Len(idx) <= PTR_MAX

LEMMA EventsGrow == ASSUME [Next]_vars PROVE events \subseteq events'
<1>1. CASE UNCHANGED vars
  BY <1>1 DEF vars
<1>2. ASSUME NEW p \in Procs, Begin(p) PROVE events' = events
  BY <1>2, Zenon DEF Begin, Open, Close, Rewind, CallNext, Call
<1>3. ASSUME NEW p \in Procs, Step(p) PROVE events \subseteq events'
  <2>1. CASE Acquire(p) \/ Return(p) \/ UnlockFree(p) \/ UnlockDat(p) \/ UnlockTail(p)
             \/ DelUnlock(p) \/ ScanReturn(p)
    BY <2>1, Zenon DEF Acquire, Return, UnlockFree, UnlockDat, UnlockTail, DelUnlock, ScanReturn
  <2>2. CASE Refuse(p)
    BY <2>2, SMT DEF Refuse
  <2>3. CASE AppendDat(p)
    BY <2>3, SMT DEF AppendDat
  <2>4. CASE \/ ReadHead(p) \/ Walk(p) \/ ReadDat(p) \/ Reread(p) \/ ReadFree(p) \/ WalkFree(p)
             \/ Unlink(p) \/ WriteDat(p) \/ WriteIdx(p) \/ SeekDat(p) \/ SeekIdx(p)
             \/ AppendIdx(p) \/ Link(p) \/ DelFree(p) \/ DelIdx(p) \/ DelHead(p) \/ DelLink(p)
             \/ ScanIdx(p) \/ ScanDat(p)
    BY <2>4, Zenon DEF ReadHead, Walk, ReadDat, Reread, ReadFree, WalkFree, Unlink, WriteDat,
      WriteIdx, SeekDat, SeekIdx, AppendIdx, Link, DelFree, DelIdx, DelHead, DelLink,
      ScanIdx, ScanDat
  <2> QED BY <1>3, <2>1, <2>2, <2>3, <2>4, Zenon DEF Step
<1>4. ASSUME NEW p \in Procs, Crash(p) PROVE events \subseteq events'
  BY <1>4, SMT DEF Crash
<1> QED BY <1>1, <1>2, <1>3, <1>4, Zenon DEF Next

LEMMA InitLists == Init => Lists
<1> SUFFICES ASSUME Init PROVE Lists
  OBVIOUS
<1>1. /\ \A p \in Procs : reg[p].pc = "off" /\ reg[p].ptrval = None /\ reg[p].off = None
      /\ free = None /\ \A c \in Chains : head[c] = None
  BY SMT DEF Init, At
<1>2. \A p \in Procs : Ptr(reg[p]) = None /\ Rec(reg[p]) = None
  BY <1>1, SMT DEF Ptr, Rec, Taken
<1>3. HeadsApart /\ FreeApart
  BY <1>1 DEF HeadsApart, FreeApart
<1>4. HandsApart /\ \A p \in Procs : HandApart(p)
  BY <1>2 DEF HandsApart, HandApart, Claims
<1>5. Blanks
  BY <1>1, <1>2 DEF Blanks, HandBlank, Empty
<1>6. ASSUME NEW p \in Procs PROVE Doing(p)
  BY <1>1, SMT DEF Doing, Knows
<1> QED BY <1>3, <1>4, <1>5, <1>6 DEF Lists, Apart

LEMMA NextLists ==
  ASSUME Discipline, Offsets, Fit, HashApart, SoundLists, [Next]_vars PROVE SoundLists'
<1> SUFFICES ASSUME Sound' PROVE Guards' /\ Lists'
  BY DEF SoundLists
<1>1. Guards /\ Lists /\ Len(idx) <= PTR_MAX
  BY EventsGrow DEF Sound, SoundLists, Fit
<1>2. ~Refusals' /\ "torn" \notin events'
  BY SMT DEF Sound, Refusals
<1>3. Guards'
  BY <1>1, <1>2, NextGuards
<1>4. CASE UNCHANGED vars
  <2>1. UNCHANGED <<head, free, idx, reg>>
    BY <1>4 DEF vars, file
  <2> QED BY <1>1, <1>3, <2>1, Zenon DEF Lists, Apart, HeadsApart, FreeApart, HandsApart,
      HandApart, Blanks, Doing, Chain
<1>5. ASSUME NEW p \in Procs, Begin(p) PROVE Lists'
  <2>1. \/ Open(p) \/ Close(p) \/ Rewind(p) \/ CallNext(p)
        \/ (\E k, op, v, flag : Call(p, op, k, v, flag))
    BY <1>5, Zenon DEF Begin
  <2> QED BY <1>1, <2>1, QuietCalls
<1>6. ASSUME NEW p \in Procs, Step(p) PROVE Lists'
  <2>1. ~Refuse(p)
    BY <1>2, SMT DEF Refuse, Refusals
  <2>2. CASE Return(p) \/ ScanReturn(p) \/ ScanIdx(p) \/ ScanDat(p)
    BY <1>1, <2>2, QuietCalls
  <2>3. CASE \/ Acquire(p) \/ ReadDat(p) \/ Reread(p) \/ ReadFree(p) \/ UnlockFree(p)
             \/ WriteDat(p) \/ SeekDat(p) \/ AppendDat(p) \/ UnlockDat(p)
             \/ SeekIdx(p) \/ UnlockTail(p) \/ DelFree(p) \/ DelUnlock(p)
    BY <1>1, <2>3, QuietStores
  <2>4. CASE ReadHead(p) \/ Walk(p) \/ WalkFree(p)
    BY <1>1, <2>4, QuietSearch
  <2>5. CASE Unlink(p) \/ Link(p) \/ DelHead(p) \/ DelLink(p)
    BY <1>1, <2>5, UnlinkKeeps, LinkKeeps, DelHeadKeeps, DelLinkKeeps
  <2>6. CASE WriteIdx(p) \/ AppendIdx(p) \/ DelIdx(p)
    BY <1>1, <2>6, WriteIdxKeeps, AppendIdxKeeps, DelIdxKeeps
  <2> QED BY <1>6, <2>1, <2>2, <2>3, <2>4, <2>5, <2>6, Zenon DEF Step
<1>7. ASSUME NEW p \in Procs, Crash(p) PROVE Lists'
  <2>1. reg[p].pc # "del.link"
    BY <1>2, <1>7, SMT DEF Crash
  <2> QED BY <1>1, <1>7, <2>1, QuietCalls
<1>8. Lists'
  BY <1>4, <1>5, <1>6, <1>7, Zenon DEF Next
<1> QED BY <1>3, <1>8

(* As long as every record number can be written as a pointer and no two   *)
(* keys share a chain: no kill, no race and no order of the steps ever     *)
(* puts a record in two places.                                            *)
THEOREM ListsKept == ASSUME HashApart PROVE Spec /\ []Fit => []SoundLists
<1>1. Discipline /\ Offsets /\ Fit /\ SoundLists /\ [Next]_vars => SoundLists'
  BY NextLists
<1>2. Init => SoundLists
  BY InitLists, InitGuards DEF SoundLists
<1> QED BY <1>1, <1>2, LockDiscipline, OffsetsInFiles, PTL DEF Spec

LEMMA SettledApart == SoundLists => ListsApart
<1> SUFFICES ASSUME SoundLists, Settled, events \subseteq {"race", "crash"},
                    NEW a \in Ends, NEW b \in Ends, a[2] = b[2], a[2] # None
             PROVE  a = b
  BY DEF ListsApart
<1>1. Lists
  BY DEF SoundLists, Sound
<1>2. ASSUME NEW p \in Procs PROVE Ptr(reg[p]) = reg[p].ptrval /\ reg[p].pc # "del.link"
  BY <1>2, SMT DEF Settled, InCall, Ptr, Taken
<1>3. HeadsApart /\ HandsApart /\ \A p \in Procs : HandApart(p)
  BY <1>1 DEF Lists, Apart
<1>4. \A c \in Chains : head[c] # free \/ free = None
  BY <1>1, <1>2 DEF Lists, Apart, FreeApart
<1>5. ASSUME NEW p \in Procs, reg[p].ptrval # None
      PROVE  Claims(reg[p], reg[p].ptrval)
  BY <1>2, <1>5 DEF Claims
<1>6. ASSUME NEW e \in Ends
      PROVE  \/ \E c \in Chains : e = <<c, head[c]>>
             \/ e = <<"free", free>>
             \/ \E p \in Procs : e = <<p, reg[p].ptrval>>
  BY <1>6 DEF Ends
<1>7. CASE \E c \in Chains : a = <<c, head[c]>>
  BY <1>3, <1>4, <1>5, <1>6, <1>7, SMT DEF HeadsApart, HandApart
<1>8. CASE a = <<"free", free>>
  BY <1>3, <1>4, <1>5, <1>6, <1>8, SMT DEF HandApart
<1>9. CASE \E p \in Procs : a = <<p, reg[p].ptrval>>
  BY <1>3, <1>5, <1>6, <1>9, SMT DEF HandApart, HandsApart
<1> QED BY <1>6, <1>7, <1>8, <1>9

THEOREM NoSharedRecord == ASSUME HashApart PROVE Spec /\ []Fit => []ListsApart
BY ListsKept, SettledApart, PTL
-----------------------------------------------------------------------------
(* A live record is at the head of its chain, or about to be put there. *)
Awaits(r, x, k) == r.pc \in Linking /\ r.idxoff = x /\ r.key = k

Reached(x) ==
  \/ head[Hash[idx[x].key]] = x
  \/ \E p \in Procs : Awaits(reg[p], x, idx[x].key)

LiveReached == \A x \in Live : Reached(x)

RaceLists == events \subseteq {"race"} => LiveReached

(* The steps that make no record live, and reach no fewer *)
LEMMA ReachedStill ==
  ASSUME Discipline, LiveReached, NEW p \in Procs,
         reg' = [reg EXCEPT ![p] = reg'[p]], head' = head, DOMAIN idx' = DOMAIN idx,
         \A x \in DOMAIN idx : idx'[x].key = idx[x].key,
         reg[p].pc \in Linking =>
           /\ reg'[p].pc \in Linking /\ reg'[p].idxoff = reg[p].idxoff /\ reg'[p].key = reg[p].key
  PROVE  LiveReached'
<1>0. DOMAIN reg = Procs /\ \A q \in Procs : q # p => reg'[q] = reg[q]
  BY SMT DEF Discipline, Shapes
<1> SUFFICES ASSUME NEW x \in Live' PROVE Reached(x)'
  BY DEF LiveReached
<1>1. x \in Live /\ Reached(x) /\ idx'[x].key = idx[x].key
  BY DEF LiveReached, Live, Recs
<1> QED BY <1>0, <1>1, SMT DEF Reached, Awaits

(* Only two kinds of step leave the places where a record waits to be      *)
(* linked.                                                                 *)
LEMMA FromLinking ==
  ASSUME NEW p \in Procs, reg[p].pc \in Linking, Begin(p) \/ Step(p)
  PROVE  UnlockTail(p) \/ Link(p)
<1>1. ~Begin(p)
  <2>1. reg[p].pc # "idle" /\ reg[p].pc # "off"
    BY SMT
  <2>2. ~(Open(p) \/ Close(p) \/ Rewind(p) \/ CallNext(p))
    BY <2>1, SMT DEF Open, Close, Rewind, CallNext
  <2>3. ASSUME NEW op, NEW k, NEW v, NEW flag PROVE ~Call(p, op, k, v, flag)
    BY <2>1, SMT DEF Call
  <2> QED BY <2>2, <2>3, Zenon DEF Begin
<1>2. ~(Acquire(p) \/ Refuse(p))
  BY SMT DEF Acquire, Refuse, Requests, Granted
<1>3. ~(ReadHead(p) \/ Walk(p) \/ ReadDat(p) \/ Return(p) \/ Reread(p) \/ ReadFree(p))
  BY SMT DEF ReadHead, Walk, ReadDat, Return, Reread, ReadFree
<1>4. ~(WalkFree(p) \/ Unlink(p) \/ UnlockFree(p) \/ WriteDat(p) \/ WriteIdx(p))
  BY SMT DEF WalkFree, Unlink, UnlockFree, WriteDat, WriteIdx
<1>5. ~(SeekDat(p) \/ AppendDat(p) \/ UnlockDat(p) \/ SeekIdx(p) \/ AppendIdx(p))
  BY SMT DEF SeekDat, AppendDat, UnlockDat, SeekIdx, AppendIdx
<1>6. ~(DelFree(p) \/ DelIdx(p) \/ DelHead(p) \/ DelLink(p) \/ DelUnlock(p))
  BY SMT DEF DelFree, DelIdx, DelHead, DelLink, DelUnlock
<1>7. ~(ScanIdx(p) \/ ScanDat(p) \/ ScanReturn(p))
  BY SMT DEF ScanIdx, ScanDat, ScanReturn
<1> QED BY <1>1, <1>2, <1>3, <1>4, <1>5, <1>6, <1>7, Zenon DEF Step

LEMMA OneMoves ==
  ASSUME NEW p \in Procs, Begin(p) \/ Step(p) \/ Crash(p)
  PROVE  \E s : reg' = [reg EXCEPT ![p] = s]
<1>1. Begin(p) \/ Crash(p) => \E s : reg' = [reg EXCEPT ![p] = s]
  BY Zenon DEF Begin, Open, Close, Rewind, CallNext, Call, Crash, Set
<1>2. Acquire(p) \/ Refuse(p) \/ ReadHead(p) \/ Walk(p) \/ ReadDat(p) \/ Return(p)
        => \E s : reg' = [reg EXCEPT ![p] = s]
  BY Zenon DEF Acquire, Refuse, ReadHead, Walk, ReadDat, Return, Set, Go
<1>3. Reread(p) \/ ReadFree(p) \/ WalkFree(p) \/ Unlink(p) \/ UnlockFree(p) \/ WriteIdx(p)
        => \E s : reg' = [reg EXCEPT ![p] = s]
  BY Zenon DEF Reread, ReadFree, WalkFree, Unlink, UnlockFree, WriteIdx, Set, Go
<1>4. WriteDat(p) => \E s : reg' = [reg EXCEPT ![p] = s]
  BY Zenon DEF WriteDat, Set, Go
<1>5. SeekDat(p) \/ AppendDat(p) \/ UnlockDat(p) \/ SeekIdx(p) \/ AppendIdx(p) \/ UnlockTail(p)
        => \E s : reg' = [reg EXCEPT ![p] = s]
  BY Zenon DEF SeekDat, AppendDat, UnlockDat, SeekIdx, AppendIdx, UnlockTail, Set, Go
<1>6. Link(p) \/ DelFree(p) \/ DelIdx(p) \/ DelHead(p) \/ DelLink(p) \/ DelUnlock(p)
        => \E s : reg' = [reg EXCEPT ![p] = s]
  BY Zenon DEF Link, DelFree, DelIdx, DelHead, DelLink, DelUnlock, Set, Go
<1>7. ScanIdx(p) \/ ScanDat(p) \/ ScanReturn(p) => \E s : reg' = [reg EXCEPT ![p] = s]
  BY Zenon DEF ScanIdx, ScanDat, ScanReturn, Set, Go
<1> QED BY <1>1, <1>2, <1>3, <1>4, <1>5, <1>6, <1>7, Zenon DEF Step

(* No step of p but these three changes a key, and only two more a head. *)
KeysKept ==
  head' = head /\ DOMAIN idx' = DOMAIN idx /\ \A x \in DOMAIN idx : idx'[x].key = idx[x].key

LEMMA KeysStill ==
  ASSUME Discipline, Offsets, NEW p \in Procs, Begin(p) \/ Step(p),
         ~Link(p), ~DelLink(p), ~WriteIdx(p), ~AppendIdx(p), ~DelIdx(p)
  PROVE  KeysKept /\ reg' = [reg EXCEPT ![p] = reg'[p]]
<1>0. DOMAIN reg = Procs /\ Files
  BY HereOf
<1>1. Begin(p) => UNCHANGED file
  BY Zenon DEF Begin, Open, Close, Rewind, CallNext, Call
<1>2. CASE Unlink(p)
  <2>1. \A x \in 1 .. Len(idx) : SameRec(idx, idx', x)
    BY <1>0, <1>2, PointedSame DEF Unlink, SameRec
  <2>2. DOMAIN idx' = DOMAIN idx /\ DOMAIN idx = 1 .. Len(idx)
    BY <1>0, <1>2, LenNat, SMT DEF Unlink, Pointed
  <2> QED BY <1>0, <1>2, <2>1, <2>2, StoreStays DEF Unlink, SameRec, KeysKept, Stays
<1>3. /\ Acquire(p) \/ Refuse(p) => UNCHANGED <<head, idx>>
      /\ ReadHead(p) \/ Walk(p) \/ ReadDat(p) \/ Return(p) => UNCHANGED <<head, idx>>
      /\ Reread(p) \/ ReadFree(p) \/ WalkFree(p) \/ UnlockFree(p) => UNCHANGED <<head, idx>>
      /\ WriteDat(p) \/ SeekDat(p) \/ AppendDat(p) \/ UnlockDat(p) => UNCHANGED <<head, idx>>
      /\ SeekIdx(p) \/ UnlockTail(p) => UNCHANGED <<head, idx>>
      /\ DelFree(p) \/ DelHead(p) \/ DelUnlock(p) => UNCHANGED <<head, idx>>
      /\ ScanIdx(p) \/ ScanDat(p) \/ ScanReturn(p) => UNCHANGED <<head, idx>>
  BY Zenon DEF file, Acquire, Refuse, ReadHead, Walk, ReadDat, Return, Reread, ReadFree, WalkFree,
    UnlockFree, WriteDat, SeekDat, AppendDat, UnlockDat, SeekIdx, UnlockTail, DelFree, DelHead,
    DelUnlock, ScanIdx, ScanDat, ScanReturn
<1>4. CASE UNCHANGED <<head, idx>>
  <2>1. KeysKept
    BY <1>4 DEF KeysKept
  <2>2. \E s : reg' = [reg EXCEPT ![p] = s]
    BY OneMoves
  <2> QED BY <1>0, <2>1, <2>2, SMT
<1> QED BY <1>1, <1>2, <1>3, <1>4, Zenon DEF Step, file

LEMMA KeptReached ==
  ASSUME Discipline, Offsets, LiveReached, NEW p \in Procs, Begin(p) \/ Step(p),
         ~Link(p), ~DelLink(p), ~WriteIdx(p), ~AppendIdx(p), ~DelIdx(p)
  PROVE  LiveReached'
<1>1. KeysKept /\ reg' = [reg EXCEPT ![p] = reg'[p]]
  BY KeysStill
<1>2. ASSUME reg[p].pc \in Linking
      PROVE  /\ reg'[p].pc \in Linking /\ reg'[p].idxoff = reg[p].idxoff
             /\ reg'[p].key = reg[p].key
  <2>1. UnlockTail(p)
    BY <1>2, FromLinking
  <2>2. DOMAIN reg = Procs /\ DOMAIN reg[p] = Fields
    BY HandleOf
  <2> QED BY <1>2, <2>1, <2>2, SMT DEF UnlockTail, Go, Set, Fields
<1> QED BY <1>1, <1>2, ReachedStill DEF KeysKept

LEMMA ChangedReached ==
  ASSUME Discipline, Guards, Offsets, Lists, Fit, LiveReached, NEW p \in Procs,
         Link(p) \/ DelLink(p) \/ WriteIdx(p) \/ AppendIdx(p) \/ DelIdx(p)
  PROVE  LiveReached'
<1> DEFINE r == reg[p]
           s == reg'[p]
           c == Chain(p)
<1>1. r.pc \in {"chain.link", "del.link", "reuse.idx", "tail.idx", "del.idx"}
  BY SMT DEF Link, DelLink, WriteIdx, AppendIdx, DelIdx
<1>2. /\ DOMAIN reg = Procs /\ DOMAIN reg[p] = Fields /\ Place(reg[p])
      /\ Within(reg[p], Len(idx)) /\ Files /\ Len(idx) \in Nat /\ DOMAIN idx = 1 .. Len(idx)
      /\ c \in Chains /\ c = Hash[reg[p].key] /\ reg[p].key \in Keys
      /\ head \in [Chains -> 0 .. Len(idx)] /\ Knows(reg[p], head[c], free, idx)
  BY <1>1, Before, SMT
<1>3. \A q \in Procs : q # p => reg'[q] = reg[q]
  <2>1. \E t : reg' = [reg EXCEPT ![p] = t]
    BY OneMoves DEF Step
  <2> QED BY <1>2, <2>1, SMT
<1>4. \A x \in DOMAIN idx : idx[x].key # Blank =>
        head[Hash[idx[x].key]] = x \/ \E q \in Procs : Awaits(reg[q], x, idx[x].key)
  BY DEF LiveReached, Live, Recs, Reached
<1>5. ASSUME Link(p) PROVE LiveReached'
  <2>1. r.pc = "chain.link" /\ r.idxoff \in 1 .. Len(idx) /\ idx' = idx /\ idx[r.idxoff].key = r.key
        /\ Empty(idx, head[c])
    BY <1>2, <1>5, SMT DEF Link, Knows, Within, None
  <2>2. head' = [head EXCEPT ![c] = r.idxoff]
    <3>1. WritePtr(head[c], r.idxoff) = r.idxoff
      BY <1>2, <2>1, SMT DEF WritePtr, Fit
    <3> QED BY <1>5, <3>1 DEF Link
  <2> SUFFICES ASSUME NEW x \in DOMAIN idx, idx[x].key # Blank PROVE Reached(x)'
    BY <2>1 DEF LiveReached, Live, Recs
  <2>3. CASE x = r.idxoff
    BY <1>2, <2>1, <2>2, <2>3, SMT DEF Reached
  <2>4. CASE x # r.idxoff /\ head[Hash[idx[x].key]] = x
    <3>1. Hash[idx[x].key] # c
      BY <2>1, <2>4, <1>2, SMT DEF Empty, None
    <3> QED BY <1>2, <2>1, <2>2, <2>4, <3>1, SMT DEF Reached
  <2>5. CASE x # r.idxoff /\ \E q \in Procs : Awaits(reg[q], x, idx[x].key)
    <3>1. PICK q \in Procs : Awaits(reg[q], x, idx[x].key)
      BY <2>5
    <3>2. q # p
      BY <2>5, <3>1 DEF Awaits
    <3> QED BY <1>3, <2>1, <3>1, <3>2 DEF Reached
  <2> QED BY <1>4, <2>3, <2>4, <2>5
<1>6. ASSUME DelLink(p) PROVE LiveReached'
  <2>1. r.pc = "del.link" /\ idx' = idx /\ Empty(idx, head[c]) /\ r.from = None
    BY <1>2, <1>6, SMT DEF DelLink, Knows
  <2>2. \A d \in Chains : d # c => head'[d] = head[d]
    BY <1>2, <1>6, <2>1, SMT DEF DelLink
  <2> SUFFICES ASSUME NEW x \in DOMAIN idx, idx[x].key # Blank PROVE Reached(x)'
    BY <2>1 DEF LiveReached, Live, Recs
  <2>3. CASE head[Hash[idx[x].key]] = x
    <3>1. Hash[idx[x].key] # c /\ idx[x].key \in Keys
      <4>1. idx[x] \in IdxRec
        BY <1>2, ElementOfSeq DEF Files
      <4> QED BY <1>2, <2>1, <2>3, <4>1, SMT DEF Empty, None, IdxRec
    <3> QED BY <2>1, <2>2, <2>3, <3>1, SMT DEF Reached
  <2>4. CASE \E q \in Procs : Awaits(reg[q], x, idx[x].key)
    <3>1. PICK q \in Procs : Awaits(reg[q], x, idx[x].key)
      BY <2>4
    <3>2. q # p
      BY <2>1, <3>1, SMT DEF Awaits
    <3> QED BY <1>3, <2>1, <3>1, <3>2 DEF Reached
  <2> QED BY <1>4, <2>3, <2>4
<1>7. ASSUME NEW w, head' = head, r.pc \notin Linking,
             \A x \in DOMAIN idx' : x # w /\ idx'[x].key # Blank => x \in DOMAIN idx /\ idx'[x].key = idx[x].key,
             w \in DOMAIN idx' /\ idx'[w].key # Blank => Awaits(s, w, idx'[w].key)
      PROVE  LiveReached'
  <2> SUFFICES ASSUME NEW x \in DOMAIN idx', idx'[x].key # Blank PROVE Reached(x)'
    BY DEF LiveReached, Live, Recs
  <2>1. CASE x = w
    BY <1>7, <2>1 DEF Reached
  <2>2. CASE x # w
    <3>1. x \in DOMAIN idx /\ idx'[x].key = idx[x].key
      BY <1>7, <2>2
    <3>2. CASE head[Hash[idx[x].key]] = x
      BY <1>7, <3>1, <3>2 DEF Reached
    <3>3. CASE \E q \in Procs : Awaits(reg[q], x, idx[x].key)
      <4>1. PICK q \in Procs : Awaits(reg[q], x, idx[x].key)
        BY <3>3
      <4>2. q # p
        BY <1>7, <4>1 DEF Awaits
      <4> QED BY <1>3, <3>1, <4>1, <4>2 DEF Reached
    <3> QED BY <1>4, <3>1, <3>2, <3>3
  <2> QED BY <2>1, <2>2
<1>8. ASSUME WriteIdx(p) PROVE LiveReached'
  <2>1. /\ r.pc = "reuse.idx" /\ head' = head /\ idx' = Filled(r, r.key)
        /\ s.pc = "chain.link" /\ s.idxoff = r.idxoff /\ s.key = r.key
    BY <1>2, <1>8, SMT DEF WriteIdx, Set
  <2>2. DOMAIN idx' = DOMAIN idx
    BY <2>1 DEF Filled
  <2>3. \A x \in DOMAIN idx : /\ x # r.idxoff => idx'[x].key = idx[x].key
                              /\ x = r.idxoff => idx'[x].key = r.key
    BY <1>2, <2>1, FilledSame DEF SameRec
  <2>4. r.idxoff \in DOMAIN idx' => Awaits(s, r.idxoff, idx'[r.idxoff].key)
    BY <2>1, <2>2, <2>3, SMT DEF Awaits
  <2>5. r.pc \notin Linking
    BY <2>1, SMT
  <2> QED BY <1>7, <2>1, <2>2, <2>3, <2>4, <2>5
<1>9. ASSUME DelIdx(p) PROVE LiveReached'
  <2>1. r.pc = "del.idx" /\ head' = head /\ idx' = Filled(r, Blank)
    BY <1>9 DEF DelIdx
  <2>2. DOMAIN idx' = DOMAIN idx
    BY <2>1 DEF Filled
  <2>3. \A x \in DOMAIN idx : /\ x # r.idxoff => idx'[x].key = idx[x].key
                              /\ x = r.idxoff => idx'[x].key = Blank
    BY <1>2, <2>1, FilledSame DEF SameRec
  <2>4. r.pc \notin Linking
    BY <2>1, SMT
  <2> QED BY <1>7, <2>1, <2>2, <2>3, <2>4
<1>10. ASSUME AppendIdx(p) PROVE LiveReached'
  <2>1. /\ r.pc = "tail.idx" /\ head' = head /\ r.idxoff = Len(idx) + 1
        /\ s.pc = "tail.unlock" /\ s.idxoff = r.idxoff /\ s.key = r.key
    BY <1>2, <1>10, SMT DEF AppendIdx, Set, Within
  <2>2. idx' = Append(idx, NewRec(r))
    BY <1>2, <1>10, <2>1, SMT DEF AppendIdx, Recs
  <2>3. /\ DOMAIN idx' = 1 .. Len(idx) + 1 /\ idx'[Len(idx) + 1].key = r.key
        /\ \A x \in 1 .. Len(idx) : idx'[x] = idx[x]
    BY <1>2, <2>2, SMT DEF NewRec
  <2>4. Awaits(s, r.idxoff, idx'[r.idxoff].key)
    BY <2>1, <2>3, SMT DEF Awaits
  <2>5. \A x \in DOMAIN idx' : x # r.idxoff => x \in DOMAIN idx /\ idx'[x].key = idx[x].key
    BY <1>2, <2>1, <2>3, SMT
  <2>6. r.pc \notin Linking
    BY <2>1, SMT
  <2> QED BY <1>7, <2>1, <2>4, <2>5, <2>6
<1> QED BY <1>5, <1>6, <1>8, <1>9, <1>10

LEMMA NextReached ==
  ASSUME Discipline, Offsets, Fit, SoundLists, RaceLists, [Next]_vars PROVE RaceLists'
<1> SUFFICES ASSUME events' \subseteq {"race"} PROVE LiveReached'
  BY DEF RaceLists
<1>1. events \subseteq {"race"} /\ Guards /\ Lists /\ LiveReached
  <2>1. events \subseteq events'
    BY EventsGrow, Zenon
  <2>2. events \subseteq {"race"}
    BY <2>1, Zenon
  <2>3. events \subseteq {"race", "crash"}
    BY <2>2, Zenon
  <2> QED BY <2>2, <2>3, Zenon DEF RaceLists, SoundLists, Sound
<1>2. CASE UNCHANGED vars
  <2>1. UNCHANGED <<head, idx, reg>>
    BY <1>2 DEF vars, file
  <2> QED BY <1>1, <2>1 DEF LiveReached, Live, Recs, Reached
<1>3. ASSUME NEW p \in Procs, Begin(p) \/ Step(p) PROVE LiveReached'
  BY <1>1, <1>3, KeptReached, ChangedReached
<1>4. ASSUME NEW p \in Procs PROVE ~Crash(p)
  BY SMT DEF Crash
<1> QED BY <1>2, <1>3, <1>4, Zenon DEF Next

LEMMA InitReached == Init => RaceLists
BY SMT DEF Init, RaceLists, LiveReached, Live, Recs

LEMMA SettledReached == RaceLists => LiveAtHead
<1> SUFFICES ASSUME RaceLists, Settled, events \subseteq {"race"}, NEW x \in Live
             PROVE  head[Hash[idx[x].key]] = x
  BY DEF LiveAtHead
<1>1. \A p \in Procs : reg[p].pc \notin Linking
  BY SMT DEF Settled, InCall
<1> QED BY <1>1 DEF RaceLists, LiveReached, Reached, Awaits

(* However the calls took turns: when all are over every live record is at *)
(* the head of its chain.                                                  *)
THEOREM LiveFound == ASSUME HashApart PROVE Spec /\ []Fit => []LiveAtHead
<1>1. Discipline /\ Offsets /\ Fit /\ SoundLists /\ RaceLists /\ [Next]_vars => RaceLists'
  BY NextReached
<1> QED BY <1>1, InitReached, SettledReached, ListsKept, LockDiscipline, OffsetsInFiles, PTL DEF Spec
=============================================================================
