----------------------------- MODULE ApueDbCalls -----------------------------
(***************************************************************************)
(* ApueDbShared with one process, and ApueDb, in which a call is one step, *)
(* are the same store: base remembers the state in which the process       *)
(* entered the call it is in, and follows when the call returns.  A kill   *)
(* has no counterpart in ApueDb; base stays as it is from then on.         *)
(***************************************************************************)
EXTENDS ApueDbShared

CONSTANTS DATLEN_MIN, DATLEN_MAX

(* The process scans, too, so that the position of idxfd means something   *)
(* to it.  Data that db_store turns down before its first system call are  *)
(* not stored in ApueDbShared.                                             *)
ASSUME CallsAssumption ==
  /\ Procs # {} /\ Procs \subseteq Scanners
  /\ DATLEN_MIN \in Nat /\ DATLEN_MAX \in Nat
  /\ \A v \in Vals : DatLen[v] \in DATLEN_MIN .. DATLEN_MAX

VARIABLES base, out

Me == CHOOSE p \in Procs : TRUE

Datum(r) == [key |-> dat[idx[r].dat].key, val |-> dat[idx[r].dat].val]

(* What ApueDb says of the files and the handle.  Extents are numbered by  *)
(* their records.                                                          *)
Snapshot ==
  [head |-> head, free |-> free,
   idx |-> [r \in Recs |-> [idx[r] EXCEPT !.dat = r]],
   dat |-> [r \in Recs |-> Datum(r)],
   ptrval |-> reg[Me].ptrval, pos |-> reg[Me].pos,
   phase |-> IF reg[Me].pc = "off" THEN "closed" ELSE "open"]

Answer(op, k, v, rc) == [op |-> op, key |-> k, val |-> v, rc |-> rc]

Ended(r) ==
  CASE r.op = "none" /\ r.pc = "off" -> Answer("open", Blank, Blank, 0)
    [] r.op = "none" /\ r.pc = "idle" ->
         Answer(IF reg'[Me].pc = "off" THEN "close" ELSE "rewind", Blank, Blank, 0)
    [] r.op = "next" /\ r.rc # 0 -> Answer("next", Blank, Blank, -1)
    [] OTHER -> Answer(r.op, r.key, r.val, r.rc)

Follow ==
  IF events # {} \/ reg'[Me].pc \notin {"idle", "off"}
    THEN UNCHANGED <<base, out>>
    ELSE base' = Snapshot' /\ out' = Ended(reg[Me])


(* A call that will look at one and the same record for ever *)
Spinning(r) ==
  \/ r.pc = "chain.walk" /\ r.off = r.ptrval /\ idx[r.off].key # r.key
  \/ r.pc = "free.walk" /\ r.off = r.ptrval /\ ~Fits(r)

(* Such a call has written nothing, and killing it is like any other end   *)
(* of the process.                                                         *)
Killed ==
  IF events = {} /\ Spinning(reg[Me])
    THEN base' = Snapshot' /\ out' = Answer("close", Blank, Blank, 0)
    ELSE UNCHANGED <<base, out>>

CallsInit ==
  /\ Init
  /\ base = [Snapshot EXCEPT !.phase = "open", !.pos = 1]
  /\ out = Answer("open", Blank, Blank, 0)
CallsNext ==
  \/ (Begin(Me) \/ Step(Me)) /\ Follow
  \/ Crash(Me) /\ Killed
CallsSpec == CallsInit /\ [][CallsNext]_<<vars, base, out>>

Calls == INSTANCE ApueDb WITH
  head <- base.head, free <- base.free, idx <- base.idx, dat <- base.dat,
  ptrval <- base.ptrval, pos <- base.pos,
  phase <- IF events = {} /\ Spinning(reg[Me]) THEN "spinning" ELSE base.phase

(* Every call of one process, cut into its system calls, does to the files *)
(* and to the handle just what its single step in ApueDb does, and hangs   *)
(* where ApueDb says so.                                                   *)
ImplementsCalls == Calls!Spec
=============================================================================
