----------------------------- MODULE ApueDbScan -----------------------------
(***************************************************************************)
(* ApueDb with a memory of the scan in progress: the keys db_nextrec has   *)
(* returned since the last db_rewind or db_open, the last of them, and     *)
(* whether the caller kept to calls that leave a scan alone.  Those are    *)
(* db_nextrec itself and, for the key returned last, a db_fetch or a       *)
(* db_store that writes in place: they end with idxfd where they found it, *)
(* after the record of that key.  Any other call moves idxfd away.         *)
(***************************************************************************)
EXTENDS ApueDb

VARIABLES seen, last, quiet

scan == <<seen, last, quiet>>

Starts == out'.op \in {"open", "create", "rewind"}
Yields == out'.op = "next" /\ out'.rc = 0
InPlace ==
  /\ out'.op \in {"fetch", "store"} /\ out'.key = last
  /\ UNCHANGED <<head, free, idx>>

Remember ==
  /\ seen' = IF Starts THEN {} ELSE IF Yields THEN seen \cup {out'.key} ELSE seen
  /\ last' = IF Yields THEN out'.key ELSE IF InPlace THEN last ELSE Blank
  /\ quiet' = (Starts \/ (quiet /\ (out'.op = "next" \/ InPlace)))

ScanSpec ==
  /\ Init /\ seen = {} /\ last = Blank /\ quiet = TRUE
  /\ [][Next /\ Remember]_<<vars, scan>>

LiveKeys == {idx[r].key : r \in Recs} \ {Blank}

(* An undisturbed scan that has come to the end has returned every key in  *)
(* the store, whatever was deleted, reused and moved before it began, and  *)
(* though the caller looked up or rewrote the records it was given.        *)
ScanComplete ==
  phase = "open" /\ out.op = "next" /\ out.rc = -1 /\ quiet => seen = LiveKeys

(* and it never returns a key twice. *)
ScanOnce == [][NextRec /\ quiet /\ Yields => out'.key \notin seen]_<<vars, scan>>
=============================================================================
