------------------------------ MODULE MCApueDb ------------------------------
(* Instances of ApueDb for TLC.  Data "u" and "v" have different lengths,  *)
(* and "" is shorter than db_store accepts.                                *)
EXTENDS ApueDb

MCKeyLen == [k \in Keys |-> IF k = "cc" THEN 2 ELSE 1]
MCDatLen == [v \in Vals |-> CASE v = "" -> 1 [] v = "u" -> 2 [] OTHER -> 3]

(* two of the keys on one chain *)
MCShared == [k \in Keys |-> IF k = "a" THEN 0 ELSE 1]

(* Nothing reads the pointer fields of the records or the last answer, and *)
(* only scans read the position of idxfd.                                  *)
ListState ==
  <<head, free, [r \in Recs |-> [idx[r] EXCEPT !.ptr = 0]], dat, ptrval, phase>>
=============================================================================
