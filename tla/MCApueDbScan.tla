---------------------------- MODULE MCApueDbScan ----------------------------
EXTENDS ApueDbScan

MCKeyLen == [k \in Keys |-> 1]
MCDatLen == [v \in Vals |-> IF v = "u" THEN 2 ELSE 3]
MCApart  == [k \in Keys |-> IF k = "a" THEN 0 ELSE 1]

(* Nothing reads the pointer fields of the records, and of the answer of   *)
(* the last call the properties read op and rc.                            *)
ScanState ==
  <<head, free, [r \in Recs |-> [idx[r] EXCEPT !.ptr = 0]], dat, handle,
    out.op = "next", out.rc, scan>>
=============================================================================
