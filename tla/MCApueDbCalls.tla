---------------------------- MODULE MCApueDbCalls ----------------------------
EXTENDS ApueDbCalls

MCKeyLen == [k \in Keys |-> 1]
MCDatLen == [v \in Vals |-> IF v = "u" THEN 2 ELSE 3]
MCApart  == [k \in Keys |-> IF k = "a" THEN "0" ELSE "1"]

(* After a kill inside a call base rests. *)
Unspoiled == events = {}

(* Nothing reads the pointer fields of the records, nor the last answer.   *)
Bare(i) == [r \in DOMAIN i |-> [i[r] EXCEPT !.ptr = 0]]
CallState ==
  <<head, free, Bare(idx), dat, locks, reg, events,
    [base EXCEPT !.idx = Bare(@)]>>
=============================================================================
