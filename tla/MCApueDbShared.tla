--------------------------- MODULE MCApueDbShared ---------------------------
EXTENDS ApueDbShared, TLC

MCKeyLen == [k \in Keys |-> 1]
MCDatLen == [v \in Vals |-> IF v = "u" THEN 2 ELSE 3]
MCApart  == [k \in Keys |-> IF k = "a" THEN "0" ELSE "1"]

Alike == Permutations(Procs)

(* No property says anything of what follows a refused lock or a torn      *)
(* delete.  What follows a race or a kill is explored while the data file  *)
(* is short.                                                               *)
Unspoiled ==
  events = {} \/ (events \in {{"race"}, {"crash"}} /\ Len(dat) <= 2)

(* Nothing reads the pointer fields of the records. *)
Bare(i) == [r \in DOMAIN i |-> [i[r] EXCEPT !.ptr = 0]]
StoreState == <<head, free, Bare(idx), dat, locks, reg, events>>
=============================================================================
