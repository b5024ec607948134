----------------------------- MODULE KeyedStore -----------------------------
(***************************************************************************)
(* What db_fetch, db_store and db_delete promise together: a map from keys *)
(* to data.  Every call answers from the map as it is, and changes nothing *)
(* but the entry of its own key.                                           *)
(***************************************************************************)
EXTENDS Integers

CONSTANTS Keys, Vals, Absent, Storable(_)

VARIABLES content, out

Return(op, k, v, rc) == out' = [op |-> op, key |-> k, val |-> v, rc |-> rc]

Init ==
  /\ content = [k \in Keys |-> Absent]
  /\ out = [op |-> "open", key |-> Absent, val |-> Absent, rc |-> 0]

Get(k) ==
  /\ Return("fetch", k, content[k], IF content[k] = Absent THEN -1 ELSE 0)
  /\ UNCHANGED content

Put(k, v, flag) ==
  /\ Storable(v)
  /\ flag = "insert" => content[k] = Absent
  /\ flag = "replace" => content[k] # Absent
  /\ content' = [content EXCEPT ![k] = v]
  /\ Return("store", k, v, 0)

Refuse(k, v, flag) ==
  /\ UNCHANGED content
  /\ \/ ~Storable(v) /\ Return("store", k, v, -1)
     \/ flag = "insert" /\ content[k] # Absent /\ Return("store", k, v, 1)
     \/ flag = "replace" /\ content[k] = Absent /\ Return("store", k, v, -1)

Remove(k) ==
  /\ content' = [content EXCEPT ![k] = Absent]
  /\ Return("delete", k, Absent, IF content[k] = Absent THEN -1 ELSE 0)

(* One step of a scan, at any entry; where a scan starts and ends is not   *)
(* said here.                                                              *)
Scan ==
  /\ UNCHANGED content
  /\ \/ \E k \in Keys : content[k] # Absent /\ Return("next", k, content[k], 0)
     \/ Return("next", Absent, Absent, -1)

Empty ==
  /\ content' = [k \in Keys |-> Absent]
  /\ Return("create", Absent, Absent, 0)

Keep ==
  /\ UNCHANGED content
  /\ \E op \in {"open", "close", "rewind"} : Return(op, Absent, Absent, 0)

Next ==
  \/ Scan \/ Empty \/ Keep
  \/ \E k \in Keys : Get(k) \/ Remove(k)
  \/ \E k \in Keys, v \in Vals, flag \in {"insert", "replace", "store"} :
       Put(k, v, flag) \/ Refuse(k, v, flag)

Spec == Init /\ [][Next]_<<content, out>>
=============================================================================
