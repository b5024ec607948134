----------------------------- MODULE Interpreter -----------------------------
(***************************************************************************)
(* BooleanExp.h, VariableExp.cpp, Context.cpp and Interpreter_Pattern.cpp: *)
(* Boolean expressions, built node by node out of pointers to earlier      *)
(* ones, so that they may share parts; evaluated in a context, copied, and *)
(* copied with a variable replaced.                                        *)
(*                                                                         *)
(* A node is its number.  A context is what calls of Assign can make of    *)
(* it: any partial function from names to values.  Nodes are not deleted:  *)
(* no destructor of an expression reaches its parts.                       *)
(***************************************************************************)
EXTENDS Naturals, Sequences

CONSTANTS
  Names,
  Begins,      \* the pairs of names of which the first begins the second
  MaxNodes,
  MaxBuilt     \* bound on nodes that the user makes

InterpreterAssumption ==
  /\ MaxNodes \in Nat /\ MaxBuilt \in 0 .. MaxNodes
  /\ Begins \subseteq Names \X Names /\ \A x \in Names : <<x, x>> \in Begins

VARIABLES
  nodes,
  built,       \* the nodes that the user has made, and knows the class of
  meant        \* history: for each copy the table of what it has to mean

expvars == <<nodes, built, meant>>

Contexts == UNION {[S -> BOOLEAN] : S \in SUBSET Names}
Total    == [Names -> BOOLEAN]

Init == nodes = <<>> /\ built = {} /\ meant = {}
-----------------------------------------------------------------------------
(* What Evaluate returns: "yes", "no", or it throws. *)

Truth(b) == IF b THEN "yes" ELSE "no"

(* Lookup: in an empty context all is false; at() throws for a name that   *)
(* is not there.                                                           *)
Lookup(c, x) ==
  IF DOMAIN c = {} THEN "no" ELSE IF x \in DOMAIN c THEN Truth(c[x]) ELSE "throws"

Not(a)    == CASE a = "yes" -> "no" [] a = "no" -> "yes" [] OTHER -> a
(* The second operand is evaluated only if the first does not decide. *)
And(a, b) == IF a = "yes" THEN b ELSE a
Or(a, b)  == IF a = "no" THEN b ELSE a

(* The value of node n, where value has those of its operands *)
ValueOf(n, value, c) ==
  CASE n.op = "const" -> Truth(n.value)
    [] n.op = "var"   -> Lookup(c, n.name)
    [] n.op = "not"   -> Not(value[n.left])
    [] n.op = "and"   -> And(value[n.left], value[n.right])
    [] n.op = "or"    -> Or(value[n.left], value[n.right])

Evaluate(e, c) ==
  LET value[i \in 1 .. Len(nodes)] == ValueOf(nodes[i], value, c) IN value[e]

Table(e) == [c \in Total |-> Evaluate(e, c)]
-----------------------------------------------------------------------------
(* The new nodes for a copy, numbered from b + 1 on: a tree, though the    *)
(* original may share parts.                                               *)

(* The copies of the operands, and then the operator on them *)
Joined(n, left, right, b) ==
  LET l == b + Len(left)
  IN IF n.op = "not" THEN left \o <<[n EXCEPT !.left = l]>>
     ELSE left \o right \o <<[n EXCEPT !.left = l, !.right = l + Len(right)]>>

Inner(n) == n.op \in {"not", "and", "or"}

Copied(e, b) ==
  LET copy[i \in DOMAIN nodes] == [a \in Nat |->
        LET n == nodes[i] left == copy[n.left][a]
        IN IF Inner(n) THEN Joined(n, left, copy[n.right][a + Len(left)], a) ELSE <<n>>]
  IN copy[e][b]

(* Replace compares as many characters as the variable's own name has. *)
Hit(n, x) == n.op = "var" /\ <<n.name, x>> \in Begins

Replaced(e, x, s, b) ==
  LET copy[i \in DOMAIN nodes] == [a \in Nat |->
        LET n == nodes[i] left == copy[n.left][a]
        IN IF Inner(n) THEN Joined(n, left, copy[n.right][a + Len(left)], a)
           ELSE IF Hit(n, x) THEN Copied(s, a) ELSE <<n>>]
  IN copy[e][b]
-----------------------------------------------------------------------------
(* The constructors *)
Build(n) ==
  /\ Len(nodes) < MaxBuilt
  /\ nodes' = Append(nodes, n) /\ built' = built \cup {Len(nodes) + 1}
  /\ UNCHANGED meant

New ==
  \/ \E v \in BOOLEAN : Build([op |-> "const", value |-> v])
  \/ \E x \in Names : Build([op |-> "var", name |-> x])
  \/ \E e \in DOMAIN nodes : Build([op |-> "not", left |-> e])
  \/ \E e, f \in DOMAIN nodes, op \in {"and", "or"} :
       Build([op |-> op, left |-> e, right |-> f])

(* A constant is assigned to, as the tests do. *)
Assign(e, v) ==
  /\ e \in built /\ nodes[e].op = "const" /\ nodes[e].value # v
  /\ nodes' = [nodes EXCEPT ![e].value = v] /\ UNCHANGED <<built, meant>>

Add(new, table) ==
  /\ Len(nodes) + Len(new) <= MaxNodes
  /\ nodes' = nodes \o new
  /\ meant' = meant \cup {[root |-> Len(nodes) + Len(new), table |-> table]}
  /\ UNCHANGED built

Copy(e) == Add(Copied(e, Len(nodes)), Table(e))

(* A variable that replaces a name has the value of the expression put in, *)
(* and so have those whose names begin that name.                          *)
Replace(e, x, s) ==
  Add(Replaced(e, x, s, Len(nodes)),
      [c \in Total |->
         LET new == Evaluate(s, c) = "yes"
         IN Evaluate(e, [y \in Names |-> IF <<y, x>> \in Begins THEN new ELSE c[y]])])

Next ==
  \/ New
  \/ \E e \in DOMAIN nodes : (\E v \in BOOLEAN : Assign(e, v)) \/ Copy(e)
  \/ \E e, s \in DOMAIN nodes, x \in Names : Replace(e, x, s)

Spec == Init /\ [][Next]_expvars
-----------------------------------------------------------------------------
TypeOK ==
  /\ Len(nodes) <= MaxNodes /\ built \subseteq DOMAIN nodes
  /\ \A i \in DOMAIN nodes :
       /\ nodes[i].op \in {"const", "var", "not", "and", "or"}
       /\ nodes[i].op \in {"not", "and", "or"} => nodes[i].left \in 1 .. i - 1
       /\ nodes[i].op \in {"and", "or"}        => nodes[i].right \in 1 .. i - 1
  /\ \A m \in meant : m.root \in DOMAIN nodes

(* A copy means for ever what its original meant when it was made, and one *)
(* with a replacement what the original means in a context changed that    *)
(* way, whatever is assigned to the constants of the originals later.      *)
CopiesKeepMeaning == \A m \in meant : Table(m.root) = m.table

(* Evaluate throws only for a name that the context lacks; and what it     *)
(* returns without throwing is so whatever the names it lacks would be,    *)
(* but for the empty context, in which they are false.                     *)
Extends(d, c) == \A x \in DOMAIN c : d[x] = c[x]
RightInPart ==
  \A e \in DOMAIN nodes : \A c \in Contexts :
    /\ c \in Total \/ DOMAIN c = {} => Evaluate(e, c) # "throws"
    /\ DOMAIN c = {} => Evaluate(e, c) = Evaluate(e, [x \in Names |-> FALSE])
    /\ DOMAIN c # {} /\ Evaluate(e, c) # "throws" =>
         \A d \in Total : Extends(d, c) => Evaluate(e, d) = Evaluate(e, c)
=============================================================================
