------------------------------ MODULE Fraction ------------------------------
(***************************************************************************)
(* Fraction.cpp: two fractions of the user, and the operations that change *)
(* the first one in place.  The operand is passed by reference and may be  *)
(* the fraction itself.  Numbers stay small: no product overflows an int.  *)
(***************************************************************************)
EXTENDS Integers

CONSTANTS
  Numbers,    \* the arguments of set
  Most        \* bound on the numbers an operation is tried on

FractionAssumption == Numbers \subseteq Int /\ Most \in Nat

VARIABLES
  self, arg,   \* <<nominator_, denominator_>> of the two
  exact,       \* history: the value that self should have
  slip         \* history: what self was divided by once more than it should

fracvars == <<self, arg, exact, slip>>

Abs(n) == IF n < 0 THEN -n ELSE n

(* a % b in C has the sign of a. *)
Rem(a, b) == IF a < 0 THEN -(Abs(a) % Abs(b)) ELSE Abs(a) % Abs(b)

(* simplify returns before it divides by zero. *)
Divisible == Int \X (Int \ {0})

(* The two steps of the loop of gcd are one with the arguments exchanged. *)
gcd[p \in Divisible] ==
  IF Rem(p[1], p[2]) = 0 THEN p[2] ELSE gcd[<<p[2], Rem(p[1], p[2])>>]

(* a / b for a b that divides a *)
Quot(a, b) == IF (a < 0) = (b < 0) THEN Abs(a) \div Abs(b) ELSE -(Abs(a) \div Abs(b))

(* The loop runs until the divisor that gcd finds is 1, which may be -1 at *)
(* first.                                                                  *)
reduce[p \in Divisible] ==
  LET g == gcd[p] IN IF g = 1 THEN p ELSE reduce[<<Quot(p[1], g), Quot(p[2], g)>>]

simplify(n, d) == IF n \in {0, 1} \/ d \in {0, 1} THEN <<n, d>> ELSE reduce[<<n, d>>]

Init == \E n, d \in Numbers : self = simplify(n, d) /\ arg = self /\ exact = self /\ slip = 1
-----------------------------------------------------------------------------
Small == \A k \in {1, 2} : Abs(self[k]) <= Most

(* set, and the constructor, of either *)
Set ==
  \E n, d \in Numbers :
    \/ self' = simplify(n, d) /\ exact' = <<n, d>> /\ slip' = 1 /\ UNCHANGED arg
    \/ arg' = simplify(n, d) /\ UNCHANGED <<self, exact, slip>>

(* Mutant of add: the denominator is multiplied first, and the product     *)
(* goes into the numerator.                                                *)
addLate(o) ==
  /\ Small /\ self' = simplify(self[1] * o[2] + self[2] * o[2] * o[1], self[2] * o[2])
  /\ exact' = <<self[1] * o[2] + self[2] * o[1], self[2] * o[2]>>
  /\ slip' = 1 /\ UNCHANGED arg

(* The operand is arg, or self: then it is read while it changes. *)
add(o) ==
  /\ Small /\ self' = simplify(self[1] * o[2] + self[2] * o[1], self[2] * o[2])
  /\ exact' = <<self[1] * o[2] + self[2] * o[1], self[2] * o[2]>>
  /\ slip' = 1 /\ UNCHANGED arg

substract(o) ==
  /\ Small /\ self' = simplify(self[1] * o[2] - self[2] * o[1], self[2] * o[2])
  /\ exact' = <<self[1] * o[2] - self[2] * o[1], self[2] * o[2]>>
  /\ slip' = 1 /\ UNCHANGED arg

multiply(o) ==
  /\ Small /\ self' = simplify(self[1] * o[1], self[2] * o[2])
  /\ exact' = <<self[1] * o[1], self[2] * o[2]>> /\ slip' = 1 /\ UNCHANGED arg

divide ==
  /\ Small /\ self' = simplify(self[1] * arg[2], self[2] * arg[1])
  /\ exact' = <<self[1] * arg[2], self[2] * arg[1]>> /\ slip' = 1 /\ UNCHANGED arg

(* nominator_ has been assigned when denominator_ is multiplied by it: a   *)
(* fraction divided by itself should be 1, and is divided by its own       *)
(* denominator as well.                                                    *)
divideBySelf ==
  /\ Small /\ self' = simplify(self[1] * self[2], self[2] * (self[1] * self[2]))
  /\ exact' = <<self[1] * self[2], self[2] * self[1]>> /\ slip' = self[2] /\ UNCHANGED arg

Next ==
  \/ Set \/ divide \/ divideBySelf
  \/ \E o \in {self, arg} : add(o) \/ substract(o) \/ multiply(o)

Spec == Init /\ [][Next]_fracvars
-----------------------------------------------------------------------------
TypeOK == {self, arg, exact} \subseteq Int \X Int /\ slip \in Int

Same(f, g) == f[1] * g[2] = g[1] * f[2]
Proper(f)  == f[2] # 0

(* However often signs are exchanged, the result of an operation has the   *)
(* value that it should, but for a fraction divided by itself.             *)
ValueKept ==
  Proper(exact) /\ slip = 1 => Proper(self) /\ Same(self, exact)

(* The exception: a fraction divided by itself, which has no zero in it,   *)
(* is one over its denominator.                                            *)
OverDenominator ==
  Proper(exact) /\ slip # 1 => Proper(self) /\ Same(self, <<1, slip>>)

(* No common divisor is left but for a zero. *)
Reduced ==
  \A f \in {self, arg} :
    f[1] # 0 /\ f[2] # 0 => \A k \in 2 .. Abs(f[2]) : ~(f[1] % k = 0 /\ f[2] % k = 0)
=============================================================================
