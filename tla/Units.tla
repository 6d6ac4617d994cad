-------------------------------- MODULE Units --------------------------------
(***************************************************************************)
(* units.py: a decimal amount becomes a wire integer if it is an exact     *)
(* multiple of its tick, or is refused.  A decimal is its coefficient and  *)
(* its exponent, and arithmetic on it rounds half-even to the digits of    *)
(* the decimal context.                                                    *)
(***************************************************************************)
EXTENDS Integers

CONSTANT ContextDigits \* precision of the decimal context (28 by default)

ASSUME DigitsAssumption == ContextDigits \in Nat \ {0}

(* The four scales, as powers of ten.                                      *)
ScaleOf ==
  [price |-> 2, quantity |-> 3, cash |-> 2, pnl |-> 5]
Amount(kind, coef, exp) == [kind |-> kind, coef |-> coef, exp |-> exp]

Abs(n) == IF n < 0 THEN -n ELSE n
DigitCount(n) == CHOOSE d \in 1 .. 10 :
  /\ d = 10 \/ Abs(n) < 10 ^ d
  /\ d = 1 \/ Abs(n) >= 10 ^ (d - 1)

(* n without its last d digits, rounded half-even.                         *)
DropDigits(n, d) ==
  LET q == Abs(n) \div 10 ^ d
      rest == 2 * (Abs(n) % 10 ^ d)
      up == rest > 10 ^ d \/ (rest = 10 ^ d /\ q % 2 = 1)
      r == IF d > 0 /\ up THEN q + 1 ELSE q
  IN IF n < 0 THEN -r ELSE r

(* The product with a power of ten, as the decimal context leaves it.      *)
Scaled(a, s) ==
  LET c == a.coef * 10 ^ s
      lost == IF DigitCount(c) > ContextDigits
              THEN DigitCount(c) - ContextDigits ELSE 0
  IN [coef |-> DropDigits(c, lost), exp |-> a.exp + lost]

IsInteger(d) == d.exp >= 0 \/ d.coef % 10 ^ (-d.exp) = 0
AsInteger(d) ==
  IF d.exp >= 0 THEN d.coef * 10 ^ d.exp ELSE d.coef \div 10 ^ (-d.exp)

(* _to_decimal refuses what is no number; a float counts by its repr.      *)
Numbers == {"Decimal", "int", "float", "str"}

(* Mutant: the tick is not checked.                                        *)
ScaleFaultRounding(field, a) ==
  IF a.kind \notin Numbers \cup {"not_finite"} THEN "not_a_number"
  ELSE IF a.kind = "not_finite" THEN "not_finite"
  ELSE IF field = "quantity" /\ a.coef < 0 THEN "negative_size"
  ELSE "none"

(* _scale_exact, and the sign of a size.                                   *)
ScaleFault(field, a) ==
  LET scaled == Scaled(a, ScaleOf[field]) IN
  IF a.kind \notin Numbers \cup {"not_finite"} THEN "not_a_number"
  ELSE IF a.kind = "not_finite" THEN "not_finite"
  ELSE IF ~IsInteger(scaled) THEN "tick"
  ELSE IF field = "quantity" /\ AsInteger(scaled) < 0 THEN "negative_size"
  ELSE "none"

ToWire(field, a) == AsInteger(Scaled(a, ScaleOf[field]))

(* The way back: a wire integer divided by its scale.                      *)
FromWire(field, n) == Amount("Decimal", n, -ScaleOf[field])

-----------------------------------------------------------------------------
(* Reference: the amount is coef * 10^exp, with exp <= 0.                  *)

IsExact(field, a, n) == n * 10 ^ (-a.exp) = a.coef * 10 ^ ScaleOf[field]
HasTick(field, a) == (a.coef * 10 ^ ScaleOf[field]) % 10 ^ (-a.exp) = 0
WithinContext(a) == DigitCount(a.coef) <= ContextDigits
=============================================================================
