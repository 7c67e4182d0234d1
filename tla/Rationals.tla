----------------------------- MODULE Rationals -----------------------------
(***************************************************************************)
(* The numbers of the calculator.  The code computes with doubles; here a  *)
(* number is an exact fraction <<n, d>>, reduced, d > 0, with n and d at   *)
(* most Big.  Other stands for every double this leaves out: infinities,   *)
(* NaN, roots and transcendental values, and what grows past Big.  What    *)
(* the modules that use this state is therefore about the algorithms, not  *)
(* about rounding.                                                         *)
(***************************************************************************)
EXTENDS Integers

Other == <<0, 0>>
Big == 20000

Magnitude(i) == IF i < 0 THEN -i ELSE i

RECURSIVE Gcd(_, _)
Gcd(a, b) == IF b = 0 THEN a ELSE Gcd(b, a % b)

Reduced(n, d, g) == <<(IF d < 0 THEN -n ELSE n) \div g, Magnitude(d) \div g>>
Capped(a) == IF Magnitude(a[1]) > Big \/ a[2] > Big THEN Other ELSE a
Fraction(n, d) ==
  IF d = 0 THEN Other ELSE Capped(Reduced(n, d, Gcd(Magnitude(n), Magnitude(d))))

Whole(i) == Fraction(i, 1)
Zero == <<0, 1>>
One == <<1, 1>>

IsWhole(a) == a[2] = 1
IsNegative(a) == a[1] < 0

Plus(a, b)  == Fraction(a[1] * b[2] + b[1] * a[2], a[2] * b[2])
Minus(a, b) == Fraction(a[1] * b[2] - b[1] * a[2], a[2] * b[2])
Times(a, b) == Fraction(a[1] * b[1], a[2] * b[2])
Over(a, b)  == IF b[2] = 0 THEN Other ELSE Fraction(a[1] * b[2], a[2] * b[1])
Negated(a)  == Fraction(-a[1], a[2])

(* For two numbers that are not Other.                                     *)
Less(a, b) == a[1] * b[2] < b[1] * a[2]
Least(a, b) == IF Less(b, a) THEN b ELSE a
Greatest(a, b) == IF Less(a, b) THEN b ELSE a

(* The remainder has the sign of the dividend, as in JavaScript.           *)
Remainder(a, b) ==
  IF a = Other \/ b = Other \/ b = Zero THEN Other
  ELSE LET q == (Magnitude(a[1]) * b[2]) \div (a[2] * Magnitude(b[1]))
           r == Minus(Fraction(Magnitude(a[1]), a[2]),
                      Times(Whole(q), Fraction(Magnitude(b[1]), b[2])))
       IN  IF IsNegative(a) THEN Negated(r) ELSE r

RECURSIVE ToThe(_, _)
ToThe(a, k) ==
  IF k = 0 THEN One
  ELSE IF k < 0 THEN Over(One, ToThe(a, -k))
  ELSE IF a \in {Zero, One} THEN a
  ELSE IF k > 60 /\ a # <<-1, 1>> THEN Other
  ELSE LET half == ToThe(a, k \div 2)
           square == Times(half, half)
       IN  IF k % 2 = 0 THEN square ELSE Times(a, square)

=============================================================================
