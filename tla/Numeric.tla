------------------------------ MODULE Numeric ------------------------------
(***************************************************************************)
(* The numeric library of the calculator (shared/math) over exact          *)
(* fractions: matrices by LU decomposition, descriptive statistics, loans, *)
(* units, complex numbers, and the two bisections, which see a function    *)
(* only by its sign.                                                       *)
(*                                                                         *)
(* A matrix is a sequence of rows.  Functions throw on what the calculator *)
(* refuses; NoValue stands for that.                                       *)
(***************************************************************************)
EXTENDS Rationals, Sequences, SequencesExt

NoValue == <<>>
OneTo(n) == [i \in 1..n |-> i]
TotalOf(s) == FoldLeft(Plus, Zero, s)
ProductOf(s) == FoldLeft(Times, One, s)

-----------------------------------------------------------------------------
(* linear-algebra.ts.                                                      *)

Columns(m) == Len(m[1])
IsWellFormed(m) == m # <<>> /\ m[1] # <<>> /\ \A i \in DOMAIN m : Len(m[i]) = Columns(m)
IsSquare(m) == IsWellFormed(m) /\ Len(m) = Columns(m)
SameShape(a, b) == IsWellFormed(a) /\ IsWellFormed(b) /\ Len(a) = Len(b) /\ Columns(a) = Columns(b)

Entrywise(a, b, Op(_, _)) ==
  IF SameShape(a, b)
  THEN [i \in DOMAIN a |-> [j \in DOMAIN a[i] |-> Op(a[i][j], b[i][j])]] ELSE NoValue
AddMatrices(a, b) == Entrywise(a, b, Plus)
SubtractMatrices(a, b) == Entrywise(a, b, Minus)

Multiply(a, b) ==
  IF ~IsWellFormed(a) \/ ~IsWellFormed(b) \/ Columns(a) # Len(b) THEN NoValue
  ELSE [i \in DOMAIN a |-> [j \in 1..Columns(b) |->
          TotalOf([k \in DOMAIN b |-> Times(a[i][k], b[k][j])])]]

TransposeOf(m) ==
  IF IsWellFormed(m) THEN [j \in 1..Columns(m) |-> [i \in DOMAIN m |-> m[i][j]]] ELSE NoValue

(* The first row from k on whose entry in column k is largest.             *)
PivotRow(lu, k) ==
  LET extent(i) == <<Magnitude(lu[i][k][1]), lu[i][k][2]>>
  IN  CHOOSE p \in k..Len(lu) :
        /\ \A i \in k..Len(lu) : ~Less(extent(p), extent(i))
        /\ \A i \in k..(p - 1) : Less(extent(i), extent(p))

Swapped(s, i, j) == [s EXCEPT ![i] = s[j], ![j] = s[i]]

(* Below the pivot of row k: the factors in its column, the rest reduced.  *)
Eliminated(lu, k) ==
  [i \in DOMAIN lu |->
     IF i <= k THEN lu[i]
     ELSE LET factor == Over(lu[i][k], lu[k][k])
          IN  [j \in DOMAIN lu[i] |->
                 IF j < k THEN lu[i][j]
                 ELSE IF j = k THEN factor ELSE Minus(lu[i][j], Times(factor, lu[k][j]))]]

(* Mutant: an exchange of rows leaves the sign alone.                      *)
DecomposeLUUnsigned(m) ==
  LET step(acc, k) ==
        LET p == PivotRow(acc.lu, k)
        IN  IF acc.sign = 0 THEN acc
            ELSE IF acc.lu[p][k] = Zero THEN [acc EXCEPT !.sign = 0]
            ELSE [lu |-> Eliminated(Swapped(acc.lu, k, p), k),
                  perm |-> Swapped(acc.perm, k, p), sign |-> acc.sign]
  IN  FoldLeft(step, [lu |-> m, perm |-> OneTo(Len(m)), sign |-> 1], OneTo(Len(m)))

DecomposeLU(m) ==
  LET step(acc, k) ==
        LET p == PivotRow(acc.lu, k)
        IN  IF acc.sign = 0 THEN acc
            ELSE IF acc.lu[p][k] = Zero THEN [acc EXCEPT !.sign = 0]
            ELSE [lu |-> Eliminated(Swapped(acc.lu, k, p), k),
                  perm |-> Swapped(acc.perm, k, p),
                  sign |-> IF p = k THEN acc.sign ELSE -acc.sign]
  IN  FoldLeft(step, [lu |-> m, perm |-> OneTo(Len(m)), sign |-> 1], OneTo(Len(m)))

Determinant(m) ==
  IF ~IsSquare(m) THEN NoValue
  ELSE LET d == DecomposeLU(m)
       IN  IF d.sign = 0 THEN Zero
           ELSE Times(Whole(d.sign), ProductOf([i \in DOMAIN m |-> d.lu[i][i]]))

(* Forward with L, whose diagonal is 1, then backward with U.              *)
SolveLU(lu, perm, rhs) ==
  LET dot(row, x, range) == TotalOf([j \in DOMAIN row |->
                              IF j \in range THEN Times(row[j], x[j]) ELSE Zero])
      forward(b, i) == [b EXCEPT ![i] = Minus(@, dot(lu[i], b, 1..(i - 1)))]
      backward(b, i) ==
        [b EXCEPT ![i] = Over(Minus(@, dot(lu[i], b, (i + 1)..Len(lu))), lu[i][i])]
      y == FoldLeft(forward, [i \in DOMAIN perm |-> rhs[perm[i]]], OneTo(Len(lu)))
  IN  FoldLeft(backward, y, Reverse(OneTo(Len(lu))))

MatrixInverse(m) ==
  LET d == DecomposeLU(m)
      unit(c) == [i \in DOMAIN m |-> IF i = c THEN One ELSE Zero]
      columns == [c \in DOMAIN m |-> SolveLU(d.lu, d.perm, unit(c))]
  IN  IF ~IsSquare(m) THEN NoValue
      ELSE IF d.sign = 0 THEN NoValue
      ELSE [i \in DOMAIN m |-> [c \in DOMAIN m |-> columns[c][i]]]

SolveSystem(m, rhs) ==
  LET d == DecomposeLU(m)
  IN  IF ~IsSquare(m) \/ Len(rhs) # Len(m) THEN NoValue
      ELSE IF d.sign = 0 THEN NoValue ELSE SolveLU(d.lu, d.perm, rhs)

-----------------------------------------------------------------------------
(* statistics.ts, for data that is not empty.                              *)

Ascending(data) == SortSeq(data, Less)
MeanOf(data) == Over(TotalOf(data), Whole(Len(data)))

Median(data) ==
  LET sorted == Ascending(data)
      mid == Len(data) \div 2
  IN  IF Len(data) % 2 = 0 THEN Over(Plus(sorted[mid], sorted[mid + 1]), Whole(2))
      ELSE sorted[mid + 1]

CountOf(data, v) == Len(SelectSeq(data, LAMBDA x : x = v))
Modes(data) ==
  LET counts == {CountOf(data, v) : v \in ToSet(data)}
      most == CHOOSE c \in counts : \A d \in counts : d <= c
  IN  IF most = 1 THEN <<>>
      ELSE SetToSortSeq({v \in ToSet(data) : CountOf(data, v) = most}, Less)

SquaresAbout(data, m) == TotalOf([i \in DOMAIN data |-> ToThe(Minus(data[i], m), 2)])
Variance(data) ==
  IF Len(data) = 1 THEN NoValue
  ELSE Over(SquaresAbout(data, MeanOf(data)), Whole(Len(data) - 1))

Percentile(data, p) ==
  LET sorted == Ascending(data)
      rank == Fraction(p * (Len(data) - 1), 100)
      lower == rank[1] \div rank[2]
      frac == Minus(rank, Whole(lower))
  IN  IF p \notin 0..100 THEN NoValue
      ELSE IF frac = Zero THEN sorted[lower + 1]
      ELSE Plus(Times(sorted[lower + 1], Minus(One, frac)), Times(sorted[lower + 2], frac))

DescribeData(data) ==
  [count |-> Len(data), sum |-> TotalOf(data), mean |-> MeanOf(data), median |-> Median(data),
   modes |-> Modes(data),
   variance |-> IF Len(data) = 1 THEN Zero
                ELSE Over(SquaresAbout(data, MeanOf(data)), Whole(Len(data) - 1)),
   least |-> FoldLeft(Least, data[1], data), greatest |-> FoldLeft(Greatest, data[1], data),
   q1 |-> Percentile(data, 25), q3 |-> Percentile(data, 75)]

(* The correlation is computed last and refuses a constant y.              *)
LinearRegression(x, y) ==
  LET mx == MeanOf(x)
      my == MeanOf(y)
      num == TotalOf([i \in DOMAIN x |-> Times(Minus(x[i], mx), Minus(y[i], my))])
      den == SquaresAbout(x, mx)
      slope == Over(num, den)
  IN  IF Len(x) # Len(y) \/ Len(x) < 2 THEN NoValue
      ELSE IF den = Zero \/ SquaresAbout(y, my) = Zero THEN NoValue
      ELSE <<slope, Minus(my, Times(slope, mx))>>

-----------------------------------------------------------------------------
(* finance.ts.  The factor is (1 + rate)^periods.                          *)

Factor(rate, periods) == ToThe(Plus(One, rate), periods)

SimpleInterest(principal, rate, periods) == Times(Times(principal, rate), Whole(periods))
CompoundInterest(principal, rate, periods) == Times(principal, Factor(rate, periods))

FutureValue(rate, periods, pmt, present) ==
  IF rate = Zero THEN Minus(Negated(present), Times(pmt, Whole(periods)))
  ELSE LET factor == Factor(rate, periods)
       IN  Minus(Negated(Times(present, factor)), Over(Times(pmt, Minus(factor, One)), rate))

PresentValue(rate, periods, pmt, future) ==
  IF rate = Zero THEN Minus(Negated(future), Times(pmt, Whole(periods)))
  ELSE LET factor == Factor(rate, -periods)
       IN  Minus(Negated(Times(future, factor)), Over(Times(pmt, Minus(One, factor)), rate))

Payment(rate, periods, present, future) ==
  IF periods <= 0 THEN NoValue
  ELSE IF rate = Zero THEN Over(Negated(Plus(present, future)), Whole(periods))
  ELSE LET factor == Factor(rate, periods)
       IN  Over(Times(Negated(Plus(Times(present, factor), future)), rate), Minus(factor, One))

(* The balance after each period, before the last one is set to 0.         *)
Balances(principal, rate, periods) ==
  LET pmt == Negated(Payment(rate, periods, principal, Zero))
      last(bs) == IF bs = <<>> THEN principal ELSE bs[Len(bs)]
      pay(bs, i) == Append(bs, Minus(last(bs), Minus(pmt, Times(last(bs), rate))))
  IN  FoldLeft(pay, <<>>, OneTo(periods))

(* The rate where the discounted flows cancel, Sigma cf_i / (1 + rate)^i.  *)
NetPresentValue(rate, flows) ==
  IF flows = <<>> \/ ~Less(<<-1, 1>>, rate) THEN NoValue
  ELSE TotalOf([i \in DOMAIN flows |-> Over(flows[i], Factor(rate, i - 1))])

-----------------------------------------------------------------------------
(* units.ts: units of length, mass and temperature whose factor is a small *)
(* fraction; canonical = value * factor + offset.                          *)

Units ==
  LET unit(category, factor, offset) == [category |-> category, factor |-> factor, offset |-> offset]
      length(factor) == unit("length", factor, Zero)
      mass(factor) == unit("mass", factor, Zero)
  IN  [meter |-> length(One), kilometer |-> length(Whole(1000)), centimeter |-> length(Fraction(1, 100)),
       inch |-> length(Fraction(254, 10000)), nautical_mile |-> length(Whole(1852)),
       kilogram |-> mass(One), gram |-> mass(Fraction(1, 1000)), tonne |-> mass(Whole(1000)),
       kelvin |-> unit("temperature", One, Zero),
       celsius |-> unit("temperature", One, Fraction(27315, 100)),
       rankine |-> unit("temperature", Fraction(5, 9), Zero)]

ConvertUnit(value, from, to) ==
  IF {from, to} \ DOMAIN Units # {} THEN NoValue
  ELSE IF Units[from].category # Units[to].category THEN NoValue
  ELSE LET canonical == Plus(Times(value, Units[from].factor), Units[from].offset)
       IN  Over(Minus(canonical, Units[to].offset), Units[to].factor)

-----------------------------------------------------------------------------
(* complex.ts; a complex number is a pair of fractions.                    *)

ComplexConjugate(a) == <<a[1], Negated(a[2])>>
ComplexSum(a, b) == <<Plus(a[1], b[1]), Plus(a[2], b[2])>>
ComplexDifference(a, b) == <<Minus(a[1], b[1]), Minus(a[2], b[2])>>
ComplexProduct(a, b) ==
  <<Minus(Times(a[1], b[1]), Times(a[2], b[2])), Plus(Times(a[1], b[2]), Times(a[2], b[1]))>>
ComplexQuotient(a, b) ==
  LET denom == Plus(Times(b[1], b[1]), Times(b[2], b[2]))
  IN  <<Over(Plus(Times(a[1], b[1]), Times(a[2], b[2])), denom),
        Over(Minus(Times(a[2], b[1]), Times(a[1], b[2])), denom)>>

(* Whole powers by repeated squaring.                                      *)
RECURSIVE PowScalar(_, _, _)
PowScalar(result, base, k) ==
  LET next == IF k % 2 = 1 THEN ComplexProduct(result, base) ELSE result
  IN  IF k = 0 THEN result
      ELSE PowScalar(next, IF k > 1 THEN ComplexProduct(base, base) ELSE base, k \div 2)

-----------------------------------------------------------------------------
(* solver.ts: the roots of a polynomial, highest coefficient first.  Roots *)
(* of degree 3 to 8 (Durand-Kerner) are Other.                             *)

SquareRoot(a) ==
  LET roots == {n \in 0..50 : \E d \in 1..20 : Times(Fraction(n, d), Fraction(n, d)) = a}
      n == CHOOSE r \in roots : TRUE
      d == CHOOSE e \in 1..20 : Times(Fraction(n, e), Fraction(n, e)) = a
  IN  IF roots = {} THEN Other ELSE Fraction(n, d)

SolveLinear(a, b) == <<Over(Negated(b), a)>>

SolveQuadratic(a, b, c) ==
  LET disc == Minus(ToThe(b, 2), Times(Whole(4), Times(a, c)))
      root(s) == Over(s, Times(Whole(2), a))
      r1 == root(Plus(Negated(b), SquareRoot(disc)))
      r2 == root(Minus(Negated(b), SquareRoot(disc)))
  IN  IF IsNegative(disc) THEN <<>>
      ELSE IF SquareRoot(disc) = Other THEN <<Other, Other>>
      ELSE <<Least(r1, r2), Greatest(r2, r1)>>

(* A record, so that no roots are not a refusal.                           *)
SolvePolynomial(coefficients) ==
  LET first == SelectInSeq(coefficients, LAMBDA v : v # Zero)
      c == IF first = 0 THEN <<Zero>> ELSE SubSeq(coefficients, first, Len(coefficients))
  IN  IF Len(c) \notin 2..9 THEN NoValue
      ELSE [roots |-> CASE Len(c) = 2 -> SolveLinear(c[1], c[2])
                        [] Len(c) = 3 -> SolveQuadratic(c[1], c[2], c[3])
                        [] OTHER -> [i \in 1..(Len(c) - 1) |-> Other]]

-----------------------------------------------------------------------------
(* calculus.ts, of a polynomial with those coefficients.  The tolerance is *)
(* 1/16 where the code has 1e-9, so that intervals are halved only a few   *)
(* times; the first step of a derivative is 1.                             *)

Horner(c, x) == FoldLeft(LAMBDA acc, v : Plus(Times(acc, x), v), Zero, c)
Tolerance == Fraction(1, 16)
AdaptDepthLimit == 24
Abs(a) == IF IsNegative(a) THEN Negated(a) ELSE a
Half(a) == Over(a, Whole(2))

Sample5(c, x, h) ==
  LET f(k) == Horner(c, Plus(x, Times(Whole(k), h)))
  IN  Over(Plus(Minus(f(-2), f(2)), Times(Whole(8), Minus(f(1), f(-1)))), Times(Whole(12), h))

RECURSIVE Refine(_, _, _, _, _)
Refine(c, x, h, previous, left) ==
  LET current == Sample5(c, x, Half(h))
  IN  IF left = 0 \/ previous = Other THEN previous
      ELSE IF Less(Abs(Minus(current, previous)), Times(Tolerance, Greatest(One, Abs(current))))
           THEN current
      ELSE Refine(c, x, Half(h), current, left - 1)
DerivativeAt(c, x) == Refine(c, x, One, Sample5(c, x, One), 12)

Simpson(fa, fc, fb, width) ==
  Times(Over(width, Whole(6)), Plus(fa, Plus(Times(Whole(4), fc), fb)))

RECURSIVE Adapt(_, _, _, _, _, _)
Adapt(c, lo, hi, whole, tolerance, depth) ==
  LET mid == Half(Plus(lo, hi))
      f(x) == Horner(c, x)
      half(l, r) == Simpson(f(l), f(Half(Plus(l, r))), f(r), Minus(r, l))
      left == half(lo, mid)
      right == half(mid, hi)
      both == Plus(left, right)
      correction == Over(Minus(both, whole), Whole(15))
  IN  IF correction = Other THEN Other
      ELSE IF depth >= AdaptDepthLimit \/ Less(Abs(correction), tolerance) THEN Plus(both, correction)
      ELSE Plus(Adapt(c, lo, mid, left, Half(tolerance), depth + 1),
                Adapt(c, mid, hi, right, Half(tolerance), depth + 1))

IntegralOver(c, a, b) ==
  LET lo == Least(a, b)
      hi == Greatest(a, b)
      f(x) == Horner(c, x)
      whole == Simpson(f(lo), f(Half(Plus(lo, hi))), f(hi), Minus(hi, lo))
      value == Adapt(c, lo, hi, whole, Tolerance, 0)
  IN  IF a = b THEN Zero ELSE IF Less(a, b) THEN value ELSE Negated(value)

-----------------------------------------------------------------------------
(* Bisection of a function given by its signs f on 0..n, where the points  *)
(* are as close as the tolerance.  A result is the interval that is left;  *)
(* a point, for a root that is met.                                        *)

RECURSIVE Bisect(_, _, _, _)
Bisect(f, lo, hi, fLo) ==
  LET mid == (lo + hi) \div 2
  IN  IF hi - lo <= 1 THEN <<lo, hi>>
      ELSE IF f[mid] = 0 THEN <<mid, mid>>
      ELSE IF fLo * f[mid] < 0 THEN Bisect(f, lo, mid, fLo)
      ELSE Bisect(f, mid, hi, f[mid])

SolveBisection(f, lo, hi) ==
  IF f[lo] = 0 THEN <<lo, lo>>
  ELSE IF f[hi] = 0 THEN <<hi, hi>>
  ELSE IF f[lo] * f[hi] > 0 THEN NoValue
  ELSE Bisect(f, lo, hi, f[lo])

(* irr: the bracket grows around the guess, cut off at the rate -1, which  *)
(* is the point 0 here, until the product of the signs is not positive.    *)
Spans == <<1, 4, 8>>
Ends(f, guess, w) ==
  LET n == Cardinality(DOMAIN f) - 1
  IN  <<IF guess < w THEN 0 ELSE guess - w, IF guess + w > n THEN n ELSE guess + w>>

IrrBracket(f, guess) ==
  LET found == SelectInSeq(Spans, LAMBDA w : LET e == Ends(f, guess, w) IN f[e[1]] * f[e[2]] <= 0)
      e == Ends(f, guess, Spans[found])
  IN  IF found = 0 THEN NoValue ELSE Bisect(f, e[1], e[2], f[e[1]])

-----------------------------------------------------------------------------
(* What the algorithms are for, without them.                              *)

Inversions(p) == {ij \in (DOMAIN p) \X (DOMAIN p) : ij[1] < ij[2] /\ p[ij[1]] > p[ij[2]]}

(* Leibniz: the sum over the permutations.                                 *)
Leibniz(m) ==
  LET sign(p) == Whole(IF Cardinality(Inversions(p)) % 2 = 0 THEN 1 ELSE -1)
      term(p) == Times(sign(p), ProductOf([i \in DOMAIN m |-> m[i][p[i]]]))
  IN  FoldSet(LAMBDA p, acc : Plus(acc, term(p)), Zero, Bijection(DOMAIN m, DOMAIN m))

Identity(n) == [i \in 1..n |-> [j \in 1..n |-> IF i = j THEN One ELSE Zero]]

(* The derivative and the integral of a polynomial, by its powers.         *)
Derived(c) ==
  [i \in 1..(Len(c) - 1) |-> Times(c[i], Whole(Len(c) - i))]
Integrated(c) ==
  [i \in 1..(Len(c) + 1) |-> IF i > Len(c) THEN Zero ELSE Over(c[i], Whole(Len(c) + 1 - i))]

(* v is the k-th smallest of the data.                                     *)
IsKth(data, k, v) ==
  /\ \E i \in DOMAIN data : data[i] = v
  /\ Len(SelectSeq(data, LAMBDA x : Less(x, v))) < k
  /\ Len(SelectSeq(data, LAMBDA x : ~Less(v, x))) >= k

(* A sign change, or a zero, within the interval.                          *)
HoldsRoot(f, interval) ==
  \/ f[interval[1]] * f[interval[2]] < 0
  \/ \E x \in interval[1]..interval[2] : f[x] = 0

=============================================================================
