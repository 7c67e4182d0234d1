----------------------------- MODULE Calculator -----------------------------
(***************************************************************************)
(* The calculator tool (tools/calculator.ts): what each mode makes of its  *)
(* arguments, and what must be true of it.  An input is a record with its  *)
(* mode; the fields a mode requires are there.  A result is the value, an  *)
(* error for the caller, or a fault (module Expression).                   *)
(*                                                                         *)
(* Left out: what is approximate (Newton's method, roots of degree 3 and   *)
(* more, the calculus of what is no polynomial) and the distributions.     *)
(***************************************************************************)
EXTENDS Expression, Numeric

OrError(v) == IF v = NoValue THEN Error ELSE Result(v)

-----------------------------------------------------------------------------
(* evaluate.                                                               *)

(* buildEvalEnv, behind the parser: names that are bound, or called.       *)
EnvironmentFits(node, variables) ==
  /\ DOMAIN variables \intersect ReservedNames = {}
  /\ \A name \in CollectIdentifiers(node) :
       name \in DOMAIN variables \union ConstantNames \/ IsFunctionCallName(node, name)

EvaluateParsed(parsed, variables) ==
  IF parsed.ok /\ EnvironmentFits(parsed.node, variables)
  THEN Evaluate(parsed.node, variables) ELSE Error

RunEvaluate(input) == EvaluateParsed(Parse(input.source), input.variables)

(* solve with operation polynomial: the coefficients, which the solver     *)
(* takes from degree 1 to 8.                                               *)
SplitEquation(s) ==
  LET equals == SelectInSeq(s, LAMBDA c : c = "=")
  IN  IF equals = 0 THEN <<s, <<"0">>>>
      ELSE <<SubSeq(s, 1, equals - 1), SubSeq(s, equals + 1, Len(s))>>

SolveCoefficients(coefficients) ==
  IF Len(coefficients) \in 2..9 THEN Result(coefficients) ELSE Error

SolveParsed(parsed, variable) ==
  IF parsed[1].ok /\ parsed[2].ok /\ variable \notin ReservedNames
  THEN SolveCoefficients(TryExtractPolynomial(parsed[1].node, parsed[2].node, variable))
  ELSE Error

ParsedSides(input) == [i \in 1..2 |-> Parse(SplitEquation(input.equation)[i])]
RunSolve(input) == SolveParsed(ParsedSides(input), input.variable)

(* solve and calculus of a polynomial that is given by its coefficients.   *)
RunCalculus(input) ==
  CASE input.operation = "derivative" -> Result(DerivativeAt(input.coefficients, input.at))
    [] input.operation = "integral" -> Result(IntegralOver(input.coefficients, input.at, input.to))

-----------------------------------------------------------------------------
(* matrix, statistics, finance, convert, complex: the functions of module  *)
(* Numeric, by their operations.                                           *)

RunMatrix(input) ==
  LET a == input.a
      b == input.b
  IN  CASE input.operation = "add" -> OrError(AddMatrices(a, b))
        [] input.operation = "subtract" -> OrError(SubtractMatrices(a, b))
        [] input.operation = "multiply" -> OrError(Multiply(a, b))
        [] input.operation = "transpose" -> OrError(TransposeOf(a))
        [] input.operation = "determinant" -> OrError(Determinant(a))
        [] input.operation = "inverse" -> OrError(MatrixInverse(a))
        [] input.operation = "solve" -> OrError(SolveSystem(a, b[1]))

RunStatistics(input) ==
  LET data == input.data
  IN  CASE input.operation = "describe" -> OrError(DescribeData(data))
        [] input.operation = "variance" -> OrError(Variance(data))
        [] input.operation = "percentile" -> OrError(Percentile(data, input.p))
        [] input.operation = "regression" -> OrError(LinearRegression(data, input.y))

RunFinance(input) ==
  LET n == input.periods
      r == input.rate
      amount == input.amount
  IN  CASE input.operation = "simple-interest" -> OrError(SimpleInterest(amount, r, n))
        [] input.operation = "compound-interest" -> OrError(CompoundInterest(amount, r, n))
        [] input.operation = "future-value" -> OrError(FutureValue(r, n, input.paid, amount))
        [] input.operation = "present-value" -> OrError(PresentValue(r, n, input.paid, amount))
        [] input.operation = "pmt" -> OrError(Payment(r, n, amount, input.paid))
        [] input.operation = "amortize" -> OrError(Balances(amount, r, n))
        [] input.operation = "npv" -> OrError(NetPresentValue(r, [i \in 1..n |-> amount]))

RunComplex(input) ==
  CASE input.operation = "add" -> Result(ComplexSum(input.z, input.w))
    [] input.operation = "subtract" -> Result(ComplexDifference(input.z, input.w))
    [] input.operation = "multiply" -> Result(ComplexProduct(input.z, input.w))
    [] input.operation = "divide" -> Result(ComplexQuotient(input.z, input.w))
    [] input.operation = "conjugate" -> Result(ComplexConjugate(input.z))
    [] input.operation = "pow" -> Result(PowScalar(<<One, Zero>>, input.z, input.scalar))

Calculate(input) ==
  CASE input.mode = "evaluate"   -> RunEvaluate(input)
    [] input.mode = "solve"      -> RunSolve(input)
    [] input.mode = "roots"      -> OrError(SolvePolynomial(input.coefficients))
    [] input.mode = "calculus"   -> RunCalculus(input)
    [] input.mode = "bisection"  -> OrError(SolveBisection(input.signs, input.from, input.to))
    [] input.mode = "irr"        -> OrError(IrrBracket(input.signs, input.guess))
    [] input.mode = "matrix"     -> RunMatrix(input)
    [] input.mode = "statistics" -> RunStatistics(input)
    [] input.mode = "finance"    -> RunFinance(input)
    [] input.mode = "convert"    -> OrError(ConvertUnit(input.value, input.from, input.to))
    [] input.mode = "complex"    -> RunComplex(input)

-----------------------------------------------------------------------------
(* What must be true of a source.                                          *)

(* Every token is of its kind, is as long as it can be, and only spaces    *)
(* are between tokens; a source without tokens has a character none        *)
(* begins with, or an exponent without digits.                             *)
LexesTheTokens(s) ==
  LET lexed == Tokenize(s)
      from(k) == IF k = 0 THEN 1 ELSE lexed.tokens[k].next
      until(k) == IF k = Len(lexed.tokens) THEN Len(s) + 1 ELSE lexed.tokens[k + 1].first
  IN  IF lexed.ok
      THEN /\ \A k \in DOMAIN lexed.tokens :
                LET t == lexed.tokens[k]
                IN  /\ IsToken(t.kind, Text(s, t))
                    /\ \A n \in t.next..Len(s) : ~AnyToken(SubSeq(s, t.first, n))
           /\ \A k \in 0..Len(lexed.tokens) : \A i \in from(k)..(until(k) - 1) : s[i] \in Space
      ELSE \/ Len(s) > MaxLength \/ Len(s) > MaxTokens
           \/ \E i \in DOMAIN s :
                \/ s[i] \notin Space /\ \A n \in i..Len(s) : ~AnyToken(SubSeq(s, i, n))
                \/ \E n \in i..(Len(s) - 1) :
                     /\ IsNumber(SubSeq(s, i, n)) /\ s[n + 1] \in Exponent
                     /\ \A m \in (n + 1)..Len(s) : ~IsNumber(SubSeq(s, i, m))

(* The parser accepts what the grammar has a tree for that is not nested   *)
(* too deep, and its node is that tree: there is one.                      *)
IsTheTree(parsed, trees) ==
  /\ parsed.ok <=> \E t \in trees : t[2] <= MaxDepth
  /\ \A t \in trees : t[2] <= MaxDepth => parsed.node = t[1]
  /\ Cardinality({t[1] : t \in trees}) <= 1
ParsesTheGrammar(s) ==
  \A lexed \in {Tokenize(s)} : lexed.ok =>
    IsTheTree(ParseTokens(s, lexed.tokens), Expressions(s, lexed.tokens, 1, Len(lexed.tokens)))

(* At every point the coefficients have the value of the two sides'        *)
(* difference.                                                             *)
IsDifference(value, l, r) ==
  /\ l.kind = "value" /\ r.kind = "value"
  /\ Other \notin {l.v, r.v, value} => value = Minus(l.v, r.v)
AgreesWithEvaluation(input) ==
  \A parsed \in {ParsedSides(input)} :
    \A solved \in {SolveParsed(parsed, input.variable)} :
      solved.kind = "value" =>
        \A x \in {Whole(-1), Zero, Whole(2)} :
          IsDifference(Horner(solved.v, x), Evaluate(parsed[1].node, input.variable :> x),
                       Evaluate(parsed[2].node, input.variable :> x))

-----------------------------------------------------------------------------
(* What must be true of numbers.                                           *)

Clean(m) == \A i \in DOMAIN m : \A j \in DOMAIN m[i] : m[i][j] # Other

(* The decomposition computes the determinant of the definition, and an    *)
(* inverse or a solution just when there is one.                           *)
MatrixExact(input) ==
  LET a == input.a
      inverse == MatrixInverse(a)
      x == SolveSystem(a, input.b[1])
      column(v) == [i \in DOMAIN v |-> <<v[i]>>]
  IN  IsSquare(a) =>
        /\ Determinant(a) = Leibniz(a)
        /\ inverse = NoValue <=> Leibniz(a) = Zero
        /\ inverse # NoValue /\ Clean(inverse) => Multiply(a, inverse) = Identity(Len(a))
        /\ Len(input.b[1]) = Len(a) /\ x # NoValue /\ Clean(<<x>>) =>
             Multiply(a, column(x)) = column(input.b[1])

(* Median and quartiles are between the order statistics around them, a    *)
(* regression leaves residuals without a mean and without a slope.         *)
StatisticsExact(input) ==
  LET data == input.data
      n == Len(data)
      rank(p) == p * (n - 1)
      below(p) == CHOOSE v \in ToSet(data) : IsKth(data, rank(p) \div 100 + 1, v)
      above(p) == CHOOSE v \in ToSet(data) : IsKth(data, (rank(p) + 99) \div 100 + 1, v)
      line == LinearRegression(data, input.y)
      residual == [i \in DOMAIN data |->
                     Minus(input.y[i], Plus(line[2], Times(line[1], data[i])))]
  IN  /\ \A p \in {0, 25, 50, 75, 90, 100} :
           /\ ~Less(Percentile(data, p), below(p)) /\ ~Less(above(p), Percentile(data, p))
           /\ Times(Minus(Percentile(data, p), below(p)), Whole(100)) =
                Times(Minus(above(p), below(p)), Whole(rank(p) % 100))
      /\ Median(data) = Percentile(data, 50)
      /\ line # NoValue =>
           /\ TotalOf(residual) = Zero
           /\ TotalOf([i \in DOMAIN data |-> Times(residual[i], data[i])]) = Zero

(* The roots are roots, in order, and a quadratic without a root is of one *)
(* sign.                                                                   *)
RootsExact(input) ==
  LET c == input.coefficients
      solved == SolvePolynomial(c)
      leading == SelectInSeq(c, LAMBDA v : v # Zero)
      at == {Horner(c, Whole(x)) : x \in -2..2}
  IN  IF solved = NoValue THEN leading \in {0, Len(c)} \/ Len(c) - leading > 8
      ELSE /\ \A i \in DOMAIN solved.roots :
                solved.roots[i] # Other => Horner(c, solved.roots[i]) = Zero
           /\ \A i \in 1..(Len(solved.roots) - 1) : ~Less(solved.roots[i + 1], solved.roots[i])
           /\ solved.roots = <<>> => \A u, v \in at : Less(Zero, Times(u, v))

(* The derivative is exact up to degree 4, the integral up to degree 5.    *)
CalculusExact(input) ==
  LET c == input.coefficients
      over(x) == Horner(Integrated(c), x)
  IN  IF input.operation = "derivative"
      THEN DerivativeAt(c, input.at) \in {Other, Horner(Derived(c), input.at)}
      ELSE IntegralOver(c, input.at, input.to) \in
             {Other, Minus(over(input.to), over(input.at))}

(* Present value, future value and payment undo each other, the last       *)
(* balance of a loan is zero, and at the payments' own rate the net        *)
(* present value of a loan is zero.                                        *)
FinanceExact(input) ==
  LET r == input.rate
      n == input.periods
      future == FutureValue(r, n, input.paid, input.amount)
      pmt == Payment(r, n, input.amount, Zero)
      loan == [i \in 1..(n + 1) |-> IF i = 1 THEN input.amount ELSE pmt]
      balances == Balances(input.amount, r, n)
      value == NetPresentValue(r, loan)
      grown == CompoundInterest(input.amount, r, n)
  IN  /\ grown = Negated(FutureValue(r, n, Zero, input.amount))
      /\ n = 1 => grown = Plus(input.amount, SimpleInterest(input.amount, r, n))
      /\ future # Other /\ r # Whole(-1) => PresentValue(r, n, input.paid, future) = input.amount
      /\ future # Other /\ n > 0 => Payment(r, n, input.amount, future) \in {input.paid, Other}
      /\ n > 0 => balances[n] \in {Zero, Other} /\ value \in {Zero, Other}

(* There and back again, and nowhere in another category.                  *)
ConvertExact(input) ==
  LET there == ConvertUnit(input.value, input.from, input.to)
  IN  there \notin {NoValue, Other} =>
        /\ ConvertUnit(there, input.to, input.from) = input.value
        /\ \A u \in DOMAIN Units :
             LET via == ConvertUnit(input.value, input.from, u)
             IN  via \notin {NoValue, Other} => ConvertUnit(via, u, input.to) = there

(* The field laws the operations are named for, and powers as products.    *)
ComplexExact(input) ==
  LET z == input.z
      w == input.w
      product == FoldLeft(LAMBDA acc, i : ComplexProduct(acc, z), <<One, Zero>>,
                          OneTo(input.scalar))
  IN  /\ ComplexSum(ComplexDifference(z, w), w) = z
      /\ w # <<Zero, Zero>> => ComplexProduct(ComplexQuotient(z, w), w) = z
      /\ PowScalar(<<One, Zero>>, z, input.scalar) = product
      /\ ComplexConjugate(ComplexProduct(z, w)) =
           ComplexProduct(ComplexConjugate(z), ComplexConjugate(w))
      /\ ComplexProduct(z, ComplexConjugate(z))[2] = Zero

(* A bisection ends on a root or a change of sign within its bracket, and  *)
(* refuses only a bracket whose ends have the same sign.                   *)
BisectionExact(input) ==
  LET f == input.signs
      left == SolveBisection(f, input.from, input.to)
  IN  IF left = NoValue THEN f[input.from] * f[input.to] > 0
      ELSE HoldsRoot(f, left) /\ input.from <= left[1] /\ left[2] <= input.to

(* irr hands Newton's method an interval with a root in it ("Search        *)
(* outward from the guess until f(low)*f(high) < 0"), unless a root is the *)
(* lower end of a bracket: then the product is 0, and the bisection leaves *)
(* the root behind.  It refuses only when every bracket has one sign.      *)
IrrExact(input) ==
  LET f == input.signs
      left == IrrBracket(f, input.guess)
      ends(w) == Ends(f, input.guess, w)
  IN  IF left = NoValue THEN \A w \in ToSet(Spans) : f[ends(w)[1]] * f[ends(w)[2]] > 0
      ELSE HoldsRoot(f, left) \/ \E w \in ToSet(Spans) : f[ends(w)[1]] = 0

=============================================================================
