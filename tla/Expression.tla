----------------------------- MODULE Expression -----------------------------
(***************************************************************************)
(* The expression language of the calculator (shared/math/expr): tokenize, *)
(* the recursive-descent parser, the evaluator, and the calculator's       *)
(* polynomial extraction.  A source is a sequence of characters; a reading *)
(* that throws is Failed.  The parser's position and depth are arguments   *)
(* of its operators.                                                       *)
(*                                                                         *)
(* Sin, the distributions and the other real functions of builtins.ts are  *)
(* left out: rational arithmetic says nothing of them.                     *)
(***************************************************************************)
EXTENDS Rationals, Sequences, SequencesExt

CONSTANTS MaxLength, \* MAX_EXPRESSION_LENGTH
          MaxTokens, \* MAX_TOKEN_COUNT
          MaxDepth   \* MAX_PARSE_DEPTH

Failed == [ok |-> FALSE]

-----------------------------------------------------------------------------
(* tokenize.  A token is the characters first..next-1.                     *)

Digits == {"0", "1", "2", "9"}
Digit == [c \in Digits |-> CASE c = "0" -> 0 [] c = "1" -> 1 [] c = "2" -> 2 [] c = "9" -> 9]
Letters == {"a", "b", "c", "E", "e", "m", "n", "o", "r", "s", "t", "u", "x", "y", "_"}
Exponent == {"e", "E"}
Space == {" "}

Single ==
  [c \in {"+", "-", "*", "/", "%", "^", "!", "(", ")", ","} |->
     CASE c = "+" -> "plus" [] c = "-" -> "minus" [] c = "*" -> "star" [] c = "/" -> "slash"
       [] c = "%" -> "percent" [] c = "^" -> "caret" [] c = "!" -> "bang"
       [] c = "(" -> "lparen" [] c = ")" -> "rparen" [] c = "," -> "comma"]

At(s, i) == IF i \in 1..Len(s) THEN s[i] ELSE "end"

(* The first position from i on that is not in S.                          *)
Past(s, i, S) ==
  CHOOSE j \in i..(Len(s) + 1) : At(s, j) \notin S /\ \A k \in i..(j - 1) : s[k] \in S

(* Where a number from i on ends; 0 for an exponent without digits.        *)
ScanNumber(s, i) ==
  LET whole == Past(s, i, Digits)
      part == IF At(s, whole) = "." THEN Past(s, whole + 1, Digits) ELSE whole
      sign == part + (IF At(s, part + 1) \in {"+", "-"} THEN 2 ELSE 1)
  IN  IF At(s, part) \notin Exponent THEN part
      ELSE IF At(s, sign) \in Digits THEN Past(s, sign, Digits) ELSE 0

NextToken(s, i) ==
  LET token(kind, next) == [kind |-> kind, first |-> i, next |-> next]
  IN  IF s[i] \in Digits \/ (s[i] = "." /\ At(s, i + 1) \in Digits)
      THEN token("number", ScanNumber(s, i))
      ELSE IF s[i] \in Letters THEN token("ident", Past(s, i, Letters \union Digits))
      ELSE IF s[i] = "*" /\ At(s, i + 1) = "*" THEN token("caret", i + 2)
      ELSE IF s[i] \in DOMAIN Single THEN token(Single[s[i]], i + 1)
      ELSE token("unexpected", 0)

RECURSIVE TokensFrom(_, _, _)
TokensFrom(s, i, tokens) ==
  LET j == Past(s, i, Space)
      t == NextToken(s, j)
  IN  IF j > Len(s) THEN [ok |-> TRUE, tokens |-> tokens]
      ELSE IF t.next = 0 \/ Len(tokens) = MaxTokens THEN Failed
      ELSE TokensFrom(s, t.next, Append(tokens, t))

Tokenize(s) == IF Len(s) > MaxLength THEN Failed ELSE TokensFrom(s, 1, <<>>)

Text(s, t) == SubSeq(s, t.first, t.next - 1)

(* Number(t.value): m digits, a fraction of f of them, an exponent x.      *)
NumberOf(digits) == FoldLeft(LAMBDA n, c : 10 * n + Digit[c], 0, digits)
LiteralValue(text) ==
  LET isDigit(c) == c \in Digits
      dot == SelectInSeq(text, LAMBDA c : c = ".")
      exp == SelectInSeq(text, LAMBDA c : c \in Exponent)
      mantissa == IF exp = 0 THEN text ELSE SubSeq(text, 1, exp - 1)
      m == NumberOf(SelectSeq(mantissa, isDigit))
      f == IF dot = 0 THEN 0 ELSE Len(mantissa) - dot
      x == IF exp = 0 THEN 0
           ELSE (IF At(text, exp + 1) = "-" THEN -1 ELSE 1)
                  * NumberOf(SelectSeq(SubSeq(text, exp + 1, Len(text)), isDigit))
  IN  [finite |-> m = 0 \/ x <= 308, value |-> Times(Whole(m), ToThe(Whole(10), x - f))]

-----------------------------------------------------------------------------
(* The parser.  A reading is a node and the position behind it.            *)

Reading(node, next) == [ok |-> TRUE, node |-> node, next |-> next]
Then(reading, Continue(_, _)) ==
  IF reading.ok THEN Continue(reading.node, reading.next) ELSE Failed

(* enter: one level deeper, unless that is too deep.                       *)
Entered(depth, reading) == IF depth + 1 > MaxDepth THEN Failed ELSE reading

Kind(ts, i) == IF i \in 1..Len(ts) THEN ts[i].kind ELSE "end"

Number(value) == [kind |-> "number", value |-> value]
Identifier(name) == [kind |-> "identifier", name |-> name]
Binary(op, left, right) == [kind |-> "binary", op |-> op, left |-> left, right |-> right]
Unary(op, operand) == [kind |-> "unary", op |-> op, operand |-> operand]
Postfix(operand) == [kind |-> "postfix", operand |-> operand]
Call(name, args) == [kind |-> "call", name |-> name, args |-> args]

Additive == {"plus", "minus"}
Multiplicative == {"star", "slash", "percent"}

RECURSIVE ParseExpression(_, _, _, _), ParseChain(_, _, _, _, _, _), ParseOperand(_, _, _, _, _),
          ParseUnary(_, _, _, _), ParseBangs(_, _, _), ParsePower(_, _, _, _),
          ParseAtom(_, _, _, _), ParseArgs(_, _, _, _, _)

ParseExpression(s, ts, i, d) ==
  Entered(d, Then(ParseOperand(s, ts, i, d + 1, Multiplicative),
                  LAMBDA left, j : ParseChain(s, ts, j, d + 1, Additive, left)))

(* Mutant: what follows an operator is read as a chain of its own.         *)
ParseChainRight(s, ts, i, d, ops, left) ==
  IF Kind(ts, i) \notin ops THEN Reading(left, i)
  ELSE Then(ParseOperand(s, ts, i + 1, d, IF ops = Additive THEN Multiplicative ELSE {}),
            LAMBDA first, j :
              Then(ParseChain(s, ts, j, d, ops, first),
                   LAMBDA right, k : Reading(Binary(ts[i].kind, left, right), k)))

(* The loops of parseAdditive and parseMultiplicative, behind an operand.  *)
ParseChain(s, ts, i, d, ops, left) ==
  IF Kind(ts, i) \notin ops THEN Reading(left, i)
  ELSE Then(ParseOperand(s, ts, i + 1, d, IF ops = Additive THEN Multiplicative ELSE {}),
            LAMBDA right, j : ParseChain(s, ts, j, d, ops, Binary(ts[i].kind, left, right)))

(* parseMultiplicative, or one operand of its loop.                        *)
ParseOperand(s, ts, i, d, ops) ==
  IF ops = {} THEN ParseUnary(s, ts, i, d)
  ELSE Then(ParseUnary(s, ts, i, d), LAMBDA left, j : ParseChain(s, ts, j, d, ops, left))

ParseUnary(s, ts, i, d) ==
  IF Kind(ts, i) \in Additive
  THEN Entered(d, Then(ParseUnary(s, ts, i + 1, d + 1),
                       LAMBDA operand, j : Reading(Unary(ts[i].kind, operand), j)))
  ELSE Then(ParsePower(s, ts, i, d), LAMBDA node, j : ParseBangs(ts, j, node))

ParseBangs(ts, i, node) ==
  IF Kind(ts, i) = "bang" THEN ParseBangs(ts, i + 1, Postfix(node)) ELSE Reading(node, i)

ParsePower(s, ts, i, d) ==
  Then(ParseAtom(s, ts, i, d), LAMBDA base, j :
    IF Kind(ts, j) # "caret" THEN Reading(base, j)
    ELSE Entered(d, Then(ParseUnary(s, ts, j + 1, d + 1),
                         LAMBDA exponent, k : Reading(Binary("caret", base, exponent), k))))

ParseAtom(s, ts, i, d) ==
  CASE Kind(ts, i) = "number" ->
         LET literal == LiteralValue(Text(s, ts[i]))
         IN  IF literal.finite THEN Reading(Number(literal.value), i + 1) ELSE Failed
    [] Kind(ts, i) = "lparen" ->
         Entered(d, Then(ParseExpression(s, ts, i + 1, d + 1), LAMBDA inner, j :
                      IF Kind(ts, j) = "rparen" THEN Reading(inner, j + 1) ELSE Failed))
    [] Kind(ts, i) = "ident" ->
         LET name == Text(s, ts[i])
         IN  IF Kind(ts, i + 1) # "lparen" THEN Reading(Identifier(name), i + 1)
             ELSE IF Kind(ts, i + 2) = "rparen" THEN Reading(Call(name, <<>>), i + 3)
             ELSE Entered(d, Then(ParseArgs(s, ts, i + 2, d + 1, <<>>),
                                  LAMBDA args, j : Reading(Call(name, args), j)))
    [] OTHER -> Failed

ParseArgs(s, ts, i, d, args) ==
  Then(ParseExpression(s, ts, i, d), LAMBDA arg, j :
    CASE Kind(ts, j) = "comma" -> ParseArgs(s, ts, j + 1, d, Append(args, arg))
      [] Kind(ts, j) = "rparen" -> Reading(Append(args, arg), j + 1)
      [] OTHER -> Failed)

(* parse: there is an expression, and nothing behind it.                   *)
Complete(reading, n) == IF n > 0 /\ reading.ok /\ reading.next = n + 1 THEN reading ELSE Failed
ParseTokens(s, ts) == Complete(ParseExpression(s, ts, 1, 0), Len(ts))
ParseLexed(s, lexed) == IF lexed.ok THEN ParseTokens(s, lexed.tokens) ELSE Failed
Parse(s) == ParseLexed(s, Tokenize(s))

-----------------------------------------------------------------------------
(* The evaluator.  A result is a value, an "error" the caller is told      *)
(* (RuntimeError), or a "fault" (TypeError) it is not.                     *)

Result(v) == [kind |-> "value", v |-> v]
Error == [kind |-> "error", v |-> Other]
Fault == [kind |-> "fault", v |-> Other]

(* Constants are irrational.  A plain object also has what it inherits.    *)
ConstantNames == {<<"e">>, <<"E">>}
InheritedNames == {<<"c", "o", "n", "s", "t", "r", "u", "c", "t", "o", "r">>}
Arity ==
  [f \in {<<"a", "b", "s">>, <<"m", "a", "x">>, <<"s", "u", "m">>} |->
     IF f = <<"a", "b", "s">> THEN 1..1 ELSE 1..1024]
ReservedNames == ConstantNames \union DOMAIN Arity

Builtin(name, xs) ==
  IF \E i \in DOMAIN xs : xs[i] = Other THEN Other
  ELSE CASE name = <<"a", "b", "s">> -> Fraction(Magnitude(xs[1][1]), xs[1][2])
         [] name = <<"m", "a", "x">> -> FoldLeft(Greatest, xs[1], xs)
         [] name = <<"s", "u", "m">> -> FoldLeft(Plus, Zero, xs)

Factorial(a) ==
  IF a = Other THEN Result(Other)
  ELSE IF ~IsWhole(a) \/ IsNegative(a) \/ a[1] > 170 THEN Error
  ELSE Result(FoldLeft(LAMBDA n, k : Times(n, Whole(k)), One, [k \in 1..a[1] |-> k]))

Power(a, b) ==
  CASE b # Other /\ IsWhole(b) -> Result(ToThe(a, b[1]))
    [] b # Other /\ ~IsWhole(b) /\ a # Other /\ IsNegative(a) -> Error
    [] b # Other /\ ~IsWhole(b) /\ a = Zero /\ ~IsNegative(b) -> Result(Zero)
    [] OTHER -> Result(Other)

ApplyBinary(op, l, r) ==
  CASE op = "plus"    -> Result(Plus(l, r))
    [] op = "minus"   -> Result(Minus(l, r))
    [] op = "star"    -> Result(Times(l, r))
    [] op = "slash"   -> IF r = Zero THEN Error ELSE Result(Over(l, r))
    [] op = "percent" -> IF r = Zero THEN Error ELSE Result(Remainder(l, r))
    [] op = "caret"   -> Power(l, r)

RECURSIVE Evaluate(_, _)
Evaluate(node, variables) ==
  LET value(n) == Evaluate(n, variables)
  IN  CASE node.kind = "number" -> Result(node.value)
        [] node.kind = "identifier" ->
             IF node.name \in DOMAIN variables THEN Result(variables[node.name])
             ELSE IF node.name \in ConstantNames THEN Result(Other) ELSE Error
        [] node.kind = "binary" ->
             LET l == value(node.left)
                 r == value(node.right)
             IN  IF l.kind # "value" THEN l ELSE IF r.kind # "value" THEN r
                 ELSE ApplyBinary(node.op, l.v, r.v)
        [] node.kind = "unary" ->
             LET v == value(node.operand)
             IN  IF v.kind = "value" /\ node.op = "minus" THEN Result(Negated(v.v)) ELSE v
        [] node.kind = "postfix" ->
             LET v == value(node.operand) IN IF v.kind = "value" THEN Factorial(v.v) ELSE v
        [] node.kind = "call" ->
             LET args == [i \in DOMAIN node.args |-> value(node.args[i])]
                 bad == SelectInSeq(args, LAMBDA a : a.kind # "value")
             IN  IF node.name \notin DOMAIN Arity \union InheritedNames THEN Error
                 ELSE IF bad # 0 THEN args[bad]
                 ELSE IF node.name \in InheritedNames THEN Fault
                 ELSE IF Len(args) \notin Arity[node.name] THEN Error
                 ELSE Result(Builtin(node.name, [i \in DOMAIN args |-> args[i].v]))

RECURSIVE CollectIdentifiers(_), IsFunctionCallName(_, _)
CollectIdentifiers(node) ==
  CASE node.kind = "number" -> {}
    [] node.kind = "identifier" -> {node.name}
    [] node.kind = "binary" -> CollectIdentifiers(node.left) \union CollectIdentifiers(node.right)
    [] node.kind \in {"unary", "postfix"} -> CollectIdentifiers(node.operand)
    [] node.kind = "call" -> UNION {CollectIdentifiers(node.args[i]) : i \in DOMAIN node.args}

IsFunctionCallName(node, name) ==
  CASE node.kind \in {"number", "identifier"} -> FALSE
    [] node.kind = "binary" ->
         IsFunctionCallName(node.left, name) \/ IsFunctionCallName(node.right, name)
    [] node.kind \in {"unary", "postfix"} -> IsFunctionCallName(node.operand, name)
    [] node.kind = "call" ->
         node.name = name \/ \E i \in DOMAIN node.args : IsFunctionCallName(node.args[i], name)

-----------------------------------------------------------------------------
(* Polynomials: coefficients, low degree first; NotPolynomial for null.    *)

NotPolynomial == <<>>
Coefficient(a, i) == IF i \in DOMAIN a THEN a[i] ELSE Zero
Longer(a, b) == IF Len(a) < Len(b) THEN Len(b) ELSE Len(a)

AddCoeffs(a, b) == [i \in 1..Longer(a, b) |-> Plus(Coefficient(a, i), Coefficient(b, i))]
SubtractCoeffs(a, b) == [i \in 1..Longer(a, b) |-> Minus(Coefficient(a, i), Coefficient(b, i))]
MulCoeffs(a, b) ==
  [k \in 1..(Len(a) + Len(b) - 1) |->
     FoldLeft(LAMBDA acc, i : Plus(acc, Times(a[i], Coefficient(b, k + 1 - i))),
              Zero, [i \in DOMAIN a |-> i])]

(* Mutant: the exponent may name the variable, and is read at zero.        *)
RaiseCoeffsAny(l, r) ==
  IF IsWhole(r[1]) /\ r[1][1] \in 0..8
  THEN FoldLeft(LAMBDA acc, i : MulCoeffs(acc, l), <<One>>, [i \in 1..r[1][1] |-> i])
  ELSE NotPolynomial

RaiseCoeffs(l, r) ==
  IF Len(r) = 1 /\ IsWhole(r[1]) /\ r[1][1] \in 0..8
  THEN FoldLeft(LAMBDA acc, i : MulCoeffs(acc, l), <<One>>, [i \in 1..r[1][1] |-> i])
  ELSE NotPolynomial

RECURSIVE ExtractCoeffs(_, _)
ExtractCoeffs(node, variable) ==
  CASE node.kind = "number" -> <<node.value>>
    [] node.kind = "identifier" ->
         IF node.name = variable THEN <<Zero, One>>
         ELSE IF node.name \in ConstantNames THEN <<Other>> ELSE NotPolynomial
    [] node.kind = "unary" ->
         LET inner == ExtractCoeffs(node.operand, variable)
         IN  IF node.op = "plus" THEN inner ELSE [i \in DOMAIN inner |-> Negated(inner[i])]
    [] node.kind = "binary" ->
         LET l == ExtractCoeffs(node.left, variable)
             r == ExtractCoeffs(node.right, variable)
         IN  CASE NotPolynomial \in {l, r} -> NotPolynomial
               [] node.op = "plus"  -> AddCoeffs(l, r)
               [] node.op = "minus" -> SubtractCoeffs(l, r)
               [] node.op = "star"  -> MulCoeffs(l, r)
               [] node.op = "slash" ->
                    IF Len(r) # 1 \/ r[1] = Zero THEN NotPolynomial
                    ELSE [i \in DOMAIN l |-> Over(l[i], r[1])]
               [] node.op = "caret" -> RaiseCoeffs(l, r)
               [] node.op = "percent" -> NotPolynomial
    [] node.kind \in {"postfix", "call"} -> NotPolynomial

(* lhs = rhs, rhs being 0 when there is no "="; highest degree first.      *)
TryExtractPolynomial(lhs, rhs, variable) ==
  LET l == ExtractCoeffs(lhs, variable)
      r == ExtractCoeffs(rhs, variable)
      difference == SubtractCoeffs(l, r)
      last == SelectLastInSeq(difference, LAMBDA c : c # Zero)
  IN  IF NotPolynomial \in {l, r} THEN NotPolynomial
      ELSE Reverse(SubSeq(difference, 1, last))

-----------------------------------------------------------------------------
(* The grammar at the head of parser.ts, as the trees of the tokens i..j:  *)
(* pairs of a node and the nesting it takes.  Left-associative operators   *)
(* are left-recursive here.  A '!' behind an exponent belongs to the       *)
(* exponent, which the grammar leaves open, and '!' may be repeated.       *)

Pair(node, nesting) == <<node, nesting>>
Deeper(trees, by) == {Pair(t[1], t[2] + by) : t \in trees}
Combined(op, lefts, rights) ==
  {Pair(Binary(op, l[1], r[1]), IF l[2] < r[2] THEN r[2] ELSE l[2]) : l \in lefts, r \in rights}

RECURSIVE Expressions(_, _, _, _), Sums(_, _, _, _), Products(_, _, _, _), Signed(_, _, _, _),
          Factorials(_, _, _, _), Atoms(_, _, _, _), Arguments(_, _, _, _)

Expressions(s, ts, i, j) == Deeper(Sums(s, ts, i, j), 1)
Sums(s, ts, i, j) ==
  Products(s, ts, i, j) \union
  UNION {Combined(ts[k].kind, Sums(s, ts, i, k - 1), Products(s, ts, k + 1, j)) :
           k \in {k \in (i + 1)..(j - 1) : ts[k].kind \in Additive}}
Products(s, ts, i, j) ==
  Signed(s, ts, i, j) \union
  UNION {Combined(ts[k].kind, Products(s, ts, i, k - 1), Signed(s, ts, k + 1, j)) :
           k \in {k \in (i + 1)..(j - 1) : ts[k].kind \in Multiplicative}}
Signed(s, ts, i, j) ==
  (IF i < j /\ ts[i].kind \in Additive
   THEN {Pair(Unary(ts[i].kind, t[1]), t[2] + 1) : t \in Signed(s, ts, i + 1, j)} ELSE {})
  \union Factorials(s, ts, i, j)
  \union UNION {Combined("caret", Atoms(s, ts, i, k - 1), Deeper(Signed(s, ts, k + 1, j), 1)) :
                  k \in {k \in (i + 1)..(j - 1) : ts[k].kind = "caret"}}
Factorials(s, ts, i, j) ==
  Atoms(s, ts, i, j) \union
  (IF i < j /\ ts[j].kind = "bang"
   THEN {Pair(Postfix(t[1]), t[2]) : t \in Factorials(s, ts, i, j - 1)} ELSE {})
Atoms(s, ts, i, j) ==
  CASE i = j /\ ts[i].kind = "number" ->
         LET literal == LiteralValue(Text(s, ts[i]))
         IN  IF literal.finite THEN {Pair(Number(literal.value), 0)} ELSE {}
    [] i = j /\ ts[i].kind = "ident" -> {Pair(Identifier(Text(s, ts[i])), 0)}
    [] i + 1 < j /\ ts[i].kind = "lparen" /\ ts[j].kind = "rparen" ->
         Deeper(Expressions(s, ts, i + 1, j - 1), 1)
    [] i + 1 < j /\ ts[i].kind = "ident" /\ ts[i + 1].kind = "lparen" /\ ts[j].kind = "rparen" ->
         IF i + 2 = j THEN {Pair(Call(Text(s, ts[i]), <<>>), 0)}
         ELSE {Pair(Call(Text(s, ts[i]), t[1]), t[2] + 1) : t \in Arguments(s, ts, i + 2, j - 1)}
    [] OTHER -> {}
Arguments(s, ts, i, j) ==
  {Pair(<<t[1]>>, t[2]) : t \in Expressions(s, ts, i, j)} \union
  UNION {{Pair(Append(l[1], r[1]), IF l[2] < r[2] THEN r[2] ELSE l[2]) :
            l \in Arguments(s, ts, i, k - 1), r \in Expressions(s, ts, k + 1, j)} :
           k \in {k \in (i + 1)..(j - 1) : ts[k].kind = "comma"}}

(* The languages of the tokens.                                            *)
AllDigits(w) == \A i \in DOMAIN w : w[i] \in Digits
IsExponent(w) ==
  /\ Len(w) > 1 /\ w[1] \in Exponent
  /\ \E n \in (IF w[2] \in {"+", "-"} THEN {3} ELSE {2}) :
       n <= Len(w) /\ AllDigits(SubSeq(w, n, Len(w)))
IsNumber(w) ==
  \E p \in 0..Len(w), q \in 0..Len(w) :
    /\ p <= q
    /\ LET whole == SubSeq(w, 1, p)
           part == SubSeq(w, p + 1, q)
           rest == SubSeq(w, q + 1, Len(w))
       IN  /\ AllDigits(whole)
           /\ part = <<>> \/ (part[1] = "." /\ AllDigits(Tail(part)))
           /\ whole # <<>> \/ Len(part) > 1
           /\ rest = <<>> \/ IsExponent(rest)
IsIdent(w) ==
  w # <<>> /\ w[1] \in Letters /\ \A i \in DOMAIN w : w[i] \in Letters \union Digits
IsToken(kind, w) ==
  CASE kind = "number" -> IsNumber(w)
    [] kind = "ident" -> IsIdent(w)
    [] OTHER -> \/ Len(w) = 1 /\ w[1] \in DOMAIN Single /\ Single[w[1]] = kind
                \/ w = <<"*", "*">> /\ kind = "caret"
AnyToken(w) == IsNumber(w) \/ IsIdent(w) \/ w = <<"*", "*">> \/ (Len(w) = 1 /\ w[1] \in DOMAIN Single)

=============================================================================
