------------------------------- MODULE MCTools -------------------------------
EXTENDS Tools

CONSTANTS h1, h2, public, other, private

(* Expressions: every text over a few characters, and some longer ones.    *)
MCWords(chars, n) == UNION {[1..k -> chars] : k \in 0..n}
MCCalls ==
  {name \o <<"(">> \o args \o <<")">> :
     name \in {<<"a", "b", "s">>, <<"m", "a", "x">>, <<"c", "o", "n", "s", "t", "r", "u", "c", "t", "o", "r">>},
     args \in {<<>>, <<"2">>, <<"x", ",", "9">>, <<"2", ",">>, <<"1", "/", "0">>}}
MCSources ==
  MCWords({"2", ".", "e", "*", "+", " ", "?"}, 4)
  \union MCWords({"2", "x", "-", "*", "^", "!", "(", ")"}, 4)
  \union MCWords({"2", "-", "^", "!"}, 5)
  \union MCWords({"2", "-", "*", "("}, 5)
  \union MCWords({"2", "(", ")"}, 5) \union {<<"(", "(", "(", "2", ")", ")", ")">>, <<"2", "-", "2", "-", "2", "*", "2", "*", "2">>}
  \union MCCalls
  \union {[i \in 1..n |-> IF i = n THEN "2" ELSE " "] : n \in {20, 21}} \union {[i \in 1..n |-> "!"] : n \in {10, 11}}
  \union {<<"2", "e", "9", "9", "9">>, <<"e">>, <<"0", "e", "9", "9", "9">>, <<"2", "%", "0">>}
MCEvaluate == {[mode |-> "evaluate", source |-> s, variables |-> v] :
                 s \in MCSources, v \in {<<"x">> :> Whole(2)}}
              \union {[mode |-> "evaluate", source |-> <<"e">>, variables |-> <<"e">> :> One]}
MCSolve ==
  {[mode |-> "solve", equation |-> s, variable |-> <<"x">>] :
     s \in MCWords({"x", "2", "-", "*", "^", "/", "="}, 4)
           \union {p \o <<"=">> \o q : p \in MCWords({"x", "2", "-", "*", "^"}, 3),
                                       q \in {<<"x">>, <<"2", "*", "x">>, <<"x", "^", "2">>}}}

(* Matrices, samples, loans, units and complex numbers.                    *)
MCSmall == {Whole(i) : i \in -1..2}
MCMatrix ==
  {[mode |-> "matrix", operation |-> op, a |-> a, b |-> <<<<One, Whole(2)>>, <<Zero, One>>>>] :
     op \in {"determinant"}, a \in [1..2 -> [1..2 -> MCSmall]]}
  \union {[mode |-> "matrix", operation |-> op, a |-> a, b |-> <<<<One, Whole(2), Zero>>>>] :
     op \in {"inverse"}, a \in [1..3 -> [1..3 -> {Zero, One}]]}
  \union {[mode |-> "matrix", operation |-> op, a |-> a, b |-> <<<<One, Whole(2)>>>>] :
     op \in {"add", "subtract", "multiply", "transpose", "inverse", "solve"},
     a \in {<<<<One, Zero>>>>, <<<<One, Zero>>, <<One>>>>, <<<<One, One>>, <<One, One>>>>, <<<<Zero, One>>, <<One, One>>>>}}
MCStatistics ==
  {[mode |-> "statistics", operation |-> op, data |-> d, p |-> 25,
    y |-> [i \in DOMAIN d |-> Whole((i * i) % 3)]] :
     op \in {"describe", "variance", "percentile", "regression"},
     d \in UNION {[1..n -> {Zero, One, Whole(3)}] : n \in 1..4}}
MCFinance ==
  {[mode |-> "finance", operation |-> op, rate |-> r, periods |-> n, amount |-> Whole(a), paid |-> Whole(p)] :
     op \in {"simple-interest", "compound-interest", "future-value", "present-value", "pmt", "amortize", "npv"},
     r \in {Zero, Fraction(1, 2), Fraction(-1, 2), One}, n \in 1..3, a \in {0, 1, 60}, p \in {-1, 0, 2}}
MCConvert ==
  {[mode |-> "convert", value |-> v, from |-> f, to |-> t] :
     v \in {Zero, One, Whole(5)}, f, t \in DOMAIN Units \union {"furlong"}}
MCComplex ==
  {[mode |-> "complex", operation |-> op, z |-> <<Whole(a), Whole(b)>>, w |-> <<Whole(c), Whole(d)>>, scalar |-> k] :
     op \in {"add", "subtract", "multiply", "divide", "conjugate", "pow"},
     a, c \in {-1, 0, 2}, b, d \in 0..1, k \in {0, 1, 5, 6}}

(* Polynomials by their coefficients.                                      *)
MCRoots ==
  {[mode |-> "roots", coefficients |-> c] :
     c \in UNION {[1..n -> {Whole(i) : i \in {-4, -1, 0, 1, 2, 3}}] : n \in 1..3} \union
           {[i \in 1..n |-> One] : n \in {4, 9, 10}}}
MCCalculus ==
  {[mode |-> "calculus", operation |-> "derivative", coefficients |-> c, at |-> Whole(x), to |-> Zero] :
     c \in [1..5 -> {Zero, One, Whole(-3)}], x \in {-1, 0, 2}}
  \union {[mode |-> "calculus", operation |-> "integral", coefficients |-> c, at |-> Whole(x), to |-> Whole(y)] :
     c \in [1..6 -> {Zero, One}], x \in {-1, 0, 2}, y \in {-1, 0, 1}}

(* Functions by their signs; irr's fall from positive to negative flows.   *)
MCBisection ==
  {[mode |-> "bisection", signs |-> s, from |-> a, to |-> b] :
     s \in [0..4 -> -1..1], a \in 0..1, b \in 2..4}
MCIrr ==
  {[mode |-> "irr", signs |-> [x \in 0..12 |-> IF x < r THEN 1 ELSE IF x = r THEN 0 ELSE -1], guess |-> g] :
     r \in 0..13, g \in 1..4}

MCCalculatorInputs ==
  MCEvaluate \union MCSolve \union MCMatrix \union MCStatistics \union MCFinance
  \union MCConvert \union MCComplex \union MCRoots \union MCCalculus
  \union MCBisection \union MCIrr

-----------------------------------------------------------------------------
(* Addresses: both sides of every boundary, in every notation.             *)
MCQuads ==
  {<<a, b, 0, 1>> : a \in {0, 1, 9, 10, 11, 99, 100, 101, 126, 127, 128, 168, 169, 170, 172, 192, 198, 223, 224, 255},
                    b \in {0, 1, 15, 16, 17, 18, 20, 31, 32, 63, 64, 127, 128, 168, 254, 255}}
MCHex(q) == <<q[1] * 256 + q[2], q[3] * 256 + q[4]>>
MCAddressTexts ==
  {Dotted(q) : q \in MCQuads \union {<<256, 1, 1, 1>>}} \union {Mapped(q) : q \in MCQuads}
  \union {Colons(l, TRUE, r \o MCHex(q)) :
            q \in MCQuads, l \in {<<>>, <<100, 65435>>}, r \in {<<>>, <<65535>>, <<65535, 0>>}}
  \union {Colons(<<8194>> \o MCHex(q), TRUE, <<1>>) : q \in MCQuads}
  \union {Colons(<<g>> \o l, TRUE, r) :
            g \in {0, 1, 100, 8193, 8194, 64511, 64512, 65023, 65024, 65151, 65152, 65215, 65216, 65279, 65280, 65535, 65536},
            l \in {<<>>, <<3511>>, <<3512>>, <<0, 0, 0, 0, 0, 0, 0>>}, r \in {<<>>, <<0>>, <<1>>}}
  \union {Colons(<<g>> \o l, FALSE, <<>>) :
            g \in {0, 8193, 65152}, l \in {<<>>, <<3512, 0, 0, 0, 0, 0, 0>>, <<0, 0, 0, 0, 0, 0, 1>>}}
MCCidrs ==
  {[family |-> 4, octets |-> <<10, 0, 0, 0>>, bits |-> b] : b \in {0, 1, 8, 12, 31, 32}}
  \union {[family |-> 6, octets |-> OctetsOf(<<64512, 0, 0, 0, 0, 0, 0, 1>>), bits |-> b] : b \in {0, 7, 10, 16, 128}}
MCHostTexts ==
  [name : {"a", "b"}, port : {"none", "8443"}, shape : {"name", "bracketed", "bare", "open"}]
=============================================================================
