-------------------------------- MODULE Tools --------------------------------
(***************************************************************************)
(* The tool calls with the calculator that is behind one of them: what it  *)
(* computes is compared with what it should.                               *)
(***************************************************************************)
EXTENDS ToolCalls, Calculator

(* The calculator reads expressions by their grammar: longest tokens, the  *)
(* documented precedences and associativity, and the depth limit           *)
(* (tokenize, parse).                                                      *)
ExpressionsRead ==
  input.mode = "evaluate" => LexesTheTokens(input.source) /\ ParsesTheGrammar(input.source)

(* The coefficients solve takes from an equation are those of the          *)
(* difference of its sides (tryExtractPolynomial).                         *)
PolynomialAgrees == input.mode = "solve" => AgreesWithEvaluation(input)

(* But for rounding, the numeric library computes what it says             *)
(* (shared/math).                                                          *)
NumericExact ==
  CASE input.mode = "matrix"     -> MatrixExact(input)
    [] input.mode = "statistics" -> StatisticsExact(input)
    [] input.mode = "finance"    -> FinanceExact(input)
    [] input.mode = "convert"    -> ConvertExact(input)
    [] input.mode = "complex"    -> ComplexExact(input)
    [] input.mode = "roots"      -> RootsExact(input)
    [] input.mode = "calculus"   -> CalculusExact(input)
    [] input.mode = "bisection"  -> BisectionExact(input)
    [] input.mode = "irr"        -> IrrExact(input)
    [] OTHER -> TRUE

=============================================================================
