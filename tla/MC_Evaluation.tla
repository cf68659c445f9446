---------------------------- MODULE MC_Evaluation ----------------------------
(* A dense and a sparse polynomial of two variables, one with an analytical *)
(* jacobian that is wrong and incomplete, a derivable function, finite      *)
(* differences of each, and the sum of the squares of the first.            *)
EXTENDS Evaluation
CONSTANTS p, q, d, simpleP, simpleQ, fiveD, checkP, checkQ, squares

M(c, e) == [c |-> c, e |-> e]
MCFunctions == {p, q, d, simpleP, simpleQ, fiveD, checkP, checkQ, squares}
MCKind == [f \in MCFunctions |->
  CASE f \in {p, q} -> "polynomial" [] f = d -> "derivable"
    [] f \in {simpleP, simpleQ} -> "simple" [] f = squares -> "squares" [] OTHER -> "fivePoints"]
MCAdaptee == [f \in {simpleP, simpleQ, fiveD, checkP, checkQ, squares} |->
  CASE f \in {simpleP, checkP, squares} -> p [] f \in {simpleQ, checkQ} -> q [] f = fiveD -> d]
MCSparse == {q, simpleQ, checkQ}
MCInputs == [f \in MCFunctions |-> IF f \in {d, fiveD} THEN 1 ELSE 2]
MCOutputs == [f \in MCFunctions |-> IF f = squares THEN 1 ELSE 2]
\* p: (x y + 2, 3 x - y); q: (x + x y, 5 y); d: (t^4 - t, 2 t^2)
MCTerms == [f \in {p, q, d} |->
  CASE f = p -> <<<<M(1, <<1, 1>>), M(2, <<0, 0>>)>>, <<M(3, <<1, 0>>), M(-1, <<0, 1>>)>>>>
    [] f = q -> <<<<M(1, <<1, 0>>), M(1, <<1, 1>>)>>, <<M(5, <<0, 1>>)>>>>
    [] f = d -> <<<<M(1, <<4>>), M(-1, <<1>>)>>, <<M(2, <<2>>)>>>>]
MCSlip == [f \in {p, q, d} |->
  CASE f = p -> <<<<0, 2>>, <<-2, 0>>>> [] f = q -> <<<<-2, 0>>, <<0, 0>>>>
    [] f = d -> <<<<0>>, <<0>>>>]
MCPattern == [f \in {p, q, d} |->
  CASE f = p -> (1..2) \X (1..2) [] f = q -> {<<1, 1>>, <<2, 2>>}
    [] f = d -> {<<1, 1>>, <<2, 1>>}]
MCChecker == [f \in {p, q} |-> IF f = p THEN checkP ELSE checkQ]
MCPoints == [f \in MCFunctions |->
  CASE f \in {d, fiveD} -> {<<-1>>, <<2>>} [] f = squares -> {<<0, 0>>, <<1, -2>>}
    [] OTHER -> {<<1, -2>>, <<5, 3>>}]
=============================================================================
