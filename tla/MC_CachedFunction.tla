------------------------- MODULE MC_CachedFunction -------------------------
(* Instances of CachedFunction for TLC. *)
EXTENDS CachedFunction

CONSTANTS p1, p2, p3, h0, h1, h2, h3

ThreePoints == {p1, p2, p3}
Exactly == (p1 :> h1) @@ (p2 :> h2) @@ (p3 :> h3)

TwoOutputs == {0, 1}
AskValueAndHessian == {Value, <<"hessian", 0>>}
AskValue == {Value}
=============================================================================
