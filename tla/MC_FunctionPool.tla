-------------------------- MODULE MC_FunctionPool --------------------------
(* A pool of a function with a cache and one without, over an engine with   *)
(* or without one, the caches of values of one entry or of two.             *)
EXTENDS FunctionPool

CONSTANTS p1, p2, h0, h1, h2, position, distance

TwoPoints == {p1, p2}
Exactly == (p1 :> h1) @@ (p2 :> h2)
TwoFunctions == <<position, distance>>
Outs == (position :> 2) @@ (distance :> 1)
=============================================================================
