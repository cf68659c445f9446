-------------------------- MODULE MC_ResultAnalyzer --------------------------
(* Constraints with one and two outputs, one of which has a null gradient, *)
(* and one that is not differentiable; outputs at either bound, within and *)
(* beyond them; arguments that are free and that are fixed.                *)
EXTENDS ResultAnalyzer
CONSTANTS one, two, null, plain
MCConstraints == {one, two, null, plain}
MCInOf == [c \in MCConstraints |-> 2]
MCOutOf == [c \in MCConstraints |-> IF c = two THEN 2 ELSE 1]
MCGradients == [c \in {one, two, null} |->
  CASE c = one -> <<<<1, 1>>>> [] c = two -> <<<<0, 1>>, <<-1, 0>>>> [] OTHER -> <<<<0, 0>>>>]
MCObjective == <<1, 0>>
Between(a, b) == [lower |-> a, upper |-> b]
At(b, v) == [bounds |-> b, value |-> v]
MCSituations == {At(Between(-9, 0), 0), At(Between(0, 9), 0), At(Between(-9, 0), -1),
                 At(Between(-9, 0), 1)}
MCArgumentSituations == {At(Between(-9, 9), 0), At(Between(0, 0), 0)}
MCIntervals == {Between(-9, 0), Between(0, 9), Between(-9, 9), Between(0, 0)}
MCLevels == {-1, 0, 1}
=============================================================================
