----------------------------- MODULE MC_Problem -----------------------------
(* Instances of Problem for TLC. *)
EXTENDS Problem

CONSTANTS linear, plain, vector, foreign

\* A differentiable constraint with one output, one that is not
\* differentiable, one with two outputs, and one of another input size.
AllConstraints == {linear, plain, vector, foreign}
DifferentiableOnes == {linear, vector, foreign}
Ins == [c \in Constraints |-> IF c = foreign THEN InputSize + 1 ELSE InputSize]
Outs == [c \in Constraints |-> IF c = vector THEN 2 ELSE 1]

Above(n) == [lower |-> n, upper |-> Infinity]
Below(n) == [lower |-> -Infinity, upper |-> n]

TwoIntervals == {Above(0), Below(0)}
ThreeLevels == {-1, 0, 1}
=============================================================================
