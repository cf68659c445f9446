------------------------ MODULE MC_FunctionOperators ------------------------
(* Five families: functions of the user of two inputs and one output, one   *)
(* and two, two and two; and those of the library, of one variable or two.  *)
EXTENDS FunctionOperators

MCUserFunctions ==
  << UserFunction(2, 1, <<1>>, << <<0, 2>> >>, << <<1, 0>> >>),
     UserFunction(1, 2, <<1, 0>>, << <<1>>, <<2>> >>, << <<0>>, <<1>> >>),
     UserFunction(2, 2, <<0, 1>>, << <<1, -1>>, <<2, 0>> >>, << <<0, 0>>, <<0, 1>> >>) >>
MCPolynomial == << Polynomial(<<0, -3, 0, 1>>), Cos >>
MCSine == << Sin, Polynomial(<<2, 1>>) >>
MCLinear ==
  << Identity(<<1, -1>>),
     NumericLinear(<<Numbers(<<1, 2>>), Numbers(<<0, -1>>)>>, Numbers(<<2, 1>>)) >>
MCQuadratic ==
  << Constant(2, <<3>>), NumericQuadratic(<< <<1, 2>>, <<2, -1>> >>, <<3, 0>>, 1) >>
MCFamilies == {MCUserFunctions, MCPolynomial, MCSine, MCLinear, MCQuadratic}
MCLevels == {-1, 2}
MCBounds == {2}
MCScalars == {3}

=============================================================================
