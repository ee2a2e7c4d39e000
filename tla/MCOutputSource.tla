---------------------------- MODULE MCOutputSource ----------------------------
(* Small instances of OutputSource.                                         *)
EXTENDS OutputSource

Constant == [kind |-> "constant"]

Square(high, low, phase, relPhase) ==
  [kind |-> "adv_square", high |-> high, low |-> low, phase |-> phase, rel |-> relPhase]

Arb(times, passes, phase) ==
  [kind |-> "arb", times |-> times, repeat |-> passes, phase |-> phase]

\* Periods that divide each other, that do not, and no period; counts whose sum
\* wraps to a period and to none.
Squares ==
  { Square(1, 2, 0, TRUE), Square(3, 2, 0, TRUE), Square(2, 1, 1, FALSE), Square(1, 1, -1, TRUE),
    Square(0, 0, 0, TRUE), Square(9, 9, 0, TRUE), Square(9, 7, 0, TRUE) }

\* One pass, several, endless; from now, aligned, at a sample to come and one
\* that is past; points on top of each other; waves without length.
Arbs ==
  { Arb(<<0, 1, 3>>, -1, -1), Arb(<<0, 0, 2>>, 2, -1), Arb(<<0, 3>>, 3, 1),
    Arb(<<0, 2, 2, 5>>, 0, 3), Arb(<<0, 4>>, 1, 1), Arb(<<0>>, 1, -1),
    Arb(<<0, 0>>, -1, -1), Arb(<<0>>, 2, -1), Arb(<<1, 2>>, 1, -1), Arb(<<0, 2, 1>>, 1, 0) }

MCSources == {Constant} \cup Squares \cup Arbs
=============================================================================
