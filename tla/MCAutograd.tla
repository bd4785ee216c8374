----------------------------- MODULE MCAutograd -----------------------------
(***************************************************************************)
(* Small instances of Autograd: every graph of three nodes over one leaf   *)
(* with up to two inputs to a node and at most one silent edge, and three  *)
(* of five nodes.                                                          *)
(***************************************************************************)
EXTENDS Autograd

MCNodes == 1 .. 5
MCLeaves == {0}

\* a node uses nodes of smaller numbers
Below(n) == (1 .. n - 1) \cup MCLeaves
OneOrTwo(S) == {<<a>> : a \in S} \cup {<<a, b>> : a \in S, b \in S}

Build(ins, quiet, saving) == [inputs |-> ins, silent |-> quiet, saves |-> saving]

MCSmall ==
  {Build(<<a, b, c, <<0>>, <<0>>>>, quiet, 1 .. 3) :
     a \in OneOrTwo(Below(1)), b \in OneOrTwo(Below(2)), c \in OneOrTwo(Below(3)),
     quiet \in {{}, {<<2, 2>>}}}

\* y = f(x), a = y * y, d = f(f(y)), a + d
MCSquareAndChain ==
  Build(<< <<0>>, <<1, 1>>, <<1>>, <<3>>, <<2, 4>> >>, {}, 1 .. 4)

\* x is used at every level, two diamonds on top of each other
MCDiamonds ==
  {Build(<< <<0>>, <<1, 0>>, <<1>>, <<2, 3>>, <<4, 2>> >>, {}, saving) :
     saving \in {1 .. 5, {}}}

MCGraphs == {h \in MCSmall : \A e \in h.silent : e[2] \in DOMAIN h.inputs[e[1]]}
            \cup MCDiamonds \cup {MCSquareAndChain}
MCSquare == {MCSquareAndChain}
MCLast == { <<5>> }
MCOutputs == { <<0>>, <<3>>, <<5>>, <<3, 2>>, <<3, 3>>, <<1, 0>> }

=============================================================================
