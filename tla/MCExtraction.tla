---------------------------- MODULE MCExtraction ----------------------------
(***************************************************************************)
(* Extraction over small e-graphs of neg and add, a Var x and a Param w.   *)
(***************************************************************************)
EXTENDS Extraction

MCOpOrder  == <<"add", "leaf", "neg">>
MCKeyOrder == <<"none", "w", "x">>
MCCost     == [add |-> 2, neg |-> 1, x |-> 0, w |-> 3]
MCFoldable == {"neg"}
MCParams   == {"w"}

leaf(k)   == <<"leaf", <<>>, k>>
neg(c)    == <<"neg", <<c>>, "none">>
add(c, d) == <<"add", <<c, d>>, "none">>

\* Every leaf and neg over the classes, and enough adds to share a class.
SmallPool ==
  {leaf("x"), leaf("w")} \cup {neg(c) : c \in 1 .. 3}
    \cup {add(2, 3), add(1, 2), add(3, 1), add(2, 2)}
=============================================================================
