--------------------------- MODULE MCCertificates ---------------------------
(***************************************************************************)
(* Certificates for the graphs of MCSaturation, with two rules that mint a *)
(* leaf m which means -x.                                                  *)
(***************************************************************************)
EXTENDS MCSaturation, Certificates

MintKeyOrder == <<"none", "0", "m", "x", "y">>

MintDenote(op, key, vals) ==
  IF key = "m" THEN [c \in {"x", "y"} |-> IF c = "x" THEN 0 - 1 ELSE 0]
  ELSE MCDenote(op, key, vals)

mints(l, r) == [lhs |-> l, rhs |-> r, checked |-> FALSE, derive |-> <<"c", <<"leaf", "m">>>>]
MintRules ==
  [name |-> mints(neg(x), <<"?", "c">>),
   mint |-> mints(neg(add(x, u)), add(<<"?", "c">>, neg(u)))] @@ MCRules

MintParts == PatternsOf(MintRules)

ProofRules == Explosive \cup {{"name", "mint", "negneg"}}

\* -(x + y) + -x, whose two -x become m by name while mint rewrites the first
\* sum with it, and --x + x, whose two orders by comm are congruent once negneg
\* has fired.
ProofTerms == {Chain, add(neg(add(x, y)), neg(x)), add(neg(neg(x)), x)}
=============================================================================
