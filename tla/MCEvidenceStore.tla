--------------------------- MODULE MCEvidenceStore ---------------------------
(* Instances of EvidenceStore: one pipeline after another, a session, and a  *)
(* verifier whose code, library and view oracle matter to what is measured.  *)
EXTENDS EvidenceStore

CONSTANTS a, b, full, held

MCBatches == {{a, b}}

\* `a' fails the typedness audit alone; `b' is conditional to the view oracle,
\* its certificate fails under edited code, and it is derivable only with the
\* full library; on the grown corpus it has a counterexample.
MCMeasured(c, o) ==
  IF c = a
  THEN [num |-> "true", derivable |-> FALSE, clears |-> TRUE, ill |-> TRUE]
  ELSE [num |-> IF o.corpus[2] > 0 THEN "false" ELSE IF o.view THEN "none" ELSE "true",
        derivable |-> o.rules = full, clears |-> o.code = 0, ill |-> FALSE]
=============================================================================
