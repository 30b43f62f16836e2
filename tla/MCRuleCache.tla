----------------------------- MODULE MCRuleCache -----------------------------
(***************************************************************************)
(* A rule cache shared by a few processes.  Two closures of one function   *)
(* have the same source, so that their rules share a key.                  *)
(***************************************************************************)
EXTENDS RuleCache, TLC

CONSTANTS closure1, closure2, other, factory, alone

SourceText == [h \in Hooks |-> IF h = other THEN alone ELSE factory]
Symmetric  == Permutations(Procs) \cup Permutations({closure1, closure2})
=============================================================================
