----------------------------- MODULE RuleSearch -----------------------------
(***************************************************************************)
(* What the search for the rules' matches must satisfy, whoever performs   *)
(* it: the saturation loop with its policies (module Saturation) or one    *)
(* that interleaves the steps of the e-graph (module SaturationSteps).     *)
(*                                                                         *)
(* A rule is a record [lhs, rhs, checked, derive]: checked, when a check   *)
(* may veto a binding; derive, <<>> or <<a variable, the leaf it mints>>.  *)
(***************************************************************************)
EXTENDS Matching, GraphInvariants

CONSTANTS
  Rules,     \* rule name -> rule
  Budgets,   \* rule_budgets: some rule names -> a number of enodes
  MatchCap   \* _MATCH_CAP

ASSUME RulesAreOverPatterns ==
  \A r \in DOMAIN Rules :
    /\ Rules[r].lhs \in Patterns /\ Rules[r].rhs \in Patterns
    /\ Rules[r].checked \in BOOLEAN
    /\ Rules[r].derive # <<>> =>
         Rules[r].derive[2] \in Patterns /\ IsConst(Rules[r].derive[2])
ASSUME BudgetsAreNat ==
  DOMAIN Budgets \subseteq DOMAIN Rules /\ \A r \in DOMAIN Budgets : Budgets[r] \in Nat
ASSUME CapIsPositive == MatchCap \in Nat \ {0}

VARIABLES
  stage,    \* where run is
  applied,  \* _applied_rules
  spent,    \* _budget_spent
  missed    \* history: applied rules that have since missed a frontier

RuleNames    == DOMAIN Rules
Budgeted(r)  == r \in DOMAIN Budgets
Remaining(r) == Budgets[r] - spent[r]

\* match_cap, when left is what remains of the rule's budget.
\* Bug: every class may spend the whole per-class cap.
CapOnly(r, left) == IF Budgeted(r) THEN MatchCap ELSE NoLimit
Limit(r, left) ==
  IF ~Budgeted(r) THEN NoLimit ELSE IF left < MatchCap THEN left ELSE MatchCap

-----------------------------------------------------------------------------
(* Matches and firings. *)

\* The variables of a pattern, and the bindings a match of the rule may have.
VarsOf(p)   == {q[2] : q \in {q \in Parts[p] : IsVar(q)}}
Bindings(h, r) == [VarsOf(Rules[r].lhs) -> Roots(h)]

\* The bindings that derive completes s to: its variable names the class of the
\* leaf, once there is one.
Completions(h, r, s) ==
  LET d == Rules[r].derive
  IN  IF d = <<>> THEN {s}
      ELSE {[v \in DOMAIN s \cup {d[1]} |-> IF v = d[1] THEN c ELSE s[v]] :
              c \in Places(h, s)[d[2]]}

\* A firing is done when the class holds the right-hand side already.
DoneAt(h, r, s, c) ==
  \E d \in Completions(h, r, s) : c \in Places(h, d)[Rules[r].rhs]

\* A rule that fires on all its matches: none is capped, vetoed, or abandoned
\* because the right-hand side has a variable that nothing binds.
Exhaustive(r) ==
  /\ ~Budgeted(r) /\ ~Rules[r].checked
  /\ LET d == Rules[r].derive
     IN  VarsOf(Rules[r].rhs) \subseteq
           VarsOf(Rules[r].lhs) \cup (IF d = <<>> THEN {} ELSE {d[1]})

\* A run takes the whole frontier, for the rules of its own set: those applied
\* before and not among them never see it.
Missing(R) == IF Frontier(g) = {} THEN {} ELSE applied \ R

\* The enodes that one firing can mint: its right-hand side, and the leaf.
Minted(r) ==
  Cardinality({q \in Parts[Rules[r].rhs] : ~IsVar(q)})
    + (IF Rules[r].derive = <<>> THEN 0 ELSE 1)

-----------------------------------------------------------------------------
(* What the sides of a rule mean. *)

\* What p means when its variables mean val and its children what value says.
ValueAt(val, value, p) ==
  CASE IsVar(p)    -> val[p[2]]
    [] IsConst(p)  -> Denote("leaf", p[2], <<>>)
    [] Compound(p) -> Denote(p[1], NoKey, [k \in DOMAIN p[2] |-> value[p[2][k]]])

PatternValue(val) ==
  LET value[p \in Patterns] == ValueAt(val, value, p)
  IN  value

\* The variable of derive means what its leaf does.
Completed(r, val) ==
  LET d == Rules[r].derive
  IN  IF d = <<>> THEN val
      ELSE [v \in DOMAIN val \cup {d[1]} |->
              IF v = d[1] THEN Denote("leaf", d[2][2], <<>>) ELSE val[v]]

\* The rule is true of what its variables mean: its sides mean the same, when
\* nothing in the right-hand side is unbound.
Holds(r, val) ==
  LET full == Completed(r, val)
  IN  VarsOf(Rules[r].rhs) \subseteq DOMAIN full =>
        PatternValue(val)[Rules[r].lhs] = PatternValue(full)[Rules[r].rhs]

-----------------------------------------------------------------------------
(* Correctness. *)

\* The eligibility index is an existence filter: no class is filtered out that
\* has the shape of the left-hand side, so none where the rule matches
\* (_candidate_classes, _head_ok).
FilterKeepsMatches ==
  \A r \in RuleNames : \A c \in Places(g, <<>>)[Rules[r].lhs] :
    /\ Headed(Rules[r].lhs) => c \in Eligible(g, Rules[r].lhs)
    /\ HeadOk(g, Rules[r].lhs, c)

\* "A class outside the frontier cannot produce a match that was not already
\* produced" (run): between iterations, a rule that has scanned this graph
\* has no work left anywhere but in the frontier, unless a run of another rule
\* set has taken a frontier since.
FrontierComplete ==
  stage \in {"idle", "loop"} =>
    \A r \in applied \ missed : Exhaustive(r) =>
      \A s \in Bindings(g, r) : \A c \in Places(g, s)[Rules[r].lhs] :
        c \in Frontier(g) \/ DoneAt(g, r, s, c)

\* A rule under a budget adds at most that many right-hand sides over all the
\* runs of a graph, whatever reopened its frontier.
BudgetBounds ==
  \A r \in DOMAIN Budgets : spent[r] <= Budgets[r] * Minted(r)
=============================================================================
