---------------------------- MODULE MCSaturation ----------------------------
(***************************************************************************)
(* Saturation with the laws of an abelian group: neg, add and the leaves   *)
(* 0, x and y.  A term means its coefficients of x and y.                  *)
(***************************************************************************)
EXTENDS Saturation

MCOpOrder  == <<"add", "leaf", "neg">>
MCKeyOrder == <<"none", "0", "x", "y">>

u == <<"?", "u">>
v == <<"?", "v">>
w == <<"?", "w">>
zero == <<"leaf", "0">>
x    == <<"leaf", "x">>
y    == <<"leaf", "y">>
neg(p)    == <<"neg", <<p>>>>
add(p, q) == <<"add", <<p, q>>>>

MCDenote(op, key, vals) ==
  CASE op = "leaf" -> [c \in {"x", "y"} |-> IF key = c THEN 1 ELSE 0]
    [] op = "neg"  -> [c \in {"x", "y"} |-> 0 - vals[1][c]]
    [] op = "add"  -> [c \in {"x", "y"} |-> vals[1][c] + vals[2][c]]

law(l, r) == [lhs |-> l, rhs |-> r, checked |-> FALSE, derive |-> <<>>]
MCRules ==
  [negneg  |-> law(neg(neg(u)), u),
   addzero |-> law(add(u, zero), u),
   cancel  |-> law(add(u, neg(u)), zero),
   push    |-> law(neg(add(neg(u), v)), add(u, neg(v))),
   comm    |-> law(add(u, v), add(v, u)),
   assoc   |-> law(add(add(u, v), w), add(u, add(v, w))),
   fold    |-> [lhs |-> neg(zero), rhs |-> <<"?", "c">>, checked |-> TRUE,
                derive |-> <<"c", zero>>]]

\* The patterns of some rules, and what each is built of.
RECURSIVE BuiltOf(_)
BuiltOf(p) == IF p[1] \in {"?", "leaf"} THEN {p} ELSE {p} \cup UNION {BuiltOf(q) : q \in Kids(p)}
PatternsOf(rules) ==
  [p \in UNION {BuiltOf(rules[r].lhs) \cup BuiltOf(rules[r].rhs)
                 \cup {rules[r].derive[i] : i \in DOMAIN rules[r].derive \ {1}} : r \in DOMAIN rules}
     |-> BuiltOf(p)]
MCParts == PatternsOf(MCRules)

Alternating  == {{"addzero", "cancel"}, {"addzero", "push"}}
Explosive    == {{"assoc", "comm", "fold"}}

NoBudgets    == <<>>
SmallBudgets == [assoc |-> 1, comm |-> 2]

Tracked == {TRUE}
Either  == BOOLEAN

\* ((x + 0) + x) + -(x + x): it is 0 by cancel, once congruence has closed.
LateZero == add(add(add(x, zero), x), neg(add(x, x)))
\* -((-x + 0) + y): push matches at the root once addzero fires two below.
Deep     == neg(add(add(neg(x), zero), y))
Chain    == add(add(x, y), neg(zero))

SimpleTerms == {LateZero, Deep}
ChainTerms  == {Chain}
-----------------------------------------------------------------------------
(* The rules hold of whatever their variables mean. *)

SampleValues == [{"x", "y"} -> -1 .. 1]

ASSUME RulesHold ==
  \A r \in RuleNames : \A val \in [VarsOf(Rules[r].lhs) -> SampleValues] : Holds(r, val)

-----------------------------------------------------------------------------
(* The enumeration finds the matches, and those only; capped, some of them. *)

SampleGraphs ==
  LET Grown(t) == AddTerm(Empty(TRUE), t).g
      Squashed(t) == Union(Union(Grown(t), 1, 2), 3, 5)
  IN  {Grown(LateZero), Squashed(LateZero), Rebuild(Squashed(LateZero)), Squashed(Deep),
       Rebuild(Squashed(Chain))}

ASSUME MatchIsExact ==
  \A h \in SampleGraphs, r \in RuleNames : \A c \in Roots(h) :
    LET found(limit) == Match(h, Rules[r].lhs, c, <<>>, limit)
        bindings(limit) == {found(limit)[i] : i \in DOMAIN found(limit)}
    IN  /\ bindings(NoLimit) = {s \in Bindings(h, r) : c \in Places(h, s)[Rules[r].lhs]}
        /\ \A limit \in 1 .. 3 :
             Len(found(limit)) <= limit /\ bindings(limit) \subseteq bindings(NoLimit)
=============================================================================
