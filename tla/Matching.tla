------------------------------ MODULE Matching ------------------------------
(***************************************************************************)
(* Where a pattern matches an e-graph, as a relation: the class holds the  *)
(* term that a binding of the pattern's variables makes of it.  Module     *)
(* EGraph has the enumeration that finds these bindings one by one         *)
(* (_m_stream, _m_bounded); here are the filters that decide which classes *)
(* are enumerated at all (_candidate_classes, _head_ok).                   *)
(*                                                                         *)
(* A pattern, or a term (a pattern without variables), is                  *)
(*   <<"?", name>>, <<"leaf", key>> or <<op, <<pattern, ...>>>>.           *)
(* A binding is a function from the names of variables to class ids.       *)
(***************************************************************************)
EXTENDS EGraphTables

CONSTANT Parts   \* pattern -> the patterns it is built of, itself included

Patterns    == DOMAIN Parts
IsVar(p)    == p[1] = "?"
IsConst(p)  == p[1] = "leaf"
Compound(p) == ~IsVar(p) /\ ~IsConst(p)
LeafNode(p) == <<"leaf", <<>>, p[2]>>

\* Patterns are finite terms: none is built of itself.
ASSUME PatternsAreTerms ==
  /\ IsFiniteSet(Patterns)
  /\ \A p \in Patterns :
       /\ p \in Parts[p] /\ Parts[p] \subseteq Patterns
       /\ ~Compound(p) => Parts[p] = {p}
       /\ Compound(p) =>
            /\ p[2] \in Seq(Patterns)
            /\ Parts[p] = {p} \cup UNION {Parts[q] : q \in Kids(p)}
            /\ \A q \in Kids(p) : p \notin Parts[q]

-----------------------------------------------------------------------------
(* Where patterns occur. *)

\* The classes where p occurs when its children do at the classes `at`.
Occurs(g, s, at, p) ==
  LET below == [k \in DOMAIN p[2] |-> at[p[2][k]]]
  IN  {c \in Roots(g) :
         \/ IsVar(p) /\ (p[2] \in DOMAIN s => c = Find(g, s[p[2]]))
         \/ IsConst(p) /\ LeafNode(p) \in DOMAIN g.cons /\ c = Find(g, g.cons[LeafNode(p)])
         \/ /\ Compound(p)
            /\ \E n \in g.nodes[c] :
                 /\ HeadOf(n) = HeadOf(p) /\ n[3] = NoKey
                 /\ \A k \in DOMAIN p[2] : Find(g, n[2][k]) \in below[k]}

\* The classes where each pattern occurs under a binding: a variable without
\* one, wherever a class is.
Places(g, s) ==
  LET at[p \in Patterns] == Occurs(g, s, at, p)
  IN  at

-----------------------------------------------------------------------------
(* Where they are looked for. *)

\* The classes with a member of the pattern's head shape, when it has one.
Headed(p) == ~IsVar(p)
Eligible(g, p) ==
  CASE IsVar(p)    -> {}
    [] IsConst(p)  -> {Find(g, g.cons[n]) : n \in {LeafNode(p)} \cap DOMAIN g.cons}
    [] Compound(p) -> {Find(g, e[2]) : e \in {x \in g.opk : x[1] = HeadOf(p)}}

\* Some such member of r has, where the pattern wants an operator, a child
\* class that contains one.
HeadOk(g, p, r) ==
  Compound(p) =>
    LET reqs == {k \in DOMAIN p[2] : Compound(p[2][k])}
    IN  reqs = {} \/
        \E n \in g.nodes[r] :
          /\ HeadOf(n) = HeadOf(p)
          /\ \A k \in reqs :
               \E e \in g.opk : e[1][1] = p[2][k][1] /\ e[2] = Find(g, n[2][k])
=============================================================================
