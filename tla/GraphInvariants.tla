--------------------------- MODULE GraphInvariants ---------------------------
(***************************************************************************)
(* What the tables of an e-graph must satisfy between any two operations,  *)
(* whoever performs them: the saturation loop (module Saturation) or any   *)
(* sequence of the primitives (module EGraphSteps).                        *)
(***************************************************************************)
EXTENDS EGraphTables

CONSTANT Denote(_, _, _)  \* what an operator and a key make of the children's values

VARIABLE g                \* the e-graph

-----------------------------------------------------------------------------
(* What terms mean: a class id means what the enode it was minted for does. *)

Meanings(h) ==
  LET mean[i \in DOMAIN h.born] ==
        Denote(h.born[i][1], h.born[i][3],
               [k \in DOMAIN h.born[i][2] |-> mean[h.born[i][2][k]]])
  IN  mean

ValueOf(n, mean) == Denote(n[1], n[3], [k \in DOMAIN n[2] |-> mean[n[2][k]]])

\* Equal terms only share a class: whatever fired, was hash-consed, re-keyed
\* or merged by congruence, every member of a class means what the class
\* meant when it was minted (the soundness of apply_rule and rebuild).
MergesAreSound ==
  LET mean == Meanings(g)
  IN  /\ \A i \in DOMAIN g.canon : mean[i] = mean[Find(g, i)]
      /\ \A r \in Roots(g) : \A n \in g.nodes[r] : ValueOf(n, mean) = mean[r]

\* A hit in the hash-consing table is a member of the class it resolves to:
\* an entry goes stale only together with its children, so no lookup with
\* canonical children can find it (_node_to_class is never pruned).
HashconsIsLive ==
  \A n \in DOMAIN g.cons :
    Resolved(g, n) = n => n \in g.nodes[Find(g, g.cons[n])]

\* The comment in union: "p in _dirty prune is sound", because everything
\* above a dirty class is dirty, and every member is reachable from below.
PruneIsSound ==
  /\ \A c \in Frontier(g) : \A p \in g.parents[c] : Find(g, p) \in Frontier(g)
  /\ \A r \in Roots(g) : \A n \in g.nodes[r] : \A c \in Kids(n) :
       \E p \in g.parents[Find(g, c)] : Find(g, p) = r

\* Every member waits in the congruence worklist or is canonical and owned by
\* its own class; with the worklist empty no two classes hold one enode
\* (_cong_pend misses no enode that could need re-keying).
WorklistCoversCongruence ==
  \A r \in Roots(g) : \A n \in g.nodes[r] :
    \/ \E w \in g.pend : Find(g, w[1]) = r /\ w[2] = n
    \/ /\ Resolved(g, n) = n
       /\ n \in DOMAIN g.owner /\ Find(g, g.owner[n]) = r
=============================================================================
