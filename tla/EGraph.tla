------------------------------- MODULE EGraph -------------------------------
(***************************************************************************)
(* The operations of catopt_core/egraph/core.py as functions from e-graphs *)
(* to e-graphs, composed of the primitives of EGraphTables.  Patterns and  *)
(* bindings are those of module Matching.                                  *)
(*                                                                         *)
(* Match reads one graph for a whole enumeration: module EpochUnionFind    *)
(* has the frozen reads, and the theorem that an enumeration reads the     *)
(* graph of the moment it started.                                         *)
(***************************************************************************)
EXTENDS EGraphTables

LOCAL INSTANCE SequencesExt

CONSTANTS
  OpOrder,   \* the operator names, in the order _member_key compares them
  KeyOrder   \* the keys of leaves and inner nodes, likewise

Ops  == {OpOrder[i]  : i \in DOMAIN OpOrder}
Keys == {KeyOrder[i] : i \in DOMAIN KeyOrder}

NoClass == 0  \* a binding that cannot realise the pattern (KeyError)

Ranked(S, Precedes(_, _)) ==
  [i \in 1 .. Cardinality(S) |->
     CHOOSE x \in S : Cardinality({y \in S : Precedes(y, x)}) = i - 1]
Ascending(S) == Ranked(S, LAMBDA a, b : a < b)

\* _member_key: enodes compare by operator, then children, then attributes.
MemberKey(n) ==
  <<CHOOSE i \in DOMAIN OpOrder : OpOrder[i] = n[1]>> \o n[2]
    \o <<CHOOSE i \in DOMAIN KeyOrder : KeyOrder[i] = n[3]>>
KeyBefore(s, t) ==
  \E i \in DOMAIN s \cap DOMAIN t :
    s[i] < t[i] /\ \A j \in 1 .. i - 1 : s[j] = t[j]

NodesOf(g, r, op) ==
  Ranked({n \in g.nodes[r] : n[1] = op},
         LAMBDA a, b : KeyBefore(MemberKey(a), MemberKey(b)))

-----------------------------------------------------------------------------
(* Adding enodes. *)

\* The class of an enode, minted when the hash-consing table has none.
Intern(g, n) ==
  IF n \in DOMAIN g.cons
  THEN [g |-> g, id |-> Find(g, g.cons[n]), top |-> <<n>>]
  ELSE [g |-> AddNode(g, n), id |-> Len(g.canon) + 1, top |-> <<n>>]

\* The class a pattern denotes under a binding, and the enode that heads it
\* (_inst_last_enode): add_term is the case of no variables.  The children
\* already built stay when a later one fails.
RECURSIVE Instantiate(_, _, _)
Instantiate(g, p, s) ==
  CASE p[1] = "?" ->
         [g |-> g, id |-> IF p[2] \in DOMAIN s THEN s[p[2]] ELSE NoClass,
          top |-> <<>>]
    [] p[1] = "leaf" -> Intern(g, <<"leaf", <<>>, p[2]>>)
    [] OTHER ->
         LET Child(acc, q) ==
               IF ~acc.ok THEN acc ELSE
               LET made == Instantiate(acc.g, q, s)
               IN  [g |-> made.g, ids |-> Append(acc.ids, made.id),
                    ok |-> made.id # NoClass]
             built == FoldLeft(Child, [g |-> g, ids |-> <<>>, ok |-> TRUE], p[2])
         IN  IF built.ok
             THEN Intern(built.g, Resolved(built.g, <<p[1], built.ids, NoKey>>))
             ELSE [g |-> built.g, id |-> NoClass, top |-> <<>>]

AddTerm(g, t) == Instantiate(g, t, <<>>)

-----------------------------------------------------------------------------
(* Merging classes. *)

\* Everything above a class is dirty; a class already dirty is not walked
\* again.
\* Bug: only the direct parents are dirtied.
DirtyParents(g, walk) ==
  [g EXCEPT !.dirty = @ \cup {Find(g, p) : p \in UNION {g.parents[c] : c \in walk}}]
RECURSIVE DirtyAbove(_, _)
DirtyAbove(g, walk) ==
  LET up == UNION {Above(g, c) : c \in walk}
  IN  IF up = {} THEN g ELSE DirtyAbove([g EXCEPT !.dirty = @ \cup up], up)

Link(g, winner, loser) == DirtyAbove(Merge(g, winner, loser), {winner})

Union(g, a, b) ==
  LET ra == Find(g, a)
      rb == Find(g, b)
  IN  IF ra = rb THEN g ELSE Link(g, Winner(g, ra, rb), Loser(g, ra, rb))

-----------------------------------------------------------------------------
(* Restoring canonical children and congruence. *)

Canonicalise(g, ids) ==
  FoldLeft(CanonicaliseClass, g, Ascending({Find(g, i) : i \in ids}))

RECURSIVE CloseCongruence(_)
CloseCongruence(g) ==
  IF g.pend = {} THEN g ELSE
  LET Before(p, q) == KeyBefore(MemberKey(p[2]) \o <<p[1]>>,
                                MemberKey(q[2]) \o <<q[1]>>)
      claimed == FoldLeft(Claim, [g |-> [g EXCEPT !.pend = {}], merges |-> <<>>],
                          Ranked(g.pend, Before))
  IN  CloseCongruence(FoldLeft(LAMBDA h, m : Union(h, m[1], m[2]),
                               claimed.g, claimed.merges))

Rebuild(g) == CloseCongruence(Canonicalise(g, Roots(g)))

-----------------------------------------------------------------------------
(* Matching. *)

\* A metavariable bound already must be bound to the same class.
Bind(s, name, r) ==
  CASE name \notin DOMAIN s -> <<s @@ (name :> r)>>
    [] name \in DOMAIN s -> IF s[name] = r THEN <<s>> ELSE <<>>

Reached(n, limit) == limit # NoLimit /\ n >= limit

\* The bindings extending s under which pattern p matches at class i, in
\* order, at most limit.  An enode whose own enumeration reaches the limit
\* before its last child is done contributes none.
RECURSIVE Match(_, _, _, _, _)
Match(g, p, i, s, limit) ==
  LET r == Find(g, i) IN
  CASE p[1] = "?" -> Bind(s, p[2], r)
    [] p[1] = "leaf" ->
         LET leaf == <<"leaf", <<>>, p[2]>>
         IN  IF leaf \in DOMAIN g.cons /\ Find(g, g.cons[leaf]) = r
             THEN <<s>> ELSE <<>>
    [] OTHER ->
         LET \* the bindings bs carried over the k-th child of member n
             Carry(n, have, bs, k) ==
               LET parts == [j \in DOMAIN bs |->
                               Match(g, p[2][k], n[2][k], bs[j], limit)]
               IN  IF bs = <<>> \/ Reached(have + Len(FlattenSeq(Front(parts))), limit)
                   THEN <<>> ELSE FlattenSeq(parts)
             Member(found, n) ==
               IF Reached(Len(found), limit) THEN found ELSE
               LET more == FoldLeft(LAMBDA bs, k : Carry(n, Len(found), bs, k),
                                    <<s>>, [k \in DOMAIN p[2] |-> k])
                   all == found \o more
               IN  IF Reached(Len(all), limit) THEN SubSeq(all, 1, limit) ELSE all
         IN  FoldLeft(Member, <<>>,
               SelectSeq(NodesOf(g, r, p[1]), LAMBDA n : Len(n[2]) = Len(p[2])))
=============================================================================
