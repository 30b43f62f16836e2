----------------------------- MODULE EGraphSteps -----------------------------
(***************************************************************************)
(* The e-graph of catopt_core/egraph/core.py as a machine: any sequence of *)
(* add_enode, union, canonicalise, rebuild and the clearing of the         *)
(* frontier, at the grain of their loops.  union takes one class off the   *)
(* stack of its upward walk at a time, and _close_congruence one item of   *)
(* its worklist, then one merge, at a time.                                *)
(*                                                                         *)
(* The operations of module EGraph, and with them every step of module     *)
(* Saturation, are sequences of these steps, whatever the rules, the       *)
(* policy and the order of the worklist: a merge there follows the walk    *)
(* with breadth, here in any order.  The tables of provenance are carried  *)
(* along and no property here is about them.                               *)
(***************************************************************************)
EXTENDS GraphInvariants

CONSTANTS
  Ops,       \* the operators
  Keys,      \* the attributes of enodes
  MaxArity,  \* bound: children of an enode
  MaxId      \* bound: classes minted

VARIABLES
  walk,      \* stack of union: the classes whose parents are still to be read
  work,      \* items of _cong_pend that _close_congruence has taken
  merges,    \* the pairs it is to union once they are all claimed
  searched   \* history: the graph when run last took its frontier

vars == <<g, walk, work, merges, searched>>

\* The values _track may be built with, and nothing in hand.
Init ==
  /\ \E track \in BOOLEAN : g = Empty(track)
  /\ walk = {} /\ work = {} /\ merges = <<>> /\ searched = g

quiet == walk = {} /\ work = {} /\ merges = <<>>

\* add_enode, with the children resolved, when the hash-consing table has none.
Add ==
  /\ quiet
  /\ Len(g.canon) < MaxId
  /\ \E op \in Ops, key \in Keys, k \in (0 .. MaxArity) \cap Nat :
       \E kids \in [1 .. k -> Roots(g)] :
         /\ <<op, kids, key>> \notin DOMAIN g.cons
         /\ g' = AddNode(g, <<op, kids, key>>)
  /\ UNCHANGED <<walk, work, merges, searched>>

\* Two roots are linked, and the upward walk starts at the winner.
Link(ra, rb) ==
  /\ ra # rb
  /\ g' = Merge(g, Winner(g, ra, rb), Loser(g, ra, rb))
  /\ walk' = {Winner(g, ra, rb)}

\* union, which a caller may ask for any two classes ...
Unite ==
  /\ quiet
  /\ \E a, b \in DOMAIN g.canon : Link(Find(g, a), Find(g, b))
  /\ UNCHANGED <<work, merges, searched>>

\* ... and does ask for classes that mean the same.
UniteEquals ==
  /\ quiet
  /\ \E a, b \in DOMAIN g.canon :
       /\ Meanings(g)[a] = Meanings(g)[b]
       /\ Link(Find(g, a), Find(g, b))
  /\ UNCHANGED <<work, merges, searched>>

\* One turn of the loop of union that dirties what is above the winner.
WalkUp ==
  /\ \E c \in walk :
       /\ g' = [g EXCEPT !.dirty = @ \cup Above(g, c)]
       /\ walk' = (walk \ {c}) \cup Above(g, c)
  /\ UNCHANGED <<work, merges, searched>>

\* run takes the frontier.
TakeFrontier ==
  /\ quiet
  /\ g' = Cleared(g)
  /\ searched' = g
  /\ UNCHANGED <<walk, work, merges>>

\* One class of canonicalise.
CanonicaliseRoot ==
  /\ quiet
  /\ \E r \in Roots(g) : g' = CanonicaliseClass(g, r)
  /\ UNCHANGED <<walk, work, merges, searched>>

\* _close_congruence takes the worklist.
TakeWork ==
  /\ quiet /\ g.pend # {}
  /\ work' = g.pend
  /\ g' = [g EXCEPT !.pend = {}]
  /\ UNCHANGED <<walk, merges, searched>>

ClaimItem ==
  /\ walk = {}
  /\ \E item \in work :
       LET claimed == Claim([g |-> g, merges |-> merges], item)
       IN  /\ g' = claimed.g
           /\ merges' = claimed.merges
           /\ work' = work \ {item}
  /\ UNCHANGED <<walk, searched>>

\* The next pair is merged, unless an earlier merge has done so.
MergeNext ==
  /\ walk = {} /\ work = {} /\ merges # <<>>
  /\ LET ra == Find(g, Head(merges)[1])
         rb == Find(g, Head(merges)[2])
     IN  \/ Link(ra, rb)
         \/ ra = rb /\ UNCHANGED <<g, walk>>
  /\ merges' = Tail(merges)
  /\ UNCHANGED <<work, searched>>

Upkeep ==
  \/ Add \/ WalkUp \/ TakeFrontier \/ CanonicaliseRoot
  \/ TakeWork \/ ClaimItem \/ MergeNext

\* Whatever is united ...
Next == Unite \/ Upkeep
Spec == Init /\ [][Next]_vars

\* ... and only equals.
LawfulNext == UniteEquals \/ Upkeep
LawfulSpec == Init /\ [][LawfulNext]_vars

-----------------------------------------------------------------------------
(* The classes, as the blocks of a partition: what the forest of module      *)
(* EpochUnionFind implements, the compressed paths here do too.              *)

Blocks(h) == {{i \in DOMAIN h.canon : Find(h, i) = r} : r \in Roots(h)}

Abstract == INSTANCE Partition WITH blocks <- Blocks(g), MaxId <- MaxId + 1

\* No step does to the classes what a partition does not: re-keying, claims,
\* walks and searches leave them alone, and a congruence merge is a merge.
ClassesArePartition == Abstract!Spec

-----------------------------------------------------------------------------
(* Correctness, besides GraphInvariants, which hold once a walk is over and  *)
(* the claims are all merged.                                               *)

\* With the worklist empty no two classes hold the same enode, up to the
\* canonical ids of its children (what rebuild promises).
RebuiltIsCongruent ==
  quiet /\ g.pend = {} =>
    \A r, s \in Roots(g) : \A n \in g.nodes[r], m \in g.nodes[s] :
      Resolved(g, n) = Resolved(g, m) => r = s

\* The index by operator and arity holds a class exactly when it has such a
\* member: the eligibility filter of apply_rule drops no class that matches,
\* and keeps none that has lost its members (_opk).
IndexIsExact ==
  g.opk = UNION {{<<HeadOf(n), r>> : n \in g.nodes[r]} : r \in Roots(g)}

\* Once rebuilt, a tracking graph finds every member in the hash-consing table,
\* at its own class: adding a term of the graph again mints nothing
\* (_inherit_provenance hash-conses what was re-keyed).
RebuiltIsConsed ==
  quiet /\ g.pend = {} /\ g.track =>
    \A r \in Roots(g) : \A n \in g.nodes[r] :
      n \in DOMAIN g.cons /\ Find(g, g.cons[n]) = r

\* The canonical forms of the enodes in old.
Forms(h, old) == {Resolved(h, n) : n \in old}

\* A class that is not dirty is as it was when the frontier was last taken, and
\* nothing below it is dirty either: so all of it is as it was, and no rule, of
\* any depth, matches there anew (the incremental search of run).
CleanIsAsSearched ==
  quiet =>
    \A r \in Roots(g) \ Frontier(g) :
      /\ r \in Roots(searched) /\ Forms(g, g.nodes[r]) = Forms(searched, searched.nodes[r])
      /\ \A n \in Forms(g, g.nodes[r]) : Kids(n) \cap Frontier(g) = {}

\* A lookup never changes what an enode means: a hit in the hash-consing table
\* and an owner of a congruence claim mean what the enode does, fresh or stale.
LookupsAreSound ==
  LET mean == Meanings(g)
  IN  /\ \A n \in DOMAIN g.cons : ValueOf(n, mean) = mean[Find(g, g.cons[n])]
      /\ \A n \in DOMAIN g.owner : ValueOf(n, mean) = mean[Find(g, g.owner[n])]
      /\ \A i \in DOMAIN merges : mean[merges[i][1]] = mean[merges[i][2]]
=============================================================================
