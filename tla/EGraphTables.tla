---------------------------- MODULE EGraphTables ----------------------------
(***************************************************************************)
(* The tables of catopt_core/egraph/core.py, as a record, and what each    *)
(* primitive of the e-graph does to them: minting an enode, linking two    *)
(* roots, dirtying what is above a class, re-keying members, claiming a    *)
(* congruence item.  Module EGraph composes them into the operations the   *)
(* program calls, module EGraphSteps into a state machine with proofs.     *)
(*                                                                         *)
(* Class ids are 1, 2, ...  An enode is <<op, children, key>>; only a leaf *)
(* has a key.  canon is the union-find with its paths compressed: module   *)
(* EpochUnionFind has the forest itself.                                   *)
(***************************************************************************)
EXTENDS Integers, FiniteSets, Sequences, TLC

CONSTANT NoKey    \* the key of an inner node: it has no attributes

NoLimit == 0 - 1  \* max_results = None

Kids(n)   == {n[2][i] : i \in DOMAIN n[2]}
HeadOf(n) == <<n[1], Len(n[2])>>

\* An EGraph with truncation_level >= 2 (track) or = 1.
Empty(track) ==
  [track   |-> track,  \* _track
   canon   |-> <<>>,   \* find, for every id allocated
   rank    |-> <<>>,   \* UnionFind.rank
   nodes   |-> <<>>,   \* EClass.nodes of the live classes
   parents |-> <<>>,   \* _parents
   born    |-> <<>>,   \* the enode each class was minted for
   cons    |-> <<>>,   \* _node_to_class
   owner   |-> <<>>,   \* _cong_owner
   pend    |-> {},     \* _cong_pend
   dirty   |-> {},     \* _dirty
   opk     |-> {},     \* _opk, and _op_classes by its first component
   birth   |-> <<>>,   \* _enode_birth
   app     |-> <<>>,   \* _enode_app
   apps    |-> <<>>,   \* _applications
   fired   |-> <<>>]   \* _rule_objs, <<name, rule>> in the order of insertion

Find(g, i)  == g.canon[i]
Roots(g)    == {i \in DOMAIN g.canon : g.canon[i] = i}
n_enodes(g) == Cardinality(DOMAIN g.cons)
Frontier(g) == {Find(g, i) : i \in g.dirty}

\* An enode with canonically resolved children.
Resolved(g, n) == <<n[1], [i \in DOMAIN n[2] |-> Find(g, n[2][i])], n[3]>>

Without(f, S) == [x \in DOMAIN f \ S |-> f[x]]

\* f, and v at the elements of S where f has nothing.
WithDefault(f, S, v) ==
  [x \in DOMAIN f \cup S |-> IF x \in DOMAIN f THEN f[x] ELSE v]

-----------------------------------------------------------------------------
(* Adding enodes. *)

AddNode(g, n) ==
  LET id == Len(g.canon) + 1
      below == {Find(g, c) : c \in Kids(n)}
  IN  [g EXCEPT
        !.canon   = Append(@, id),
        !.rank    = Append(@, 0),
        !.nodes   = Append(@, {n}),
        !.parents = [i \in 1 .. id |->
                       IF i = id THEN {} ELSE
                       IF i \in below THEN @[i] \cup {id} ELSE @[i]],
        !.born    = Append(@, n),
        !.cons    = WithDefault(@, {n}, id),
        !.pend    = @ \cup {<<id, n>>},
        !.dirty   = @ \cup {id},
        !.opk     = @ \cup {<<HeadOf(n), id>>},
        !.birth   = IF g.track THEN WithDefault(@, {n}, id) ELSE @]

-----------------------------------------------------------------------------
(* Merging classes. *)

\* find after the union.
Repointed(canon, winner, loser) ==
  [i \in DOMAIN canon |-> IF canon[i] = loser THEN winner ELSE canon[i]]

\* A per-class table of sets after the winner takes over the loser's set.
\* Bug: the loser's set is dropped.
DropMoved(sets, winner, loser) == [sets EXCEPT ![loser] = {}]
Moved(sets, winner, loser) ==
  [sets EXCEPT ![winner] = @ \cup sets[loser], ![loser] = {}]

\* The members that re-key because a child of theirs resolved to the loser.
\* Bug: they are not queued for congruence.
RekeyNone(h, users, loser) == {}
Rekeyed(h, users, loser) ==
  UNION {{<<p, n>> : n \in {m \in h.nodes[p] : loser \in Kids(m)}} : p \in users}

\* The index after the loser's members have moved.
\* Bug: the winner is not indexed under them.
Unindexed(opk, moved, winner, loser) == {e \in opk : e \notin moved \X {loser}}
Reindexed(opk, moved, winner, loser) ==
  (opk \ (moved \X {loser})) \cup (moved \X {winner})

\* union of two roots, before it goes upward.
Merge(g, winner, loser) ==
  LET h == [g EXCEPT
              !.canon = Repointed(@, winner, loser),
              !.rank[winner] = IF @ = g.rank[loser] THEN @ + 1 ELSE @,
              !.nodes = Moved(@, winner, loser),
              !.parents = Moved(@, winner, loser),
              !.dirty = @ \cup {winner}]
      users == {Find(h, p) : p \in g.parents[loser]}
      moved == {HeadOf(n) : n \in g.nodes[loser]}
  IN  [h EXCEPT !.pend = @ \cup Rekeyed(h, users, loser),
                !.opk = Reindexed(@, moved, winner, loser)]

Winner(g, ra, rb) == IF g.rank[ra] < g.rank[rb] THEN rb ELSE ra
Loser(g, ra, rb)  == IF g.rank[ra] < g.rank[rb] THEN ra ELSE rb

\* The classes above c that its visit dirties: one already dirty is not
\* walked again ("p in _dirty prune is sound").
Above(g, c) == {Find(g, p) : p \in g.parents[c]} \ g.dirty

-----------------------------------------------------------------------------
(* The dirty set after an iteration of run has taken its frontier. *)

\* Bug: the canonical ids are dropped, ids merged away since stay dirty.
DropFrontier(g) == [g EXCEPT !.dirty = @ \ Frontier(g)]
Cleared(g) == [g EXCEPT !.dirty = {}]

-----------------------------------------------------------------------------
(* Restoring canonical children and congruence. *)

\* A provenance table after the members in old took their canonical form,
\* which keeps what it has and otherwise takes over that of a member it came
\* from: of which, when it came from two, is left to the order of the set.
Inherited(g, table, old) ==
  LET known == old \cap DOMAIN table
  IN  table @@ [n \in {Resolved(g, m) : m \in known} |->
                  table[CHOOSE m \in known : Resolved(g, m) = n]]

\* The members in old of class r take their canonical form.  Only a tracking
\* graph hash-conses the new form, and hands it the provenance of the old one
\* (_inherit_provenance).
Rekey(g, r, old) ==
  LET new == {Resolved(g, n) : n \in old}
      below == UNION {Kids(n) : n \in new}
  IN  [g EXCEPT
        !.nodes[r] = (@ \ old) \cup new,
        !.parents = [c \in DOMAIN @ |-> IF c \in below THEN @[c] \cup {r} ELSE @[c]],
        !.cons = IF g.track THEN WithDefault(@, new, r) ELSE @,
        !.birth = Inherited(g, @, old),
        !.app = Inherited(g, @, old)]

CanonicaliseClass(g, r) ==
  LET old == {n \in g.nodes[r] : Resolved(g, n) # n}
      disowned == {n \in old \cap DOMAIN g.owner : Find(g, g.owner[n]) = r}
  IN  [Rekey(g, r, old) EXCEPT
        !.owner = Without(@, disowned),
        !.pend = @ \cup {<<r, Resolved(g, n)>> : n \in old}]

\* One item <<class, enode>> of the worklist: re-key it, claim it, and note
\* the merge when another class has claimed the same canonical enode.
Claim(acc, item) ==
  LET g == acc.g
      r == Find(g, item[1])
      n == item[2]
      nn == Resolved(g, n)
      h == IF nn # n /\ n \in g.nodes[r]
           THEN [Rekey(g, r, {n}) EXCEPT !.owner = Without(@, {n})]
           ELSE g
      owner == WithDefault(h.owner, {nn}, r)
  IN  IF nn \notin h.nodes[r] THEN [acc EXCEPT !.g = h] ELSE
      [g |-> [h EXCEPT !.owner = owner],
       merges |-> IF Find(h, owner[nn]) = r THEN acc.merges
                  ELSE Append(acc.merges, <<owner[nn], r>>)]
=============================================================================
