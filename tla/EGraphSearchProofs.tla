-------------------------- MODULE EGraphSearchProofs --------------------------
(***************************************************************************)
(* What the incremental search, the hash-consing table and the classes of  *)
(* an e-graph promise, on top of the invariants of EGraphStepsProofs.      *)
(*                                                                         *)
(* Fresh: a class that is not dirty holds what it held when the frontier   *)
(* was last taken, or the upward walk has still to visit a child of it.    *)
(* Known: a tracking graph has hash-consed every member, in whatever form. *)
(***************************************************************************)
EXTENDS EGraphStepsProofs

Fresh(h, s, W) ==
  \A r \in Roots(h) \ Frontier(h) :
    \/ \E n \in h.nodes[r] : \E c \in Kids(n) : Find(h, c) \in W
    \/ r \in Roots(s) /\ Forms(h, h.nodes[r]) = Forms(s, s.nodes[r])

Known(h) == h.track => \A i \in Ids(h) : h.nodes[i] \subseteq DOMAIN h.cons

-----------------------------------------------------------------------------
(* The primitives that change classes. *)

LEMMA TrackIsKept ==
  ASSUME NEW h, DOMAIN h = Fields, NEW n, NEW w, NEW l, NEW r, NEW old
  PROVE  /\ AddNode(h, n).track = h.track
         /\ Merge(h, w, l).track = h.track
         /\ Rekey(h, r, old).track = h.track
<1>1. AddNode(h, n).track = h.track
  BY DEF AddNode, Fields
<1>2. Merge(h, w, l).track = h.track
  BY DEF Merge, Fields
<1>3. Rekey(h, r, old).track = h.track
  BY DEF Rekey, Fields
<1> QED
  BY <1>1, <1>2, <1>3

\* Children that keep their class keep the form of the enode.
LEMMA SameForm ==
  ASSUME NEW h, NEW f, NEW n, \A c \in Kids(n) : Find(f, c) = Find(h, c)
  PROVE  Resolved(f, n) = Resolved(h, n)
BY DEF Resolved, Kids

LEMMA SameForms ==
  ASSUME NEW h, NEW f, NEW S, \A n \in S : Resolved(f, n) = Resolved(h, n)
  PROVE  Forms(f, S) = Forms(h, S)
BY DEF Forms

\* A minted class is dirty, and no other class changes.
LEMMA AddNodeFresh ==
  ASSUME NEW h, Tables(h), Numbered(h), NEW n \in Enodes(Roots(h)), NEW s, Fresh(h, s, {})
  PROVE  Fresh(AddNode(h, n), s, {})
<1> DEFINE f == AddNode(h, n)  id == Len(h.canon) + 1
<1>1. /\ id \notin Ids(h) /\ Find(f, id) = id /\ Roots(f) = Roots(h) \cup {id}
      /\ \A i \in Ids(h) : Find(f, i) = Find(h, i) /\ f.nodes[i] = h.nodes[i]
      /\ \A m \in Enodes(Ids(h)) : Resolved(f, m) = Resolved(h, m)
  BY AddNodeShape
<1>2. /\ DOMAIN h = Fields /\ Roots(h) \subseteq Ids(h) /\ h.dirty \subseteq Ids(h)
      /\ h.nodes \in [Ids(h) -> SUBSET Enodes(Ids(h))]
  BY RootFacts DEF Tables
<1>3. f.dirty = h.dirty \cup {id}
  BY <1>2, AddNodeTables
<1> HIDE DEF f, id
<1>4. Frontier(f) = Frontier(h) \cup {id}
  BY <1>1, <1>2, <1>3 DEF Frontier
<1> SUFFICES ASSUME NEW r \in Roots(f) \ Frontier(f)
             PROVE  r \in Roots(s) /\ Forms(f, f.nodes[r]) = Forms(s, s.nodes[r])
  BY DEF Fresh, f
<1>5. r \in Roots(h) \ Frontier(h) /\ r \in Ids(h) /\ f.nodes[r] = h.nodes[r]
  BY <1>1, <1>2, <1>4
<1>6. Forms(f, h.nodes[r]) = Forms(h, h.nodes[r])
  BY <1>1, <1>2, <1>5, SameForms
<1> QED
  BY <1>5, <1>6 DEF Fresh

\* The winner is dirty; whoever has the loser for a child is to be reached.
LEMMA MergeFresh ==
  ASSUME NEW h, Tables(h), NEW w \in Roots(h), NEW l \in Roots(h), w # l, NEW s, Fresh(h, s, {})
  PROVE  Fresh(Merge(h, w, l), s, {w})
<1> DEFINE f == Merge(h, w, l)
<1>1. /\ Roots(f) = Roots(h) \ {l}
      /\ \A i \in Ids(h) : Find(f, i) = IF Find(h, i) = l THEN w ELSE Find(h, i)
      /\ \A i \in Ids(h) \ {w, l} : f.nodes[i] = h.nodes[i]
  BY MergeShape
<1>2. /\ DOMAIN h = Fields /\ Roots(h) \subseteq Ids(h) /\ h.dirty \subseteq Ids(h)
      /\ Find(h, w) = w /\ h.nodes \in [Ids(h) -> SUBSET Enodes(Ids(h))]
  BY RootFacts DEF Tables
<1>3. f.dirty = h.dirty \cup {w}
  BY <1>2, MergeTables
<1> HIDE DEF f
<1>4. w \in Frontier(f) /\ \A i \in Frontier(h) : i = l \/ i \in Frontier(f)
  BY <1>1, <1>2, <1>3 DEF Frontier
<1> SUFFICES ASSUME NEW r \in Roots(f) \ Frontier(f),
                    ~ \E n \in f.nodes[r] : \E c \in Kids(n) : Find(f, c) \in {w}
             PROVE  r \in Roots(s) /\ Forms(f, f.nodes[r]) = Forms(s, s.nodes[r])
  BY DEF Fresh, f
<1>5. r \in Roots(h) \ Frontier(h) /\ r \in Ids(h) /\ f.nodes[r] = h.nodes[r]
  BY <1>1, <1>2, <1>4
<1>6. \A n \in h.nodes[r] : Resolved(f, n) = Resolved(h, n)
  <2> SUFFICES ASSUME NEW n \in h.nodes[r], NEW c \in Kids(n) PROVE Find(f, c) = Find(h, c)
    BY SameForm
  <2>1. n \in Enodes(Ids(h))
    BY <1>2, <1>5
  <2>2. c \in Ids(h)
    BY <2>1, EnodeParts
  <2> QED
    BY <1>1, <1>5, <2>2
<1>7. Forms(f, h.nodes[r]) = Forms(h, h.nodes[r])
  BY <1>6, SameForms
<1> QED
  BY <1>5, <1>7 DEF Fresh

\* What a visit of c finds above it is dirty then, and nothing else was to be
\* reached from c.
LEMMA WalkFresh ==
  ASSUME NEW h, Tables(h), PruneDown(h), NEW W, NEW c \in W, NEW s, Fresh(h, s, W)
  PROVE  Fresh([h EXCEPT !.dirty = @ \cup Above(h, c)], s, (W \ {c}) \cup Above(h, c))
<1> DEFINE U == Above(h, c)  f == [h EXCEPT !.dirty = @ \cup U]  V == (W \ {c}) \cup U
<1>1. /\ DOMAIN h = Fields /\ Roots(h) \subseteq Ids(h) /\ h.dirty \subseteq Ids(h)
      /\ \A i \in Roots(h) : Find(h, i) = i
      /\ \A i \in Ids(h) : h.parents[i] \subseteq Ids(h)
  BY RootFacts DEF Tables
<1>2. \A p \in h.parents[c] : Find(h, p) \in h.dirty \cup U
  BY DEF Above
<1> HIDE DEF U
<1>3. f.dirty = h.dirty \cup U /\ f.canon = h.canon /\ f.nodes = h.nodes
  BY <1>1 DEF Fields
<1> HIDE DEF f
<1>4. /\ Roots(f) = Roots(h) /\ \A i : Find(f, i) = Find(h, i)
      /\ \A n : Resolved(f, n) = Resolved(h, n)
  BY <1>3 DEF Roots, Find, Resolved
<1> SUFFICES ASSUME NEW r \in Roots(f) \ Frontier(f)
             PROVE  \/ \E n \in f.nodes[r] : \E k \in Kids(n) : Find(f, k) \in V
                    \/ r \in Roots(s) /\ Forms(f, f.nodes[r]) = Forms(s, s.nodes[r])
  BY DEF Fresh, f, U
<1>5. r \in Roots(h) /\ r \notin h.dirty /\ r \notin U /\ r \notin Frontier(h) /\ Find(h, r) = r
  BY <1>1, <1>3, <1>4 DEF Frontier
<1>6. CASE \E n \in h.nodes[r] : \E k \in Kids(n) : Find(h, k) \in W
  <2>0. PICK n \in h.nodes[r] : \E k \in Kids(n) : Find(h, k) \in W
    BY <1>6
  <2>1. PICK k \in Kids(n) : Find(h, k) \in W
    BY <2>0
  <2>2. Find(h, k) # c
    <3> SUFFICES ASSUME Find(h, k) = c PROVE FALSE
      OBVIOUS
    <3>1. PICK p \in h.parents[c] : Find(h, p) = r
      BY <1>5, <2>1 DEF PruneDown
    <3> QED
      BY <1>2, <1>5, <3>1
  <2> QED
    BY <1>3, <1>4, <2>1, <2>2
<1>7. CASE r \in Roots(s) /\ Forms(h, h.nodes[r]) = Forms(s, s.nodes[r])
  BY <1>3, <1>4, <1>7, SameForms
<1> QED
  BY <1>5, <1>6, <1>7 DEF Fresh

\* Members that take their canonical form are what they were.
LEMMA RekeyFresh ==
  ASSUME NEW h, Tables(h), NEW r \in Roots(h), NEW old \in SUBSET h.nodes[r],
         NEW s, Fresh(h, s, {})
  PROVE  Fresh(Rekey(h, r, old), s, {})
<1> DEFINE f == Rekey(h, r, old)
<1>1. /\ Roots(f) = Roots(h) /\ f.canon = h.canon
      /\ \A n : Resolved(f, n) = Resolved(h, n)
      /\ f.nodes[r] = (h.nodes[r] \ old) \cup Forms(h, old)
      /\ \A i \in Ids(h) \ {r} : f.nodes[i] = h.nodes[i]
  BY RekeyShape
<1>2. DOMAIN h = Fields /\ Forest(h) /\ Roots(h) \subseteq Ids(h)
      /\ h.nodes \in [Ids(h) -> SUBSET Enodes(Ids(h))]
  BY RootFacts DEF Tables
<1>3. f.dirty = h.dirty
  BY <1>2, RekeyTables
<1> HIDE DEF f
<1>4. Frontier(f) = Frontier(h)
  BY <1>1, <1>3 DEF Frontier, Find
<1>5. \A n \in h.nodes[r] : Resolved(h, Resolved(h, n)) = Resolved(h, n)
  BY <1>2, ResolvedEnode
<1>6. Forms(f, f.nodes[r]) = Forms(h, h.nodes[r])
  BY <1>1, <1>5 DEF Forms
<1>7. \A i \in Roots(h) : Forms(f, f.nodes[i]) = Forms(h, h.nodes[i])
  <2> SUFFICES ASSUME NEW i \in Roots(h), i # r PROVE Forms(f, f.nodes[i]) = Forms(h, h.nodes[i])
    BY <1>6
  <2> QED
    BY <1>1, <1>2, SameForms
<1>8. \A i \in Roots(f) \ Frontier(f) :
        i \in Roots(s) /\ Forms(f, f.nodes[i]) = Forms(s, s.nodes[i])
  BY <1>1, <1>4, <1>7 DEF Fresh
<1> QED
  BY <1>8 DEF Fresh, f

-----------------------------------------------------------------------------
(* The hash-consing table. *)

LEMMA AddNodeKnown ==
  ASSUME NEW h, Tables(h), Numbered(h), NEW n \in Enodes(Roots(h)), Known(h)
  PROVE  Known(AddNode(h, n))
<1> DEFINE f == AddNode(h, n)  id == Len(h.canon) + 1
<1>1. /\ Ids(f) = Ids(h) \cup {id} /\ f.nodes[id] = {n}
      /\ \A i \in Ids(h) : f.nodes[i] = h.nodes[i]
  BY AddNodeShape
<1>2. DOMAIN h = Fields
  BY DEF Tables
<1>3. f.cons = WithDefault(h.cons, {n}, id) /\ f.track = h.track
  BY <1>2, AddNodeTables, TrackIsKept
<1>4. DOMAIN f.cons = DOMAIN h.cons \cup {n}
  BY <1>3 DEF WithDefault
<1> QED
  BY <1>1, <1>3, <1>4 DEF Known

LEMMA MergeKnown ==
  ASSUME NEW h, Tables(h), NEW w \in Roots(h), NEW l \in Roots(h), w # l, Known(h)
  PROVE  Known(Merge(h, w, l))
<1> DEFINE f == Merge(h, w, l)
<1>1. /\ Ids(f) = Ids(h)
      /\ f.nodes[w] = h.nodes[w] \cup h.nodes[l] /\ f.nodes[l] = {}
      /\ \A i \in Ids(h) \ {w, l} : f.nodes[i] = h.nodes[i]
  BY MergeShape
<1>2. DOMAIN h = Fields /\ w \in Ids(h) /\ l \in Ids(h)
  BY RootFacts
<1>3. f.cons = h.cons /\ f.track = h.track
  BY <1>2, MergeClasses, TrackIsKept
<1> QED
  BY <1>1, <1>2, <1>3 DEF Known

LEMMA RekeyKnown ==
  ASSUME NEW h, Tables(h), NEW r \in Roots(h), NEW old \in SUBSET h.nodes[r], Known(h)
  PROVE  Known(Rekey(h, r, old))
<1> DEFINE f == Rekey(h, r, old)
<1>1. /\ Ids(f) = Ids(h)
      /\ f.nodes[r] = (h.nodes[r] \ old) \cup Forms(h, old)
      /\ \A i \in Ids(h) \ {r} : f.nodes[i] = h.nodes[i]
  BY RekeyShape
<1>2. DOMAIN h = Fields /\ r \in Ids(h)
  BY RootFacts
<1>3. /\ f.cons = IF h.track THEN WithDefault(h.cons, Forms(h, old), r) ELSE h.cons
      /\ f.track = h.track
  BY <1>2, RekeyCons, TrackIsKept
<1>4. h.track => DOMAIN f.cons = DOMAIN h.cons \cup Forms(h, old)
  BY <1>3 DEF WithDefault
<1> QED
  BY <1>1, <1>2, <1>3, <1>4 DEF Known
-----------------------------------------------------------------------------
(* canonicalise and the claim of an item: a re-key, and other owners. *)

LEMMA SameClassesFresh ==
  ASSUME NEW f, NEW k, SameClasses(f, k), f.track = k.track, NEW s, Fresh(k, s, {}), Known(k)
  PROVE  Fresh(f, s, {}) /\ Known(f)
<1>1. /\ Ids(f) = Ids(k) /\ Roots(f) = Roots(k) /\ Frontier(f) = Frontier(k)
      /\ \A n : Resolved(f, n) = Resolved(k, n)
  BY SameClassesKeep
<1>2. f.nodes = k.nodes /\ f.cons = k.cons
  BY DEF SameClasses
<1>3. \A i : Forms(f, f.nodes[i]) = Forms(k, k.nodes[i])
  BY <1>1, <1>2, SameForms
<1>4. Fresh(f, s, {})
  BY <1>1, <1>3 DEF Fresh
<1> QED
  BY <1>1, <1>2, <1>4 DEF Known

LEMMA CanonicaliseFresh ==
  ASSUME NEW h, Tables(h), NEW r \in Roots(h), NEW s, Fresh(h, s, {}), Known(h)
  PROVE  Fresh(CanonicaliseClass(h, r), s, {}) /\ Known(CanonicaliseClass(h, r))
<1> DEFINE f == CanonicaliseClass(h, r)  k == Rekey(h, r, Stale(h, r))
<1>1. Stale(h, r) \in SUBSET h.nodes[r] /\ DOMAIN h = Fields
  BY RootFacts DEF Stale
<1>2. Fresh(k, s, {}) /\ Known(k)
  BY <1>1, RekeyFresh, RekeyKnown
<1>3. SameClasses(f, k) /\ DOMAIN k = Fields
  BY <1>1, CanonicaliseTables, RekeyTables
<1>4. f.track = k.track
  BY <1>3 DEF CanonicaliseClass, Stale, Fields
<1> HIDE DEF f, k
<1>5. Fresh(f, s, {}) /\ Known(f)
  BY <1>2, <1>3, <1>4, SameClassesFresh
<1> QED
  BY <1>5 DEF f

LEMMA ClaimFresh ==
  ASSUME NEW h, Tables(h), NEW item \in Ids(h) \X Enodes(Ids(h)), NEW s, Fresh(h, s, {}), Known(h),
         PruneUp(h, {}), PruneDown(h), HashLive(h), Indexed(h)
  PROVE  Fresh(Claims(h, item), s, {}) /\ Known(Claims(h, item))
<1> DEFINE f == Claims(h, item)  k == Rekeys(h, item)
           r == Find(h, item[1])  n == item[2]  nn == Resolved(h, n)  e == Rekey(h, r, {n})
<1>1. r \in Roots(h) /\ r \in Ids(h) /\ DOMAIN h = Fields
  BY RootFacts
<1>2. Fresh(k, s, {}) /\ Known(k) /\ DOMAIN k = Fields
  <2>1. CASE nn # n /\ n \in h.nodes[r]
    <3>1. k = [e EXCEPT !.owner = Without(@, {n})]
      BY <2>1 DEF Rekeys
    <3>2. Fresh(e, s, {}) /\ Known(e)
      BY <1>1, <2>1, RekeyFresh, RekeyKnown
    <3>3. DOMAIN e = Fields
      BY <1>1, RekeyTables
    <3> HIDE DEF e, k
    <3>4. SameClasses(k, e) /\ k.track = e.track
      BY <3>1, <3>3 DEF SameClasses, Fields
    <3> QED
      BY <3>2, <3>4, SameClassesFresh DEF SameClasses
  <2>2. CASE ~(nn # n /\ n \in h.nodes[r])
    <3>1. k = h
      BY <2>2 DEF Rekeys
    <3> QED
      BY <1>1, <3>1
  <2> QED
    BY <2>1, <2>2
<1>3. f = IF nn \in k.nodes[r] THEN [k EXCEPT !.owner = WithDefault(@, {nn}, r)] ELSE k
  BY DEF Claims
<1> HIDE DEF f, k, nn, r
<1>4. SameClasses(f, k) /\ f.track = k.track
  BY <1>2, <1>3 DEF SameClasses, Fields
<1>5. Fresh(f, s, {}) /\ Known(f)
  BY <1>2, <1>4, SameClassesFresh
<1> QED
  BY <1>5 DEF f

-----------------------------------------------------------------------------
(* The machine. *)

SInv == Fresh(g, searched, walk) /\ Known(g)

LEMMA InitFresh == Init => SInv
<1> SUFFICES ASSUME Init PROVE SInv
  OBVIOUS
<1>1. PICK track \in BOOLEAN : g = Empty(track)
  BY DEF Init
<1>2. g.canon = <<>> /\ DOMAIN <<>> = {}
  BY <1>1 DEF Empty
<1>3. Roots(g) = {} /\ Ids(g) = {}
  BY <1>2 DEF Roots, Ids
<1> QED
  BY <1>3 DEF SInv, Fresh, Known

LEMMA NextFresh == IInv /\ SInv /\ [Next]_vars => SInv'
<1> SUFFICES ASSUME IInv, SInv, [Next]_vars PROVE SInv'
  OBVIOUS
<1>0. /\ Tables(g) /\ Numbered(g) /\ DOMAIN g = Fields
      /\ PruneDown(g) /\ HashLive(g) /\ Indexed(g) /\ PruneUp(g, walk)
      /\ merges \in Seq(Ids(g) \X Ids(g)) /\ work \subseteq Ids(g) \X Enodes(Ids(g))
      /\ Fresh(g, searched, walk) /\ Known(g)
  BY DEF IInv, SInv, Graph, Tables
<1>1. CASE Add
  <2>1. PICK op \in Ops, key \in Keys, k \in (0 .. MaxArity) \cap Nat :
          \E kids \in [1 .. k -> Roots(g)] :
            /\ <<op, kids, key>> \notin DOMAIN g.cons
            /\ g' = AddNode(g, <<op, kids, key>>)
    BY <1>1 DEF Add
  <2>2. PICK kids \in [1 .. k -> Roots(g)] : g' = AddNode(g, <<op, kids, key>>)
    BY <2>1
  <2>3. <<op, kids, key>> \in Enodes(Roots(g))
    BY NewEnode
  <2>4. walk = {} /\ walk' = {} /\ searched' = searched
    BY <1>1 DEF Add, quiet
  <2> QED
    BY <1>0, <2>2, <2>3, <2>4, AddNodeFresh, AddNodeKnown DEF SInv
<1>2. ASSUME NEW ra \in Roots(g), NEW rb \in Roots(g), Link(ra, rb), walk = {}, searched' = searched
      PROVE  SInv'
  <2> DEFINE w == Winner(g, ra, rb)  l == Loser(g, ra, rb)
  <2>1. g' = Merge(g, w, l) /\ walk' = {w} /\ ra # rb
    BY <1>2 DEF Link
  <2>2. w \in Roots(g) /\ l \in Roots(g) /\ w # l
    BY <1>2, <2>1 DEF Winner, Loser
  <2> HIDE DEF w, l
  <2> QED
    BY <1>0, <1>2, <2>1, <2>2, MergeFresh, MergeKnown DEF SInv
<1>3. CASE Unite
  <2>1. PICK a \in DOMAIN g.canon, b \in DOMAIN g.canon : Link(Find(g, a), Find(g, b))
    BY <1>3 DEF Unite
  <2>2. Find(g, a) \in Roots(g) /\ Find(g, b) \in Roots(g)
    BY <1>0, RootFacts DEF Ids
  <2>3. walk = {} /\ searched' = searched
    BY <1>3 DEF Unite, quiet
  <2> QED
    BY <1>2, <2>1, <2>2, <2>3
<1>4. CASE WalkUp
  <2>1. PICK c \in walk : /\ g' = [g EXCEPT !.dirty = @ \cup Above(g, c)]
                          /\ walk' = (walk \ {c}) \cup Above(g, c)
    BY <1>4 DEF WalkUp
  <2>2. searched' = searched
    BY <1>4 DEF WalkUp
  <2>3. Fresh(g', searched', walk')
    BY <1>0, <2>1, <2>2, WalkFresh
  <2>4. g'.track = g.track /\ g'.canon = g.canon /\ g'.nodes = g.nodes /\ g'.cons = g.cons
    BY <1>0, <2>1 DEF Fields
  <2>5. Known(g')
    BY <1>0, <2>4 DEF Known, Ids
  <2> QED
    BY <2>3, <2>5 DEF SInv
<1>5. CASE TakeFrontier
  <2>1. g' = Cleared(g) /\ searched' = g
    BY <1>5 DEF TakeFrontier
  <2>2. g'.track = g.track /\ g'.canon = g.canon /\ g'.nodes = g.nodes /\ g'.cons = g.cons
    BY <1>0, <2>1 DEF Fields, Cleared
  <2>3. /\ Ids(g') = Ids(g) /\ Roots(g') = Roots(g)
        /\ \A n : Resolved(g', n) = Resolved(g, n)
    BY <2>2 DEF Ids, Roots, Resolved, Find
  <2>4. Fresh(g', g, walk')
    BY <2>2, <2>3, SameForms DEF Fresh
  <2> QED
    BY <1>0, <2>1, <2>2, <2>3, <2>4 DEF SInv, Known
<1>6. CASE CanonicaliseRoot
  <2>1. PICK r \in Roots(g) : g' = CanonicaliseClass(g, r)
    BY <1>6 DEF CanonicaliseRoot
  <2>2. walk = {} /\ walk' = {} /\ searched' = searched
    BY <1>6 DEF CanonicaliseRoot, quiet
  <2> QED
    BY <1>0, <2>1, <2>2, CanonicaliseFresh DEF SInv
<1>7. CASE TakeWork
  <2>1. g' = [g EXCEPT !.pend = {}] /\ walk = {} /\ walk' = {} /\ searched' = searched
    BY <1>7 DEF TakeWork, quiet
  <2>2. SameClasses(g', g) /\ g'.track = g.track
    BY <1>0, <2>1 DEF SameClasses, Fields
  <2> QED
    BY <1>0, <2>1, <2>2, SameClassesFresh DEF SInv
<1>8. CASE ClaimItem
  <2>1. PICK item \in work : g' = Claim([g |-> g, merges |-> merges], item).g
    BY <1>8 DEF ClaimItem
  <2>2. /\ item \in Ids(g) \X Enodes(Ids(g)) /\ PruneUp(g, {})
        /\ walk = {} /\ walk' = {} /\ searched' = searched
    BY <1>0, <1>8 DEF ClaimItem
  <2>3. g' = Claims(g, item)
    BY <1>0, <2>1, <2>2, ClaimResult
  <2> QED
    BY <1>0, <2>2, <2>3, ClaimFresh DEF SInv
<1>9. CASE MergeNext
  <2> DEFINE S == Ids(g) \X Ids(g)
             ra == Find(g, Head(merges)[1])  rb == Find(g, Head(merges)[2])
  <2>1. /\ walk = {} /\ merges # <<>> /\ searched' = searched
        /\ Link(ra, rb) \/ (g' = g /\ walk' = walk)
    BY <1>9 DEF MergeNext
  <2>2. merges \in Seq(S)
    BY <1>0
  <2> HIDE DEF S
  <2>3. Head(merges) \in S
    BY <2>1, <2>2, TailFacts
  <2>4. ra \in Roots(g) /\ rb \in Roots(g)
    BY <1>0, <2>3, RootFacts DEF S
  <2> HIDE DEF ra, rb
  <2> QED
    BY <1>0, <1>2, <2>1, <2>4 DEF SInv
<1>10. CASE UNCHANGED vars
  BY <1>0, <1>10 DEF SInv, vars
<1> QED
  BY <1>1, <1>3, <1>4, <1>5, <1>6, <1>7, <1>8, <1>9, <1>10 DEF Next, Upkeep

LEMMA SearchInductive == Spec => []SInv
<1> QED
  BY Inductive, InitFresh, NextFresh, PTL DEF Spec

-----------------------------------------------------------------------------
(* The classes as a partition. *)

LEMMA AddNodeIsBorn ==
  ASSUME NEW h, Tables(h), Numbered(h), NEW n \in Enodes(Roots(h))
  PROVE  LET id == Len(h.canon) + 1
         IN  /\ Blocks(AddNode(h, n)) = Blocks(h) \cup {{id}}
             /\ id \notin UNION Blocks(h)
<1> DEFINE f == AddNode(h, n)  id == Len(h.canon) + 1
<1>1. /\ id \notin Ids(h) /\ Ids(f) = Ids(h) \cup {id} /\ Find(f, id) = id
      /\ \A i \in Ids(h) : Find(f, i) = Find(h, i)
      /\ Roots(f) = Roots(h) \cup {id}
  BY AddNodeShape
<1>2. Roots(h) \subseteq Ids(h) /\ \A i \in Ids(h) : Find(h, i) \in Ids(h)
  BY RootFacts
<1> HIDE DEF f, id
<1>3. \A r \in Roots(h) : {i \in Ids(f) : Find(f, i) = r} = {i \in Ids(h) : Find(h, i) = r}
  BY <1>1, <1>2
<1>4. {i \in Ids(f) : Find(f, i) = id} = {id}
  BY <1>1, <1>2
<1>5. Blocks(f) = Blocks(h) \cup {{id}}
  <2>1. \A B : B \in Blocks(f) <=> \E r \in Roots(f) : B = {i \in Ids(f) : Find(f, i) = r}
    BY DEF Blocks, Ids
  <2>2. \A B : B \in Blocks(h) <=> \E r \in Roots(h) : B = {i \in Ids(h) : Find(h, i) = r}
    BY DEF Blocks, Ids
  <2> QED
    BY <1>1, <1>3, <1>4, <2>1, <2>2
<1>6. id \notin UNION Blocks(h)
  BY <1>1 DEF Blocks, Ids
<1> QED
  BY <1>5, <1>6 DEF f, id

LEMMA MergeIsMerge ==
  ASSUME NEW h, Tables(h), NEW w \in Roots(h), NEW l \in Roots(h), w # l
  PROVE  \E A, B \in Blocks(h) \ Blocks(Merge(h, w, l)) :
           A # B /\ Blocks(Merge(h, w, l)) = (Blocks(h) \ {A, B}) \cup {A \cup B}
<1> DEFINE f == Merge(h, w, l)
           A == {i \in Ids(h) : Find(h, i) = w}  B == {i \in Ids(h) : Find(h, i) = l}
<1>1. /\ Ids(f) = Ids(h) /\ Roots(f) = Roots(h) \ {l}
      /\ \A i \in Ids(h) : Find(f, i) = IF Find(h, i) = l THEN w ELSE Find(h, i)
  BY MergeShape
<1>2. Roots(h) \subseteq Ids(h) /\ \A i \in Roots(h) : Find(h, i) = i
  BY RootFacts
<1> HIDE DEF f
<1>3. \A C : C \in Blocks(f) <=> \E r \in Roots(f) : C = {i \in Ids(h) : Find(f, i) = r}
  BY <1>1 DEF Blocks, Ids
<1>4. \A C : C \in Blocks(h) <=> \E r \in Roots(h) : C = {i \in Ids(h) : Find(h, i) = r}
  BY DEF Blocks, Ids
<1>5. w \in A /\ w \notin B /\ l \in B /\ l \notin A
  BY <1>2
<1>6. \A r \in Roots(f) \ {w} :
        {i \in Ids(h) : Find(f, i) = r} = {i \in Ids(h) : Find(h, i) = r}
  BY <1>1
<1>7. {i \in Ids(h) : Find(f, i) = w} = A \cup B
  BY <1>1
<1>8. \A r \in Roots(h) \ {w, l} :
        LET C == {i \in Ids(h) : Find(h, i) = r} IN w \notin C /\ l \notin C
  BY <1>2
<1>9. A \in Blocks(h) /\ B \in Blocks(h)
  BY <1>4
<1> HIDE DEF A, B
<1>10. \A C \in Blocks(f) : C = A \cup B \/ (C \in Blocks(h) /\ w \notin C /\ l \notin C)
  <2> SUFFICES ASSUME NEW C \in Blocks(f), C # A \cup B
               PROVE  C \in Blocks(h) /\ w \notin C /\ l \notin C
    OBVIOUS
  <2>1. PICK r \in Roots(f) : C = {i \in Ids(h) : Find(f, i) = r}
    BY <1>3
  <2>2. r # w /\ r \in Roots(h) \ {w, l}
    BY <1>1, <1>7, <2>1
  <2>3. C = {i \in Ids(h) : Find(h, i) = r}
    BY <1>6, <2>1, <2>2
  <2> QED
    BY <1>4, <1>8, <2>2, <2>3
<1>11. \A C \in Blocks(h) \ {A, B} : C \in Blocks(f)
  <2> SUFFICES ASSUME NEW C \in Blocks(h), C # A, C # B PROVE C \in Blocks(f)
    OBVIOUS
  <2>1. PICK r \in Roots(h) : C = {i \in Ids(h) : Find(h, i) = r}
    BY <1>4
  <2>2. r # w /\ r # l
    BY <2>1 DEF A, B
  <2> QED
    BY <1>1, <1>3, <1>6, <2>1, <2>2
<1>12. A \cup B \in Blocks(f)
  <2>1. w \in Roots(f)
    BY <1>1
  <2> QED
    BY <1>3, <1>7, <2>1
<1>13. A \notin Blocks(f) /\ B \notin Blocks(f) /\ A # B
  BY <1>5, <1>10
<1>14. Blocks(f) = (Blocks(h) \ {A, B}) \cup {A \cup B}
  BY <1>10, <1>11, <1>12, <1>13
<1> QED
  BY <1>9, <1>13, <1>14 DEF f

LEMMA SameBlocks ==
  ASSUME NEW h, NEW f, f.canon = h.canon
  PROVE  Blocks(f) = Blocks(h)
BY DEF Blocks, Roots, Find

LEMMA StepIsPartitionStep ==
  ASSUME MaxId \in Nat, IInv, [Next]_vars
  PROVE  [Abstract!Next]_(Blocks(g))
<1>0. /\ Tables(g) /\ Numbered(g) /\ DOMAIN g = Fields
      /\ PruneUp(g, walk) /\ PruneDown(g) /\ HashLive(g) /\ Indexed(g)
      /\ merges \in Seq(Ids(g) \X Ids(g)) /\ work \subseteq Ids(g) \X Enodes(Ids(g))
  BY DEF IInv, Graph, Tables
<1>1. CASE Add
  <2>1. PICK op \in Ops, key \in Keys, k \in (0 .. MaxArity) \cap Nat :
          \E kids \in [1 .. k -> Roots(g)] :
            /\ <<op, kids, key>> \notin DOMAIN g.cons
            /\ g' = AddNode(g, <<op, kids, key>>)
    BY <1>1 DEF Add
  <2>2. PICK kids \in [1 .. k -> Roots(g)] : g' = AddNode(g, <<op, kids, key>>)
    BY <2>1
  <2>3. <<op, kids, key>> \in Enodes(Roots(g))
    BY NewEnode
  <2> DEFINE id == Len(g.canon) + 1
  <2>4. id \in 0 .. (MaxId + 1) - 1
    BY <1>0, <1>1 DEF Add, Numbered
  <2> HIDE DEF id
  <2>5. Blocks(g') = Blocks(g) \cup {{id}} /\ id \notin UNION Blocks(g)
    BY <1>0, <2>2, <2>3, AddNodeIsBorn DEF id
  <2>6. {id} \in Blocks(g') \ Blocks(g) /\ id \in {id} \cap (0 .. (MaxId + 1) - 1)
    BY <2>4, <2>5
  <2>7. Abstract!Born(id)
    BY <2>5 DEF Abstract!Born
  <2>8. Abstract!Next
    BY <2>6, <2>7 DEF Abstract!Next
  <2> QED
    BY <2>8
<1>2. ASSUME NEW ra \in Roots(g), NEW rb \in Roots(g), Link(ra, rb)
      PROVE  Abstract!Next
  <2> DEFINE w == Winner(g, ra, rb)  l == Loser(g, ra, rb)
  <2>1. g' = Merge(g, w, l) /\ ra # rb
    BY <1>2 DEF Link
  <2>2. w \in Roots(g) /\ l \in Roots(g) /\ w # l
    BY <1>2, <2>1 DEF Winner, Loser
  <2> HIDE DEF w, l
  <2>3. PICK A \in Blocks(g) \ Blocks(g'), B \in Blocks(g) \ Blocks(g') :
          A # B /\ Blocks(g') = (Blocks(g) \ {A, B}) \cup {A \cup B}
    BY <1>0, <2>1, <2>2, MergeIsMerge
  <2>4. Abstract!Merge(A, B)
    BY <2>3 DEF Abstract!Merge
  <2> QED
    BY <2>3, <2>4 DEF Abstract!Next
<1>3. CASE Unite
  <2>1. PICK a \in DOMAIN g.canon, b \in DOMAIN g.canon : Link(Find(g, a), Find(g, b))
    BY <1>3 DEF Unite
  <2>2. Find(g, a) \in Roots(g) /\ Find(g, b) \in Roots(g)
    BY <1>0, RootFacts DEF Ids
  <2> QED
    BY <1>2, <2>1, <2>2
<1>4. CASE CanonicaliseRoot
  <2>1. PICK r \in Roots(g) : g' = CanonicaliseClass(g, r)
    BY <1>4 DEF CanonicaliseRoot
  <2>2. g'.canon = g.canon
    BY <1>0, <2>1, CanonicaliseTables, RekeyTables DEF SameClasses
  <2> QED
    BY <2>2, SameBlocks
<1>5. CASE ClaimItem
  <2>1. PICK item \in work : g' = Claim([g |-> g, merges |-> merges], item).g
    BY <1>5 DEF ClaimItem
  <2>2. item \in Ids(g) \X Enodes(Ids(g)) /\ PruneUp(g, {})
    BY <1>0, <1>5 DEF ClaimItem
  <2>3. g'.canon = g.canon
    BY <1>0, <2>1, <2>2, ClaimResult, ClaimsShape
  <2> QED
    BY <2>3, SameBlocks
<1>6. CASE MergeNext
  <2> DEFINE S == Ids(g) \X Ids(g)
             ra == Find(g, Head(merges)[1])  rb == Find(g, Head(merges)[2])
  <2>1. merges # <<>> /\ (Link(ra, rb) \/ g' = g)
    BY <1>6 DEF MergeNext
  <2>2. merges \in Seq(S)
    BY <1>0
  <2> HIDE DEF S
  <2>3. Head(merges) \in S
    BY <2>1, <2>2, TailFacts
  <2>4. ra \in Roots(g) /\ rb \in Roots(g)
    BY <1>0, <2>3, RootFacts DEF S
  <2> HIDE DEF ra, rb
  <2> QED
    BY <1>2, <2>1, <2>4
<1>7. CASE WalkUp \/ TakeFrontier \/ TakeWork \/ UNCHANGED vars
  <2>1. g'.canon = g.canon
    BY <1>0, <1>7 DEF WalkUp, TakeFrontier, TakeWork, vars, Cleared, Fields
  <2> QED
    BY <2>1, SameBlocks
<1> QED
  BY <1>1, <1>2, <1>3, <1>4, <1>5, <1>6, <1>7 DEF Next, Upkeep

-----------------------------------------------------------------------------
(* The theorems. *)

\* Merges go through the union-find and nowhere else: the classes are born alone
\* and merge in pairs, as those of module EpochUnionFind, which lets this graph
\* stand for what find answers there (EGraph.find, EGraph.union).
THEOREM ClassesAreUnionFind ==
  ASSUME MaxId \in Nat
  PROVE  Spec => ClassesArePartition
<1>1. Init => Abstract!Init
  BY DEF Init, Empty, Blocks, Roots, Find, Abstract!Init
<1>2. IInv /\ [Next]_vars => [Abstract!Next]_(Blocks(g))
  BY StepIsPartitionStep
<1> QED
  BY <1>1, <1>2, Inductive, PTL DEF Spec, ClassesArePartition, Abstract!Spec

LEMMA InvFindsAll == IInv /\ SInv => CleanIsAsSearched
<1> SUFFICES ASSUME Tables(g), PruneUp(g, {}), PruneDown(g), Fresh(g, searched, {}),
                    NEW r \in Roots(g) \ Frontier(g)
             PROVE  /\ r \in Roots(searched)
                    /\ Forms(g, g.nodes[r]) = Forms(searched, searched.nodes[r])
                    /\ \A n \in Forms(g, g.nodes[r]) : Kids(n) \cap Frontier(g) = {}
  BY DEF IInv, SInv, Graph, quiet, CleanIsAsSearched
<1>1. r \in Roots(searched) /\ Forms(g, g.nodes[r]) = Forms(searched, searched.nodes[r])
  BY DEF Fresh
<1>2. ASSUME NEW m \in g.nodes[r], NEW c \in Kids(Resolved(g, m)), c \in Frontier(g)
      PROVE  FALSE
  <2>1. m \in Enodes(Ids(g))
    BY RootFacts DEF Tables
  <2>2. PICK k \in Kids(m) : c = Find(g, k)
    BY <1>2, <2>1, ResolvedEnode DEF Tables
  <2>3. PICK p \in g.parents[c] : Find(g, p) = r
    BY <2>2 DEF PruneDown
  <2> QED
    BY <1>2, <2>3 DEF PruneUp
<1> QED
  BY <1>1, <1>2 DEF Forms

\* The incremental search of run misses nothing: outside the frontier a class is
\* as it was when the frontier was last taken, and so is all that is below it,
\* whatever was added, merged, re-keyed or claimed in between.
THEOREM SearchMissesNothing == Spec => []CleanIsAsSearched
<1> QED
  BY InvFindsAll, Inductive, SearchInductive, PTL

\* After a rebuild the hash-consing table of a tracking graph is exact: each
\* member is in it, at its own class, so that add_enode of what the graph
\* already holds mints nothing.
THEOREM RebuiltGraphsHit == Spec => []RebuiltIsConsed
<1>1. IInv /\ SInv => RebuiltIsConsed
  <2> SUFFICES ASSUME Tables(g), HashLive(g), Covered(g, {}, <<>>), Known(g), g.track,
                      NEW r \in Roots(g), NEW n \in g.nodes[r]
               PROVE  n \in DOMAIN g.cons /\ Find(g, g.cons[n]) = r
    BY DEF IInv, SInv, Graph, quiet, RebuiltIsConsed
  <2>1. \A s \in Roots(g) : \A m \in g.nodes[s] : Resolved(g, m) = m /\ Find(g, g.owner[m]) = s
    BY DEF Covered, Waits, Owned, Pending
  <2>2. n \in DOMAIN g.cons
    BY RootFacts DEF Known
  <2>3. n \in g.nodes[Find(g, g.cons[n])]
    BY <2>1, <2>2 DEF HashLive
  <2>4. Find(g, g.cons[n]) \in Roots(g)
    BY <2>2, RootFacts DEF Tables, ClassTable
  <2> QED
    BY <2>1, <2>2, <2>3, <2>4
<1> QED
  BY <1>1, Inductive, SearchInductive, PTL
=============================================================================
