------------------------ MODULE SaturationStepsProofs ------------------------
(***************************************************************************)
(* Proofs about the search of EGraph.run: what the filters keep, what a    *)
(* match becomes when the graph grows, that the frontier misses no work,   *)
(* what a budget bounds, and that rules which hold where they fire merge   *)
(* only what means the same.  For any rules, rule sets, budgets,           *)
(* operators and bounds.                                                   *)
(*                                                                         *)
(* Patterns are of finite height, so what holds of a pattern whenever it   *)
(* holds of its children holds of all of them (PatternInduction), and the  *)
(* places and the meanings of the patterns are the one solution of their   *)
(* equations.                                                              *)
(***************************************************************************)
EXTENDS SaturationSteps, EGraphSearchProofs, FiniteSetTheorems, WellFoundedInduction

-----------------------------------------------------------------------------
(* Induction over numbers and patterns.                                      *)

LessThan == {p \in Nat \X Nat : p[1] < p[2]}

LEMMA LessThanIsWellFounded == IsWellFoundedOn(LessThan, Nat)
<1>1. OpToRel(<, Nat) = LessThan
  BY DEF OpToRel, LessThan
<1> QED
  BY <1>1, NatLessThanWellFounded

LEMMA LeastNat ==
  ASSUME NEW S \in SUBSET Nat, S # {}
  PROVE  \E m \in S : \A k \in S : m <= k
<1>1. PICK m \in S : \A y \in S : ~ (<<y, m>> \in LessThan)
  BY LessThanIsWellFounded, WFMin
<1>2. ASSUME NEW k \in S PROVE m <= k
  <2>1. <<k, m>> \notin LessThan
    BY <1>1
  <2>2. <<k, m>> \in Nat \X Nat /\ <<k, m>>[1] = k /\ <<k, m>>[2] = m
    BY <1>1
  <2> QED
    BY <2>1, <2>2 DEF LessThan
<1> QED
  BY <1>2

Height(p) == Cardinality(Parts[p])

\* A child of a pattern is less high than the pattern.
LEMMA ChildIsLower ==
  ASSUME NEW p \in Patterns, Compound(p), NEW k \in DOMAIN p[2]
  PROVE  /\ p[2][k] \in Patterns /\ Height(p[2][k]) < Height(p)
         /\ Parts[p[2][k]] \subseteq Parts[p]
<1> DEFINE q == p[2][k]
<1>1. p[2] \in Seq(Patterns) /\ q \in Kids(p)
  BY PatternsAreTerms DEF Kids
<1>2. q \in Patterns
  BY <1>1
<1>3. /\ Parts[p] \in SUBSET Patterns /\ IsFiniteSet(Patterns)
      /\ p \in Parts[p] /\ p \notin Parts[q] /\ Parts[q] \in SUBSET Parts[p]
  BY <1>1, <1>2, PatternsAreTerms
<1> HIDE DEF q
<1>6. IsFiniteSet(Parts[p])
  BY <1>3, FS_Subset
<1>4. /\ Cardinality(Parts[q]) <= Cardinality(Parts[p])
      /\ Cardinality(Parts[q]) # Cardinality(Parts[p])
      /\ IsFiniteSet(Parts[q])
  BY <1>3, <1>6, FS_Subset
<1>5. Cardinality(Parts[q]) \in Nat /\ Cardinality(Parts[p]) \in Nat
  BY <1>4, <1>6, FS_CardinalityType
<1> QED
  BY <1>2, <1>3, <1>4, <1>5 DEF Height, q

LEMMA HeightIsNat ==
  ASSUME NEW p \in Patterns PROVE Height(p) \in Nat
<1>1. Parts[p] \in SUBSET Patterns /\ IsFiniteSet(Patterns)
  BY PatternsAreTerms
<1>2. IsFiniteSet(Parts[p])
  BY <1>1, FS_Subset
<1> QED
  BY <1>2, FS_CardinalityType DEF Height

LEMMA PatternInduction ==
  ASSUME NEW S \in SUBSET Patterns,
         \A p \in Patterns : (Compound(p) => \A k \in DOMAIN p[2] : p[2][k] \in S) => p \in S
  PROVE  S = Patterns
<1> SUFFICES ASSUME Patterns \ S # {} PROVE FALSE
  OBVIOUS
<1> DEFINE H == {Height(p) : p \in Patterns \ S}
<1>1. H \in SUBSET Nat /\ H # {}
  BY HeightIsNat
<1>2. PICK m \in H : \A k \in H : m <= k
  BY <1>1, LeastNat
<1>3. PICK p \in Patterns \ S : Height(p) = m
  BY <1>2
<1>4. PICK k \in DOMAIN p[2] : Compound(p) /\ p[2][k] \notin S
  BY <1>3
<1>5. p[2][k] \in Patterns /\ Height(p[2][k]) < Height(p)
  BY <1>3, <1>4, ChildIsLower
<1>6. Height(p[2][k]) \in H
  BY <1>4, <1>5
<1> QED
  BY <1>1, <1>2, <1>3, <1>5, <1>6

-----------------------------------------------------------------------------
(* Where patterns occur.                                                     *)

\* The three ways of Occurs, one at a time.
LEMMA OccursCases ==
  ASSUME NEW h, NEW s, NEW at, NEW p, NEW c
  PROVE  c \in Occurs(h, s, at, p) <=>
           /\ c \in Roots(h)
           /\ IsVar(p) => (p[2] \in DOMAIN s => c = Find(h, s[p[2]]))
           /\ IsConst(p) => LeafNode(p) \in DOMAIN h.cons /\ c = Find(h, h.cons[LeafNode(p)])
           /\ Compound(p) =>
                \E n \in h.nodes[c] :
                  /\ HeadOf(n) = HeadOf(p) /\ n[3] = NoKey
                  /\ \A k \in DOMAIN p[2] : Find(h, n[2][k]) \in at[p[2][k]]
<1>1. ~(IsVar(p) /\ IsConst(p)) /\ (Compound(p) <=> ~IsVar(p) /\ ~IsConst(p))
  BY DEF IsVar, IsConst, Compound
<1> QED
  BY <1>1 DEF Occurs

LEMMA OccursGrows ==
  ASSUME NEW h, NEW s, NEW at, NEW in, NEW p \in Patterns,
         \A q \in Patterns : at[q] \subseteq in[q]
  PROVE  Occurs(h, s, at, p) \subseteq Occurs(h, s, in, p)
<1> SUFFICES ASSUME NEW c \in Occurs(h, s, at, p) PROVE c \in Occurs(h, s, in, p)
  OBVIOUS
<1>1. Compound(p) => \A k \in DOMAIN p[2] : at[p[2][k]] \subseteq in[p[2][k]]
  BY ChildIsLower
<1> QED
  BY <1>1, OccursCases

ArePlaces(h, s, at) == at = [p \in Patterns |-> Occurs(h, s, at, p)]

\* The places of the patterns are those that some self-supporting set of places
\* has: together they support themselves, and whatever they support is among
\* them.
LEMMA PlacesExist ==
  ASSUME NEW h, NEW s PROVE \E at : ArePlaces(h, s, at)
<1> DEFINE R == Roots(h)
           Of(W, q) == {c \in R : <<q, c>> \in W}
           As(W) == [q \in Patterns |-> Of(W, q)]
           Supports == {W \in SUBSET (Patterns \X R) :
                          \A q \in Patterns : Of(W, q) \subseteq Occurs(h, s, As(W), q)}
           U == UNION Supports
           V == {x \in Patterns \X R : x[2] \in Occurs(h, s, As(U), x[1])}
<1>1. \A p \in Patterns : Of(U, p) \subseteq Occurs(h, s, As(U), p)
  <2> SUFFICES ASSUME NEW p \in Patterns, NEW c \in Of(U, p) PROVE c \in Occurs(h, s, As(U), p)
    OBVIOUS
  <2>1. PICK W \in Supports : <<p, c>> \in W
    OBVIOUS
  <2>2. c \in Occurs(h, s, As(W), p)
    BY <2>1
  <2>3. \A q \in Patterns : As(W)[q] \subseteq As(U)[q]
    OBVIOUS
  <2> HIDE DEF As, U
  <2> QED
    BY <2>2, <2>3, OccursGrows
<1>2. \A p \in Patterns : Occurs(h, s, As(U), p) \subseteq R
  BY OccursCases
<1> HIDE DEF U
<1>3. \A p \in Patterns : Of(V, p) = Occurs(h, s, As(U), p)
  <2>1. \A p \in Patterns, c \in R : <<p, c>> \in V <=> c \in Occurs(h, s, As(U), p)
    OBVIOUS
  <2> QED
    BY <1>2, <2>1
<1>4. \A q \in Patterns : As(U)[q] \subseteq As(V)[q]
  BY <1>1, <1>3
<1>5. V \in Supports
  <2>1. V \in SUBSET (Patterns \X R)
    OBVIOUS
  <2>2. ASSUME NEW q \in Patterns PROVE Of(V, q) \subseteq Occurs(h, s, As(V), q)
    <3> HIDE DEF As
    <3> QED
      BY <1>3, <1>4, OccursGrows
  <2> QED
    BY <2>1, <2>2
<1>6. V \subseteq U
  BY <1>5 DEF U
<1>7. \A p \in Patterns : As(U)[p] = Occurs(h, s, As(U), p)
  BY <1>1, <1>3, <1>6
<1> HIDE DEF As
<1>8. As(U) = [p \in Patterns |-> As(U)[p]]
  BY DEF As
<1>9. [p \in Patterns |-> As(U)[p]] = [p \in Patterns |-> Occurs(h, s, As(U), p)]
  BY <1>7
<1> QED
  BY <1>8, <1>9 DEF ArePlaces

LEMMA PlacesUnfold ==
  ASSUME NEW h, NEW s, NEW p \in Patterns
  PROVE  Places(h, s)[p] = Occurs(h, s, Places(h, s), p)
<1>1. \E at : ArePlaces(h, s, at)
  BY PlacesExist
<1>2. ArePlaces(h, s, Places(h, s))
  BY <1>1 DEF ArePlaces, Places
<1> HIDE DEF Places
<1> QED
  BY <1>2 DEF ArePlaces

\* Where a pattern occurs, case by case.
LEMMA PlacesCases ==
  ASSUME NEW h, NEW s, NEW p \in Patterns, NEW c
  PROVE  c \in Places(h, s)[p] <=>
           /\ c \in Roots(h)
           /\ IsVar(p) => (p[2] \in DOMAIN s => c = Find(h, s[p[2]]))
           /\ IsConst(p) => LeafNode(p) \in DOMAIN h.cons /\ c = Find(h, h.cons[LeafNode(p)])
           /\ Compound(p) =>
                \E n \in h.nodes[c] :
                  /\ HeadOf(n) = HeadOf(p) /\ n[3] = NoKey
                  /\ \A k \in DOMAIN p[2] : Find(h, n[2][k]) \in Places(h, s)[p[2][k]]
<1> HIDE DEF Places
<1>1. c \in Places(h, s)[p] <=> c \in Occurs(h, s, Places(h, s), p)
  BY PlacesUnfold
<1> QED
  BY <1>1, OccursCases
-----------------------------------------------------------------------------
(* What a match becomes when the graph grows.                                *)

\* What there was in h is in f, up to the classes that were merged since.
Later(h, f) ==
  /\ Ids(h) \subseteq Ids(f)
  /\ \A i \in Ids(h) : Find(f, Find(h, i)) = Find(f, i)
  /\ \A r \in Roots(h) : \A n \in h.nodes[r] :
       \E m \in f.nodes[Find(f, r)] : Resolved(f, m) = Resolved(f, n)
  /\ \A n \in DOMAIN h.cons : n \in DOMAIN f.cons /\ f.cons[n] = h.cons[n]

\* Enodes of one canonical form have one head, and children in the same classes.
LEMMA SameFormParts ==
  ASSUME NEW h, Forest(h), NEW e, Forest(e), NEW n \in Enodes(Ids(h)), NEW m \in Enodes(Ids(e)),
         Resolved(h, n) = Resolved(e, m)
  PROVE  /\ HeadOf(n) = HeadOf(m) /\ n[3] = m[3] /\ DOMAIN n[2] = DOMAIN m[2]
         /\ \A k \in DOMAIN n[2] : Find(h, n[2][k]) = Find(e, m[2][k])
<1> DEFINE ns == [k \in DOMAIN n[2] |-> Find(h, n[2][k])]
           ms == [k \in DOMAIN m[2] |-> Find(e, m[2][k])]
<1>1. HeadOf(n) = HeadOf(m)
  BY ResolvedEnode
<1>2. <<n[1], ns, n[3]>> = <<m[1], ms, m[3]>>
  BY DEF Resolved
<1>3. ns = ms /\ n[3] = m[3]
  BY <1>2
<1>4. DOMAIN n[2] = DOMAIN m[2] /\ \A k \in DOMAIN n[2] : ns[k] = ms[k]
  BY <1>3
<1> QED
  BY <1>1, <1>3, <1>4

\* The enode a compound pattern occurs by has a child for each of the pattern's.
LEMMA HeadKids ==
  ASSUME NEW S, NEW n \in Enodes(S), NEW p \in Patterns, Compound(p), HeadOf(n) = HeadOf(p)
  PROVE  n[1] = p[1] /\ DOMAIN n[2] = DOMAIN p[2] /\ \A k \in DOMAIN p[2] : n[2][k] \in S
<1>1. n[1] = p[1] /\ Len(n[2]) = Len(p[2])
  BY DEF HeadOf
<1>2. p[2] \in Seq(Patterns) /\ n[2] \in Seq(S)
  BY EnodeParts, PatternsAreTerms
<1> QED
  BY <1>1, <1>2

\* A pattern that occurred in a class occurs in what has become of it, under any
\* binding that gives its variables the classes they had, or leaves them open.
LEMMA PlacesPersist ==
  ASSUME NEW h, NEW f, Tables(h), Tables(f), Later(h, f),
         NEW s, NEW t,
         \A v \in DOMAIN t : v \in DOMAIN s /\ s[v] \in Ids(h) /\ Find(f, t[v]) = Find(f, s[v])
  PROVE  \A p \in Patterns : \A c \in Places(h, s)[p] : Find(f, c) \in Places(f, t)[p]
<1> HIDE DEF Places
<1> DEFINE S == {p \in Patterns : \A c \in Places(h, s)[p] : Find(f, c) \in Places(f, t)[p]}
<1>1. ASSUME NEW p \in Patterns, Compound(p) => \A k \in DOMAIN p[2] : p[2][k] \in S
      PROVE  p \in S
  <2> SUFFICES ASSUME NEW c \in Places(h, s)[p] PROVE Find(f, c) \in Places(f, t)[p]
    OBVIOUS
  <2>1. /\ c \in Roots(h) /\ c \in Ids(h) /\ c \in Ids(f) /\ Find(f, c) \in Roots(f)
        /\ \A i \in Ids(h) : i \in Ids(f) /\ Find(f, Find(h, i)) = Find(f, i)
    BY PlacesCases, RootFacts DEF Later
  <2>2. IsVar(p) => (p[2] \in DOMAIN t => Find(f, c) = Find(f, t[p[2]]))
    BY <2>1, PlacesCases
  <2>3. IsConst(p) => LeafNode(p) \in DOMAIN f.cons /\ Find(f, c) = Find(f, f.cons[LeafNode(p)])
    <3> SUFFICES ASSUME IsConst(p) PROVE LeafNode(p) \in DOMAIN f.cons
                                         /\ Find(f, c) = Find(f, f.cons[LeafNode(p)])
      OBVIOUS
    <3>1. LeafNode(p) \in DOMAIN h.cons /\ c = Find(h, h.cons[LeafNode(p)])
      BY PlacesCases
    <3>2. h.cons[LeafNode(p)] \in Ids(h)
      BY <3>1, RootFacts DEF ClassTable
    <3> QED
      BY <2>1, <3>1, <3>2 DEF Later
  <2>4. ASSUME Compound(p)
        PROVE  \E m \in f.nodes[Find(f, c)] :
                 /\ HeadOf(m) = HeadOf(p) /\ m[3] = NoKey
                 /\ \A k \in DOMAIN p[2] : Find(f, m[2][k]) \in Places(f, t)[p[2][k]]
    <3>1. PICK n \in h.nodes[c] :
            /\ HeadOf(n) = HeadOf(p) /\ n[3] = NoKey
            /\ \A k \in DOMAIN p[2] : Find(h, n[2][k]) \in Places(h, s)[p[2][k]]
      BY <2>4, PlacesCases
    <3>2. PICK m \in f.nodes[Find(f, c)] : Resolved(f, m) = Resolved(f, n)
      BY <2>1 DEF Later
    <3>3. n \in Enodes(Ids(h)) /\ n \in Enodes(Ids(f)) /\ m \in Enodes(Ids(f)) /\ Forest(f)
      BY <2>1, RootFacts, EnodesGrow DEF Later
    <3>4. /\ HeadOf(m) = HeadOf(n) /\ m[3] = n[3] /\ DOMAIN m[2] = DOMAIN n[2]
          /\ \A k \in DOMAIN m[2] : Find(f, m[2][k]) = Find(f, n[2][k])
      BY <3>2, <3>3, SameFormParts
    <3>5. DOMAIN n[2] = DOMAIN p[2] /\ \A k \in DOMAIN p[2] : n[2][k] \in Ids(h)
      BY <2>4, <3>1, <3>3, HeadKids
    <3>6. ASSUME NEW k \in DOMAIN p[2] PROVE Find(f, m[2][k]) \in Places(f, t)[p[2][k]]
      <4>1. p[2][k] \in S /\ Find(h, n[2][k]) \in Places(h, s)[p[2][k]]
        BY <1>1, <2>4, <3>1
      <4>2. Find(f, Find(h, n[2][k])) \in Places(f, t)[p[2][k]]
        BY <4>1
      <4> QED
        BY <2>1, <3>4, <3>5, <4>2
    <3> QED
      BY <3>1, <3>4, <3>6
  <2> QED
    BY <2>1, <2>2, <2>3, <2>4, PlacesCases
<1>2. S = Patterns
  <2> HIDE DEF S
  <2>1. S \in SUBSET Patterns
    BY DEF S
  <2> QED
    BY <1>1, <2>1, PatternInduction
<1> QED
  BY <1>2

LEMMA LaterIsReflexive ==
  ASSUME NEW h, Tables(h) PROVE Later(h, h)
BY RootFacts DEF Later, Forest

LEMMA LaterIsTransitive ==
  ASSUME NEW h, NEW e, NEW f, Tables(h), Tables(e), Tables(f), Later(h, e), Later(e, f)
  PROVE  Later(h, f)
<1>1. Ids(h) \subseteq Ids(e) /\ Ids(e) \subseteq Ids(f)
  BY DEF Later
<1>2. ASSUME NEW i \in Ids(h) PROVE Find(f, Find(h, i)) = Find(f, i)
  <2>1. Find(h, i) \in Ids(h) /\ Find(e, Find(h, i)) = Find(e, i)
    BY RootFacts DEF Later
  <2> QED
    BY <1>1, <2>1 DEF Later
<1>3. ASSUME NEW r \in Roots(h), NEW n \in h.nodes[r]
      PROVE  \E m \in f.nodes[Find(f, r)] : Resolved(f, m) = Resolved(f, n)
  <2>1. r \in Ids(h) /\ n \in Enodes(Ids(h)) /\ n \in Enodes(Ids(e)) /\ Forest(e) /\ Forest(f)
    BY <1>1, RootFacts, EnodesGrow
  <2>2. PICK m \in e.nodes[Find(e, r)] : Resolved(e, m) = Resolved(e, n)
    BY DEF Later
  <2>3. Find(e, r) \in Roots(e) /\ Find(e, r) \in Ids(e) /\ m \in Enodes(Ids(e))
    BY <1>1, <2>1, RootFacts
  <2>4. PICK l \in f.nodes[Find(f, Find(e, r))] : Resolved(f, l) = Resolved(f, m)
    BY <2>3 DEF Later
  <2>5. Find(f, Find(e, r)) = Find(f, r)
    BY <1>1, <2>1 DEF Later
  <2>6. Resolved(f, m) = Resolved(f, n)
    <3>1. /\ m[1] = n[1] /\ m[3] = n[3] /\ DOMAIN m[2] = DOMAIN n[2]
          /\ \A k \in DOMAIN m[2] : Find(e, m[2][k]) = Find(e, n[2][k])
      BY <2>1, <2>2, <2>3, SameFormParts DEF HeadOf
    <3>0. m[2] \in Seq(Ids(e)) /\ n[2] \in Seq(Ids(e))
      BY <2>1, <2>3, EnodeParts
    <3>2. \A k \in DOMAIN m[2] : m[2][k] \in Ids(e) /\ n[2][k] \in Ids(e)
      BY <3>0, <3>1
    <3>3. \A k \in DOMAIN m[2] : Find(f, m[2][k]) = Find(f, n[2][k])
      BY <3>1, <3>2 DEF Later
    <3> QED
      BY <3>1, <3>3 DEF Resolved
  <2> QED
    BY <2>4, <2>5, <2>6
<1>4. \A n \in DOMAIN h.cons : n \in DOMAIN f.cons /\ f.cons[n] = h.cons[n]
  BY DEF Later
<1> QED
  BY <1>1, <1>2, <1>3, <1>4 DEF Later
-----------------------------------------------------------------------------
(* What each primitive does to the matches: the graph after it is later, a   *)
(* class that changed is dirty, and a leaf stays known by its enode.         *)

LeavesKnown(h) ==
  \A r \in Roots(h) : \A n \in h.nodes[r] :
    n[1] = "leaf" /\ n[2] = <<>> => n \in DOMAIN h.cons /\ Find(h, h.cons[n]) = r

Touches(h, f) ==
  /\ h.dirty \subseteq f.dirty
  /\ \A i \in Ids(h) : Find(f, i) = Find(h, i) \/ Find(f, i) \in Frontier(f)

Small(h) == IsFiniteSet(DOMAIN h.cons) /\ \A i \in Ids(h) : IsFiniteSet(h.nodes[i])

Grows(h, f) ==
  /\ Later(h, f) /\ Touches(h, f)
  /\ LeavesKnown(h) => LeavesKnown(f)
  /\ Small(h) => Small(f)

\* What was dirty stays so, under the name it has now.
LEMMA FrontierStays ==
  ASSUME NEW h, NEW f, Tables(h), Grows(h, f)
  PROVE  /\ \A i \in Frontier(h) : Find(f, i) \in Frontier(f)
         /\ \A i \in Ids(h) : Find(h, i) \in Frontier(h) => Find(f, i) \in Frontier(f)
<1>1. ASSUME NEW i \in Frontier(h) PROVE Find(f, i) \in Frontier(f)
  <2>1. PICK d \in h.dirty : i = Find(h, d)
    BY DEF Frontier
  <2>2. d \in Ids(h) /\ d \in f.dirty
    BY RootFacts DEF Grows, Touches
  <2>3. Find(f, i) = Find(f, d)
    BY <2>1, <2>2 DEF Grows, Later
  <2> QED
    BY <2>2, <2>3 DEF Frontier
<1>2. ASSUME NEW i \in Ids(h), Find(h, i) \in Frontier(h) PROVE Find(f, i) \in Frontier(f)
  <2>1. Find(f, Find(h, i)) = Find(f, i)
    BY DEF Grows, Later
  <2> QED
    BY <1>1, <1>2, <2>1
<1> QED
  BY <1>1, <1>2

LEMMA GrowsIsReflexive ==
  ASSUME NEW h, Tables(h) PROVE Grows(h, h)
BY LaterIsReflexive DEF Grows, Touches

LEMMA AddNodeGrows ==
  ASSUME NEW h, Tables(h), Numbered(h), NEW n \in Enodes(Roots(h)), n \notin DOMAIN h.cons
  PROVE  Grows(h, AddNode(h, n))
<1> DEFINE f == AddNode(h, n)  id == Len(h.canon) + 1
<1>1. /\ id \notin Ids(h) /\ Ids(f) = Ids(h) \cup {id} /\ Find(f, id) = id /\ f.nodes[id] = {n}
      /\ \A i \in Ids(h) : Find(f, i) = Find(h, i) /\ f.nodes[i] = h.nodes[i]
      /\ Roots(f) = Roots(h) \cup {id}
      /\ \A m \in Enodes(Ids(h)) : Resolved(f, m) = Resolved(h, m)
  BY AddNodeShape
<1>2. /\ DOMAIN h = Fields /\ Roots(h) \subseteq Ids(h) /\ \A i \in Roots(h) : Find(h, i) = i
      /\ \A i \in Ids(h) : Find(h, i) \in Ids(h) /\ Find(h, Find(h, i)) = Find(h, i)
      /\ \A i \in Ids(h) : h.nodes[i] \subseteq Enodes(Ids(h))
      /\ \A m \in DOMAIN h.cons : h.cons[m] \in Ids(h)
  BY RootFacts DEF Forest, ClassTable
<1>3. f.cons = WithDefault(h.cons, {n}, id) /\ f.dirty = h.dirty \cup {id}
  BY <1>2, AddNodeTables
<1> HIDE DEF f, id
<1>4. /\ \A m \in DOMAIN h.cons : m \in DOMAIN f.cons /\ f.cons[m] = h.cons[m]
      /\ n \in DOMAIN f.cons /\ f.cons[n] = id
  BY <1>3 DEF WithDefault
<1>5. Later(h, f)
  BY <1>1, <1>2, <1>4 DEF Later
<1>6. Touches(h, f)
  BY <1>1, <1>3 DEF Touches
<1>7. LeavesKnown(h) => LeavesKnown(f)
  BY <1>1, <1>2, <1>4 DEF LeavesKnown
<1>8. ASSUME Small(h) PROVE Small(f)
  <2>1. DOMAIN f.cons = DOMAIN h.cons \cup {n}
    BY <1>3 DEF WithDefault
  <2>2. IsFiniteSet(DOMAIN f.cons)
    BY <1>8, <2>1, FS_AddElement DEF Small
  <2>3. ASSUME NEW i \in Ids(f) PROVE IsFiniteSet(f.nodes[i])
    <3>1. IsFiniteSet({n})
      BY FS_Singleton
    <3> QED
      BY <1>1, <1>8, <3>1 DEF Small
  <2> QED
    BY <2>2, <2>3 DEF Small
<1> QED
  BY <1>5, <1>6, <1>7, <1>8 DEF Grows, f

LEMMA MergeGrows ==
  ASSUME NEW h, Tables(h), NEW w \in Roots(h), NEW l \in Roots(h), w # l
  PROVE  Grows(h, Merge(h, w, l))
<1> DEFINE f == Merge(h, w, l)
<1>1. /\ Ids(f) = Ids(h) /\ Roots(f) = Roots(h) \ {l}
      /\ \A i \in Ids(h) : Find(f, i) = IF Find(h, i) = l THEN w ELSE Find(h, i)
      /\ f.nodes[w] = h.nodes[w] \cup h.nodes[l] /\ f.nodes[l] = {}
      /\ \A i \in Ids(h) \ {w, l} : f.nodes[i] = h.nodes[i]
  BY MergeShape
<1>2. /\ DOMAIN h = Fields /\ Roots(h) \subseteq Ids(h) /\ \A i \in Roots(h) : Find(h, i) = i
      /\ \A i \in Ids(h) : Find(h, i) \in Ids(h) /\ Find(h, Find(h, i)) = Find(h, i)
      /\ \A m \in DOMAIN h.cons : h.cons[m] \in Ids(h)
  BY RootFacts DEF Forest, ClassTable
<1>3. f.cons = h.cons /\ f.dirty = h.dirty \cup {w}
  BY <1>2, MergeClasses, MergeTables
<1> HIDE DEF f
<1>4. w \in Frontier(f)
  <2>1. Find(f, w) = w
    BY <1>1, <1>2
  <2> QED
    BY <1>3, <2>1 DEF Frontier
<1>5. Later(h, f)
  <2>1. \A i \in Ids(h) : Find(f, Find(h, i)) = Find(f, i)
    BY <1>1, <1>2
  <2>2. \A r \in Roots(h) : h.nodes[r] \subseteq f.nodes[Find(f, r)]
    <3> SUFFICES ASSUME NEW r \in Roots(h) PROVE h.nodes[r] \subseteq f.nodes[Find(f, r)]
      OBVIOUS
    <3>1. r \in Ids(h) /\ Find(f, r) = IF r = l THEN w ELSE r
      BY <1>1, <1>2
    <3> QED
      BY <1>1, <3>1
  <2> QED
    BY <1>1, <1>3, <2>1, <2>2 DEF Later
<1>6. Touches(h, f)
  BY <1>1, <1>3, <1>4 DEF Touches
<1>7. ASSUME LeavesKnown(h) PROVE LeavesKnown(f)
  <2> SUFFICES ASSUME NEW r \in Roots(f), NEW n \in f.nodes[r], n[1] = "leaf", n[2] = <<>>
               PROVE  n \in DOMAIN f.cons /\ Find(f, f.cons[n]) = r
    BY DEF LeavesKnown
  <2>1. PICK q \in Roots(h) : n \in h.nodes[q] /\ (q = r \/ (q = l /\ r = w))
    BY <1>1, <1>2
  <2>2. n \in DOMAIN h.cons /\ Find(h, h.cons[n]) = q
    BY <1>7, <2>1 DEF LeavesKnown
  <2> QED
    BY <1>1, <1>2, <1>3, <2>1, <2>2
<1>8. ASSUME Small(h) PROVE Small(f)
  <2>1. IsFiniteSet(h.nodes[w] \cup h.nodes[l])
    BY <1>2, <1>8, FS_Union DEF Small
  <2>2. ASSUME NEW i \in Ids(f) PROVE IsFiniteSet(f.nodes[i])
    <3>1. CASE i = l
      BY <1>1, <3>1, FS_EmptySet
    <3>2. CASE i # l
      BY <1>1, <1>8, <2>1, <3>2 DEF Small
    <3> QED
      BY <3>1, <3>2
  <2> QED
    BY <1>3, <1>8, <2>2 DEF Small
<1> QED
  BY <1>5, <1>6, <1>7, <1>8 DEF Grows, f

LEMMA DirtyGrows ==
  ASSUME NEW h, Tables(h), NEW U PROVE Grows(h, [h EXCEPT !.dirty = @ \cup U])
<1> DEFINE f == [h EXCEPT !.dirty = @ \cup U]
<1>1. DOMAIN h = Fields
  BY DEF Tables
<1>2. f.canon = h.canon /\ f.nodes = h.nodes /\ f.cons = h.cons /\ f.dirty = h.dirty \cup U
  BY <1>1 DEF Fields
<1> HIDE DEF f
<1>3. /\ Ids(f) = Ids(h) /\ Roots(f) = Roots(h) /\ \A i : Find(f, i) = Find(h, i)
  BY <1>2 DEF Ids, Roots, Find
<1>4. Later(h, f)
  BY <1>2, <1>3, RootFacts DEF Later, Forest
<1> QED
  BY <1>2, <1>3, <1>4 DEF Grows, Touches, LeavesKnown, Small, f

LEMMA RekeyGrows ==
  ASSUME NEW h, Tables(h), NEW r \in Roots(h), NEW old \in SUBSET h.nodes[r]
  PROVE  Grows(h, Rekey(h, r, old))
<1> DEFINE f == Rekey(h, r, old)  new == Forms(h, old)
<1>1. /\ Ids(f) = Ids(h) /\ f.canon = h.canon /\ Roots(f) = Roots(h)
      /\ \A i \in Ids(h) : Find(f, i) = Find(h, i)
      /\ \A n : Resolved(f, n) = Resolved(h, n)
      /\ f.nodes[r] = (h.nodes[r] \ old) \cup new
      /\ \A i \in Ids(h) \ {r} : f.nodes[i] = h.nodes[i]
  BY RekeyShape
<1>2. /\ DOMAIN h = Fields /\ Forest(h) /\ Roots(h) \subseteq Ids(h) /\ \A i \in Roots(h) : Find(h, i) = i
      /\ \A i \in Ids(h) : Find(h, i) \in Ids(h) /\ Find(h, Find(h, i)) = Find(h, i)
      /\ \A i \in Ids(h) : h.nodes[i] \subseteq Enodes(Ids(h))
      /\ \A m \in DOMAIN h.cons : h.cons[m] \in Ids(h)
  BY RootFacts DEF Forest, ClassTable
<1>3. /\ f.dirty = h.dirty
      /\ \A m \in DOMAIN h.cons : m \in DOMAIN f.cons /\ f.cons[m] = h.cons[m]
  <2>1. f.dirty = h.dirty
    BY <1>2, RekeyTables
  <2>2. f.cons = IF h.track THEN WithDefault(h.cons, new, r) ELSE h.cons
    BY <1>2, RekeyCons
  <2> HIDE DEF f
  <2> QED
    BY <2>1, <2>2 DEF WithDefault
<1> HIDE DEF f
<1>4. \A q \in Roots(h) : \A n \in h.nodes[q] : \E m \in f.nodes[q] : Resolved(f, m) = Resolved(f, n)
  <2> SUFFICES ASSUME NEW n \in old PROVE \E m \in f.nodes[r] : Resolved(f, m) = Resolved(f, n)
    BY <1>1, <1>2
  <2>1. Resolved(h, n) \in new
    BY DEF Forms
  <2>2. n \in Enodes(Ids(h))
    BY <1>2
  <2>3. Resolved(h, Resolved(h, n)) = Resolved(h, n)
    BY <1>2, <2>2, ResolvedEnode
  <2> QED
    BY <1>1, <2>1, <2>3
<1>5. Later(h, f)
  BY <1>1, <1>2, <1>3, <1>4 DEF Later
<1>6. Touches(h, f)
  BY <1>1, <1>3 DEF Touches
<1>7. ASSUME LeavesKnown(h) PROVE LeavesKnown(f)
  <2> SUFFICES ASSUME NEW q \in Roots(h), NEW n \in f.nodes[q], n[1] = "leaf", n[2] = <<>>
               PROVE  n \in h.nodes[q]
    BY <1>1, <1>2, <1>3, <1>7 DEF LeavesKnown
  <2> SUFFICES ASSUME q = r, n \in new PROVE n \in h.nodes[r]
    BY <1>1, <1>2
  <2>1. PICK m \in old : n = Resolved(h, m)
    BY DEF Forms
  <2>2. m \in Enodes(Ids(h))
    BY <1>2
  <2>3. /\ HeadOf(n) = HeadOf(m) /\ m[2] \in Seq(Ids(h)) /\ m = <<m[1], m[2], m[3]>>
        /\ DOMAIN m[2] = 1 .. Len(m[2]) /\ Len(m[2]) \in Nat
    BY <1>2, <2>1, <2>2, ResolvedEnode, EnodeParts
  <2>4. Len(m[2]) = 0
    BY <2>3 DEF HeadOf
  <2>5. \A c \in Kids(m) : Find(h, c) = c
    BY <2>3, <2>4 DEF Kids
  <2>6. n = m
    BY <1>2, <2>1, <2>2, <2>5, ResolvedEnode
  <2> QED
    BY <2>6
<1>8. ASSUME Small(h) PROVE Small(f)
  <2>0. IsFiniteSet(h.nodes[r])
    BY <1>2, <1>8 DEF Small
  <2>1. IsFiniteSet(old) /\ IsFiniteSet(h.nodes[r] \ old)
    BY <2>0, FS_Subset, FS_Difference
  <2>2. IsFiniteSet(new)
    <3> DEFINE F == [n \in old |-> Resolved(h, n)]
    <3>1. F \in Surjection(old, new)
      BY DEF Forms, Surjection
    <3> HIDE DEF F, new
    <3> QED
      BY <2>1, <3>1, FS_Surjection
  <2>3. IsFiniteSet((h.nodes[r] \ old) \cup new)
    BY <2>1, <2>2, FS_Union
  <2>4. DOMAIN f.cons = DOMAIN h.cons \cup new \/ f.cons = h.cons
    <3>1. f.cons = IF h.track THEN WithDefault(h.cons, Forms(h, old), r) ELSE h.cons
      BY <1>2, RekeyCons DEF f
    <3> QED
      BY <3>1 DEF WithDefault
  <2>5. IsFiniteSet(DOMAIN h.cons \cup new) /\ IsFiniteSet(DOMAIN h.cons)
    BY <1>8, <2>2, FS_Union DEF Small
  <2>6. \A i \in Ids(f) : IsFiniteSet(f.nodes[i])
    BY <1>1, <1>8, <2>3 DEF Small
  <2> QED
    BY <2>4, <2>5, <2>6 DEF Small
<1> QED
  BY <1>5, <1>6, <1>7, <1>8 DEF Grows, f

\* Other owners, or another worklist, are nothing to a match.
LEMMA SameClassesGrow ==
  ASSUME NEW h, NEW k, NEW f, Grows(h, k), SameClasses(f, k)
  PROVE  Grows(h, f)
<1>1. /\ Ids(f) = Ids(k) /\ Roots(f) = Roots(k) /\ Frontier(f) = Frontier(k)
      /\ \A i : Find(f, i) = Find(k, i)
      /\ \A n : Resolved(f, n) = Resolved(k, n)
      /\ f.nodes = k.nodes /\ f.cons = k.cons /\ f.dirty = k.dirty
  BY SameClassesKeep DEF SameClasses
<1> QED
  BY <1>1 DEF Grows, Later, Touches, LeavesKnown, Small

LEMMA CanonicaliseGrows ==
  ASSUME NEW h, Tables(h), NEW r \in Roots(h) PROVE Grows(h, CanonicaliseClass(h, r))
<1>1. Stale(h, r) \in SUBSET h.nodes[r] /\ DOMAIN h = Fields
  BY RootFacts DEF Stale
<1> QED
  BY <1>1, RekeyGrows, CanonicaliseTables, SameClassesGrow

LEMMA ClaimGrows ==
  ASSUME NEW h, Tables(h), NEW item \in Ids(h) \X Enodes(Ids(h)),
         PruneUp(h, {}), PruneDown(h), HashLive(h), Indexed(h)
  PROVE  Grows(h, Claims(h, item))
<1> DEFINE k == Rekeys(h, item)  r == Find(h, item[1])  n == item[2]  e == Rekey(h, r, {n})
<1>1. r \in Roots(h) /\ DOMAIN h = Fields
  BY RootFacts
<1>2. Grows(h, k)
  <2>1. CASE Resolved(h, n) # n /\ n \in h.nodes[r]
    <3>1. k = [e EXCEPT !.owner = Without(@, {n})]
      BY <2>1 DEF Rekeys
    <3>2. Grows(h, e) /\ DOMAIN e = Fields
      BY <1>1, <2>1, RekeyGrows, RekeyTables
    <3> HIDE DEF e, k
    <3>3. SameClasses(k, e)
      BY <3>1, <3>2 DEF SameClasses, Fields
    <3> QED
      BY <3>2, <3>3, SameClassesGrow
  <2>2. CASE ~(Resolved(h, n) # n /\ n \in h.nodes[r])
    <3>1. k = h
      BY <2>2 DEF Rekeys
    <3> QED
      BY <3>1, GrowsIsReflexive
  <2> QED
    BY <2>1, <2>2
<1>3. SameClasses(Claims(h, item), k)
  BY ClaimsShape
<1> QED
  BY <1>2, <1>3, SameClassesGrow
-----------------------------------------------------------------------------
(* What the steps do to the matches. *)

LEMMA LinkGrows ==
  ASSUME Tables(g), NEW ra \in Roots(g), NEW rb \in Roots(g), Link(ra, rb)
  PROVE  Grows(g, g')
<1> DEFINE w == Winner(g, ra, rb)  l == Loser(g, ra, rb)
<1>1. g' = Merge(g, w, l) /\ ra # rb
  BY DEF Link
<1>2. w \in Roots(g) /\ l \in Roots(g) /\ w # l
  BY <1>1, WinnerLoser DEF Winner, Loser
<1> HIDE DEF w, l
<1>3. Grows(g, Merge(g, w, l))
  BY <1>2, MergeGrows
<1> QED
  BY <1>1, <1>3

\* Every step but the taking of the frontier grows the graph.
Growth == Add \/ Unite \/ WalkUp \/ Restore \/ UNCHANGED vars

LEMMA StepGrows ==
  ASSUME IInv, Growth
  PROVE  Grows(g, g') /\ searched' = searched
<1>0. Graph(g, walk, work, merges) /\ Tables(g) /\ DOMAIN g = Fields
  BY DEF IInv, Graph, Tables
<1>1. CASE UNCHANGED vars
  BY <1>0, <1>1, GrowsIsReflexive DEF vars
<1>2. CASE Add
  <2>1. PICK op \in Ops, key \in Keys, k \in (0 .. MaxArity) \cap Nat :
          \E kids \in [1 .. k -> Roots(g)] :
            /\ <<op, kids, key>> \notin DOMAIN g.cons
            /\ g' = AddNode(g, <<op, kids, key>>)
    BY <1>2 DEF Add
  <2>2. PICK kids \in [1 .. k -> Roots(g)] :
          /\ <<op, kids, key>> \notin DOMAIN g.cons
          /\ g' = AddNode(g, <<op, kids, key>>)
    BY <2>1
  <2>3. <<op, kids, key>> \in Enodes(Roots(g))
    BY NewEnode
  <2>4. Numbered(g) /\ searched' = searched
    BY <1>0, <1>2 DEF Graph, Add
  <2>5. \A n \in Enodes(Roots(g)) : n \notin DOMAIN g.cons => Grows(g, AddNode(g, n))
    BY <1>0, <2>4, AddNodeGrows
  <2> QED
    BY <2>2, <2>3, <2>4, <2>5
<1>3. CASE Unite
  <2>1. PICK a \in DOMAIN g.canon, b \in DOMAIN g.canon : Link(Find(g, a), Find(g, b))
    BY <1>3 DEF Unite
  <2>2. Find(g, a) \in Roots(g) /\ Find(g, b) \in Roots(g)
    BY <1>0, RootFacts DEF Ids
  <2>3. searched' = searched
    BY <1>3 DEF Unite
  <2>4. \A ra \in Roots(g), rb \in Roots(g) : Link(ra, rb) => Grows(g, g')
    BY <1>0, LinkGrows
  <2> QED
    BY <2>1, <2>2, <2>3, <2>4
<1>4. CASE WalkUp
  <2>1. PICK c \in walk : g' = [g EXCEPT !.dirty = @ \cup Above(g, c)]
    BY <1>4 DEF WalkUp
  <2>2. \A U : Grows(g, [g EXCEPT !.dirty = @ \cup U])
    BY <1>0, DirtyGrows
  <2> QED
    BY <1>4, <2>1, <2>2 DEF WalkUp
<1>6. CASE CanonicaliseRoot
  <2>1. PICK r \in Roots(g) : g' = CanonicaliseClass(g, r)
    BY <1>6 DEF CanonicaliseRoot
  <2>2. \A q \in Roots(g) : Grows(g, CanonicaliseClass(g, q))
    BY <1>0, CanonicaliseGrows
  <2> QED
    BY <1>6, <2>1, <2>2 DEF CanonicaliseRoot
<1>7. CASE TakeWork
  <2>1. g' = [g EXCEPT !.pend = {}] /\ searched' = searched
    BY <1>7 DEF TakeWork
  <2>2. SameClasses(g', g)
    BY <1>0, <2>1 DEF SameClasses, Fields
  <2> QED
    BY <1>0, <2>1, <2>2, GrowsIsReflexive, SameClassesGrow
<1>8. CASE ClaimItem
  <2>1. PICK item \in work : g' = Claim([g |-> g, merges |-> merges], item).g
    BY <1>8 DEF ClaimItem
  <2>2. /\ item \in Ids(g) \X Enodes(Ids(g)) /\ searched' = searched
        /\ PruneUp(g, {}) /\ PruneDown(g) /\ HashLive(g) /\ Indexed(g)
    BY <1>0, <1>8, <2>1 DEF Graph, ClaimItem
  <2>3. g' = Claims(g, item)
    BY <1>0, <2>1, <2>2, ClaimResult
  <2>4. Grows(g, Claims(g, item))
    BY <1>0, <2>2, ClaimGrows
  <2> QED
    BY <2>2, <2>3, <2>4
<1>9. CASE MergeNext
  <2> DEFINE S == Ids(g) \X Ids(g)
             ra == Find(g, Head(merges)[1])  rb == Find(g, Head(merges)[2])
  <2>1. /\ merges # <<>> /\ searched' = searched
        /\ Link(ra, rb) \/ (ra = rb /\ g' = g)
    BY <1>9 DEF MergeNext
  <2>2. merges \in Seq(S)
    BY <1>0 DEF Graph
  <2> HIDE DEF S
  <2>3. Head(merges) = merges[1] /\ merges[1] \in S
    BY <2>1, <2>2, TailFacts
  <2>4. ra \in Roots(g) /\ rb \in Roots(g)
    BY <1>0, <2>3, RootFacts DEF S
  <2>5. \A x \in Roots(g), y \in Roots(g) : Link(x, y) => Grows(g, g')
    BY <1>0, LinkGrows
  <2> QED
    BY <1>0, <2>1, <2>4, <2>5, GrowsIsReflexive
<1> QED
  BY <1>1, <1>2, <1>3, <1>4, <1>6, <1>7, <1>8, <1>9 DEF Growth, Restore

\* Taking the frontier leaves the classes as they are.
LEMMA TakeFrontierKeepsMatches ==
  ASSUME IInv, TakeFrontier
  PROVE  /\ searched' = g /\ Frontier(g') = {} /\ Later(g, g')
         /\ Roots(g') = Roots(g) /\ Ids(g') = Ids(g) /\ g'.nodes = g.nodes /\ g'.cons = g.cons
         /\ \A i : Find(g', i) = Find(g, i)
<1>1. searched' = g /\ g' = Cleared(g) /\ Tables(g) /\ DOMAIN g = Fields
  BY DEF TakeFrontier, IInv, Graph, Tables
<1>2. g'.canon = g.canon /\ g'.nodes = g.nodes /\ g'.cons = g.cons /\ g'.dirty = {}
  BY <1>1 DEF Cleared, Fields
<1>3. /\ Ids(g') = Ids(g) /\ Roots(g') = Roots(g) /\ \A i : Find(g', i) = Find(g, i)
      /\ \A n : Resolved(g', n) = Resolved(g, n) /\ Frontier(g') = {}
  BY <1>2 DEF Ids, Roots, Find, Resolved, Frontier
<1>4. Later(g, g')
  BY <1>1, <1>2, <1>3, RootFacts DEF Later, Forest
<1> QED
  BY <1>1, <1>2, <1>3, <1>4
-----------------------------------------------------------------------------
(* The filters. *)

LEMMA InvKeepsMatches == IInv => FilterKeepsMatches
<1> SUFFICES ASSUME Tables(g), Indexed(g),
                    NEW r \in RuleNames, NEW c \in Places(g, <<>>)[Rules[r].lhs]
             PROVE  /\ Headed(Rules[r].lhs) => c \in Eligible(g, Rules[r].lhs)
                    /\ HeadOk(g, Rules[r].lhs, c)
  BY DEF IInv, Graph, FilterKeepsMatches
<1> DEFINE p == Rules[r].lhs
<1>0. p \in Patterns /\ \A i \in Roots(g) : Find(g, i) = i
  BY RootFacts, RulesAreOverPatterns DEF RuleNames
<1> HIDE DEF p, Places
<1>1. /\ c \in Roots(g)
      /\ IsConst(p) => LeafNode(p) \in DOMAIN g.cons /\ c = Find(g, g.cons[LeafNode(p)])
      /\ Compound(p) =>
           \E n \in g.nodes[c] :
             /\ HeadOf(n) = HeadOf(p) /\ n[3] = NoKey
             /\ \A k \in DOMAIN p[2] : Find(g, n[2][k]) \in Places(g, <<>>)[p[2][k]]
  BY <1>0, PlacesCases DEF p
<1>2. IsConst(p) => c \in Eligible(g, p)
  <2> SUFFICES ASSUME IsConst(p) PROVE c \in Eligible(g, p)
    OBVIOUS
  <2>1. Eligible(g, p) = {Find(g, g.cons[n]) : n \in {LeafNode(p)} \cap DOMAIN g.cons}
    BY DEF Eligible, IsVar, IsConst, Compound
  <2> QED
    BY <1>1, <2>1
<1>3. ASSUME Compound(p) PROVE c \in Eligible(g, p) /\ HeadOk(g, p, c)
  <2>1. PICK n \in g.nodes[c] :
          /\ HeadOf(n) = HeadOf(p)
          /\ \A k \in DOMAIN p[2] : Find(g, n[2][k]) \in Places(g, <<>>)[p[2][k]]
    BY <1>1, <1>3
  <2>2. <<HeadOf(p), c>> \in g.opk
    BY <1>1, <2>1 DEF Indexed
  <2>3. c \in Eligible(g, p)
    <3>1. Eligible(g, p) = {Find(g, e[2]) : e \in {x \in g.opk : x[1] = HeadOf(p)}}
      BY <1>3 DEF Eligible, Compound
    <3> QED
      BY <1>0, <1>1, <2>2, <3>1
  <2>4. ASSUME NEW k \in DOMAIN p[2], Compound(p[2][k])
        PROVE  \E e \in g.opk : e[1][1] = p[2][k][1] /\ e[2] = Find(g, n[2][k])
    <3> DEFINE q == p[2][k]  i == Find(g, n[2][k])
    <3>1. q \in Patterns /\ i \in Places(g, <<>>)[q] /\ Compound(q)
      BY <1>0, <1>3, <2>1, <2>4, PatternsAreTerms DEF Kids
    <3> HIDE DEF q, i
    <3>2. i \in Roots(g) /\ \E m \in g.nodes[i] : HeadOf(m) = HeadOf(q)
      BY <3>1, PlacesCases
    <3>3. <<HeadOf(q), i>> \in g.opk
      BY <3>2 DEF Indexed
    <3> QED
      BY <3>3 DEF HeadOf, q, i
  <2> QED
    BY <2>1, <2>3, <2>4 DEF HeadOk
<1> QED
  BY <1>2, <1>3 DEF p, Headed, HeadOk, Compound

\* The index by operator and arity, and the arguments it is asked about, keep
\* every class where the left-hand side could match, however deep the pattern
\* is and whatever has been united since (_candidate_classes, _head_ok).
THEOREM FilterDropsNoMatch == Spec => []FilterKeepsMatches
<1> QED
  BY InvKeepsMatches, Inductive, PTL
-----------------------------------------------------------------------------
(* A match at a class that is not dirty was there when the frontier was last *)
(* taken.                                                                    *)

Unchanged(h, e) ==
  \A r \in Roots(h) \ Frontier(h) :
    /\ r \in Roots(e) /\ Forms(h, h.nodes[r]) = Forms(e, e.nodes[r])
    /\ \A n \in Forms(h, h.nodes[r]) : Kids(n) \cap Frontier(h) = {}

LEMMA LeafNodeParts ==
  ASSUME NEW p
  PROVE  LeafNode(p)[1] = "leaf" /\ LeafNode(p)[2] = <<>> /\ LeafNode(p)[3] = p[2]
BY DEF LeafNode

\* An enode of the same form as a leaf is that leaf.
LEMMA SameFormAsLeaf ==
  ASSUME NEW h, NEW p, NEW m \in Enodes(Ids(h)), Resolved(h, m) = LeafNode(p)
  PROVE  m = LeafNode(p)
<1> DEFINE ms == [k \in DOMAIN m[2] |-> Find(h, m[2][k])]
<1>1. m[1] = "leaf" /\ ms = <<>> /\ m[3] = p[2] /\ m[2] \in Seq(Ids(h)) /\ m = <<m[1], m[2], m[3]>>
  BY EnodeParts DEF Resolved, LeafNode
<1>2. DOMAIN m[2] = {}
  <2>1. DOMAIN ms = DOMAIN m[2] /\ DOMAIN <<>> = {}
    OBVIOUS
  <2> QED
    BY <1>1, <2>1
<1>3. m[2] = <<>>
  BY <1>1, <1>2
<1> QED
  BY <1>1, <1>3 DEF LeafNode

LEMMA LeafIsResolved ==
  ASSUME NEW h, NEW p PROVE Resolved(h, LeafNode(p)) = LeafNode(p)
<1>1. [k \in DOMAIN <<>> |-> Find(h, <<>>[k])] = <<>>
  OBVIOUS
<1> QED
  BY <1>1 DEF Resolved, LeafNode

LEMMA CleanMatchesAreOld ==
  ASSUME NEW h, NEW e, Tables(h), Tables(e), HashLive(h), LeavesKnown(e), Unchanged(h, e),
         NEW V, NEW s \in [V -> Roots(h)]
  PROVE  \A p \in Patterns : \A c \in Places(h, s)[p] \ Frontier(h) :
           c \in Places(e, s)[p] /\ \A v \in VarsOf(p) \cap V : s[v] \in Roots(e)
<1> DEFINE Old(p, c) == c \in Places(e, s)[p] /\ \A v \in VarsOf(p) \cap V : s[v] \in Roots(e)
           S == {p \in Patterns : \A c \in Places(h, s)[p] \ Frontier(h) : Old(p, c)}
<1> HIDE DEF Places, Old
<1>1. ASSUME NEW p \in Patterns, Compound(p) => \A k \in DOMAIN p[2] : p[2][k] \in S
      PROVE  p \in S
  <2> SUFFICES ASSUME NEW c \in Places(h, s)[p], c \notin Frontier(h) PROVE Old(p, c)
    OBVIOUS
  <2>1. c \in Roots(h) /\ Find(h, c) = c /\ c \in Roots(e) /\ Find(e, c) = c /\ c \in Ids(h) /\ c \in Ids(e)
    BY PlacesCases, RootFacts DEF Unchanged
  <2>2. CASE IsVar(p)
    <3>1. p[2] \in V => c = s[p[2]]
      BY <2>2, PlacesCases, RootFacts
    <3>2. VarsOf(p) = {p[2]} /\ ~IsConst(p) /\ ~Compound(p)
      BY <2>2, PatternsAreTerms DEF VarsOf, IsVar, IsConst, Compound
    <3> QED
      BY <2>1, <3>1, <3>2, PlacesCases DEF Old
  <2>3. CASE IsConst(p)
    <3> DEFINE n == LeafNode(p)
    <3>1. n \in DOMAIN h.cons /\ c = Find(h, h.cons[n])
      BY <2>3, PlacesCases
    <3>2. n \in h.nodes[c]
      BY <3>1, LeafIsResolved DEF HashLive
    <3>3. n \in Forms(e, e.nodes[c])
      BY <2>1, <3>2, LeafIsResolved DEF Forms, Unchanged
    <3>4. PICK m \in e.nodes[c] : Resolved(e, m) = n
      BY <3>3 DEF Forms
    <3>5. m = n
      BY <2>1, <3>4, RootFacts, SameFormAsLeaf
    <3> HIDE DEF n
    <3>6. n \in DOMAIN e.cons /\ Find(e, e.cons[n]) = c
      BY <2>1, <3>4, <3>5, LeafNodeParts DEF LeavesKnown, n
    <3>7. VarsOf(p) = {} /\ ~IsVar(p) /\ ~Compound(p)
      BY <2>3, PatternsAreTerms DEF VarsOf, IsVar, IsConst, Compound
    <3> QED
      BY <2>1, <3>6, <3>7, PlacesCases DEF Old, n
  <2>4. CASE Compound(p)
    <3>1. PICK n \in h.nodes[c] :
            /\ HeadOf(n) = HeadOf(p) /\ n[3] = NoKey
            /\ \A k \in DOMAIN p[2] : Find(h, n[2][k]) \in Places(h, s)[p[2][k]]
      BY <2>4, PlacesCases
    <3>2. Resolved(h, n) \in Forms(e, e.nodes[c]) /\ Kids(Resolved(h, n)) \cap Frontier(h) = {}
      BY <2>1 DEF Forms, Unchanged
    <3>3. PICK m \in e.nodes[c] : Resolved(e, m) = Resolved(h, n)
      BY <3>2 DEF Forms
    <3>4. n \in Enodes(Ids(h)) /\ m \in Enodes(Ids(e)) /\ Forest(h) /\ Forest(e)
      BY <2>1, RootFacts
    <3>5. /\ HeadOf(m) = HeadOf(n) /\ m[3] = n[3] /\ DOMAIN m[2] = DOMAIN n[2]
          /\ \A k \in DOMAIN m[2] : Find(e, m[2][k]) = Find(h, n[2][k])
      BY <3>3, <3>4, SameFormParts
    <3>6. DOMAIN n[2] = DOMAIN p[2]
      BY <2>4, <3>1, <3>4, HeadKids
    <3>7. ASSUME NEW k \in DOMAIN p[2] PROVE Old(p[2][k], Find(e, m[2][k]))
      <4>1. p[2][k] \in S /\ Find(h, n[2][k]) \in Places(h, s)[p[2][k]]
        BY <1>1, <2>4, <3>1
      <4>2. Find(h, n[2][k]) \in Kids(Resolved(h, n))
        BY <3>6 DEF Resolved, Kids
      <4>3. Old(p[2][k], Find(h, n[2][k]))
        BY <3>2, <4>1, <4>2
      <4> QED
        BY <3>5, <3>6, <4>3
    <3>8. c \in Places(e, s)[p]
      <4>1. ~IsVar(p) /\ ~IsConst(p)
        BY <2>4 DEF Compound
      <4> QED
        BY <2>1, <3>1, <3>5, <3>7, <4>1, PlacesCases DEF Old
    <3>9. ASSUME NEW v \in VarsOf(p) \cap V PROVE s[v] \in Roots(e)
      <4>1. PICK q \in Parts[p] : IsVar(q) /\ v = q[2]
        BY DEF VarsOf
      <4>2. PICK k \in DOMAIN p[2] : q \in Parts[p[2][k]]
        BY <2>4, <4>1, PatternsAreTerms DEF Compound, Kids
      <4>3. v \in VarsOf(p[2][k])
        BY <4>1, <4>2 DEF VarsOf
      <4> QED
        BY <3>7, <4>2, <4>3 DEF Old
    <3> QED
      BY <3>8, <3>9 DEF Old
  <2> QED
    BY <2>2, <2>3, <2>4 DEF Compound
<1>2. S = Patterns
  <2> HIDE DEF S
  <2>1. S \in SUBSET Patterns
    BY DEF S
  <2> QED
    BY <1>1, <2>1, PatternInduction
<1> QED
  BY <1>2 DEF Old
-----------------------------------------------------------------------------
(* The loop: where every match of the graph that was searched stands.        *)

\* Two bindings of ids that name the same classes.
SameBinding(h, s, t) ==
  DOMAIN s = DOMAIN t /\ \A v \in DOMAIN s : Find(h, s[v]) = Find(h, t[v])

\* d is what a firing of s builds with: with the leaf of derive, if it has one.
Completes(h, r, s, d) ==
  LET w == Rules[r].derive
  IN  IF w = <<>> THEN d = s
      ELSE /\ DOMAIN d = DOMAIN s \cup {w[1]}
           /\ \A v \in DOMAIN s \ {w[1]} : d[v] = s[v]
           /\ Find(h, d[w[1]]) \in Places(h, s)[w[2]]

Settled(h, r, s, c) == Find(h, c) \in Frontier(h) \/ DoneAt(h, r, s, Find(h, c))

\* The rule will scan the frontier where c is, ...
Scheduled(r, c) == r \in todo /\ c \in search

\* ... or it is at it, and has the class still before it, ...
InSight(h, r, c) ==
  /\ stage \in {"scan", "fire", "build"} /\ rule = r
  /\ \E i \in cands : Find(h, i) = Find(h, c)

\* ... or is at the class, and has the binding in its list.
InHand(h, r, s, c) ==
  /\ stage \in {"fire", "build"} /\ rule = r /\ Find(h, c) = Find(h, eid)
  /\ \E j \in DOMAIN fires : SameBinding(h, fires[j], s)

Attended(h) ==
  \A r \in applied \ missed : Exhaustive(r) =>
    \A s \in Bindings(searched, r) : \A c \in Places(searched, s)[Rules[r].lhs] :
      Settled(h, r, s, c) \/ Scheduled(r, c) \/ InSight(h, r, c) \/ InHand(h, r, s, c)

\* The filter was computed when the scan of the rule began; what it lacks is dirty.
Listed(h) ==
  stage \in {"scan", "fire", "build"} /\ Headed(lhs) =>
    \A s \in Bindings(searched, rule) : \A c \in Places(searched, s)[lhs] :
      Find(h, c) \in Frontier(h) \/ Find(h, c) \in eligible

\* What has been built of a right-hand side stands for its pattern.
Building(h) ==
  stage = "build" =>
    /\ fires # <<>> /\ Completes(h, rule, fires[1], subst)
    /\ \A p \in DOMAIN built : p \in Patterns /\ Find(h, built[p]) \in Places(h, subst)[p]

Sighted(h) ==
  /\ search \subseteq Ids(h) /\ cands \subseteq Ids(h)
  /\ stage \in {"fire", "build"} => eid \in Ids(h) /\ fires \in Seq([VarsOf(lhs) -> Ids(h)])
  /\ stage = "build" =>
       (\A v \in DOMAIN subst : subst[v] \in Ids(h)) /\ (\A p \in DOMAIN built : built[p] \in Ids(h))

\* Only rules of a set passed to run are scheduled and applied.
Paced ==
  /\ applied \subseteq UNION RuleSets
  /\ stage \in {"loop", "rules", "scan", "fire", "build"} => ruleset \in RuleSets
  /\ todo \subseteq ruleset
  /\ stage \in {"idle", "loop", "finish"} => todo = {}
  /\ stage \in {"scan", "fire", "build"} => rule \in applied

\* The graph that was searched, and what has become of it.
Memory == Tables(searched) /\ Later(searched, g) /\ LeavesKnown(searched) /\ LeavesKnown(g)

RunInv  == IInv /\ SInv /\ Memory /\ Paced /\ Sighted(g) /\ Building(g) /\ Listed(g)
LoopInv == RunInv /\ Attended(g)

LEMMA SameStays ==
  ASSUME NEW h, NEW f, Later(h, f), NEW i \in Ids(h), NEW j \in Ids(h), Find(h, i) = Find(h, j)
  PROVE  Find(f, i) = Find(f, j)
BY DEF Later

LEMMA RuleParts ==
  ASSUME NEW r \in RuleNames
  PROVE  /\ Rules[r].lhs \in Patterns /\ Rules[r].rhs \in Patterns
         /\ Rules[r].derive # <<>> =>
              Rules[r].derive[2] \in Patterns /\ IsConst(Rules[r].derive[2])
BY RulesAreOverPatterns DEF RuleNames

\* Once the right-hand side is in the class, under what completes one binding, it
\* is so for every binding that names the same classes, and stays so.
LEMMA DoneLater ==
  ASSUME NEW h, NEW f, Tables(h), Tables(f), Later(h, f), NEW r \in RuleNames,
         NEW V, NEW t \in [V -> Ids(h)], NEW s, SameBinding(f, t, s),
         NEW d, Completes(h, r, t, d), \A v \in DOMAIN d : d[v] \in Ids(h),
         NEW c \in Places(h, d)[Rules[r].rhs]
  PROVE  DoneAt(f, r, s, Find(f, c))
<1> DEFINE w == Rules[r].derive
<1> HIDE DEF Places
<1>0. Rules[r].rhs \in Patterns /\ Forest(f)
  BY RuleParts, RootFacts
<1>1. DOMAIN s = V /\ \A v \in V : t[v] \in Ids(h) /\ Find(f, s[v]) = Find(f, t[v])
  BY DEF SameBinding
<1>2. CASE w = <<>>
  <2>1. d = t /\ Completions(f, r, s) = {s}
    BY <1>2 DEF Completes, Completions
  <2>2. \A v \in DOMAIN s : v \in DOMAIN d /\ d[v] \in Ids(h) /\ Find(f, s[v]) = Find(f, d[v])
    BY <1>1, <2>1
  <2>3. Find(f, c) \in Places(f, s)[Rules[r].rhs]
    BY <1>0, <2>2, PlacesPersist
  <2> QED
    BY <2>1, <2>3 DEF DoneAt
<1>3. CASE w # <<>>
  <2> DEFINE i == Find(f, d[w[1]])
             dd == [v \in DOMAIN s \cup {w[1]} |-> IF v = w[1] THEN i ELSE s[v]]
  <2>1. /\ DOMAIN d = V \cup {w[1]} /\ (\A v \in V \ {w[1]} : d[v] = t[v])
        /\ Find(h, d[w[1]]) \in Places(h, t)[w[2]]
    BY <1>3 DEF Completes
  <2>2. w[2] \in Patterns
    BY <1>3, RuleParts
  <2>3. Find(f, Find(h, d[w[1]])) \in Places(f, s)[w[2]]
    BY <1>1, <2>1, <2>2, PlacesPersist
  <2>4. i \in Places(f, s)[w[2]] /\ Find(f, i) = i
    <3>1. d[w[1]] \in Ids(h) /\ d[w[1]] \in Ids(f)
      BY <2>1 DEF Later
    <3> QED
      BY <1>0, <2>3, <3>1 DEF Later, Forest
  <2>5. dd \in Completions(f, r, s)
    BY <1>3, <2>4 DEF Completions
  <2>6. ASSUME NEW v \in DOMAIN dd
        PROVE  v \in DOMAIN d /\ d[v] \in Ids(h) /\ Find(f, dd[v]) = Find(f, d[v])
    BY <1>1, <2>1, <2>4, <2>6
  <2> HIDE DEF dd
  <2>7. Find(f, c) \in Places(f, dd)[Rules[r].rhs]
    BY <1>0, <2>6, PlacesPersist
  <2> QED
    BY <2>5, <2>7 DEF DoneAt
<1> QED
  BY <1>2, <1>3

LEMMA DonePersists ==
  ASSUME NEW h, NEW f, Tables(h), Tables(f), Later(h, f), NEW r \in RuleNames,
         NEW V, NEW s \in [V -> Ids(h)], NEW c, DoneAt(h, r, s, c)
  PROVE  DoneAt(f, r, s, Find(f, c))
<1> DEFINE w == Rules[r].derive
<1> HIDE DEF Places
<1>1. PICK d \in Completions(h, r, s) : c \in Places(h, d)[Rules[r].rhs]
  BY DEF DoneAt
<1>2. Completes(h, r, s, d) /\ \A v \in DOMAIN d : d[v] \in Ids(h)
  <2>1. CASE w = <<>>
    BY <1>1, <2>1 DEF Completions, Completes
  <2>2. CASE w # <<>>
    <3>1. PICK i \in Places(h, s)[w[2]] :
            d = [v \in V \cup {w[1]} |-> IF v = w[1] THEN i ELSE s[v]]
      BY <1>1, <2>2 DEF Completions
    <3>2. i \in Ids(h) /\ Find(h, i) = i
      BY <2>2, <3>1, RuleParts, PlacesCases, RootFacts
    <3> QED
      BY <2>2, <3>1, <3>2 DEF Completes
  <2> QED
    BY <2>1, <2>2
<1>3. SameBinding(f, s, s)
  BY DEF SameBinding
<1> QED
  BY <1>1, <1>2, <1>3, DoneLater
-----------------------------------------------------------------------------
(* The loop's invariant, when only the graph changes and grows.              *)

LEMMA SeqsGrow ==
  ASSUME NEW S, NEW T, S \subseteq T, NEW q \in Seq(S) PROVE q \in Seq(T)
OBVIOUS

LEMMA RulesNamed ==
  ASSUME PatternsAreOfEnodes, Paced PROVE applied \subseteq RuleNames
BY DEF PatternsAreOfEnodes, Paced

LEMMA BindingsAreOfIds ==
  ASSUME NEW h, Memory, Later(searched, h), NEW r, NEW s \in Bindings(searched, r)
  PROVE  /\ s \in [VarsOf(Rules[r].lhs) -> Ids(h)]
         /\ \A v \in DOMAIN s : s[v] \in Ids(searched) /\ s[v] \in Ids(h)
BY RootFacts DEF Memory, Later, Bindings

LEMMA OldPlaces ==
  ASSUME NEW h, Memory, Later(searched, h), NEW p \in Patterns, NEW s, NEW c \in Places(searched, s)[p]
  PROVE  c \in Roots(searched) /\ c \in Ids(searched) /\ c \in Ids(h)
<1> HIDE DEF Places
<1> QED
  BY PlacesCases, RootFacts DEF Memory, Later

LEMMA SightedGrows ==
  ASSUME NEW h, Grows(g, h), Sighted(g) PROVE Sighted(h)
<1>1. Ids(g) \subseteq Ids(h)
  BY DEF Grows, Later
<1>2. [VarsOf(lhs) -> Ids(g)] \subseteq [VarsOf(lhs) -> Ids(h)]
  BY <1>1
<1>3. fires \in Seq([VarsOf(lhs) -> Ids(g)]) => fires \in Seq([VarsOf(lhs) -> Ids(h)])
  BY <1>2, SeqsGrow
<1> QED
  BY <1>1, <1>3 DEF Sighted

LEMMA ListedGrows ==
  ASSUME NEW h, Tables(g), Grows(g, h), Memory, PatternsAreOfEnodes, Paced, Listed(g)
  PROVE  Listed(h)
<1> SUFFICES ASSUME stage \in {"scan", "fire", "build"}, Headed(lhs),
                    NEW s \in Bindings(searched, rule), NEW c \in Places(searched, s)[lhs]
             PROVE  Find(h, c) \in Frontier(h) \/ Find(h, c) \in eligible
  BY DEF Listed
<1> HIDE DEF Places
<1>1. lhs \in Patterns
  BY RulesNamed, RuleParts DEF Paced, lhs
<1>2. c \in Ids(g)
  BY <1>1, OldPlaces DEF Memory
<1>3. Find(g, c) \in Frontier(g) \/ Find(g, c) \in eligible
  BY DEF Listed
<1>4. Find(g, c) \in Frontier(g) => Find(h, c) \in Frontier(h)
  BY <1>2, FrontierStays
<1>5. Find(h, c) = Find(g, c) \/ Find(h, c) \in Frontier(h)
  BY <1>2 DEF Grows, Touches
<1> QED
  BY <1>3, <1>4, <1>5

LEMMA CompletesGrows ==
  ASSUME NEW h, NEW f, Tables(h), Tables(f), Later(h, f), NEW r \in RuleNames,
         NEW V, NEW t \in [V -> Ids(h)], NEW d, Completes(h, r, t, d), \A v \in DOMAIN d : d[v] \in Ids(h)
  PROVE  Completes(f, r, t, d)
<1> DEFINE w == Rules[r].derive
<1> HIDE DEF Places
<1> SUFFICES ASSUME w # <<>> PROVE Find(f, d[w[1]]) \in Places(f, t)[w[2]]
  BY DEF Completes
<1>1. w[2] \in Patterns /\ Find(h, d[w[1]]) \in Places(h, t)[w[2]] /\ d[w[1]] \in Ids(h)
  BY RuleParts DEF Completes
<1>2. Find(f, Find(h, d[w[1]])) \in Places(f, t)[w[2]]
  BY <1>1, PlacesPersist
<1> QED
  BY <1>1, <1>2 DEF Later

LEMMA BuildingGrows ==
  ASSUME NEW h, Tables(g), Tables(h), Grows(g, h), PatternsAreOfEnodes, Paced, Sighted(g), Building(g)
  PROVE  Building(h)
<1> SUFFICES ASSUME stage = "build" PROVE Building(h)
  BY DEF Building
<1> HIDE DEF Places
<1>1. /\ fires # <<>> /\ Completes(g, rule, fires[1], subst)
      /\ \A p \in DOMAIN built : p \in Patterns /\ Find(g, built[p]) \in Places(g, subst)[p]
  BY DEF Building
<1>2. rule \in RuleNames /\ Later(g, h)
  BY RulesNamed DEF Paced, Grows
<1>3. /\ fires[1] \in [VarsOf(lhs) -> Ids(g)]
      /\ \A v \in DOMAIN subst : subst[v] \in Ids(g)
      /\ \A p \in DOMAIN built : built[p] \in Ids(g)
  BY <1>1 DEF Sighted
<1>4. Completes(h, rule, fires[1], subst)
  BY <1>1, <1>2, <1>3, CompletesGrows
<1>5. ASSUME NEW p \in DOMAIN built PROVE Find(h, built[p]) \in Places(h, subst)[p]
  <2>1. p \in Patterns /\ Find(g, built[p]) \in Places(g, subst)[p]
    BY <1>1
  <2>2. Find(h, Find(g, built[p])) \in Places(h, subst)[p]
    BY <1>2, <1>3, <2>1, PlacesPersist
  <2> QED
    BY <1>2, <1>3, <2>2 DEF Later
<1> QED
  BY <1>1, <1>4, <1>5 DEF Building

LEMMA AttendedGrows ==
  ASSUME NEW h, Tables(g), Tables(h), Grows(g, h), Memory, PatternsAreOfEnodes, Paced, Sighted(g),
         Attended(g)
  PROVE  Attended(h)
<1> SUFFICES ASSUME NEW r \in applied \ missed, Exhaustive(r), NEW s \in Bindings(searched, r),
                    NEW c \in Places(searched, s)[Rules[r].lhs]
             PROVE  Settled(h, r, s, c) \/ Scheduled(r, c) \/ InSight(h, r, c) \/ InHand(h, r, s, c)
  BY DEF Attended
<1> HIDE DEF Places
<1>1. r \in RuleNames /\ Later(g, h) /\ Later(searched, g)
  BY RulesNamed DEF Grows, Memory
<1>2. c \in Ids(g)
  BY <1>1, RuleParts, OldPlaces
<1>3. s \in [VarsOf(Rules[r].lhs) -> Ids(g)]
  BY <1>1, BindingsAreOfIds
<1>4. Settled(g, r, s, c) \/ Scheduled(r, c) \/ InSight(g, r, c) \/ InHand(g, r, s, c)
  BY DEF Attended
<1>5. CASE Settled(g, r, s, c)
  <2>1. Find(g, c) \in Frontier(g) => Find(h, c) \in Frontier(h)
    BY <1>2, FrontierStays
  <2>2. Find(h, Find(g, c)) = Find(h, c)
    BY <1>1, <1>2 DEF Later
  <2>3. DoneAt(g, r, s, Find(g, c)) => DoneAt(h, r, s, Find(h, Find(g, c)))
    BY <1>1, <1>3, DonePersists
  <2> QED
    BY <1>5, <2>1, <2>2, <2>3 DEF Settled
<1>6. CASE InSight(g, r, c)
  <2>1. PICK i \in cands : Find(g, i) = Find(g, c)
    BY <1>6 DEF InSight
  <2>2. Find(h, i) = Find(h, c)
    BY <1>1, <1>2, <2>1, SameStays DEF Sighted
  <2> QED
    BY <1>6, <2>2 DEF InSight
<1>7. CASE InHand(g, r, s, c)
  <2>1. PICK j \in DOMAIN fires : SameBinding(g, fires[j], s)
    BY <1>7 DEF InHand
  <2>2. eid \in Ids(g) /\ fires[j] \in [VarsOf(lhs) -> Ids(g)]
    BY <1>7, <2>1 DEF InHand, Sighted
  <2>3. Find(h, c) = Find(h, eid)
    BY <1>1, <1>2, <1>7, <2>2, SameStays DEF InHand
  <2>4. DOMAIN fires[j] = DOMAIN s /\ \A v \in DOMAIN s : Find(g, fires[j][v]) = Find(g, s[v])
    BY <2>1 DEF SameBinding
  <2>5. ASSUME NEW v \in DOMAIN s PROVE Find(h, fires[j][v]) = Find(h, s[v])
    BY <1>1, <1>3, <2>2, <2>4, SameStays
  <2> QED
    BY <1>7, <2>3, <2>4, <2>5 DEF InHand, SameBinding
<1> QED
  BY <1>4, <1>5, <1>6, <1>7
-----------------------------------------------------------------------------
(* Every step of the loop is one of the e-graph's.                           *)

\* The enode that a leaf of a rule stands for, and one of built children.
LEMMA LeafNodeIsEnode ==
  ASSUME PatternsAreOfEnodes, NEW p \in Patterns, IsConst(p)
  PROVE  /\ LeafNode(p) \in Enodes(Roots(g))
         /\ quiet /\ Intern(LeafNode(p)) => Growth
<1>1. "leaf" \in Ops /\ p[2] \in Keys /\ 0 \in (0 .. MaxArity) \cap Nat
  BY DEF PatternsAreOfEnodes
<1>2. <<>> \in [1 .. 0 -> Roots(g)] /\ <<>> \in Seq(Roots(g))
  OBVIOUS
<1>3. ASSUME quiet, Intern(LeafNode(p)) PROVE Growth
  <2>1. CASE UNCHANGED g
    BY <1>3, <2>1 DEF Intern, Growth, vars
  <2>2. CASE ~UNCHANGED g
    <3>1. /\ LeafNode(p) \notin DOMAIN g.cons /\ Len(g.canon) < MaxId
          /\ g' = AddNode(g, LeafNode(p)) /\ UNCHANGED <<walk, work, merges, searched>>
      BY <1>3, <2>2 DEF Intern
    <3>2. Add
      BY <1>1, <1>2, <1>3, <3>1 DEF Add, LeafNode
    <3> QED
      BY <3>2 DEF Growth
  <2> QED
    BY <2>1, <2>2
<1> QED
  BY <1>1, <1>2, <1>3 DEF LeafNode, Enodes

LEMMA NodeForIsEnode ==
  ASSUME PatternsAreOfEnodes, Tables(g), Sighted(g), stage = "build",
         NEW p \in Patterns, Compound(p), \A q \in Kids(p) : Ready(q)
  PROVE  /\ NodeFor(p) = <<p[1], [k \in DOMAIN p[2] |-> Find(g, ClassOf(p[2][k]))], NoKey>>
         /\ [k \in DOMAIN p[2] |-> Find(g, ClassOf(p[2][k]))] \in [1 .. Len(p[2]) -> Roots(g)]
         /\ \A k \in DOMAIN p[2] : ClassOf(p[2][k]) \in Ids(g)
         /\ NodeFor(p) \in Enodes(Roots(g))
         /\ quiet /\ Intern(NodeFor(p)) => Growth
<1> DEFINE kids == [k \in DOMAIN p[2] |-> Find(g, ClassOf(p[2][k]))]
<1>1. NodeFor(p) = <<p[1], kids, NoKey>>
  BY DEF NodeFor, Compound
<1>2. ASSUME NEW k \in DOMAIN p[2] PROVE ClassOf(p[2][k]) \in Ids(g)
  BY <1>2 DEF Ready, ClassOf, Sighted, Kids
<1>3. p[2] \in Seq(Patterns)
  BY PatternsAreTerms
<1>4. DOMAIN p[2] = 1 .. Len(p[2]) /\ Len(p[2]) \in Nat
  BY <1>3
<1>5. kids \in [1 .. Len(p[2]) -> Roots(g)]
  BY <1>2, <1>4, RootFacts
<1>6. kids \in Seq(Roots(g))
  BY <1>4, <1>5
<1>7. p[1] \in Ops /\ NoKey \in Keys /\ Len(p[2]) \in (0 .. MaxArity) \cap Nat
  BY <1>4 DEF PatternsAreOfEnodes
<1> HIDE DEF kids
<1>8. ASSUME quiet, Intern(NodeFor(p)) PROVE Growth
  <2>1. CASE UNCHANGED g
    BY <1>8, <2>1 DEF Intern, Growth, vars
  <2>2. CASE ~UNCHANGED g
    <3>1. /\ <<p[1], kids, NoKey>> \notin DOMAIN g.cons /\ Len(g.canon) < MaxId
          /\ g' = AddNode(g, <<p[1], kids, NoKey>>) /\ UNCHANGED <<walk, work, merges, searched>>
      BY <1>1, <1>8, <2>2 DEF Intern
    <3>2. Add
      BY <1>5, <1>7, <1>8, <3>1 DEF Add
    <3> QED
      BY <3>2 DEF Growth
  <2> QED
    BY <2>1, <2>2
<1>9. NodeFor(p) \in Enodes(Roots(g))
  BY <1>1, <1>6, <1>7 DEF Enodes
<1> QED
  BY <1>1, <1>2, <1>5, <1>8, <1>9 DEF kids

LEMMA LoopStepIsStep ==
  ASSUME PatternsAreOfEnodes, RunInv, [LoopNext]_loopVars
  PROVE  BeginIteration \/ Growth
<1>0. Tables(g) /\ Sighted(g) /\ (stage \in {"scan", "fire", "build"} => rule \in RuleNames)
  BY RulesNamed DEF RunInv, IInv, Graph, Paced
<1>1. CASE UNCHANGED loopVars
  BY <1>1 DEF loopVars, Growth
<1>2. CASE GraphStep
  BY <1>2 DEF GraphStep, Growth, Restore
<1>3. CASE StartRun \/ SkipSuspended \/ BeginRule \/ SkipClass \/ ScanClass \/ EndRule
            \/ EndIteration \/ Finish \/ Veto \/ Abandon \/ EndScan
  BY <1>3 DEF StartRun, SkipSuspended, BeginRule, SkipClass, ScanClass, EndRule,
              EndIteration, Finish, Veto, Abandon, EndScan, Growth
<1>4. CASE BeginFire
  <2>1. derive # <<>> => derive[2] \in Patterns /\ IsConst(derive[2])
    BY <1>0, <1>4, RuleParts DEF BeginFire, derive
  <2>2. CASE UNCHANGED vars
    BY <2>2 DEF Growth
  <2>3. CASE ~UNCHANGED vars
    BY <1>4, <2>1, <2>3, LeafNodeIsEnode DEF BeginFire
  <2> QED
    BY <2>2, <2>3
<1>5. CASE Build
  <2>1. PICK p \in Parts[rhs] :
          /\ ~IsVar(p) /\ (Compound(p) => \A q \in Kids(p) : Ready(q))
          /\ Intern(NodeFor(p))
    BY <1>5 DEF Build
  <2>2. p \in Patterns /\ quiet /\ stage = "build"
    BY <1>0, <1>5, RuleParts, PatternsAreTerms DEF Build, rhs
  <2>3. CASE IsConst(p)
    BY <2>1, <2>2, <2>3, LeafNodeIsEnode DEF NodeFor
  <2>4. CASE Compound(p)
    BY <1>0, <2>1, <2>2, <2>4, NodeForIsEnode
  <2> QED
    BY <2>1, <2>3, <2>4 DEF Compound
<1>6. CASE Join
  <2>1. CASE UNCHANGED <<g, walk>>
    BY <1>6, <2>1 DEF Join, Growth, vars
  <2>2. CASE Link(Find(g, eid), Find(g, ClassOf(rhs)))
    <3>1. eid \in Ids(g) /\ ClassOf(rhs) \in Ids(g)
      BY <1>0, <1>6 DEF Join, Sighted, Ready, ClassOf
    <3>2. Unite
      BY <1>6, <2>2, <3>1 DEF Join, Unite, Ids
    <3> QED
      BY <3>2 DEF Growth
  <2> QED
    BY <1>6, <2>1, <2>2 DEF Join
<1> QED
  BY <1>1, <1>2, <1>3, <1>4, <1>5, <1>6 DEF LoopNext

LEMMA GrowthIsStep == ASSUME Growth PROVE [Next]_vars
BY DEF Growth, Restore, Next, Upkeep
-----------------------------------------------------------------------------
(* What a step of the loop keeps, conjunct by conjunct. *)

LEMMA MemoryKept ==
  ASSUME IInv, IInv', Memory, BeginIteration \/ Growth PROVE Memory'
<1>0. Tables(g) /\ Tables(g') /\ Tables(searched) /\ Later(searched, g)
      /\ LeavesKnown(searched) /\ LeavesKnown(g)
  BY DEF IInv, Graph, Memory
<1>1. CASE Growth
  <2>1. Grows(g, g') /\ searched' = searched
    BY <1>1, StepGrows
  <2>2. Later(g, g') /\ LeavesKnown(g')
    BY <1>0, <2>1 DEF Grows
  <2>3. Later(searched, g')
    BY <1>0, <2>2, LaterIsTransitive
  <2> QED
    BY <1>0, <2>1, <2>2, <2>3 DEF Memory
<1>2. CASE BeginIteration
  <2>1. /\ searched' = g /\ Later(g, g')
        /\ Roots(g') = Roots(g) /\ g'.nodes = g.nodes /\ g'.cons = g.cons
        /\ \A i : Find(g', i) = Find(g, i)
    BY <1>2, TakeFrontierKeepsMatches DEF BeginIteration
  <2>2. LeavesKnown(g')
    BY <1>0, <2>1 DEF LeavesKnown
  <2> QED
    BY <1>0, <2>1, <2>2 DEF Memory
<1> QED
  BY <1>1, <1>2

LEMMA PacedKept == ASSUME Paced, [LoopNext]_loopVars PROVE Paced'
<1>1. CASE UNCHANGED loopVars
  BY <1>1 DEF Paced, loopVars, runVars, roundVars, scanVars
<1>2. CASE GraphStep
  BY <1>2 DEF Paced, GraphStep, runVars, roundVars, scanVars
<1>3. CASE StartRun
  BY <1>3 DEF Paced, StartRun, scanVars
<1>4. CASE BeginIteration
  BY <1>4 DEF Paced, BeginIteration, scanVars
<1>5. CASE SkipSuspended
  BY <1>5 DEF Paced, SkipSuspended, scanVars
<1>6. CASE BeginRule
  <2>1. PICK r \in todo : rule' = r /\ todo' = todo \ {r} /\ applied' = applied \cup {r}
    BY <1>6 DEF BeginRule
  <2>2. stage = "rules" /\ stage' = "scan" /\ ruleset' = ruleset
    BY <1>6 DEF BeginRule
  <2> QED
    BY <2>1, <2>2 DEF Paced
<1>7. CASE SkipClass \/ ScanClass
  BY <1>7 DEF Paced, SkipClass, ScanClass, roundVars
<1>8. CASE EndRule \/ EndIteration \/ Finish
  BY <1>8 DEF Paced, EndRule, EndIteration, Finish, roundVars, scanVars
<1>9. CASE Veto \/ BeginFire \/ Build \/ Abandon \/ Join \/ EndScan
  BY <1>9 DEF Paced, Veto, BeginFire, Build, Abandon, Join, EndScan, roundVars, scanVars
<1> QED
  BY <1>1, <1>2, <1>3, <1>4, <1>5, <1>6, <1>7, <1>8, <1>9 DEF LoopNext

\* What add_enode returns, whether it finds the enode or makes it.
LEMMA InternedIsThere ==
  ASSUME IInv, NEW n \in Enodes(Roots(g)), Intern(n)
  PROVE  /\ Interned(n) \in Ids(g') /\ Interned(n) \in Roots(g') /\ Find(g', Interned(n)) = Interned(n)
         /\ n \in DOMAIN g'.cons /\ Find(g', g'.cons[n]) = Interned(n)
         /\ n \in g'.nodes[Interned(n)]
<1>0. Tables(g) /\ Numbered(g) /\ HashLive(g)
  BY DEF IInv, Graph
<1>1. CASE n \in DOMAIN g.cons
  <2>1. g' = g /\ Interned(n) = Find(g, g.cons[n]) /\ g.cons[n] \in Ids(g)
    BY <1>0, <1>1, RootFacts DEF Intern, Interned, ClassTable
  <2>2. Resolved(g, n) = n
    <3>1. n \in Enodes(Ids(g)) /\ n[2] \in Seq(Roots(g)) /\ \A i \in Roots(g) : Find(g, i) = i
      BY <1>0, RootFacts, EnodesGrow, EnodeParts
    <3>2. \A c \in Kids(n) : Find(g, c) = c
      BY <3>1 DEF Kids
    <3> QED
      BY <1>0, <3>1, <3>2, RootFacts, ResolvedEnode
  <2>3. n \in g.nodes[Find(g, g.cons[n])]
    BY <1>0, <1>1, <2>2 DEF HashLive
  <2> QED
    BY <1>0, <1>1, <2>1, <2>3, RootFacts DEF Forest
<1>2. CASE n \notin DOMAIN g.cons
  <2> DEFINE id == Len(g.canon) + 1  f == AddNode(g, n)
  <2>1. g' = f /\ Interned(n) = id
    BY <1>2 DEF Intern, Interned
  <2>2. Ids(f) = Ids(g) \cup {id} /\ Find(f, id) = id /\ f.nodes[id] = {n} /\ Roots(f) = Roots(g) \cup {id}
    BY <1>0, AddNodeShape
  <2>3. f.cons = WithDefault(g.cons, {n}, id)
    BY <1>0, RootFacts, AddNodeTables
  <2> HIDE DEF f, id
  <2>4. n \in DOMAIN f.cons /\ f.cons[n] = id
    BY <1>2, <2>3 DEF WithDefault
  <2> QED
    BY <2>1, <2>2, <2>4
<1> QED
  BY <1>1, <1>2
LEMMA SightedKept ==
  ASSUME PatternsAreOfEnodes, RunInv, [LoopNext]_loopVars, Growth => Grows(g, g'), IInv'
  PROVE  Sighted(g)'
<1>0. /\ Tables(g) /\ IInv /\ Sighted(g)
      /\ stage \in {"scan", "fire", "build"} => rule \in RuleNames
  BY RulesNamed DEF RunInv, IInv, Graph, Paced
<1>a. Ids(g') = Ids(g) \/ Grows(g, g')
  BY LoopStepIsStep, TakeFrontierKeepsMatches, <1>0 DEF BeginIteration
<1>b. /\ Ids(g) \subseteq Ids(g')
      /\ \A q : q \in Seq([VarsOf(lhs) -> Ids(g)]) => q \in Seq([VarsOf(lhs) -> Ids(g')])
  <2>1. Ids(g) \subseteq Ids(g')
    BY <1>a DEF Grows, Later
  <2>2. [VarsOf(lhs) -> Ids(g)] \subseteq [VarsOf(lhs) -> Ids(g')]
    BY <2>1
  <2> QED
    BY <2>1, <2>2, SeqsGrow
<1>c. search \subseteq Ids(g') /\ cands \subseteq Ids(g') /\ Roots(g) \subseteq Ids(g) /\ Frontier(g) \subseteq Ids(g)
  BY <1>0, <1>b, RootFacts DEF Sighted, Frontier
<1>d. /\ stage \in {"fire", "build"} => eid \in Ids(g') /\ fires \in Seq([VarsOf(lhs) -> Ids(g')])
      /\ stage = "build" => (\A v \in DOMAIN subst : subst[v] \in Ids(g'))
                            /\ (\A p \in DOMAIN built : built[p] \in Ids(g'))
  BY <1>0, <1>b DEF Sighted
<1>1. CASE UNCHANGED loopVars \/ GraphStep
  BY <1>1, <1>c, <1>d DEF Sighted, loopVars, GraphStep, runVars, roundVars, scanVars, fireVars, lhs
<1>2. CASE StartRun \/ BeginIteration \/ SkipSuspended \/ BeginRule
  <2>1. search' \subseteq Ids(g') /\ cands' \subseteq Ids(g')
    <3>1. (search' = search \/ search' = Frontier(g)) /\ (cands' = cands \/ cands' = search \/ cands' = Roots(g))
      BY <1>2 DEF StartRun, BeginIteration, SkipSuspended, BeginRule, scanVars
    <3> QED
      BY <1>b, <1>c, <3>1
  <2>2. stage' \in {"loop", "rules", "scan"}
    BY <1>2 DEF StartRun, BeginIteration, SkipSuspended, BeginRule
  <2> QED
    BY <2>1, <2>2 DEF Sighted
<1>3. CASE SkipClass \/ EndRule \/ EndIteration \/ Finish \/ EndScan
  <2>1. search' = search /\ cands' \subseteq cands /\ stage' \in {"scan", "rules", "loop", "finish", "idle"}
    BY <1>3 DEF SkipClass, EndRule, EndIteration, Finish, EndScan, roundVars, scanVars
  <2> QED
    BY <1>c, <2>1 DEF Sighted
<1>4. CASE ScanClass
  <2>1. PICK i \in cands :
          /\ cands' = cands \ {i} /\ eid' = Find(g, i)
          /\ fires' \in Listings(Matches(g, rule, Find(g, i)), Limit(rule, Remaining(rule) - Spent))
    BY <1>4 DEF ScanClass
  <2>2. rule' = rule /\ search' = search /\ stage' = "fire"
    BY <1>4 DEF ScanClass, roundVars
  <2>3. eid' \in Ids(g')
    BY <1>0, <1>b, <2>1, RootFacts DEF Sighted
  <2>4. fires' \in Seq(Matches(g, rule, Find(g, i)))
    BY <2>1 DEF Listings
  <2>5. Matches(g, rule, Find(g, i)) \subseteq [VarsOf(lhs) -> Ids(g)]
    BY <1>c DEF Matches, Bindings, lhs
  <2>6. fires' \in Seq([VarsOf(lhs) -> Ids(g)])
    BY <2>4, <2>5, SeqsGrow
  <2>7. fires' \in Seq([VarsOf(lhs) -> Ids(g')])
    BY <1>b, <2>6
  <2> QED
    BY <1>c, <2>1, <2>2, <2>3, <2>7 DEF Sighted, lhs
<1>5. CASE Veto \/ Abandon \/ Join
  <2>1. /\ search' = search /\ cands' = cands /\ rule' = rule /\ eid' = eid
        /\ fires' = Tail(fires) /\ stage' = "fire" /\ stage \in {"fire", "build"}
    BY <1>5 DEF Veto, Abandon, Join, roundVars, scanVars
  <2>2. fires # <<>>
    BY <1>5, <2>1 DEF Veto, Abandon, Join, RunInv, Building
  <2>3. fires' \in Seq([VarsOf(lhs) -> Ids(g')])
    BY <1>d, <2>1, <2>2
  <2> QED
    BY <1>c, <1>d, <2>1, <2>3 DEF Sighted, lhs
<1>6. CASE BeginFire
  <2>1. /\ search' = search /\ cands' = cands /\ rule' = rule /\ eid' = eid /\ fires' = fires
        /\ stage' = "build" /\ stage = "fire" /\ built' = <<>> /\ fires # <<>>
    BY <1>6 DEF BeginFire, roundVars, scanVars
  <2>2. Head(fires) \in [VarsOf(lhs) -> Ids(g')]
    BY <1>d, <2>1
  <2>3. \A v \in DOMAIN subst' : subst'[v] \in Ids(g')
    <3>1. CASE derive = <<>> /\ subst' = Head(fires)
      BY <2>2, <3>1
    <3>2. CASE /\ derive # <<>> /\ Intern(LeafNode(derive[2]))
               /\ subst' = [v \in DOMAIN Head(fires) \cup {derive[1]} |->
                              IF v = derive[1] THEN Interned(LeafNode(derive[2])) ELSE Head(fires)[v]]
      <4>1. derive[2] \in Patterns /\ IsConst(derive[2])
        BY <1>0, <2>1, <3>2, RuleParts DEF derive
      <4>2. Interned(LeafNode(derive[2])) \in Ids(g')
        BY <1>0, <3>2, <4>1, LeafNodeIsEnode, InternedIsThere
      <4> QED
        BY <2>2, <3>2, <4>2
    <3> QED
      BY <1>6, <3>1, <3>2 DEF BeginFire
  <2>4. DOMAIN built' = {}
    BY <2>1
  <2> QED
    BY <1>c, <1>d, <2>1, <2>3, <2>4 DEF Sighted, lhs
<1>7. CASE Build
  <2>1. PICK p \in Parts[rhs] :
          /\ ~IsVar(p) /\ (Compound(p) => \A q \in Kids(p) : Ready(q))
          /\ Intern(NodeFor(p)) /\ built' = WithDefault(built, {p}, Interned(NodeFor(p)))
    BY <1>7 DEF Build
  <2>2. /\ search' = search /\ cands' = cands /\ rule' = rule /\ eid' = eid /\ fires' = fires
        /\ stage' = stage /\ stage = "build" /\ subst' = subst
    BY <1>7 DEF Build, roundVars, scanVars
  <2>3. NodeFor(p) \in Enodes(Roots(g))
    <3>1. p \in Patterns
      BY <1>0, <2>2, RuleParts, PatternsAreTerms DEF rhs
    <3>2. CASE IsConst(p)
      BY <3>1, <3>2, LeafNodeIsEnode DEF NodeFor
    <3>3. CASE Compound(p)
      BY <1>0, <2>1, <2>2, <3>1, <3>3, NodeForIsEnode
    <3> QED
      BY <2>1, <3>2, <3>3 DEF Compound
  <2>4. Interned(NodeFor(p)) \in Ids(g')
    BY <1>0, <2>1, <2>3, InternedIsThere
  <2>5. \A q \in DOMAIN built' : built'[q] \in Ids(g')
    BY <1>d, <2>1, <2>2, <2>4 DEF WithDefault
  <2> QED
    BY <1>c, <1>d, <2>2, <2>5 DEF Sighted, lhs
<1> QED
  BY <1>1, <1>2, <1>3, <1>4, <1>5, <1>6, <1>7 DEF LoopNext

\* The class that stands for a part of the right-hand side.
LEMMA ReadyStands ==
  ASSUME NEW h, Tables(h), Sighted(h), Building(h), stage = "build", NEW q \in Patterns, Ready(q)
  PROVE  Find(h, ClassOf(q)) \in Places(h, subst)[q]
<1> HIDE DEF Places
<1>1. CASE IsVar(q)
  <2>1. q[2] \in DOMAIN subst /\ ClassOf(q) = subst[q[2]] /\ subst[q[2]] \in Ids(h)
    BY <1>1 DEF Ready, ClassOf, Sighted
  <2>2. Find(h, subst[q[2]]) \in Roots(h) /\ ~IsConst(q) /\ ~Compound(q)
    BY <1>1, <2>1, RootFacts DEF IsVar, IsConst, Compound
  <2> QED
    BY <2>1, <2>2, PlacesCases
<1>2. CASE ~IsVar(q)
  BY <1>2 DEF Ready, ClassOf, Building
<1> QED
  BY <1>1, <1>2
LEMMA BuildingKept ==
  ASSUME PatternsAreOfEnodes, RunInv, [LoopNext]_loopVars, IInv', Growth => Grows(g, g')
  PROVE  Building(g)'
<1> HIDE DEF Places
<1>0. /\ Tables(g) /\ Tables(g') /\ IInv /\ Sighted(g) /\ Building(g) /\ Paced
      /\ stage \in {"scan", "fire", "build"} => rule \in RuleNames
  BY RulesNamed DEF RunInv, IInv, Graph, Paced
<1>a. Growth => Building(g') /\ Sighted(g') /\ Grows(g, g') /\ Later(g, g')
  <2> SUFFICES ASSUME Growth PROVE Building(g') /\ Sighted(g') /\ Grows(g, g') /\ Later(g, g')
    OBVIOUS
  <2>1. Grows(g, g') /\ Later(g, g')
    BY DEF Grows
  <2> QED
    BY <1>0, <2>1, BuildingGrows, SightedGrows
<1>1. CASE stage' # "build"
  BY <1>1 DEF Building
<1>2. CASE stage' = "build" /\ UNCHANGED runVars
  <2>1. Growth
    BY <1>2, LoopStepIsStep DEF BeginIteration, runVars
  <2> QED
    BY <1>2, <1>a, <2>1 DEF Building, runVars, fireVars, scanVars
<1>3. CASE BeginFire
  <2>1. /\ rule' = rule /\ fires' = fires /\ stage = "fire" /\ built' = <<>> /\ fires # <<>>
        /\ DOMAIN built' = {} /\ Head(fires) = fires[1]
    BY <1>3 DEF BeginFire, scanVars
  <2>2. Completes(g', rule, fires[1], subst')
    <3>1. CASE derive = <<>> /\ subst' = Head(fires)
      BY <2>1, <3>1 DEF Completes, derive
    <3>2. CASE /\ derive # <<>> /\ Intern(LeafNode(derive[2]))
               /\ subst' = [v \in DOMAIN Head(fires) \cup {derive[1]} |->
                              IF v = derive[1] THEN Interned(LeafNode(derive[2])) ELSE Head(fires)[v]]
      <4> DEFINE p == derive[2]  i == Interned(LeafNode(p))
      <4>1. p \in Patterns /\ IsConst(p)
        BY <1>0, <2>1, <3>2, RuleParts DEF derive
      <4>2. /\ i \in Roots(g') /\ Find(g', i) = i
            /\ LeafNode(p) \in DOMAIN g'.cons /\ Find(g', g'.cons[LeafNode(p)]) = i
        BY <1>0, <3>2, <4>1, LeafNodeIsEnode, InternedIsThere
      <4>3. ~IsVar(p) /\ ~Compound(p)
        BY <4>1 DEF IsVar, IsConst, Compound
      <4> HIDE DEF i
      <4>4. i \in Places(g', fires[1])[p]
        BY <4>1, <4>2, <4>3, PlacesCases
      <4>5. /\ DOMAIN subst' = DOMAIN fires[1] \cup {derive[1]} /\ subst'[derive[1]] = i
            /\ \A v \in DOMAIN fires[1] \ {derive[1]} : subst'[v] = fires[1][v]
        BY <2>1, <3>2 DEF i
      <4> QED
        BY <3>2, <4>2, <4>4, <4>5 DEF Completes, derive
    <3> QED
      BY <1>3, <3>1, <3>2 DEF BeginFire
  <2> QED
    BY <2>1, <2>2 DEF Building
<1>4. CASE Build
  <2>1. PICK p \in Parts[rhs] :
          /\ ~IsVar(p) /\ (Compound(p) => \A q \in Kids(p) : Ready(q))
          /\ Intern(NodeFor(p)) /\ built' = WithDefault(built, {p}, Interned(NodeFor(p)))
    BY <1>4 DEF Build
  <2>2. /\ rule' = rule /\ fires' = fires /\ stage = "build" /\ subst' = subst
    BY <1>4 DEF Build, scanVars
  <2> DEFINE n == NodeFor(p)  i == Interned(n)
  <2>3. p \in Patterns
    BY <1>0, <2>2, RuleParts, PatternsAreTerms DEF rhs
  <2>4. Growth
    BY <1>4, LoopStepIsStep, <2>2 DEF BeginIteration
  <2>5. i \in Places(g', subst)[p] /\ Find(g', i) = i
    <3>1. CASE IsConst(p)
      <4>1. n = LeafNode(p) /\ ~Compound(p)
        BY <3>1 DEF NodeFor, Compound
      <4>2. i \in Roots(g') /\ Find(g', i) = i /\ n \in DOMAIN g'.cons /\ Find(g', g'.cons[n]) = i
        BY <1>0, <2>1, <2>3, <3>1, <4>1, LeafNodeIsEnode, InternedIsThere
      <4> HIDE DEF i
      <4> QED
        BY <2>1, <2>3, <4>1, <4>2, PlacesCases
    <3>2. CASE Compound(p)
      <4> DEFINE kids == [k \in DOMAIN p[2] |-> Find(g, ClassOf(p[2][k]))]
      <4>1. /\ n = <<p[1], kids, NoKey>> /\ n \in Enodes(Roots(g))
            /\ kids \in [1 .. Len(p[2]) -> Roots(g)]
            /\ \A k \in DOMAIN p[2] : ClassOf(p[2][k]) \in Ids(g)
        BY <1>0, <2>1, <2>2, <2>3, <3>2, NodeForIsEnode
      <4>2. i \in Roots(g') /\ Find(g', i) = i /\ n \in g'.nodes[i]
        BY <1>0, <2>1, <4>1, InternedIsThere
      <4>3. p[2] \in Seq(Patterns) /\ ~IsConst(p)
        BY <2>3, <3>2, PatternsAreTerms DEF Compound
      <4>4. HeadOf(n) = HeadOf(p) /\ n[3] = NoKey /\ n[2] = kids
        <5>1. Len(kids) = Len(p[2])
          BY <4>1, <4>3
        <5> QED
          BY <4>1, <5>1 DEF HeadOf
      <4>5. ASSUME NEW k \in DOMAIN p[2] PROVE Find(g', n[2][k]) \in Places(g', subst)[p[2][k]]
        <5>1. p[2][k] \in Patterns /\ Ready(p[2][k])
          BY <2>1, <3>2, <4>3 DEF Kids
        <5>2. Find(g', ClassOf(p[2][k])) \in Places(g', subst)[p[2][k]]
          BY <1>0, <1>a, <2>2, <2>4, <5>1, ReadyStands
        <5>3. n[2][k] = Find(g, ClassOf(p[2][k]))
          BY <4>4
        <5>4. Find(g', n[2][k]) = Find(g', ClassOf(p[2][k]))
          BY <1>a, <2>4, <4>1, <5>3 DEF Later
        <5> QED
          BY <5>2, <5>4
      <4> HIDE DEF n, i
      <4> QED
        BY <2>1, <2>3, <4>2, <4>3, <4>4, <4>5, PlacesCases
    <3> QED
      BY <2>1, <3>1, <3>2 DEF Compound
  <2> HIDE DEF i, n
  <2>6. ASSUME NEW q \in DOMAIN built' PROVE q \in Patterns /\ Find(g', built'[q]) \in Places(g', subst)[q]
    <3>1. CASE q \in DOMAIN built
      BY <1>a, <2>1, <2>2, <2>4, <3>1 DEF Building, WithDefault
    <3>2. CASE q \notin DOMAIN built
      BY <2>1, <2>3, <2>5, <2>6, <3>2 DEF WithDefault, i, n
    <3> QED
      BY <3>1, <3>2
  <2> QED
    BY <1>a, <2>2, <2>4, <2>6 DEF Building
<1>5. stage' = "build" => BeginFire \/ Build \/ UNCHANGED runVars
  BY DEF LoopNext, loopVars, GraphStep, StartRun, BeginIteration, SkipSuspended, BeginRule, SkipClass,
         ScanClass, EndRule, EndIteration, Finish, Veto, Abandon, Join, EndScan
<1> QED
  BY <1>1, <1>2, <1>3, <1>4, <1>5

LEMMA ListedKept ==
  ASSUME PatternsAreOfEnodes, RunInv, [LoopNext]_loopVars, IInv', Growth => Grows(g, g') /\ searched' = searched
  PROVE  Listed(g)'
<1> HIDE DEF Places
<1>0. Tables(g) /\ IInv /\ Listed(g) /\ Paced /\ Memory
  BY DEF RunInv, IInv, Graph
<1>1. CASE BeginRule
  <2>1. PICK r \in todo : rule' = r /\ eligible' = Eligible(g, Rules[r].lhs) /\ applied' = applied \cup {r}
    BY <1>1 DEF BeginRule
  <2>2. g' = g /\ searched' = searched
    BY <1>1 DEF BeginRule, vars
  <2>3. r \in RuleNames
    BY <1>0, <1>1, <2>1 DEF BeginRule, Paced, PatternsAreOfEnodes
  <2> SUFFICES ASSUME Headed(Rules[r].lhs), NEW s \in Bindings(searched, r),
                      NEW c \in Places(searched, s)[Rules[r].lhs]
               PROVE  Find(g, c) \in Eligible(g, Rules[r].lhs)
    BY <2>1, <2>2 DEF Listed, lhs
  <2>4. \A v \in DOMAIN <<>> : v \in DOMAIN s /\ s[v] \in Ids(searched) /\ Find(g, <<>>[v]) = Find(g, s[v])
    OBVIOUS
  <2>5. Find(g, c) \in Places(g, <<>>)[Rules[r].lhs]
    BY <1>0, <2>3, <2>4, RuleParts, PlacesPersist DEF Memory
  <2>6. FilterKeepsMatches
    BY <1>0, InvKeepsMatches
  <2> QED
    BY <2>3, <2>5, <2>6 DEF FilterKeepsMatches
<1>2. CASE stage' \notin {"scan", "fire", "build"}
  BY <1>2 DEF Listed
<1>3. CASE stage' \in {"scan", "fire", "build"} /\ ~BeginRule
  <2>1. stage \in {"scan", "fire", "build"} /\ UNCHANGED <<rule, eligible>> /\ ~BeginIteration
    BY <1>3 DEF LoopNext, loopVars, GraphStep, StartRun, BeginIteration, SkipSuspended, SkipClass,
         ScanClass, EndRule, EndIteration, Finish, Veto, BeginFire, Build, Abandon, Join, EndScan,
         runVars, scanVars
  <2>2. Grows(g, g') /\ searched' = searched
    BY <2>1, LoopStepIsStep
  <2>3. Listed(g')
    BY <1>0, <2>2, ListedGrows
  <2> QED
    BY <2>1, <2>2, <2>3 DEF Listed, lhs
<1> QED
  BY <1>1, <1>2, <1>3
-----------------------------------------------------------------------------
(* Between iterations, nothing is scheduled, in sight or in hand: what is    *)
(* attended to is done, or dirty.                                            *)

LEMMA FrontierIsComplete ==
  ASSUME PatternsAreOfEnodes, LoopInv, quiet PROVE FrontierComplete
<1> HIDE DEF Places
<1> SUFFICES ASSUME stage \in {"idle", "loop"}, NEW r \in applied \ missed, Exhaustive(r),
                    NEW s \in Bindings(g, r), NEW c \in Places(g, s)[Rules[r].lhs], c \notin Frontier(g)
             PROVE  DoneAt(g, r, s, c)
  BY DEF FrontierComplete
<1> DEFINE p == Rules[r].lhs
<1>0. /\ Tables(g) /\ HashLive(g) /\ Tables(searched) /\ LeavesKnown(searched)
      /\ Attended(g) /\ Paced /\ r \in RuleNames /\ p \in Patterns
  BY RulesNamed, RuleParts DEF LoopInv, RunInv, IInv, Graph, Memory
<1>1. Unchanged(g, searched)
  BY InvFindsAll DEF LoopInv, RunInv, CleanIsAsSearched, Unchanged
<1>2. s \in [VarsOf(p) -> Roots(g)]
  BY DEF Bindings
<1>3. c \in Places(searched, s)[p] /\ \A v \in VarsOf(p) : s[v] \in Roots(searched)
  BY <1>0, <1>1, <1>2, CleanMatchesAreOld
<1>4. s \in Bindings(searched, r)
  BY <1>2, <1>3 DEF Bindings
<1>5. Settled(g, r, s, c) \/ Scheduled(r, c) \/ InSight(g, r, c) \/ InHand(g, r, s, c)
  BY <1>0, <1>3, <1>4 DEF Attended
<1>6. ~Scheduled(r, c) /\ ~InSight(g, r, c) /\ ~InHand(g, r, s, c)
  BY <1>0 DEF Paced, Scheduled, InSight, InHand
<1>7. Find(g, c) = c
  BY <1>0, PlacesCases, RootFacts
<1> QED
  BY <1>5, <1>6, <1>7 DEF Settled
-----------------------------------------------------------------------------
(* No step drops a match. *)

\* The frontier is taken: what is dirty becomes what is scheduled.
LEMMA BeginIterationAttends ==
  ASSUME PatternsAreOfEnodes, LoopInv, IInv', BeginIteration
  PROVE  Attended(g)'
<1> HIDE DEF Places
<1>1. /\ stage = "loop" /\ search' = Frontier(g) /\ todo' = ruleset /\ applied' = applied
      /\ missed' = missed \cup Missing(ruleset)
      /\ TakeFrontier /\ quiet
  BY DEF BeginIteration, TakeFrontier, scanVars
<1>2. searched' = g /\ Later(g, g') /\ Tables(g) /\ Tables(g')
  BY <1>1, TakeFrontierKeepsMatches DEF LoopInv, RunInv, IInv, Graph
<1> SUFFICES ASSUME NEW r \in applied \ missed', Exhaustive(r),
                    NEW s \in Bindings(g, r), NEW c \in Places(g, s)[Rules[r].lhs]
             PROVE  Settled(g', r, s, c) \/ Scheduled(r, c)'
  BY <1>1, <1>2 DEF Attended
<1>3. c \in Frontier(g) \/ DoneAt(g, r, s, c)
  BY <1>1, FrontierIsComplete DEF FrontierComplete
<1>4. r \in RuleNames /\ (c \in Frontier(g) => r \in ruleset)
  BY <1>1, RulesNamed DEF LoopInv, RunInv, Missing
<1>5. s \in [VarsOf(Rules[r].lhs) -> Ids(g)]
  BY <1>2, RootFacts DEF Bindings
<1>6. DoneAt(g, r, s, c) => DoneAt(g', r, s, Find(g', c))
  BY <1>2, <1>4, <1>5, DonePersists
<1> QED
  BY <1>1, <1>3, <1>4, <1>6 DEF Settled, Scheduled

\* A rule that has not been applied to this graph has all of it in sight.
LEMMA BeginRuleAttends ==
  ASSUME PatternsAreOfEnodes, LoopInv, BeginRule PROVE Attended(g)'
<1> HIDE DEF Places
<1>1. PICK r0 \in todo : /\ rule' = r0 /\ todo' = todo \ {r0} /\ applied' = applied \cup {r0}
                         /\ cands' = IF r0 \in applied THEN search ELSE Roots(g)
  BY DEF BeginRule
<1>2. /\ g' = g /\ searched' = searched /\ search' = search /\ missed' = missed
      /\ stage = "rules" /\ stage' = "scan"
      /\ Attended(g) /\ Paced /\ Memory /\ Tables(g) /\ r0 \in RuleNames
  BY <1>1 DEF BeginRule, vars, LoopInv, RunInv, IInv, Graph, Paced, PatternsAreOfEnodes
<1> SUFFICES ASSUME NEW r \in (applied \cup {r0}) \ missed, Exhaustive(r),
                    NEW s \in Bindings(searched, r), NEW c \in Places(searched, s)[Rules[r].lhs]
             PROVE  Settled(g, r, s, c) \/ Scheduled(r, c)' \/ InSight(g, r, c)'
  BY <1>1, <1>2 DEF Attended
<1>3. CASE r \in applied
  <2>1. Settled(g, r, s, c) \/ Scheduled(r, c)
    BY <1>2, <1>3 DEF Attended, InSight, InHand
  <2>2. Scheduled(r, c) /\ r = r0 => InSight(g, r, c)'
    BY <1>1, <1>2, <1>3 DEF Scheduled, InSight
  <2>3. Scheduled(r, c) /\ r # r0 => Scheduled(r, c)'
    BY <1>1, <1>2 DEF Scheduled
  <2> QED
    BY <2>1, <2>2, <2>3
<1>4. CASE r \notin applied
  <2>1. r = r0 /\ cands' = Roots(g) /\ c \in Ids(g)
    BY <1>1, <1>2, <1>4, RuleParts, OldPlaces DEF Memory
  <2>2. Find(g, c) \in Roots(g) /\ Find(g, Find(g, c)) = Find(g, c)
    BY <1>2, <2>1, RootFacts DEF Forest
  <2> QED
    BY <1>1, <1>2, <2>1, <2>2 DEF InSight
<1> QED
  BY <1>3, <1>4

\* The class that is skipped is not one the rule matches.
LEMMA SkipClassAttends ==
  ASSUME PatternsAreOfEnodes, LoopInv, SkipClass PROVE Attended(g)'
<1> HIDE DEF Places
<1>1. PICK i \in cands : ~Candidate(i) /\ cands' = cands \ {i}
  BY DEF SkipClass
<1>2. /\ UNCHANGED <<g, searched, search, todo, stage, applied, missed, rule>> /\ stage = "scan"
      /\ Attended(g) /\ Listed(g) /\ Paced /\ Memory /\ Tables(g) /\ FilterKeepsMatches
  BY InvKeepsMatches DEF SkipClass, vars, roundVars, LoopInv, RunInv, IInv, Graph
<1> SUFFICES ASSUME NEW r \in applied \ missed, Exhaustive(r),
                    NEW s \in Bindings(searched, r), NEW c \in Places(searched, s)[Rules[r].lhs],
                    ~Settled(g, r, s, c), ~Scheduled(r, c)
             PROVE  InSight(g, r, c)'
  BY <1>2 DEF Attended, Scheduled
<1>3. rule = r /\ \E k \in cands : Find(g, k) = Find(g, c)
  BY <1>2 DEF Attended, InSight, InHand
<1>4. ASSUME Find(g, i) = Find(g, c) PROVE FALSE
  <2>1. r \in RuleNames /\ lhs = Rules[r].lhs
    BY <1>2, <1>3, RulesNamed DEF lhs
  <2>2. \A v \in DOMAIN <<>> : v \in DOMAIN s /\ s[v] \in Ids(searched) /\ Find(g, <<>>[v]) = Find(g, s[v])
    OBVIOUS
  <2>3. Find(g, c) \in Places(g, <<>>)[lhs]
    BY <1>2, <2>1, <2>2, RuleParts, PlacesPersist DEF Memory
  <2>4. HeadOk(g, lhs, Find(g, c))
    BY <1>2, <2>1, <2>3 DEF FilterKeepsMatches
  <2>5. Headed(lhs) => Find(g, c) \in eligible
    BY <1>2, <1>3, <2>1 DEF Listed, Settled
  <2> QED
    BY <1>1, <1>4, <2>4, <2>5 DEF Candidate
<1> QED
  BY <1>1, <1>2, <1>3, <1>4 DEF InSight

\* An exhaustive rule lists every match of the class that it scans.
LEMMA ScanClassAttends ==
  ASSUME PatternsAreOfEnodes, LoopInv, ScanClass PROVE Attended(g)'
<1> HIDE DEF Places
<1>1. PICK i \in cands :
        /\ cands' = cands \ {i} /\ eid' = Find(g, i)
        /\ fires' \in Listings(Matches(g, rule, Find(g, i)), Limit(rule, Remaining(rule) - Spent))
  BY DEF ScanClass
<1>2. /\ UNCHANGED <<g, searched, search, todo, applied, missed, rule>> /\ stage = "scan" /\ stage' = "fire"
      /\ Attended(g) /\ Paced /\ Memory /\ Tables(g) /\ i \in Ids(g)
  BY <1>1 DEF ScanClass, vars, roundVars, LoopInv, RunInv, IInv, Graph, Sighted
<1> SUFFICES ASSUME NEW r \in applied \ missed, Exhaustive(r),
                    NEW s \in Bindings(searched, r), NEW c \in Places(searched, s)[Rules[r].lhs],
                    ~Settled(g, r, s, c), ~Scheduled(r, c)
             PROVE  InSight(g, r, c)' \/ InHand(g, r, s, c)'
  BY <1>2 DEF Attended, Scheduled
<1>3. rule = r /\ \E k \in cands : Find(g, k) = Find(g, c)
  BY <1>2 DEF Attended, InSight, InHand
<1>4. CASE Find(g, i) = Find(g, c)
  <2> DEFINE t == [v \in DOMAIN s |-> Find(g, s[v])]  p == Rules[r].lhs  M == Matches(g, r, Find(g, i))
  <2>1. r \in RuleNames /\ p \in Patterns
    BY RulesNamed, RuleParts, <1>2
  <2>2. /\ DOMAIN s = VarsOf(p)
        /\ \A v \in DOMAIN s : s[v] \in Ids(searched) /\ s[v] \in Ids(g)
    BY <1>2, BindingsAreOfIds DEF Memory
  <2>3. t \in Bindings(g, r) /\ SameBinding(g, t, s)
    BY <1>2, <2>2, RootFacts DEF Bindings, SameBinding, Forest
  <2>4. \A v \in DOMAIN t : v \in DOMAIN s /\ s[v] \in Ids(searched) /\ Find(g, t[v]) = Find(g, s[v])
    BY <2>2, <2>3 DEF SameBinding
  <2> HIDE DEF t
  <2>5. Find(g, c) \in Places(g, t)[p]
    BY <1>2, <2>1, <2>4, PlacesPersist DEF Memory
  <2>6. t \in M
    BY <1>4, <2>3, <2>5 DEF Matches
  <2>7. M = {fires'[j] : j \in DOMAIN fires'}
    BY <1>1, <1>3 DEF Listings, Limit, Exhaustive, Budgeted
  <2>8. PICK j \in DOMAIN fires' : fires'[j] = t
    BY <2>6, <2>7
  <2>9. Find(g, c) = Find(g, eid')
    BY <1>1, <1>2, <1>4, RootFacts DEF Forest
  <2> QED
    BY <1>2, <1>3, <2>3, <2>8, <2>9 DEF InHand
<1>5. CASE Find(g, i) # Find(g, c)
  BY <1>1, <1>2, <1>3, <1>5 DEF InSight
<1> QED
  BY <1>4, <1>5

\* A class that has joined the right-hand side has what its match asked for.
LEMMA JoinAttends ==
  ASSUME PatternsAreOfEnodes, LoopInv, IInv', Join, Grows(g, g'), Attended(g'), searched' = searched
  PROVE  Attended(g)'
<1> HIDE DEF Places
<1>1. /\ UNCHANGED <<searched, search, todo, applied, missed, rule, cands, eid>>
      /\ stage = "build" /\ stage' = "fire" /\ fires' = Tail(fires) /\ Ready(rhs)
  BY DEF Join, roundVars, scanVars
<1>2. /\ Tables(g) /\ Tables(g') /\ Later(g, g') /\ Memory /\ Paced /\ Sighted(g) /\ Building(g)
      /\ rule \in RuleNames
  BY <1>1, RulesNamed DEF LoopInv, RunInv, IInv, Graph, Grows, Paced
<1>3. rhs = Rules[rule].rhs /\ rhs \in Patterns /\ fires # <<>> /\ Completes(g, rule, fires[1], subst)
  BY <1>1, <1>2, RuleParts DEF Building, rhs
<1>4. Find(g, ClassOf(rhs)) \in Places(g, subst)[rhs]
  BY <1>1, <1>2, <1>3, ReadyStands
<1>5. eid \in Ids(g) /\ ClassOf(rhs) \in Ids(g)
  BY <1>1, <1>2 DEF Sighted, Ready, ClassOf
<1>6. Find(g', eid) = Find(g', ClassOf(rhs))
  <2>1. Find(g, eid) = Find(g, ClassOf(rhs)) => Find(g', eid) = Find(g', ClassOf(rhs))
    BY <1>2, <1>5, SameStays
  <2>2. Link(Find(g, eid), Find(g, ClassOf(rhs))) => Find(g', eid) = Find(g', ClassOf(rhs))
    <3> DEFINE ra == Find(g, eid)  rb == Find(g, ClassOf(rhs))
               w == Winner(g, ra, rb)  l == Loser(g, ra, rb)
    <3> SUFFICES ASSUME Link(ra, rb) PROVE Find(g', eid) = Find(g', ClassOf(rhs))
      OBVIOUS
    <3>1. g' = Merge(g, w, l) /\ ra # rb
      BY DEF Link
    <3>2. ra \in Roots(g) /\ rb \in Roots(g)
      BY <1>2, <1>5, RootFacts
    <3>3. w \in Roots(g) /\ l \in Roots(g) /\ w # l /\ {w, l} = {ra, rb}
      BY <3>1, <3>2, WinnerLoser DEF Winner, Loser
    <3> HIDE DEF w, l
    <3>4. \A i \in Ids(g) : Find(Merge(g, w, l), i) = IF Find(g, i) = l THEN w ELSE Find(g, i)
      BY <1>2, <3>3, MergeShape
    <3> QED
      BY <1>5, <3>1, <3>3, <3>4
  <2> QED
    BY <2>1, <2>2 DEF Join
<1> SUFFICES ASSUME NEW r \in applied \ missed, Exhaustive(r),
                    NEW s \in Bindings(searched, r), NEW c \in Places(searched, s)[Rules[r].lhs],
                    InHand(g', r, s, c)
             PROVE  Settled(g', r, s, c) \/ InHand(g, r, s, c)'
  BY <1>1 DEF Attended, Scheduled, InSight
<1>7. /\ rule = r /\ Find(g', c) = Find(g', eid)
      /\ \E j \in DOMAIN fires : SameBinding(g', fires[j], s)
  BY DEF InHand
<1>8. PICK j \in DOMAIN fires : SameBinding(g', fires[j], s)
  BY <1>7
<1>9. j = 1 \/ \E k \in DOMAIN fires' : fires'[k] = fires[j]
  BY <1>1, <1>2, <1>3, TailFacts DEF Sighted
<1>10. CASE j = 1
  <2>1. fires[1] \in [VarsOf(lhs) -> Ids(g)]
    BY <1>1, <1>2, <1>8, <1>10 DEF Sighted
  <2>2. \A v \in DOMAIN subst : subst[v] \in Ids(g)
    BY <1>1, <1>2 DEF Sighted
  <2>3. DoneAt(g', r, s, Find(g', Find(g, ClassOf(rhs))))
    BY <1>2, <1>3, <1>4, <1>7, <1>8, <1>10, <2>1, <2>2, DoneLater
  <2>4. Find(g', Find(g, ClassOf(rhs))) = Find(g', c)
    BY <1>2, <1>5, <1>6, <1>7 DEF Later
  <2> QED
    BY <2>3, <2>4 DEF Settled
<1>11. CASE \E k \in DOMAIN fires' : fires'[k] = fires[j]
  BY <1>1, <1>7, <1>8, <1>11 DEF InHand
<1> QED
  BY <1>9, <1>10, <1>11

\* An exhaustive rule is not checked, and has a class for each variable it needs.
LEMMA ExhaustiveBuilds ==
  ASSUME RunInv, Exhaustive(rule), Abandon \/ Veto PROVE FALSE
<1>1. CASE Veto
  BY <1>1 DEF Veto, Exhaustive
<1>2. CASE Abandon
  <2>1. PICK v \in VarsOf(rhs) : v \notin DOMAIN subst
    BY <1>2 DEF Abandon
  <2>2. fires # <<>> /\ Completes(g, rule, fires[1], subst) /\ fires \in Seq([VarsOf(lhs) -> Ids(g)])
    BY <1>2 DEF Abandon, RunInv, Building, Sighted
  <2>3. fires[1] \in [VarsOf(lhs) -> Ids(g)]
    BY <2>2
  <2>4. DOMAIN fires[1] = VarsOf(Rules[rule].lhs)
    BY <2>3 DEF lhs
  <2> QED
    BY <2>1, <2>2, <2>4 DEF Completes, Exhaustive, rhs
<1> QED
  BY <1>1, <1>2
LEMMA AttendedKept ==
  ASSUME PatternsAreOfEnodes, LoopInv, [LoopNext]_loopVars, IInv',
         Growth => Grows(g, g') /\ searched' = searched
  PROVE  Attended(g)'
<1> HIDE DEF Places
<1>0. Tables(g) /\ Tables(g') /\ Memory /\ Paced /\ Sighted(g) /\ Attended(g)
  BY DEF LoopInv, RunInv, IInv, Graph
<1>1. CASE BeginIteration
  BY <1>1, BeginIterationAttends
<1>2. CASE BeginRule
  BY <1>2, BeginRuleAttends
<1>3. CASE SkipClass
  BY <1>3, SkipClassAttends
<1>4. CASE ScanClass
  BY <1>4, ScanClassAttends
<1>5. CASE ~BeginIteration /\ ~BeginRule /\ ~SkipClass /\ ~ScanClass
  <2>1. Growth /\ Grows(g, g') /\ searched' = searched
    BY <1>5, LoopStepIsStep DEF LoopInv
  <2>2. Attended(g')
    BY <1>0, <2>1, AttendedGrows
  <2>3. CASE Join
    BY <2>1, <2>2, <2>3, JoinAttends
  <2>4. CASE UNCHANGED loopVars \/ GraphStep
    BY <2>2, <2>4 DEF Attended, Scheduled, InSight, InHand, loopVars, vars, GraphStep, runVars,
                     roundVars, scanVars, fireVars, WalkUp, Add, Unite, Restore, CanonicaliseRoot,
                     TakeWork, ClaimItem, MergeNext
  <2>5. CASE StartRun \/ EndIteration \/ Finish
    <3>1. UNCHANGED <<search, todo, applied, missed>> /\ stage \in {"idle", "rules", "finish"}
      BY <2>5 DEF StartRun, EndIteration, Finish, scanVars, roundVars
    <3> QED
      BY <2>1, <2>2, <3>1 DEF Attended, Scheduled, InSight, InHand
  <2>6. CASE SkipSuspended
    <3>1. PICK r0 \in todo : Budgeted(r0) /\ todo' = todo \ {r0}
      BY <2>6 DEF SkipSuspended
    <3>2. UNCHANGED <<search, applied, missed>> /\ stage = "rules"
      BY <2>6 DEF SkipSuspended, scanVars
    <3>3. ~Exhaustive(r0)
      BY <3>1 DEF Exhaustive
    <3> QED
      BY <2>1, <2>2, <3>1, <3>2, <3>3 DEF Attended, Scheduled, InSight, InHand
  <2>7. CASE EndRule
    <3>1. /\ UNCHANGED <<search, todo, applied, missed>> /\ stage = "scan"
          /\ cands = {} \/ Budgeted(rule)
      BY <2>7 DEF EndRule, roundVars, scanVars
    <3>2. Exhaustive(rule) => cands = {}
      BY <3>1 DEF Exhaustive
    <3> QED
      BY <2>1, <2>2, <3>1, <3>2 DEF Attended, Scheduled, InSight, InHand
  <2>8. CASE Veto \/ Abandon
    <3>1. /\ UNCHANGED <<search, todo, applied, missed, rule, cands>> /\ stage \in {"fire", "build"} /\ stage' = "fire"
      BY <2>8 DEF Veto, Abandon, roundVars, scanVars
    <3>2. ~Exhaustive(rule)
      BY <2>8, ExhaustiveBuilds DEF LoopInv
    <3> QED
      BY <2>1, <2>2, <3>1, <3>2 DEF Attended, Scheduled, InSight, InHand
  <2>9. CASE BeginFire \/ Build
    <3>1. /\ UNCHANGED <<search, todo, applied, missed, rule, cands, eid, fires>>
          /\ stage \in {"fire", "build"} /\ stage' = "build"
      BY <2>9 DEF BeginFire, Build, roundVars, scanVars
    <3> QED
      BY <2>1, <2>2, <3>1 DEF Attended, Scheduled, InSight, InHand
  <2>10. CASE EndScan
    <3>1. /\ UNCHANGED <<search, todo, applied, missed, rule, cands>>
          /\ stage = "fire" /\ stage' = "scan" /\ fires = <<>> /\ DOMAIN <<>> = {}
      BY <2>10 DEF EndScan, roundVars, scanVars
    <3> QED
      BY <2>1, <2>2, <3>1 DEF Attended, Scheduled, InSight, InHand
  <2> QED
    BY <1>5, <2>3, <2>4, <2>5, <2>6, <2>7, <2>8, <2>9, <2>10 DEF LoopNext
<1> QED
  BY <1>1, <1>2, <1>3, <1>4, <1>5

LEMMA RunInitEstablishes == LoopInit => RunInv
<1> SUFFICES ASSUME LoopInit PROVE RunInv
  OBVIOUS
<1>1. IInv /\ SInv /\ searched = g
  BY InitEstablishes, InitFresh DEF LoopInit, Init
<1>2. PICK track \in BOOLEAN : g = Empty(track)
  BY DEF LoopInit, Init
<1>3. g.canon = <<>> /\ DOMAIN <<>> = {}
  BY <1>2 DEF Empty
<1>4. Roots(g) = {}
  BY <1>3 DEF Roots
<1>5. Tables(g) /\ LeavesKnown(g)
  BY <1>1, <1>4 DEF IInv, Graph, LeavesKnown
<1>6. Memory
  BY <1>1, <1>5, LaterIsReflexive DEF Memory
<1>7. Paced /\ Sighted(g) /\ Building(g) /\ Listed(g)
  BY DEF LoopInit, Paced, Sighted, Building, Listed
<1> QED
  BY <1>1, <1>6, <1>7 DEF RunInv

LEMMA RunKeeps ==
  ASSUME PatternsAreOfEnodes, RunInv, [LoopNext]_loopVars
  PROVE  RunInv' /\ [Next]_vars /\ (Growth => Grows(g, g') /\ searched' = searched)
<1>1. BeginIteration \/ Growth
  BY LoopStepIsStep
<1>2. [Next]_vars
  BY <1>1, GrowthIsStep DEF BeginIteration, Next, Upkeep
<1>3. IInv' /\ SInv'
  BY <1>2, NextKeeps, NextFresh DEF RunInv
<1>4. Growth => Grows(g, g') /\ searched' = searched
  BY StepGrows DEF RunInv
<1>5. Memory' /\ Paced'
  BY <1>1, <1>3, MemoryKept, PacedKept DEF RunInv
<1>6. Sighted(g)' /\ Building(g)' /\ Listed(g)'
  BY <1>3, <1>4, SightedKept, BuildingKept, ListedKept
<1> QED
  BY <1>2, <1>3, <1>4, <1>5, <1>6 DEF RunInv

\* The loop, with its scans interrupted anywhere, does to the e-graph what its
\* operations do, one at a time: what is proved of every sequence of add_enode,
\* union, canonicalise and rebuild is true of every run (EGraph.run).
THEOREM RunsAreOperations ==
  ASSUME PatternsAreOfEnodes PROVE LoopSpec => Spec
<1>1. RunInv /\ [LoopNext]_loopVars => RunInv' /\ [Next]_vars
  BY RunKeeps
<1>2. LoopInit => Init
  BY DEF LoopInit
<1> QED
  BY <1>1, <1>2, RunInitEstablishes, PTL DEF LoopSpec, Spec

LEMMA LoopInductive ==
  ASSUME PatternsAreOfEnodes PROVE LoopSpec => []LoopInv
<1>1. LoopInit => LoopInv
  BY RunInitEstablishes DEF LoopInv, LoopInit, Attended
<1>2. LoopInv /\ [LoopNext]_loopVars => LoopInv'
  <2> SUFFICES ASSUME LoopInv, [LoopNext]_loopVars PROVE LoopInv'
    OBVIOUS
  <2>1. RunInv' /\ (Growth => Grows(g, g') /\ searched' = searched)
    BY RunKeeps DEF LoopInv
  <2>2. Attended(g)'
    BY <2>1, AttendedKept DEF RunInv
  <2> QED
    BY <2>1, <2>2 DEF LoopInv
<1> QED
  BY <1>1, <1>2, PTL DEF LoopSpec

\* "A class outside the frontier cannot produce a match that was not already
\* produced" (run): whatever the callers add and unite between the runs, and
\* whatever the rules merge under the search, between two iterations an
\* exhaustive rule that has once scanned the graph has its right-hand side in
\* every class where it matches, but those of the frontier, if no iteration of
\* a rule set without it has taken a frontier that was not empty since.
THEOREM OnlyTheFrontierHasWork ==
  ASSUME PatternsAreOfEnodes
  PROVE  LoopSpec => [](quiet => FrontierComplete)
<1>1. LoopInv => (quiet => FrontierComplete)
  BY FrontierIsComplete
<1> QED
  BY <1>1, LoopInductive, PTL
-----------------------------------------------------------------------------
(* What a budget bounds. *)

\* The parts of the right-hand side that are not built, and the enodes that the
\* rule at hand can still mint before its next class.
Enodal(r) == {q \in Parts[Rules[r].rhs] : ~IsVar(q)}
Owed ==
  CASE stage = "fire"  -> Len(fires) * Minted(rule)
    [] stage = "build" -> (Len(fires) - 1) * Minted(rule) + Cardinality(Enodal(rule) \ DOMAIN built)
    [] OTHER -> 0

BudgetInv ==
  /\ Small(g) /\ n_start \in Nat /\ spent \in [DOMAIN Budgets -> Nat] /\ BudgetBounds
  /\ stage \in {"scan", "fire", "build"} =>
       /\ Spent \in Nat
       /\ Budgeted(rule) => Remaining(rule) > 0 /\ Spent + Owed <= Remaining(rule) * Minted(rule)

LEMMA MintedParts ==
  ASSUME NEW r \in RuleNames
  PROVE  /\ IsFiniteSet(Enodal(r)) /\ Cardinality(Enodal(r)) \in Nat /\ Minted(r) \in Nat
         /\ Minted(r) = Cardinality(Enodal(r)) + (IF Rules[r].derive = <<>> THEN 0 ELSE 1)
<1>1. Enodal(r) \in SUBSET Patterns /\ IsFiniteSet(Patterns)
  BY RuleParts, PatternsAreTerms DEF Enodal
<1>2. IsFiniteSet(Enodal(r)) /\ Cardinality(Enodal(r)) \in Nat
  BY <1>1, FS_Subset, FS_CardinalityType
<1> QED
  BY <1>2 DEF Minted, Enodal

LEMMA EnodesAreNat == ASSUME NEW h, Small(h) PROVE n_enodes(h) \in Nat
BY FS_CardinalityType DEF Small, n_enodes

\* add_enode mints at most one.
LEMMA InternMintsOne ==
  ASSUME IInv, Small(g), NEW n, Intern(n)
  PROVE  n_enodes(g') \in {n_enodes(g), n_enodes(g) + 1}
<1>1. CASE UNCHANGED g
  BY <1>1
<1>2. CASE g' = AddNode(g, n)
  <2>1. g'.cons = WithDefault(g.cons, {n}, Len(g.canon) + 1)
    BY <1>2, AddNodeTables DEF IInv, Graph, Tables
  <2>2. DOMAIN g'.cons = DOMAIN g.cons \cup {n}
    BY <2>1 DEF WithDefault
  <2>3. Cardinality(DOMAIN g.cons \cup {n}) =
          IF n \in DOMAIN g.cons THEN Cardinality(DOMAIN g.cons) ELSE Cardinality(DOMAIN g.cons) + 1
    BY FS_AddElement DEF Small
  <2> QED
    BY <2>2, <2>3 DEF n_enodes
<1> QED
  BY <1>1, <1>2 DEF Intern

LEMMA LinkMintsNone ==
  ASSUME IInv, NEW a, NEW b, Link(a, b) PROVE n_enodes(g') = n_enodes(g)
<1>1. g' = Merge(g, Winner(g, a, b), Loser(g, a, b))
  BY DEF Link
<1>2. g'.cons = g.cons
  BY <1>1, MergeClasses DEF IInv, Graph, Tables
<1> QED
  BY <1>2 DEF n_enodes

\* Matches that fit what is left, at M enodes each.
LEMMA ListFits ==
  ASSUME NEW S \in Nat, NEW R \in Int, NEW M \in Nat, NEW L \in Nat, S <= R * M, L <= R - S
  PROVE  S + L * M <= R * M
<1>1. CASE M = 0
  BY <1>1
<1>2. CASE M > 0
  <2>1. L * M <= (R - S) * M
    BY <1>2
  <2>2. (R - S) * M = R * M - S * M /\ S <= S * M
    BY <1>2
  <2>3. L * M \in Int /\ R * M \in Int /\ S * M \in Int
    OBVIOUS
  <2> QED
    BY <2>1, <2>2, <2>3
<1> QED
  BY <1>1, <1>2

\* What is spent stays within the budget, at M enodes each.
LEMMA SpendFits ==
  ASSUME NEW S \in Nat, NEW B \in Nat, NEW P \in Nat, NEW M \in Nat, P <= B * M, S <= (B - P) * M
  PROVE  P + S <= B * M
<1>1. CASE M = 0
  BY <1>1
<1>2. CASE M > 0
  <2>1. (B - P) * M = B * M - P * M /\ P <= P * M
    BY <1>2
  <2>2. B * M \in Int /\ P * M \in Int
    OBVIOUS
  <2> QED
    BY <2>1, <2>2
<1> QED
  BY <1>1, <1>2
LEMMA TailIsShorter ==
  ASSUME NEW S, NEW q \in Seq(S), q # <<>>
  PROVE  Tail(q) \in Seq(S) /\ Len(q) \in Nat /\ Len(q) > 0 /\ Len(Tail(q)) = Len(q) - 1
OBVIOUS

\* One firing less is M enodes less.
LEMMA OneLess ==
  ASSUME NEW L \in Nat, NEW M \in Nat
  PROVE  L * M \in Nat /\ (L - 1) * M \in Int /\ L * M = (L - 1) * M + M
OBVIOUS

LEMMA BudgetKept ==
  ASSUME PatternsAreOfEnodes, RunInv, BudgetInv, [LoopNext]_loopVars,
         Growth => Grows(g, g') /\ searched' = searched
  PROVE  BudgetInv'
<1> DEFINE M == Minted(rule)  E == Enodal(rule)  Active == {"scan", "fire", "build"}
<1>0. /\ IInv /\ Paced /\ Sighted(g) /\ Building(g) /\ Small(g) /\ Tables(g)
      /\ n_start \in Nat /\ spent \in [DOMAIN Budgets -> Nat] /\ BudgetBounds
  BY DEF RunInv, BudgetInv, IInv, Graph
<1>a. stage \in Active =>
        /\ rule \in RuleNames /\ M \in Nat /\ Spent \in Nat
        /\ IsFiniteSet(E) /\ Cardinality(E) \in Nat
        /\ M = Cardinality(E) + (IF derive = <<>> THEN 0 ELSE 1)
        /\ Budgeted(rule) => /\ Remaining(rule) \in Int /\ Remaining(rule) > 0
                             /\ Spent + Owed <= Remaining(rule) * M
  BY <1>0, RulesNamed, MintedParts, BudgetsAreNat DEF Paced, BudgetInv, derive, Budgeted, Remaining
<1>b. Small(g') /\ n_enodes(g') \in Nat /\ n_enodes(g) \in Nat
  <2>1. Small(g')
    <3>1. CASE Growth
      BY <1>0, <3>1 DEF Grows
    <3>2. CASE BeginIteration
      BY <1>0, <3>2, TakeFrontierKeepsMatches DEF BeginIteration, Small
    <3> QED
      BY <3>1, <3>2, LoopStepIsStep
  <2> QED
    BY <1>0, <2>1, EnodesAreNat
<1>c. stage \in {"fire", "build"} =>
        /\ fires \in Seq([VarsOf(lhs) -> Ids(g)]) /\ Len(fires) \in Nat
        /\ fires # <<>> => /\ fires' = Tail(fires) => Len(fires') = Len(fires) - 1 /\ Len(fires') \in Nat
                           /\ Len(fires) > 0
        /\ Len(fires) * M \in Nat /\ (Len(fires) - 1) * M \in Int
        /\ Len(fires) * M = (Len(fires) - 1) * M + M
  <2> SUFFICES ASSUME stage \in {"fire", "build"}
               PROVE  /\ fires \in Seq([VarsOf(lhs) -> Ids(g)]) /\ Len(fires) \in Nat
                      /\ fires # <<>> => /\ fires' = Tail(fires) => Len(fires') = Len(fires) - 1 /\ Len(fires') \in Nat
                                         /\ Len(fires) > 0
                      /\ Len(fires) * M \in Nat /\ (Len(fires) - 1) * M \in Int
                      /\ Len(fires) * M = (Len(fires) - 1) * M + M
    OBVIOUS
  <2>1. fires \in Seq([VarsOf(lhs) -> Ids(g)]) /\ Len(fires) \in Nat /\ M \in Nat
    BY <1>0, <1>a DEF Sighted
  <2>2. fires # <<>> => Len(fires) > 0 /\ Len(Tail(fires)) = Len(fires) - 1
    BY <2>1, TailIsShorter
  <2> HIDE DEF M
  <2> QED
    BY <2>1, <2>2, OneLess
\* A step that owes no more than before, when what it mints is counted.
<1>d. ASSUME UNCHANGED <<spent, rule, n_start>>, stage \in Active, stage' \in Active,
             n_enodes(g') >= n_enodes(g), Owed \in Int, Owed' \in Int,
             n_enodes(g') - n_enodes(g) + Owed' <= Owed
      PROVE  BudgetInv'
  <2>1. Spent' \in Nat /\ Spent' = Spent + (n_enodes(g') - n_enodes(g))
    BY <1>0, <1>a, <1>b, <1>d DEF Spent
  <2>2. Remaining(rule') = Remaining(rule) /\ Minted(rule') = M /\ Remaining(rule)' = Remaining(rule)
    BY <1>d DEF Remaining
  <2>3. Budgeted(rule) => Spent' + Owed' <= Remaining(rule) * M
    <3> SUFFICES ASSUME Budgeted(rule) PROVE Spent' + Owed' <= Remaining(rule) * M
      OBVIOUS
    <3> DEFINE room == Remaining(rule) * M  minted == n_enodes(g') - n_enodes(g)
    <3>1. room \in Int /\ Spent \in Int /\ Spent + Owed <= room
      BY <1>a, <1>d
    <3>2. minted \in Int /\ minted + Owed' <= Owed /\ Spent' = Spent + minted /\ Spent' \in Int
      BY <1>b, <1>d, <2>1
    <3>3. Owed \in Int /\ Owed' \in Int
      BY <1>d
    <3> HIDE DEF room, minted
    <3>4. PICK s \in Int : s = Spent
      BY <3>1
    <3>5. PICK t \in Int : t = Spent'
      BY <3>2
    <3>6. PICK o \in Int : o = Owed
      BY <3>3
    <3>7. PICK p \in Int : p = Owed'
      BY <3>3
    <3>8. t = s + minted /\ minted + p <= o /\ s + o <= room /\ room \in Int /\ minted \in Int
      BY <3>1, <3>2, <3>4, <3>5, <3>6, <3>7
    <3>9. t + p <= room
      BY <3>8
    <3> QED
      BY <3>5, <3>7, <3>9 DEF room
  <2>4. Small(g)' /\ BudgetBounds' /\ n_start' \in Nat /\ spent' \in [DOMAIN Budgets -> Nat]
    BY <1>0, <1>b, <1>d DEF BudgetBounds
  <2> QED
    BY <1>a, <1>d, <2>1, <2>2, <2>3, <2>4 DEF BudgetInv, Remaining
\* Between the rules, nothing is owed.
<1>1. ASSUME UNCHANGED <<spent, n_start>>, stage' \notin Active PROVE BudgetInv'
  BY <1>0, <1>1, <1>b DEF BudgetInv, BudgetBounds
<1>2. CASE EndRule
  <2>1. /\ stage = "scan" /\ stage' = "rules" /\ n_start' = n_start
        /\ spent' = IF Budgeted(rule) THEN [spent EXCEPT ![rule] = @ + Spent] ELSE spent
    BY <1>2 DEF EndRule, scanVars
  <2>2. CASE ~Budgeted(rule)
    BY <1>1, <2>1, <2>2
  <2>3. CASE Budgeted(rule)
    <3>1. Owed = 0
      BY <2>1 DEF Owed
    <3>2. Budgets[rule] \in Nat /\ spent[rule] \in Nat /\ Remaining(rule) = Budgets[rule] - spent[rule]
      BY <1>0, <2>3, BudgetsAreNat DEF Budgeted, Remaining
    <3>3. Spent \in Nat /\ Spent <= (Budgets[rule] - spent[rule]) * M /\ M \in Nat
      BY <1>a, <2>1, <2>3, <3>1, <3>2
    <3>4. spent[rule] <= Budgets[rule] * M
      BY <1>0, <2>3 DEF BudgetBounds, Budgeted
    <3> HIDE DEF M
    <3>5. spent[rule] + Spent <= Budgets[rule] * M
      BY <3>2, <3>3, <3>4, SpendFits
    <3>6. /\ spent' \in [DOMAIN Budgets -> Nat]
          /\ \A r \in DOMAIN Budgets : spent'[r] = IF r = rule THEN spent[r] + Spent ELSE spent[r]
      <4>1. spent' = [spent EXCEPT ![rule] = spent[rule] + Spent] /\ rule \in DOMAIN Budgets
        BY <1>0, <2>1, <2>3 DEF Budgeted
      <4>2. spent[rule] + Spent \in Nat
        BY <3>2, <3>3
      <4>3. \A k \in Nat : /\ [spent EXCEPT ![rule] = k] \in [DOMAIN Budgets -> Nat]
                          /\ \A r \in DOMAIN Budgets :
                               [spent EXCEPT ![rule] = k][r] = IF r = rule THEN k ELSE spent[r]
        BY <1>0
      <4> QED
        BY <4>1, <4>2, <4>3
    <3>7. BudgetBounds'
      BY <1>0, <3>5, <3>6 DEF BudgetBounds, M
    <3> QED
      BY <1>0, <1>b, <2>1, <3>6, <3>7 DEF BudgetInv
  <2> QED
    BY <2>2, <2>3
<1>3. CASE BeginRule
  <2>1. PICK r \in todo : rule' = r /\ (Budgeted(r) => Remaining(r) > 0)
    BY <1>3 DEF BeginRule
  <2>2. /\ g' = g /\ n_start' = n_enodes(g) /\ spent' = spent /\ stage' = "scan"
        /\ r \in RuleNames
    BY <1>0, <1>3, <2>1 DEF BeginRule, vars, Paced, PatternsAreOfEnodes
  <2>3. Spent' = 0 /\ Owed' = 0 /\ Minted(r) \in Nat
    BY <1>b, <2>2, MintedParts DEF Spent, Owed
  <2>4. Budgeted(r) => Remaining(r) \in Int /\ Remaining(r) > 0 /\ 0 <= Remaining(r) * Minted(r)
    <3> SUFFICES ASSUME Budgeted(r) PROVE Remaining(r) \in Int /\ Remaining(r) > 0 /\ 0 <= Remaining(r) * Minted(r)
      OBVIOUS
    <3>1. Remaining(r) \in Int
      BY <1>0, BudgetsAreNat DEF Budgeted, Remaining
    <3> QED
      BY <2>1, <2>3, <3>1
  <2> QED
    BY <1>0, <1>b, <2>1, <2>2, <2>3, <2>4 DEF BudgetInv, BudgetBounds, Remaining
<1>4. CASE UNCHANGED loopVars \/ GraphStep
  <2>1. UNCHANGED <<spent, n_start, stage, rule, fires, built>>
    BY <1>4 DEF loopVars, GraphStep, runVars, scanVars, fireVars
  <2>2. CASE stage \notin Active
    BY <1>1, <2>1, <2>2
  <2>3. CASE stage \in Active
    <3>1. n_enodes(g') = n_enodes(g)
      <4>1. UNCHANGED g \/ WalkUp
        BY <1>4, <2>3 DEF loopVars, vars, GraphStep
      <4>2. ASSUME WalkUp PROVE g'.cons = g.cons
        <5>1. PICK c \in walk : g' = [g EXCEPT !.dirty = @ \cup Above(g, c)]
          BY <4>2 DEF WalkUp
        <5>2. DOMAIN g = Fields
          BY <1>0 DEF Tables
        <5> QED
          BY <5>1, <5>2 DEF Fields
      <4> QED
        BY <4>1, <4>2 DEF n_enodes
    <3>2. Spent' = Spent /\ Owed' = Owed /\ Minted(rule') = Minted(rule) /\ Remaining(rule)' = Remaining(rule)
      BY <2>1, <3>1 DEF Spent, Owed, Remaining, Enodal
    <3> QED
      BY <1>0, <1>a, <1>b, <2>1, <2>3, <3>2 DEF BudgetInv, BudgetBounds, Remaining
  <2> QED
    BY <2>2, <2>3
<1>5. CASE StartRun \/ BeginIteration \/ SkipSuspended \/ EndIteration \/ Finish
  <2>1. UNCHANGED <<spent, n_start>> /\ stage' \notin Active
    BY <1>5 DEF StartRun, BeginIteration, SkipSuspended, EndIteration, Finish, scanVars
  <2> QED
    BY <1>1, <2>1
<1>6. CASE SkipClass
  <2>1. /\ UNCHANGED <<g, spent, rule, n_start>> /\ stage = "scan" /\ stage' = "scan"
        /\ Owed = 0 /\ Owed' = 0
    BY <1>6 DEF SkipClass, vars, Owed
  <2> QED
    BY <1>b, <1>d, <2>1
<1>7. CASE ScanClass
  <2>1. PICK i \in cands :
          fires' \in Listings(Matches(g, rule, Find(g, i)), Limit(rule, Remaining(rule) - Spent))
    BY <1>7 DEF ScanClass
  <2>2. /\ UNCHANGED <<g, spent, rule, n_start>> /\ stage = "scan" /\ stage' = "fire" /\ Owed = 0
        /\ (Budgeted(rule) => Remaining(rule) - Spent > 0)
    BY <1>7 DEF ScanClass, vars, Owed
  <2>3. Spent' = Spent /\ Owed' = Len(fires') * M
    BY <2>2 DEF Spent, Owed
  <2>4. fires' \in Seq(Matches(g, rule, Find(g, i))) /\ Len(fires') \in Nat
    BY <2>1 DEF Listings
  <2>5. Budgeted(rule) => Spent' + Owed' <= Remaining(rule) * M
    <3> SUFFICES ASSUME Budgeted(rule) PROVE Spent + Len(fires') * M <= Remaining(rule) * M
      BY <2>3
    <3> DEFINE left == Remaining(rule) - Spent
    <3>1. /\ Spent \in Nat /\ Remaining(rule) \in Int /\ M \in Nat /\ left \in Int /\ left > 0
          /\ Spent + 0 <= Remaining(rule) * M
      BY <1>a, <2>2
    <3>2. Limit(rule, left) \in Int /\ Limit(rule, left) > 0 /\ Limit(rule, left) <= left
      BY <3>1, CapIsPositive DEF Limit
    <3>3. Len(fires') <= left
      <4> HIDE DEF left
      <4>1. Limit(rule, left) # NoLimit
        BY <3>2 DEF NoLimit
      <4> QED
        BY <2>1, <2>4, <3>1, <3>2, <4>1 DEF Listings, left
    <3>4. Remaining(rule) * M \in Int /\ Spent <= Remaining(rule) * M
      BY <3>1
    <3> HIDE DEF M
    <3> QED
      BY <2>4, <3>1, <3>3, <3>4, ListFits
  <2>6. Minted(rule') = M /\ Remaining(rule)' = Remaining(rule)
    BY <2>2 DEF Remaining
  <2> QED
    BY <1>0, <1>a, <1>b, <2>2, <2>3, <2>5, <2>6 DEF BudgetInv, BudgetBounds, Remaining
<1>8. CASE EndScan
  <2>1. /\ UNCHANGED <<g, spent, rule, n_start>> /\ stage = "fire" /\ stage' = "scan" /\ fires = <<>>
    BY <1>8 DEF EndScan, vars, scanVars
  <2>2. Owed = 0 /\ Owed' = 0
    BY <1>a, <2>1 DEF Owed
  <2> QED
    BY <1>b, <1>d, <2>1, <2>2
<1>9. CASE Veto
  <2>1. /\ UNCHANGED <<g, spent, rule, n_start>> /\ stage = "fire" /\ stage' = "fire"
        /\ fires' = Tail(fires) /\ fires # <<>>
    BY <1>9 DEF Veto, vars, scanVars
  <2>2. Owed = Len(fires) * M /\ Owed' = (Len(fires) - 1) * M
    BY <1>c, <2>1 DEF Owed
  <2>3. Owed \in Int /\ Owed' \in Int /\ Owed' <= Owed
    BY <1>a, <1>c, <2>1, <2>2
  <2> QED
    BY <1>b, <1>d, <2>1, <2>3
<1>10. CASE Abandon \/ Join
  <2>1. /\ UNCHANGED <<spent, rule, n_start>> /\ stage = "build" /\ stage' = "fire"
        /\ fires' = Tail(fires)
    BY <1>10 DEF Abandon, Join, scanVars
  <2>2. n_enodes(g') = n_enodes(g)
    BY <1>0, <1>10, LinkMintsNone DEF Abandon, Join, vars
  <2>3. fires # <<>>
    BY <1>0, <2>1 DEF Building
  <2>4. IsFiniteSet(E \ DOMAIN built) /\ Cardinality(E \ DOMAIN built) \in Nat
    BY <1>a, <2>1, FS_Subset, FS_CardinalityType
  <2>5. /\ Owed = (Len(fires) - 1) * M + Cardinality(E \ DOMAIN built)
        /\ Owed' = (Len(fires) - 1) * M
    BY <1>c, <2>1, <2>3 DEF Owed
  <2>6. Owed \in Int /\ Owed' \in Int /\ Owed' <= Owed
    BY <1>c, <2>1, <2>4, <2>5
  <2> QED
    BY <1>b, <1>d, <2>1, <2>2, <2>6
<1>11. CASE BeginFire
  <2>1. /\ UNCHANGED <<spent, rule, n_start, fires>> /\ stage = "fire" /\ stage' = "build"
        /\ built' = <<>> /\ DOMAIN <<>> = {}
        /\ \/ derive = <<>> /\ UNCHANGED g
           \/ derive # <<>> /\ Intern(LeafNode(derive[2]))
    BY <1>11 DEF BeginFire, vars, scanVars
  <2>2. E \ DOMAIN built' = E
    BY <2>1
  <2>3. Owed = Len(fires) * M /\ Owed' = (Len(fires) - 1) * M + Cardinality(E)
    BY <2>1, <2>2 DEF Owed, Enodal
  <2>4. n_enodes(g') >= n_enodes(g) /\ n_enodes(g') - n_enodes(g) <= IF derive = <<>> THEN 0 ELSE 1
    <3>1. \A n : Intern(n) => n_enodes(g') \in {n_enodes(g), n_enodes(g) + 1}
      BY <1>0, InternMintsOne
    <3> QED
      BY <1>b, <2>1, <3>1
  <2>5. Owed \in Int /\ Owed' \in Int /\ n_enodes(g') - n_enodes(g) + Owed' <= Owed
    <3> DEFINE d == IF derive = <<>> THEN 0 ELSE 1  k == n_enodes(g') - n_enodes(g)
               a == Len(fires) * M  b == (Len(fires) - 1) * M  c == Cardinality(E)
    <3>1. M = c + d /\ c \in Nat /\ d \in Nat /\ k <= d /\ k \in Int
      BY <1>a, <1>b, <2>1, <2>4
    <3>2. a \in Nat /\ b \in Int /\ a = b + M
      BY <1>c, <2>1
    <3>3. Owed = a /\ Owed' = b + c
      BY <2>3
    <3> HIDE DEF M, a, b, c, d, k
    <3>4. Owed \in Int /\ Owed' \in Int /\ k + Owed' <= Owed
      BY <3>1, <3>2, <3>3
    <3> QED
      BY <3>4 DEF k
  <2> QED
    BY <1>d, <2>1, <2>4, <2>5
<1>12. CASE Build
  <2>1. PICK p \in Parts[rhs] \ DOMAIN built :
          ~IsVar(p) /\ Intern(NodeFor(p)) /\ built' = WithDefault(built, {p}, Interned(NodeFor(p)))
    BY <1>12 DEF Build
  <2>2. UNCHANGED <<spent, rule, n_start, fires>> /\ stage = "build" /\ stage' = "build"
    BY <1>12 DEF Build, scanVars
  <2> DEFINE U == E \ DOMAIN built
  <2>3. p \in U /\ E \ DOMAIN built' = U \ {p}
    BY <2>1 DEF WithDefault, Enodal, rhs
  <2>4. IsFiniteSet(U) /\ Cardinality(U) \in Nat
    BY <1>a, <2>2, FS_Subset, FS_CardinalityType
  <2>5. Cardinality(U \ {p}) = Cardinality(U) - 1
    BY <2>3, <2>4, FS_RemoveElement
  <2>6. /\ Owed = (Len(fires) - 1) * M + Cardinality(U)
        /\ Owed' = (Len(fires) - 1) * M + Cardinality(U \ {p})
    BY <2>2, <2>3 DEF Owed, Enodal
  <2>7. n_enodes(g') \in {n_enodes(g), n_enodes(g) + 1}
    BY <1>0, <2>1, InternMintsOne
  <2>8. n_enodes(g') >= n_enodes(g) /\ Owed \in Int /\ Owed' \in Int
        /\ n_enodes(g') - n_enodes(g) + Owed' <= Owed
    <3> HIDE DEF M, U
    <3> QED
      BY <1>b, <1>c, <2>2, <2>4, <2>5, <2>6, <2>7
  <2> QED
    BY <1>d, <2>2, <2>8
<1> QED
  BY <1>2, <1>3, <1>4, <1>5, <1>6, <1>7, <1>8, <1>9, <1>10, <1>11, <1>12 DEF LoopNext

\* A rule under a budget mints at most its budget's worth of right-hand sides over
\* all the runs of a graph, though the budget counts enodes only between classes
\* and the matches of a class are listed before the first of them fires
\* (rule_budgets, match_cap).
THEOREM BudgetsHold ==
  ASSUME PatternsAreOfEnodes PROVE LoopSpec => []BudgetBounds
<1>1. LoopInit => BudgetInv
  <2> SUFFICES ASSUME LoopInit PROVE BudgetInv
    OBVIOUS
  <2>1. PICK track \in BOOLEAN : g = Empty(track)
    BY DEF LoopInit, Init
  <2>2. g.canon = <<>> /\ g.cons = <<>> /\ DOMAIN <<>> = {}
    BY <2>1 DEF Empty
  <2>3. Small(g)
    BY <2>2, FS_EmptySet DEF Small, Ids
  <2>4. \A r \in DOMAIN Budgets : 0 <= Budgets[r] * Minted(r)
    <3> SUFFICES ASSUME NEW r \in DOMAIN Budgets PROVE 0 <= Budgets[r] * Minted(r)
      OBVIOUS
    <3>1. Budgets[r] \in Nat /\ Minted(r) \in Nat
      BY BudgetsAreNat, MintedParts DEF RuleNames
    <3> QED
      BY <3>1
  <2> QED
    BY <2>3, <2>4 DEF LoopInit, BudgetInv, BudgetBounds
<1>2. RunInv /\ BudgetInv /\ [LoopNext]_loopVars => RunInv' /\ BudgetInv'
  BY RunKeeps, BudgetKept
<1>3. BudgetInv => BudgetBounds
  BY DEF BudgetInv
<1> QED
  BY <1>1, <1>2, <1>3, RunInitEstablishes, PTL DEF LoopSpec
-----------------------------------------------------------------------------
(* What patterns mean: the one solution of the equations of their values,   *)
(* glued from the solutions for the parts of each.                          *)

\* A part of a part is a part.
LEMMA PartsNest ==
  \A p \in Patterns : \A q \in Parts[p] : q \in Patterns /\ Parts[q] \subseteq Parts[p]
<1> DEFINE S == {p \in Patterns : \A q \in Parts[p] : Parts[q] \subseteq Parts[p]}
<1>1. ASSUME NEW p \in Patterns, Compound(p) => \A k \in DOMAIN p[2] : p[2][k] \in S
      PROVE  p \in S
  <2> SUFFICES ASSUME NEW q \in Parts[p], q # p PROVE Parts[q] \subseteq Parts[p]
    OBVIOUS
  <2>1. Compound(p) /\ q \in UNION {Parts[c] : c \in Kids(p)}
    BY PatternsAreTerms
  <2>2. PICK k \in DOMAIN p[2] : q \in Parts[p[2][k]]
    BY <2>1 DEF Kids
  <2>3. Parts[p[2][k]] \subseteq Parts[p]
    BY <2>1, ChildIsLower
  <2> QED
    BY <1>1, <2>1, <2>2, <2>3
<1>2. S = Patterns
  <2> HIDE DEF S
  <2>1. S \in SUBSET Patterns
    BY DEF S
  <2> QED
    BY <1>1, <2>1, PatternInduction
<1> QED
  BY <1>2, PatternsAreTerms

\* The parts of a compound pattern: itself, and those of its children, which
\* it is not among.
LEMMA PartsOfChildren ==
  ASSUME NEW p \in Patterns, NEW q \in Parts[p]
  PROVE  /\ q \in Patterns
         /\ Compound(q) => \A k \in DOMAIN q[2] :
              q[2][k] \in Patterns /\ q[2][k] \in Parts[p] /\ q[2][k] \in Parts[q[2][k]]
         /\ q # p => /\ Compound(p)
                     /\ \E k \in DOMAIN p[2] : q \in Parts[p[2][k]] /\ p \notin Parts[p[2][k]]
         /\ Compound(p) => \A k \in DOMAIN p[2] : p[2][k] # p
<1>1. q \in Patterns /\ Parts[q] \subseteq Parts[p]
  BY PartsNest
<1>2. ASSUME NEW t \in Patterns, Compound(t), NEW k \in DOMAIN t[2]
      PROVE  t[2][k] \in Patterns /\ t[2][k] \in Parts[t[2][k]] /\ t[2][k] \in Parts[t]
             /\ t \notin Parts[t[2][k]]
  <2>1. t[2][k] \in Patterns /\ Parts[t[2][k]] \subseteq Parts[t]
    BY <1>2, ChildIsLower
  <2>2. t[2][k] \in Kids(t)
    BY DEF Kids
  <2> QED
    BY <1>2, <2>1, <2>2, PatternsAreTerms
<1>3. ASSUME q # p
      PROVE  Compound(p) /\ \E k \in DOMAIN p[2] : q \in Parts[p[2][k]]
  BY <1>3, PatternsAreTerms DEF Kids
<1> QED
  BY <1>1, <1>2, <1>3

\* The value of a pattern is read off those of its children.
LEMMA SameValueAt ==
  ASSUME NEW val, NEW f, NEW e, NEW p \in Patterns,
         Compound(p) => \A k \in DOMAIN p[2] : f[p[2][k]] = e[p[2][k]]
  PROVE  ValueAt(val, f, p) = ValueAt(val, e, p)
<1>1. CASE Compound(p)
  <2>1. [k \in DOMAIN p[2] |-> f[p[2][k]]] = [k \in DOMAIN p[2] |-> e[p[2][k]]]
    BY <1>1
  <2> QED
    BY <1>1, <2>1 DEF ValueAt, Compound
<1>2. CASE ~Compound(p)
  BY <1>2 DEF ValueAt, Compound, IsVar, IsConst
<1> QED
  BY <1>1, <1>2

\* f says what the parts of p mean.
Solves(val, f, p) == f = [q \in Parts[p] |-> ValueAt(val, f, q)]

\* Two solutions agree on the parts they share.
LEMMA SolutionsAgree ==
  ASSUME NEW val, NEW f, NEW e, NEW p \in Patterns, NEW t \in Patterns,
         Solves(val, f, p), Solves(val, e, t)
  PROVE  \A q \in Parts[p] \cap Parts[t] : f[q] = e[q]
<1> DEFINE S == {q \in Patterns : q \in Parts[p] \cap Parts[t] => f[q] = e[q]}
<1>1. ASSUME NEW q \in Patterns, Compound(q) => \A k \in DOMAIN q[2] : q[2][k] \in S
      PROVE  q \in S
  <2> SUFFICES ASSUME q \in Parts[p], q \in Parts[t] PROVE f[q] = e[q]
    OBVIOUS
  <2>1. f[q] = ValueAt(val, f, q) /\ e[q] = ValueAt(val, e, q)
    BY DEF Solves
  <2>2. Compound(q) => \A k \in DOMAIN q[2] : q[2][k] \in Parts[p] /\ q[2][k] \in Parts[t]
    BY PartsOfChildren
  <2>3. Compound(q) => \A k \in DOMAIN q[2] : f[q[2][k]] = e[q[2][k]]
    BY <1>1, <2>2
  <2> QED
    BY <2>1, <2>3, SameValueAt
<1>2. S = Patterns
  <2> HIDE DEF S
  <2>1. S \in SUBSET Patterns
    BY DEF S
  <2> QED
    BY <1>1, <2>1, PatternInduction
<1> QED
  BY <1>2, PartsNest

\* What a pattern means: what a solution for it says of it.
Solution(val, p) == CHOOSE f : Solves(val, f, p)
Solutions(val)   == [p \in Patterns |-> Solution(val, p)[p]]

\* Where the parts have solutions, what each says of its own pattern fits.
LEMMA SolutionsMeet ==
  ASSUME NEW val, NEW q \in Patterns, \E f : Solves(val, f, q),
         Compound(q) => \A k \in DOMAIN q[2] : \E f : Solves(val, f, q[2][k])
  PROVE  Solutions(val)[q] = ValueAt(val, Solutions(val), q)
<1> DEFINE s == Solution(val, q)
<1>1. Solves(val, s, q)
  BY DEF Solution
<1>2. q \in Parts[q]
  BY PatternsAreTerms
<1>3. s[q] = ValueAt(val, s, q)
  BY <1>1, <1>2 DEF Solves
<1>4. ASSUME Compound(q), NEW k \in DOMAIN q[2] PROVE s[q[2][k]] = Solutions(val)[q[2][k]]
  <2> DEFINE c == q[2][k]
  <2>1. c \in Patterns /\ c \in Parts[q] /\ c \in Parts[c]
    BY <1>2, <1>4, PartsOfChildren
  <2>2. Solves(val, Solution(val, c), c)
    BY <1>4 DEF Solution
  <2> HIDE DEF c, s
  <2>3. s[c] = Solution(val, c)[c]
    BY <1>1, <2>1, <2>2, SolutionsAgree
  <2> QED
    BY <2>1, <2>3 DEF Solutions, c
<1>5. ValueAt(val, s, q) = ValueAt(val, Solutions(val), q)
  BY <1>4, SameValueAt
<1> QED
  BY <1>3, <1>5 DEF Solutions

\* Every pattern has one.
LEMMA SolutionsExist ==
  ASSUME NEW val PROVE \A p \in Patterns : \E f : Solves(val, f, p)
<1> DEFINE S == {p \in Patterns : \A q \in Parts[p] : \E f : Solves(val, f, q)}
<1>1. ASSUME NEW p \in Patterns, Compound(p) => \A k \in DOMAIN p[2] : p[2][k] \in S
      PROVE  p \in S
  <2> DEFINE at == Solutions(val)
             e == [q \in Parts[p] |-> IF q = p THEN ValueAt(val, at, p) ELSE at[q]]
  <2>1. ASSUME NEW q \in Parts[p], q # p
        PROVE  /\ \E f : Solves(val, f, q)
               /\ at[q] = ValueAt(val, at, q)
               /\ Compound(q) => \A k \in DOMAIN q[2] : q[2][k] \in Parts[p] /\ q[2][k] # p
    <3>1. PICK k \in DOMAIN p[2] : Compound(p) /\ q \in Parts[p[2][k]] /\ p \notin Parts[p[2][k]]
      BY <2>1, PartsOfChildren
    <3> DEFINE c == p[2][k]
    <3>2. c \in Patterns /\ c \in S
      BY <1>1, <3>1
    <3> HIDE DEF c
    <3>3. q \in Parts[c] /\ p \notin Parts[c] /\ q \in Patterns
      BY <3>1, <3>2, PartsNest DEF c
    <3>4. Compound(q) => \A j \in DOMAIN q[2] : q[2][j] \in Parts[c] /\ q[2][j] \in Parts[p]
      BY <3>2, <3>3, PartsOfChildren
    <3>5. \A t \in Parts[c] : \E f : Solves(val, f, t)
      BY <3>2
    <3>6. at[q] = ValueAt(val, at, q)
      BY <3>3, <3>4, <3>5, SolutionsMeet
    <3> QED
      BY <3>3, <3>4, <3>5, <3>6
  <2>2. Compound(p) => \A k \in DOMAIN p[2] : p[2][k] \in Parts[p] /\ p[2][k] # p
    BY PartsOfChildren, PatternsAreTerms
  <2>3. ASSUME NEW q \in Parts[p] PROVE e[q] = ValueAt(val, e, q)
    <3>1. q \in Patterns
      BY PartsNest
    <3>2. Compound(q) => \A k \in DOMAIN q[2] : e[q[2][k]] = at[q[2][k]]
      BY <2>1, <2>2
    <3>3. ValueAt(val, e, q) = ValueAt(val, at, q)
      BY <3>1, <3>2, SameValueAt
    <3> QED
      BY <2>1, <3>3
  <2>4. e = [q \in Parts[p] |-> e[q]]
    OBVIOUS
  <2> HIDE DEF e
  <2>5. Solves(val, e, p)
    BY <2>3, <2>4 DEF Solves
  <2> QED
    BY <2>1, <2>5
<1>2. S = Patterns
  <2> HIDE DEF S
  <2>1. S \in SUBSET Patterns
    BY DEF S
  <2> QED
    BY <1>1, <2>1, PatternInduction
<1> QED
  BY <1>2, PatternsAreTerms

\* So PatternValue is what its definition says.
LEMMA ValueUnfolds ==
  ASSUME NEW val, NEW p \in Patterns
  PROVE  PatternValue(val)[p] = ValueAt(val, PatternValue(val), p)
<1> DEFINE Is(f) == f = [q \in Patterns |-> ValueAt(val, f, q)]
           at == Solutions(val)
<1>1. \A q \in Patterns : at[q] = ValueAt(val, at, q)
  <2> SUFFICES ASSUME NEW q \in Patterns PROVE at[q] = ValueAt(val, at, q)
    OBVIOUS
  <2>1. Compound(q) => \A k \in DOMAIN q[2] : q[2][k] \in Patterns
    BY ChildIsLower
  <2> QED
    BY <2>1, SolutionsExist, SolutionsMeet
<1>2. at = [q \in Patterns |-> at[q]]
  BY DEF Solutions
<1> HIDE DEF at
<1>3. Is(at)
  BY <1>1, <1>2
<1>4. Is(PatternValue(val))
  BY <1>3 DEF PatternValue
<1> QED
  BY <1>4
-----------------------------------------------------------------------------
(* What a match means. *)

\* What a binding of classes to variables means, when the classes mean m.
Read(m, s) == [v \in DOMAIN s |-> m[s[v]]]

\* The enode of a leaf means what the leaf does.
LEMMA LeafValue ==
  ASSUME NEW m, NEW p PROVE ValueOf(LeafNode(p), m) = Denote("leaf", p[2], <<>>)
<1>1. [k \in DOMAIN <<>> |-> m[<<>>[k]]] = <<>>
  OBVIOUS
<1> QED
  BY <1>1 DEF ValueOf, LeafNode

\* A class where a pattern occurs means what the pattern does, when its
\* variables mean what the classes they are bound to do.
LEMMA MatchesMean ==
  ASSUME NEW h, Tables(h), NEW m, NEW M, SoundWith(h, m, M),
         NEW s, \A v \in DOMAIN s : s[v] \in Ids(h)
  PROVE  \A p \in Patterns : VarsOf(p) \subseteq DOMAIN s =>
           \A c \in Places(h, s)[p] : m[c] = PatternValue(Read(m, s))[p]
<1> HIDE DEF Places
<1> DEFINE val == Read(m, s)
           S == {p \in Patterns : VarsOf(p) \subseteq DOMAIN s =>
                   \A c \in Places(h, s)[p] : m[c] = PatternValue(val)[p]}
<1>0. /\ \A i \in Ids(h) : Find(h, i) \in Ids(h) /\ m[Find(h, i)] = m[i]
      /\ Roots(h) \subseteq Ids(h) /\ \A i \in Ids(h) : h.nodes[i] \subseteq Enodes(Ids(h))
      /\ \A i \in Ids(h) : \A n \in h.nodes[i] : ValueOf(n, m) = m[i]
      /\ \A n \in DOMAIN h.cons : h.cons[n] \in Ids(h) /\ ValueOf(n, m) = m[h.cons[n]]
  BY RootFacts DEF SoundWith, ClassTable
<1>1. ASSUME NEW p \in Patterns, Compound(p) => \A k \in DOMAIN p[2] : p[2][k] \in S
      PROVE  p \in S
  <2> SUFFICES ASSUME VarsOf(p) \subseteq DOMAIN s, NEW c \in Places(h, s)[p]
               PROVE  m[c] = PatternValue(val)[p]
    OBVIOUS
  <2> HIDE DEF S, val
  <2>1. PatternValue(val)[p] = ValueAt(val, PatternValue(val), p)
    BY ValueUnfolds
  <2>2. CASE IsVar(p)
    <3>1. p[2] \in DOMAIN s
      BY <2>2, PatternsAreTerms DEF VarsOf
    <3>2. c = Find(h, s[p[2]]) /\ s[p[2]] \in Ids(h)
      BY <2>2, <3>1, PlacesCases
    <3>3. ValueAt(val, PatternValue(val), p) = val[p[2]] /\ val[p[2]] = m[s[p[2]]]
      BY <2>2, <3>1 DEF ValueAt, IsVar, IsConst, Compound, val, Read
    <3> QED
      BY <1>0, <2>1, <3>2, <3>3
  <2>3. CASE IsConst(p)
    <3>1. LeafNode(p) \in DOMAIN h.cons /\ c = Find(h, h.cons[LeafNode(p)])
      BY <2>3, PlacesCases
    <3>2. ValueAt(val, PatternValue(val), p) = Denote("leaf", p[2], <<>>)
      BY <2>3 DEF ValueAt, IsVar, IsConst, Compound
    <3> QED
      BY <1>0, <2>1, <3>1, <3>2, LeafValue
  <2>4. CASE Compound(p)
    <3>1. c \in Roots(h)
      BY PlacesCases
    <3>2. PICK n \in h.nodes[c] :
            /\ HeadOf(n) = HeadOf(p) /\ n[3] = NoKey
            /\ \A k \in DOMAIN p[2] : Find(h, n[2][k]) \in Places(h, s)[p[2][k]]
      BY <2>4, PlacesCases
    <3>3. n \in Enodes(Ids(h)) /\ ValueOf(n, m) = m[c]
      BY <1>0, <3>1, <3>2
    <3>4. n[1] = p[1] /\ DOMAIN n[2] = DOMAIN p[2] /\ \A k \in DOMAIN p[2] : n[2][k] \in Ids(h)
      BY <2>4, <3>2, <3>3, HeadKids
    <3>5. ASSUME NEW k \in DOMAIN p[2] PROVE m[n[2][k]] = PatternValue(val)[p[2][k]]
      <4>1. p[2][k] \in Patterns /\ Parts[p[2][k]] \subseteq Parts[p]
        BY <2>4, ChildIsLower
      <4>2. VarsOf(p[2][k]) \subseteq DOMAIN s
        BY <4>1 DEF VarsOf
      <4>3. p[2][k] \in S
        BY <1>1, <2>4
      <4>4. m[Find(h, n[2][k])] = PatternValue(val)[p[2][k]]
        BY <3>2, <4>2, <4>3 DEF S
      <4> QED
        BY <1>0, <3>4, <4>4
    <3>6. [k \in DOMAIN n[2] |-> m[n[2][k]]] = [k \in DOMAIN p[2] |-> PatternValue(val)[p[2][k]]]
      BY <3>4, <3>5
    <3>7. ValueAt(val, PatternValue(val), p)
            = Denote(p[1], NoKey, [k \in DOMAIN p[2] |-> PatternValue(val)[p[2][k]]])
      BY <2>4 DEF ValueAt, Compound
    <3> QED
      BY <2>1, <3>2, <3>3, <3>4, <3>6, <3>7 DEF ValueOf
  <2> QED
    BY <2>2, <2>3, <2>4 DEF Compound
<1>2. S = Patterns
  <2> HIDE DEF S
  <2>1. S \in SUBSET Patterns
    BY DEF S
  <2> QED
    BY <1>1, <2>1, PatternInduction
<1> QED
  BY <1>2

\* No step changes what a class means.
LEMMA MeaningsStay ==
  ASSUME IInv, MInv, [LawfulNext]_vars
  PROVE  \A i \in Ids(g) : i \in Ids(g') /\ Meanings(g')[i] = Meanings(g)[i]
<1>0. /\ Tables(g) /\ Numbered(g) /\ DOMAIN g = Fields /\ Defined(g)
      /\ PruneDown(g) /\ HashLive(g) /\ Indexed(g) /\ PruneUp(g, walk)
      /\ work \subseteq Ids(g) \X Enodes(Ids(g))
  BY DEF IInv, MInv, Graph, Tables, Sound
<1>1. ASSUME g'.born = g.born, Ids(g') = Ids(g)
      PROVE  \A i \in Ids(g) : i \in Ids(g') /\ Meanings(g')[i] = Meanings(g)[i]
  BY <1>0, <1>1, SameBorn
<1>2. CASE Add
  <2>1. PICK op \in Ops, key \in Keys, k \in (0 .. MaxArity) \cap Nat :
          \E kids \in [1 .. k -> Roots(g)] : g' = AddNode(g, <<op, kids, key>>)
    BY <1>2 DEF Add
  <2>2. PICK kids \in [1 .. k -> Roots(g)] : g' = AddNode(g, <<op, kids, key>>)
    BY <2>1
  <2>3. PICK n \in Enodes(Roots(g)) : g' = AddNode(g, n)
    BY <2>2, NewEnode
  <2> QED
    BY <1>0, <2>3, AddNodeMeaning, AddNodeShape
<1>3. ASSUME NEW a, NEW b, Link(a, b) PROVE g'.born = g.born /\ Ids(g') = Ids(g)
  <2>1. g' = Merge(g, Winner(g, a, b), Loser(g, a, b))
    BY <1>3 DEF Link
  <2>2. g'.born = g.born /\ g'.canon = Repointed(g.canon, Winner(g, a, b), Loser(g, a, b))
    BY <1>0, <2>1, MergeClasses
  <2> QED
    BY <2>2 DEF Ids, Repointed
<1>4. CASE UniteEquals
  BY <1>1, <1>3, <1>4 DEF UniteEquals
<1>5. CASE WalkUp \/ TakeFrontier \/ TakeWork
  <2>1. g'.born = g.born /\ g'.canon = g.canon
    BY <1>0, <1>5 DEF WalkUp, TakeFrontier, TakeWork, Cleared, Fields
  <2> QED
    BY <1>1, <2>1 DEF Ids
<1>6. CASE CanonicaliseRoot
  <2>1. PICK r \in Roots(g) : g' = CanonicaliseClass(g, r)
    BY <1>6 DEF CanonicaliseRoot
  <2>2. g'.born = g.born /\ g'.canon = g.canon
    BY <1>0, <2>1, CanonicaliseTables, RekeyTables DEF SameClasses
  <2> QED
    BY <1>1, <2>2 DEF Ids
<1>7. CASE ClaimItem
  <2>1. PICK item \in work : g' = Claim([g |-> g, merges |-> merges], item).g
    BY <1>7 DEF ClaimItem
  <2>2. item \in Ids(g) \X Enodes(Ids(g)) /\ PruneUp(g, {})
    BY <1>0, <1>7 DEF ClaimItem
  <2>3. g' = Claims(g, item)
    BY <1>0, <2>1, <2>2, ClaimResult
  <2>4. Claims(g, item).born = g.born /\ Claims(g, item).canon = g.canon
    BY <1>0, <2>2, ClaimsShape
  <2> QED
    BY <1>1, <2>3, <2>4 DEF Ids
<1>8. CASE MergeNext
  BY <1>1, <1>3, <1>8 DEF MergeNext
<1>9. CASE UNCHANGED vars
  BY <1>1, <1>9 DEF vars
<1> QED
  BY <1>2, <1>4, <1>5, <1>6, <1>7, <1>8, <1>9 DEF LawfulNext, Upkeep

-----------------------------------------------------------------------------
(* What a firing means. *)

\* What waits to be fired matches a class that means its left-hand side, and
\* what is being built means its part of the right-hand side.
Meant ==
  /\ stage \in {"fire", "build"} =>
       \A j \in DOMAIN fires : PatternValue(Valued(fires[j]))[lhs] = Meanings(g)[eid]
  /\ stage = "build" =>
       /\ VarsOf(rhs) \subseteq DOMAIN subst =>
            PatternValue(Valued(subst))[rhs] = Meanings(g)[eid]
       /\ \A p \in DOMAIN built :
            /\ p \in Patterns /\ VarsOf(p) \subseteq DOMAIN subst
            /\ Meanings(g)[built[p]] = PatternValue(Valued(subst))[p]

\* A part that is ready stands for a class that means what it does, and has no
\* variable without a class.
LEMMA ReadyMeans ==
  ASSUME Meant, stage = "build", NEW q \in Patterns, Ready(q)
  PROVE  /\ Meanings(g)[ClassOf(q)] = PatternValue(Valued(subst))[q]
         /\ VarsOf(q) \subseteq DOMAIN subst
<1>1. CASE IsVar(q)
  <2>1. q[2] \in DOMAIN subst /\ ClassOf(q) = subst[q[2]]
    BY <1>1 DEF Ready, ClassOf
  <2>2. ValueAt(Valued(subst), PatternValue(Valued(subst)), q) = Valued(subst)[q[2]]
    BY <1>1 DEF ValueAt, IsVar, IsConst, Compound
  <2>3. Valued(subst)[q[2]] = Meanings(g)[subst[q[2]]]
    BY <2>1 DEF Valued
  <2>4. VarsOf(q) = {q[2]}
    BY <1>1, PatternsAreTerms DEF VarsOf, Compound
  <2> QED
    BY <2>1, <2>2, <2>3, <2>4, ValueUnfolds
<1>2. CASE ~IsVar(q)
  BY <1>2 DEF Ready, ClassOf, Meant
<1> QED
  BY <1>1, <1>2

\* The class that add_enode returns means what its enode does.
LEMMA InternedMeans ==
  ASSUME IInv, IInv', MInv', NEW n \in Enodes(Roots(g)), Intern(n)
  PROVE  Interned(n) \in Ids(g') /\ Meanings(g')[Interned(n)] = ValueOf(n, Meanings(g'))
<1>1. Interned(n) \in Ids(g') /\ n \in g'.nodes[Interned(n)]
  BY InternedIsThere
<1>2. SoundWith(g', Meanings(g'), merges')
  BY DEF MInv, Sound
<1> QED
  BY <1>1, <1>2 DEF SoundWith

\* Every entry of a sequence without its first is an entry of it.
LEMMA TailReads ==
  ASSUME NEW S, NEW q \in Seq(S), q # <<>>
  PROVE  \A j \in DOMAIN Tail(q) : \E k \in DOMAIN q : Tail(q)[j] = q[k]
<1>1. Len(q) \in Nat /\ Len(q) > 0 /\ DOMAIN q = 1..Len(q)
  OBVIOUS
<1>2. DOMAIN Tail(q) = 1..(Len(q) - 1) /\ \A j \in 1..(Len(q) - 1) : Tail(q)[j] = q[j + 1]
  BY <1>1
<1>3. \A j \in 1..(Len(q) - 1) : j + 1 \in 1..Len(q)
  BY <1>1
<1> QED
  BY <1>1, <1>2, <1>3

\* The loop does what a lawful caller of the e-graph may do.
LEMMA LawfulStepIsStep ==
  ASSUME PatternsAreOfEnodes, RunInv, MInv, Meant, [LawfulLoopNext]_loopVars
  PROVE  [LawfulNext]_vars
<1>0. Tables(g) /\ Sighted(g) /\ (stage \in {"scan", "fire", "build"} => rule \in RuleNames)
  BY RulesNamed DEF RunInv, IInv, Graph, Paced
<1>1. [LoopNext]_loopVars
  BY DEF LawfulLoopNext
<1>2. BeginIteration \/ Growth
  BY <1>1, LoopStepIsStep
<1>3. CASE ~Unite
  BY <1>2, <1>3 DEF Growth, Restore, BeginIteration, LawfulNext, Upkeep
<1>4. CASE Unite
  <2>1. walk' # {} /\ walk = {}
    BY <1>4 DEF Unite, Link, quiet
  <2>2. CASE UNCHANGED vars
    BY <2>2
  <2>3. CASE ~UNCHANGED vars
    <3>1. GraphStep \/ Join
      BY <1>1, <2>1, <2>3 DEF LoopNext, loopVars, vars, StartRun, BeginIteration, SkipSuspended, BeginRule,
         SkipClass, ScanClass, EndRule, EndIteration, Finish, Veto, BeginFire, Build, Intern, Abandon, EndScan,
         TakeFrontier
    <3>2. CASE GraphStep
      <4>1. CASE stage = "idle"
        BY <1>4, <2>1, <2>3, <4>1 DEF LawfulLoopNext, LawfulNext, loopVars
      <4>2. CASE stage # "idle"
        BY <3>2, <4>2 DEF GraphStep, Restore, LawfulNext, Upkeep
      <4> QED
        BY <4>1, <4>2
    <3>3. CASE Join
      <4>1. Link(Find(g, eid), Find(g, ClassOf(rhs)))
        BY <2>3, <3>3 DEF Join, vars
      <4>2. eid \in Ids(g) /\ ClassOf(rhs) \in Ids(g)
        BY <1>0, <3>3 DEF Join, Sighted, Ready, ClassOf
      <4>3. rhs \in Patterns
        BY <1>0, <3>3, RuleParts DEF Join, rhs
      <4>4. Meanings(g)[eid] = Meanings(g)[ClassOf(rhs)]
        BY <3>3, <4>3, ReadyMeans DEF Join, Meant
      <4>5. UniteEquals
        BY <3>3, <4>1, <4>2, <4>4 DEF Join, UniteEquals, Ids
      <4> QED
        BY <4>5 DEF LawfulNext
    <3> QED
      BY <3>1, <3>2, <3>3
  <2> QED
    BY <2>2, <2>3
<1> QED
  BY <1>3, <1>4

\* A binding listed earlier still means what it did when it fires, for no id
\* changes what it means.
LEMMA MeantKept ==
  ASSUME PatternsAreOfEnodes, RunInv, MInv, Meant, [LawfulLoopNext]_loopVars, IInv', MInv'
  PROVE  Meant'
<1> HIDE DEF Places
<1>0. /\ Tables(g) /\ IInv /\ Sighted(g) /\ Building(g)
      /\ stage \in {"scan", "fire", "build"} => rule \in RuleNames
  BY RulesNamed DEF RunInv, IInv, Graph, Paced
<1>n. [LoopNext]_loopVars
  BY DEF LawfulLoopNext
<1> DEFINE m == Meanings(g)  m2 == Meanings(g')
<1>a. \A i \in Ids(g) : i \in Ids(g') /\ m2[i] = m[i]
  BY <1>0, LawfulStepIsStep, MeaningsStay
<1>b. SoundWith(g, m, merges) /\ SoundWith(g', m2, merges')
  BY DEF MInv, Sound
<1>c. /\ \A s : Valued(s) = Read(m, s)
      /\ \A s : (\A v \in DOMAIN s : s[v] \in Ids(g)) => Read(m2, s) = Read(m, s)
  BY <1>a DEF Valued, Read
\* The bindings that wait, and the one in hand, read as they did.
<1>d. stage \in {"fire", "build"} =>
        /\ m2[eid] = m[eid] /\ eid \in Ids(g)
        /\ \A j \in DOMAIN fires : /\ fires[j] \in [VarsOf(lhs) -> Ids(g)]
                                   /\ Read(m2, fires[j]) = Read(m, fires[j])
                                   /\ PatternValue(Read(m, fires[j]))[lhs] = m[eid]
  <2> SUFFICES ASSUME stage \in {"fire", "build"}
               PROVE  /\ m2[eid] = m[eid] /\ eid \in Ids(g)
                      /\ \A j \in DOMAIN fires : /\ fires[j] \in [VarsOf(lhs) -> Ids(g)]
                                                 /\ Read(m2, fires[j]) = Read(m, fires[j])
                                                 /\ PatternValue(Read(m, fires[j]))[lhs] = m[eid]
    OBVIOUS
  <2>1. eid \in Ids(g) /\ \A j \in DOMAIN fires : fires[j] \in [VarsOf(lhs) -> Ids(g)]
    BY <1>0 DEF Sighted
  <2>2. \A j \in DOMAIN fires : PatternValue(Valued(fires[j]))[lhs] = m[eid]
    BY DEF Meant
  <2> HIDE DEF m, m2
  <2>3. \A j \in DOMAIN fires : Read(m2, fires[j]) = Read(m, fires[j])
    BY <1>c, <2>1
  <2> QED
    BY <1>a, <1>c, <2>1, <2>2, <2>3
<1>e. stage = "build" =>
        /\ Read(m2, subst) = Read(m, subst)
        /\ VarsOf(rhs) \subseteq DOMAIN subst => PatternValue(Read(m, subst))[rhs] = m[eid]
        /\ \A p \in DOMAIN built :
             /\ p \in Patterns /\ VarsOf(p) \subseteq DOMAIN subst
             /\ m2[built[p]] = PatternValue(Read(m, subst))[p]
  BY <1>0, <1>a, <1>c DEF Sighted, Meant
<1>f. Meant' <=>
        /\ stage' \in {"fire", "build"} =>
             \A j \in DOMAIN fires' : PatternValue(Read(m2, fires'[j]))[Rules[rule'].lhs] = m2[eid']
        /\ stage' = "build" =>
             /\ VarsOf(Rules[rule'].rhs) \subseteq DOMAIN subst' =>
                  PatternValue(Read(m2, subst'))[Rules[rule'].rhs] = m2[eid']
             /\ \A p \in DOMAIN built' :
                  /\ p \in Patterns /\ VarsOf(p) \subseteq DOMAIN subst'
                  /\ m2[built'[p]] = PatternValue(Read(m2, subst'))[p]
  BY DEF Meant, Valued, Read, lhs, rhs
<1> HIDE DEF m, m2
<1>1. CASE UNCHANGED loopVars \/ GraphStep
  <2>1. UNCHANGED <<stage, rule, eid, fires, subst, built>>
    BY <1>1 DEF loopVars, GraphStep, runVars, scanVars, fireVars
  <2> QED
    BY <1>d, <1>e, <1>f, <2>1 DEF lhs, rhs
<1>2. CASE \/ StartRun \/ BeginIteration \/ SkipSuspended \/ BeginRule \/ SkipClass
           \/ EndRule \/ EndIteration \/ Finish \/ EndScan
  <2>1. stage' \notin {"fire", "build"}
    BY <1>2 DEF StartRun, BeginIteration, SkipSuspended, BeginRule, SkipClass, EndRule,
                EndIteration, Finish, EndScan
  <2> QED
    BY <1>f, <2>1
<1>3. CASE ScanClass
  <2>1. PICK i \in cands :
          /\ eid' = Find(g, i)
          /\ fires' \in Listings(Matches(g, rule, Find(g, i)), Limit(rule, Remaining(rule) - Spent))
    BY <1>3 DEF ScanClass
  <2>2. rule' = rule /\ stage' = "fire" /\ g' = g /\ rule \in RuleNames
    BY <1>0, <1>3 DEF ScanClass, vars
  <2>3. fires' \in Seq(Matches(g, rule, Find(g, i)))
    BY <2>1 DEF Listings
  <2>4. ASSUME NEW j \in DOMAIN fires'
        PROVE  PatternValue(Read(m2, fires'[j]))[Rules[rule'].lhs] = m2[eid']
    <3>1. PICK s \in Matches(g, rule, Find(g, i)) : fires'[j] = s
      BY <2>3, <2>4
    <3>2. /\ s \in [VarsOf(lhs) -> Roots(g)] /\ Find(g, i) \in Places(g, s)[lhs]
          /\ lhs \in Patterns /\ Roots(g) \subseteq Ids(g)
      BY <1>0, <2>2, <3>1, RootFacts, RuleParts DEF Matches, Bindings, lhs
    <3>3. m[Find(g, i)] = PatternValue(Read(m, s))[lhs]
      BY <1>0, <1>b, <3>2, MatchesMean
    <3>4. m2 = m
      BY <2>2 DEF m, m2
    <3> QED
      BY <2>1, <2>2, <3>1, <3>3, <3>4 DEF lhs
  <2> QED
    BY <1>f, <2>2, <2>4
<1>4. CASE Veto \/ Abandon \/ Join
  <2>1. /\ rule' = rule /\ eid' = eid /\ fires' = Tail(fires)
        /\ stage' = "fire" /\ stage \in {"fire", "build"}
    BY <1>4 DEF Veto, Abandon, Join, scanVars
  <2>2. fires # <<>> /\ fires \in Seq([VarsOf(lhs) -> Ids(g)])
    BY <1>0, <1>4, <2>1 DEF Veto, Abandon, Join, Building, Sighted
  <2>3. \A j \in DOMAIN Tail(fires) : \E k \in DOMAIN fires : Tail(fires)[j] = fires[k]
    <3> DEFINE S == [VarsOf(lhs) -> Ids(g)]
    <3>1. fires \in Seq(S)
      BY <2>2
    <3> HIDE DEF S
    <3> QED
      BY <2>2, <3>1, TailReads
  <2> QED
    BY <1>d, <1>f, <2>1, <2>3 DEF lhs
<1>5. CASE BeginFire
  <2>1. /\ rule' = rule /\ eid' = eid /\ fires' = fires /\ stage = "fire" /\ stage' = "build"
        /\ built' = <<>> /\ fires # <<>>
    BY <1>5 DEF BeginFire, scanVars
  <2> DEFINE s == Head(fires)
  <2>2. /\ s \in [VarsOf(lhs) -> Ids(g)] /\ Read(m2, s) = Read(m, s)
        /\ PatternValue(Read(m, s))[lhs] = m[eid]
    <3>1. fires \in Seq([VarsOf(lhs) -> Ids(g)])
      BY <1>0, <2>1 DEF Sighted
    <3>2. 1 \in DOMAIN fires /\ s = fires[1]
      BY <2>1, <3>1
    <3> QED
      BY <1>d, <2>1, <3>2
  <2>3. Holds(rule, Read(m, s))
    <3>1. ~UNCHANGED loopVars
      BY <2>1 DEF loopVars, runVars
    <3> QED
      BY <1>5, <1>c, <3>1 DEF LawfulLoopNext
  <2>4. VarsOf(rhs) \subseteq DOMAIN Completed(rule, Read(m, s))
          => PatternValue(Completed(rule, Read(m, s)))[rhs] = m[eid]
    BY <2>2, <2>3 DEF Holds, lhs, rhs
  <2>5. Read(m2, subst') = Completed(rule, Read(m, s))
    <3>1. CASE derive = <<>> /\ subst' = s
      BY <2>2, <3>1 DEF Completed, derive
    <3>2. CASE /\ derive # <<>> /\ Intern(LeafNode(derive[2]))
               /\ subst' = [v \in DOMAIN s \cup {derive[1]} |->
                              IF v = derive[1] THEN Interned(LeafNode(derive[2])) ELSE s[v]]
      <4>1. derive[2] \in Patterns /\ IsConst(derive[2])
        BY <1>0, <2>1, <3>2, RuleParts DEF derive
      <4> DEFINE leaf == LeafNode(derive[2])
      <4>2. m2[Interned(leaf)] = Denote("leaf", derive[2][2], <<>>)
        <5>1. leaf \in Enodes(Roots(g))
          BY <4>1, LeafNodeIsEnode
        <5>2. m2[Interned(leaf)] = ValueOf(leaf, m2)
          BY <1>0, <3>2, <5>1, InternedMeans DEF m2
        <5> QED
          BY <5>2, LeafValue
      <4>3. Completed(rule, Read(m, s)) =
              [v \in DOMAIN s \cup {derive[1]} |->
                 IF v = derive[1] THEN Denote("leaf", derive[2][2], <<>>) ELSE Read(m, s)[v]]
        BY <3>2 DEF Completed, derive, Read
      <4>4. \A v \in DOMAIN s : Read(m, s)[v] = m2[s[v]]
        BY <2>2 DEF Read
      <4> HIDE DEF s, leaf
      <4>5. Read(m2, subst') =
              [v \in DOMAIN s \cup {derive[1]} |->
                 IF v = derive[1] THEN m2[Interned(LeafNode(derive[2]))] ELSE m2[s[v]]]
        BY <3>2 DEF Read
      <4> QED
        BY <4>2, <4>3, <4>4, <4>5 DEF leaf
    <3> QED
      BY <1>5, <3>1, <3>2 DEF BeginFire
  <2>6. m2[eid] = m[eid] /\ DOMAIN built' = {}
    BY <1>d, <2>1
  <2>7. DOMAIN Read(m2, subst') = DOMAIN subst'
    BY DEF Read
  <2> QED
    BY <1>d, <1>f, <2>1, <2>4, <2>5, <2>6, <2>7 DEF lhs, rhs
<1>6. CASE Build
  <2>1. PICK p \in Parts[rhs] :
          /\ p \notin DOMAIN built
          /\ ~IsVar(p) /\ (Compound(p) => \A q \in Kids(p) : Ready(q))
          /\ Intern(NodeFor(p)) /\ built' = WithDefault(built, {p}, Interned(NodeFor(p)))
    BY <1>6 DEF Build
  <2>2. /\ rule' = rule /\ eid' = eid /\ fires' = fires /\ subst' = subst
        /\ stage' = stage /\ stage = "build"
    BY <1>6 DEF Build, scanVars
  <2>3. p \in Patterns
    BY <1>0, <2>2, RuleParts, PatternsAreTerms DEF rhs
  <2> DEFINE val == Read(m, subst)
  <2>4. /\ NodeFor(p) \in Enodes(Roots(g))
        /\ ValueOf(NodeFor(p), m2) = PatternValue(val)[p]
    <3>1. CASE IsConst(p)
      <4>1. NodeFor(p) = LeafNode(p) /\ LeafNode(p) \in Enodes(Roots(g))
        BY <2>3, <3>1, LeafNodeIsEnode DEF NodeFor
      <4>2. ValueAt(val, PatternValue(val), p) = Denote("leaf", p[2], <<>>)
        BY <3>1 DEF ValueAt, IsVar, IsConst, Compound
      <4> HIDE DEF val
      <4> QED
        BY <2>3, <4>1, <4>2, LeafValue, ValueUnfolds
    <3>2. CASE Compound(p)
      <4> DEFINE kids == [k \in DOMAIN p[2] |-> Find(g, ClassOf(p[2][k]))]
      <4>1. /\ NodeFor(p) = <<p[1], kids, NoKey>> /\ NodeFor(p) \in Enodes(Roots(g))
            /\ \A k \in DOMAIN p[2] : ClassOf(p[2][k]) \in Ids(g)
        BY <1>0, <2>1, <2>2, <2>3, <3>2, NodeForIsEnode
      <4>2. ASSUME NEW k \in DOMAIN p[2] PROVE m2[kids[k]] = PatternValue(val)[p[2][k]]
        <5>1. p[2][k] \in Patterns /\ Ready(p[2][k])
          BY <2>1, <2>3, <3>2, ChildIsLower DEF Kids
        <5>2. m[ClassOf(p[2][k])] = PatternValue(val)[p[2][k]]
          BY <1>c, <2>2, <5>1, ReadyMeans DEF m
        <5>3. ClassOf(p[2][k]) \in Ids(g) /\ Find(g, ClassOf(p[2][k])) \in Ids(g)
          BY <1>0, <4>1, RootFacts
        <5>4. m[Find(g, ClassOf(p[2][k]))] = m[ClassOf(p[2][k])]
          BY <1>b, <5>3 DEF SoundWith
        <5> QED
          BY <1>a, <5>2, <5>3, <5>4
      <4>3. [k \in DOMAIN kids |-> m2[kids[k]]] = [k \in DOMAIN p[2] |-> PatternValue(val)[p[2][k]]]
        BY <4>2
      <4>4. ValueOf(NodeFor(p), m2) = Denote(p[1], NoKey, [k \in DOMAIN kids |-> m2[kids[k]]])
        BY <4>1 DEF ValueOf
      <4>5. ValueAt(val, PatternValue(val), p)
              = Denote(p[1], NoKey, [k \in DOMAIN p[2] |-> PatternValue(val)[p[2][k]]])
        BY <3>2 DEF ValueAt, Compound
      <4> HIDE DEF val, kids
      <4> QED
        BY <2>3, <4>1, <4>3, <4>4, <4>5, ValueUnfolds
    <3> QED
      BY <2>1, <3>1, <3>2 DEF Compound
  <2>5. m2[Interned(NodeFor(p))] = PatternValue(val)[p]
    BY <1>0, <2>1, <2>4, InternedMeans DEF m2
  <2>6. VarsOf(p) \subseteq DOMAIN subst
    <3> SUFFICES ASSUME NEW v \in VarsOf(p) PROVE v \in DOMAIN subst
      OBVIOUS
    <3>1. PICK t \in Parts[p] : IsVar(t) /\ v = t[2]
      BY DEF VarsOf
    <3>2. Compound(p) /\ \E k \in DOMAIN p[2] : t \in Parts[p[2][k]]
      BY <2>1, <2>3, <3>1, PartsOfChildren
    <3>3. PICK k \in DOMAIN p[2] : t \in Parts[p[2][k]]
      BY <3>2
    <3>4. p[2][k] \in Patterns /\ Ready(p[2][k])
      BY <2>1, <2>3, <3>2, ChildIsLower DEF Kids
    <3>5. VarsOf(p[2][k]) \subseteq DOMAIN subst
      BY <2>2, <3>4, ReadyMeans
    <3> QED
      BY <3>1, <3>3, <3>5 DEF VarsOf
  <2>7. ASSUME NEW q \in DOMAIN built'
        PROVE  /\ q \in Patterns /\ VarsOf(q) \subseteq DOMAIN subst
               /\ m2[built'[q]] = PatternValue(val)[q]
    BY <1>e, <2>1, <2>2, <2>3, <2>5, <2>6, <2>7 DEF WithDefault
  <2> QED
    BY <1>d, <1>e, <1>f, <2>2, <2>7 DEF lhs, rhs
<1> QED
  BY <1>n, <1>1, <1>2, <1>3, <1>4, <1>5, <1>6 DEF LoopNext

\* The loop stays within the lawful callers of the e-graph.
LEMMA LawfulInductive ==
  ASSUME PatternsAreOfEnodes
  PROVE  LawfulLoopSpec => [](RunInv /\ MInv /\ Meant) /\ LawfulSpec
<1>1. LoopInit => Init /\ RunInv /\ MInv /\ Meant
  BY RunInitEstablishes, InitSound DEF LoopInit, Meant
<1>2. RunInv /\ MInv /\ Meant /\ [LawfulLoopNext]_loopVars
        => RunInv' /\ MInv' /\ Meant' /\ [LawfulNext]_vars
  <2> SUFFICES ASSUME RunInv, MInv, Meant, [LawfulLoopNext]_loopVars
               PROVE  RunInv' /\ MInv' /\ Meant' /\ [LawfulNext]_vars
    OBVIOUS
  <2>1. [LoopNext]_loopVars
    BY DEF LawfulLoopNext
  <2>2. RunInv' /\ IInv'
    BY <2>1, RunKeeps DEF RunInv
  <2>3. [LawfulNext]_vars
    BY LawfulStepIsStep
  <2>4. MInv'
    BY <2>3, NextSound DEF RunInv
  <2> QED
    BY <2>2, <2>3, <2>4, MeantKept
<1> QED
  BY <1>1, <1>2, PTL DEF LawfulLoopSpec, LawfulSpec

\* When every rule holds where it fires, and callers unite only what means the
\* same, no run merges anything else, however the graph was merged between the
\* listing of a match and its firing (apply_rule, run).
THEOREM SoundRulesMergeEquals ==
  ASSUME PatternsAreOfEnodes PROVE LawfulLoopSpec => []MergesAreSound
<1> QED
  BY LawfulInductive, OnlyEqualsShareAClass, PTL
=============================================================================
