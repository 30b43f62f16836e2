-------------------------- MODULE EGraphStepsProofs --------------------------
(***************************************************************************)
(* Proofs about EGraphSteps, for any operators, keys, bounds and meanings. *)
(*                                                                         *)
(* Each table has a conjunct of the inductive invariant that says what it  *)
(* must hold in the middle of an operation: PruneUp, whatever is above a   *)
(* dirty class is dirty, unless the walk still has to visit the class;     *)
(* Covered, a member waits, or is canonical and owned by its own class or  *)
(* by one it is to be merged with; HashLive, PruneDown and Indexed, as     *)
(* they stand.  A lemma says what each primitive does to each of them, by  *)
(* way of the equations of the tables it changes (AddNodeTables and so on, *)
(* which keep the record itself out of the later proofs).                  *)
(*                                                                         *)
(* That classes keep their meaning is a second invariant, over the first.  *)
(***************************************************************************)
EXTENDS EGraphSteps, SequenceTheorems, TLAPS

Fields == {"track", "canon", "rank", "nodes", "parents", "born", "cons", "owner",
           "pend", "dirty", "opk", "birth", "app", "apps", "fired"}

Ids(h)    == DOMAIN h.canon
Enodes(S) == Ops \X Seq(S) \X Keys

\* A table from enodes to classes.
ClassTable(h, table) ==
  /\ DOMAIN table \subseteq Enodes(Ids(h))
  /\ \A n \in DOMAIN table : table[n] \in Ids(h)

Forest(h) ==
  /\ h.canon \in [Ids(h) -> Ids(h)]
  /\ \A i \in Ids(h) : Find(h, Find(h, i)) = Find(h, i)

Tables(h) ==
  /\ DOMAIN h = Fields
  /\ Forest(h)
  /\ h.nodes \in [Ids(h) -> SUBSET Enodes(Ids(h))]
  /\ \A i \in Ids(h) \ Roots(h) : h.nodes[i] = {}
  /\ h.parents \in [Ids(h) -> SUBSET Ids(h)]
  /\ h.born \in [Ids(h) -> Enodes(Ids(h))]
  /\ ClassTable(h, h.cons) /\ ClassTable(h, h.owner)
  /\ h.pend \subseteq Ids(h) \X Enodes(Ids(h))
  /\ h.dirty \subseteq Ids(h)

Numbered(h) == Len(h.canon) \in Nat /\ Ids(h) = 1 .. Len(h.canon)

-----------------------------------------------------------------------------
(* Enodes. *)

LEMMA EnodeParts ==
  ASSUME NEW S, NEW n \in Enodes(S)
  PROVE  /\ n = <<n[1], n[2], n[3]>> /\ n[1] \in Ops /\ n[3] \in Keys
         /\ n[2] \in Seq(S) /\ n[2] = [i \in DOMAIN n[2] |-> n[2][i]]
         /\ DOMAIN n[2] = 1 .. Len(n[2]) /\ Len(n[2]) \in Nat
         /\ Kids(n) \subseteq S
<1>1. /\ n = <<n[1], n[2], n[3]>> /\ n[1] \in Ops /\ n[3] \in Keys
      /\ n[2] \in Seq(S)
  BY DEF Enodes
<1>2. /\ DOMAIN n[2] = 1 .. Len(n[2]) /\ Len(n[2]) \in Nat
      /\ \A i \in DOMAIN n[2] : n[2][i] \in S
  BY <1>1
<1>3. n[2] = [i \in DOMAIN n[2] |-> n[2][i]]
  BY <1>1, <1>2
<1> QED
  BY <1>1, <1>2, <1>3 DEF Kids

LEMMA EnodesGrow ==
  ASSUME NEW S, NEW T, S \subseteq T PROVE Enodes(S) \subseteq Enodes(T)
BY DEF Enodes

\* The canonical form of an enode has canonical children and the same head.
LEMMA ResolvedEnode ==
  ASSUME NEW h, Forest(h), NEW n \in Enodes(Ids(h))
  PROVE  /\ Resolved(h, n) \in Enodes(Ids(h))
         /\ Kids(Resolved(h, n)) = {Find(h, c) : c \in Kids(n)}
         /\ HeadOf(Resolved(h, n)) = HeadOf(n)
         /\ Resolved(h, Resolved(h, n)) = Resolved(h, n)
         /\ Resolved(h, n) = n <=> \A c \in Kids(n) : Find(h, c) = c
<1> DEFINE kids == [i \in DOMAIN n[2] |-> Find(h, n[2][i])]
<1>1. /\ n = <<n[1], n[2], n[3]>> /\ n[1] \in Ops /\ n[3] \in Keys
      /\ n[2] \in Seq(Ids(h)) /\ n[2] = [i \in DOMAIN n[2] |-> n[2][i]]
      /\ DOMAIN n[2] = 1 .. Len(n[2]) /\ Len(n[2]) \in Nat
      /\ \A i \in DOMAIN n[2] : n[2][i] \in Ids(h)
  BY EnodeParts
<1>2. kids \in [1 .. Len(n[2]) -> Ids(h)]
  BY <1>1 DEF Forest, Find
<1>3. kids \in Seq(Ids(h)) /\ Len(kids) = Len(n[2]) /\ DOMAIN kids = DOMAIN n[2]
  BY <1>1, <1>2
<1>4. Resolved(h, n) = <<n[1], kids, n[3]>>
  BY DEF Resolved
<1>5. Resolved(h, n) \in Enodes(Ids(h)) /\ HeadOf(Resolved(h, n)) = HeadOf(n)
  <2>1. <<n[1], kids, n[3]>> \in Enodes(Ids(h))
    BY <1>1, <1>3 DEF Enodes
  <2>2. HeadOf(<<n[1], kids, n[3]>>) = <<n[1], Len(kids)>>
    BY DEF HeadOf
  <2> QED
    BY <1>3, <1>4, <2>1, <2>2 DEF HeadOf
<1>6. Kids(Resolved(h, n)) = {Find(h, c) : c \in Kids(n)}
  BY <1>3, <1>4 DEF Kids
<1>7. Resolved(h, Resolved(h, n)) = Resolved(h, n)
  <2>1. [i \in DOMAIN kids |-> Find(h, kids[i])] = kids
    BY <1>1, <1>3 DEF Forest
  <2> QED
    BY <1>4, <2>1 DEF Resolved
<1>8. Resolved(h, n) = n <=> \A c \in Kids(n) : Find(h, c) = c
  <2>1. Resolved(h, n) = n <=> kids = n[2]
    BY <1>1, <1>4
  <2>2. kids = n[2] <=> \A i \in DOMAIN n[2] : Find(h, n[2][i]) = n[2][i]
    BY <1>1
  <2> QED
    BY <2>1, <2>2 DEF Kids
<1> QED
  BY <1>5, <1>6, <1>7, <1>8

-----------------------------------------------------------------------------
(* What each primitive leaves in the tables. *)

Below(h, n) == {Find(h, c) : c \in Kids(n)}

LEMMA AddNodeClasses ==
  ASSUME NEW h, DOMAIN h = Fields, NEW n
  PROVE  LET f  == AddNode(h, n)
             id == Len(h.canon) + 1
         IN  /\ f.canon = Append(h.canon, id)
             /\ f.nodes = Append(h.nodes, {n})
             /\ f.born = Append(h.born, n)
BY DEF AddNode, Fields

LEMMA AddNodeTables ==
  ASSUME NEW h, DOMAIN h = Fields, NEW n
  PROVE  LET f  == AddNode(h, n)
             id == Len(h.canon) + 1
         IN  /\ DOMAIN f = Fields
             /\ f.cons = WithDefault(h.cons, {n}, id)
             /\ f.owner = h.owner
             /\ f.pend = h.pend \cup {<<id, n>>}
             /\ f.dirty = h.dirty \cup {id}
             /\ f.opk = h.opk \cup {<<HeadOf(n), id>>}
BY DEF AddNode, Fields

LEMMA AddNodeParents ==
  ASSUME NEW h, DOMAIN h = Fields, NEW n
  PROVE  LET f  == AddNode(h, n)
             id == Len(h.canon) + 1
         IN  f.parents = [i \in 1 .. id |->
                            IF i = id THEN {} ELSE
                            IF i \in Below(h, n) THEN h.parents[i] \cup {id} ELSE h.parents[i]]
BY DEF AddNode, Fields, Below

Users(h, w, l) == {Find(Merge(h, w, l), p) : p \in h.parents[l]}
Heads(h, l)    == {HeadOf(n) : n \in h.nodes[l]}

LEMMA MergeClasses ==
  ASSUME NEW h, DOMAIN h = Fields, NEW w, NEW l
  PROVE  LET f == Merge(h, w, l)
         IN  /\ DOMAIN f = Fields
             /\ f.canon = Repointed(h.canon, w, l)
             /\ f.nodes = Moved(h.nodes, w, l)
             /\ f.parents = Moved(h.parents, w, l)
             /\ f.born = h.born /\ f.cons = h.cons /\ f.owner = h.owner
BY DEF Merge, Fields

LEMMA MergeTables ==
  ASSUME NEW h, DOMAIN h = Fields, NEW w, NEW l
  PROVE  LET f == Merge(h, w, l)
         IN  /\ f.pend = h.pend \cup Rekeyed(f, Users(h, w, l), l)
             /\ f.dirty = h.dirty \cup {w}
             /\ f.opk = Reindexed(h.opk, Heads(h, l), w, l)
BY DEF Merge, Fields, Find, Rekeyed, Users, Heads

LEMMA RekeyTables ==
  ASSUME NEW h, DOMAIN h = Fields, NEW r, NEW old
  PROVE  LET f == Rekey(h, r, old)
         IN  /\ DOMAIN f = Fields
             /\ f.canon = h.canon /\ f.born = h.born /\ f.owner = h.owner
             /\ f.pend = h.pend /\ f.dirty = h.dirty /\ f.opk = h.opk
BY DEF Rekey, Fields

LEMMA RekeyMembers ==
  ASSUME NEW h, DOMAIN h = Fields, NEW r, NEW old
  PROVE  Rekey(h, r, old).nodes = [h.nodes EXCEPT ![r] = (@ \ old) \cup Forms(h, old)]
BY DEF Rekey, Fields, Forms

LEMMA RekeyCons ==
  ASSUME NEW h, DOMAIN h = Fields, NEW r, NEW old
  PROVE  Rekey(h, r, old).cons =
           IF h.track THEN WithDefault(h.cons, Forms(h, old), r) ELSE h.cons
BY DEF Rekey, Fields, Forms

LEMMA RekeyParents ==
  ASSUME NEW h, DOMAIN h = Fields, NEW r, NEW old
  PROVE  Rekey(h, r, old).parents =
           [c \in DOMAIN h.parents |-> IF c \in UNION {Kids(n) : n \in Forms(h, old)}
                                       THEN h.parents[c] \cup {r} ELSE h.parents[c]]
BY DEF Rekey, Fields, Forms

-----------------------------------------------------------------------------
(* The tables keep their shape. *)

LEMMA AppendFacts ==
  ASSUME NEW S, NEW f \in Seq(S), NEW v \in S
  PROVE  /\ Append(f, v) \in [1 .. Len(f) + 1 -> S]
         /\ \A i \in 1 .. Len(f) : Append(f, v)[i] = f[i]
         /\ Append(f, v)[Len(f) + 1] = v
<1>1. Append(f, v) \in Seq(S) /\ Len(Append(f, v)) = Len(f) + 1
  BY AppendProperties
<1>2. Append(f, v) \in [1 .. Len(f) + 1 -> S]
  BY <1>1, LenProperties
<1> QED
  BY <1>2, AppendProperties

\* A minted class is a new root, with one member; nothing else changes class.
LEMMA AddNodeShape ==
  ASSUME NEW h, Tables(h), Numbered(h), NEW n \in Enodes(Roots(h))
  PROVE  LET f  == AddNode(h, n)
             id == Len(h.canon) + 1
         IN  /\ id \notin Ids(h) /\ Ids(f) = Ids(h) \cup {id} /\ Numbered(f)
             /\ \A i \in Ids(h) : /\ Find(f, i) = Find(h, i)
                                  /\ f.nodes[i] = h.nodes[i] /\ f.born[i] = h.born[i]
             /\ Find(f, id) = id /\ f.nodes[id] = {n} /\ f.born[id] = n
             /\ Roots(f) = Roots(h) \cup {id}
             /\ n \in Enodes(Ids(h))
             /\ \A m \in Enodes(Ids(h)) : Resolved(f, m) = Resolved(h, m)
             /\ Resolved(f, n) = n
             /\ f.parents[id] = {}
             /\ \A c \in Kids(n) : c \in Roots(h) /\ f.parents[c] = h.parents[c] \cup {id}
             /\ \A c \in Ids(h) \ Kids(n) : f.parents[c] = h.parents[c]
             /\ f.nodes \in [Ids(f) -> SUBSET Enodes(Ids(f))]
             /\ f.born \in [Ids(f) -> Enodes(Ids(f))]
             /\ f.parents \in [Ids(f) -> SUBSET Ids(f)]
             /\ Forest(f)
<1> DEFINE f == AddNode(h, n)  N == Len(h.canon)  id == N + 1
<1>0. /\ f.canon = Append(h.canon, id)
      /\ f.nodes = Append(h.nodes, {n})
      /\ f.parents = [i \in 1 .. id |-> f.parents[i]]
      /\ \A i \in 1 .. id :
           f.parents[i] = IF i = id THEN {} ELSE
                          IF i \in Below(h, n) THEN h.parents[i] \cup {id} ELSE h.parents[i]
      /\ f.born = Append(h.born, n)
  <2>1. DOMAIN h = Fields
    BY DEF Tables
  <2>2. /\ f.canon = Append(h.canon, id)
        /\ f.nodes = Append(h.nodes, {n})
        /\ f.born = Append(h.born, n)
    BY <2>1, AddNodeClasses
  <2>3. f.parents = [i \in 1 .. id |->
                       IF i = id THEN {} ELSE
                       IF i \in Below(h, n) THEN h.parents[i] \cup {id} ELSE h.parents[i]]
    BY <2>1, AddNodeParents
  <2> QED
    BY <2>2, <2>3
<1>1. /\ N \in Nat /\ Ids(h) = 1 .. N /\ id \notin Ids(h) /\ id \in 1 .. id
      /\ 1 .. id = (1 .. N) \cup {id}
  BY DEF Numbered
<1>2. n \in Enodes(Ids(h)) /\ Kids(n) \subseteq Roots(h)
  <2>1. Roots(h) \subseteq Ids(h)
    BY DEF Roots, Ids
  <2> QED
    BY <2>1, EnodesGrow, EnodeParts
<1>3. Below(h, n) = Kids(n)
  BY <1>2 DEF Roots, Find, Below
<1>4. Enodes(Ids(h)) \subseteq Enodes(1 .. id)
  BY <1>1, EnodesGrow
<1>5. /\ f.canon \in [1 .. id -> 1 .. id]
      /\ \A i \in 1 .. N : f.canon[i] = h.canon[i]
      /\ f.canon[id] = id
  <2>1. h.canon \in Seq(1 .. id)
    <3>1. h.canon \in [1 .. N -> 1 .. id]
      BY <1>1 DEF Tables, Forest
    <3> QED
      BY <1>1, <3>1
  <2>2. /\ Append(h.canon, id) \in [1 .. id -> 1 .. id]
        /\ \A i \in 1 .. N : Append(h.canon, id)[i] = h.canon[i]
        /\ Append(h.canon, id)[id] = id
    <3> DEFINE S == 1 .. id
    <3>1. id \in S /\ h.canon \in Seq(S)
      BY <1>1, <2>1
    <3> HIDE DEF S
    <3>2. /\ Append(h.canon, id) \in [1 .. id -> S]
          /\ \A i \in 1 .. N : Append(h.canon, id)[i] = h.canon[i]
          /\ Append(h.canon, id)[id] = id
      BY <3>1, AppendFacts
    <3> QED
      BY <3>2 DEF S
  <2> QED
    BY <1>0, <2>2
<1>6. Ids(f) = 1 .. id /\ Numbered(f)
  <2>1. f.canon \in Seq(1 .. id) /\ Len(f.canon) = id
    BY <1>5, <1>1
  <2> QED
    BY <1>1, <1>5, <2>1 DEF Ids, Numbered
<1>7. /\ f.nodes \in [Ids(f) -> SUBSET Enodes(Ids(f))]
      /\ \A i \in 1 .. N : f.nodes[i] = h.nodes[i]
      /\ f.nodes[id] = {n}
  <2>1. h.nodes \in Seq(SUBSET Enodes(1 .. id)) /\ Len(h.nodes) = N
    <3>1. h.nodes \in [1 .. N -> SUBSET Enodes(1 .. id)]
      BY <1>1, <1>4 DEF Tables
    <3> QED
      BY <1>1, <3>1
  <2>2. {n} \in SUBSET Enodes(1 .. id)
    BY <1>2, <1>4
  <2>3. /\ Append(h.nodes, {n}) \in [1 .. id -> SUBSET Enodes(1 .. id)]
        /\ \A i \in 1 .. N : Append(h.nodes, {n})[i] = h.nodes[i]
        /\ Append(h.nodes, {n})[id] = {n}
    BY <1>1, <2>1, <2>2, AppendFacts
  <2> QED
    BY <1>0, <1>6, <2>3
<1>8. /\ f.born \in [Ids(f) -> Enodes(Ids(f))]
      /\ \A i \in 1 .. N : f.born[i] = h.born[i]
      /\ f.born[id] = n
  <2>1. h.born \in Seq(Enodes(1 .. id)) /\ Len(h.born) = N
    <3>1. h.born \in [1 .. N -> Enodes(1 .. id)]
      BY <1>1, <1>4 DEF Tables
    <3> QED
      BY <1>1, <3>1
  <2>2. n \in Enodes(1 .. id)
    BY <1>2, <1>4
  <2>3. /\ Append(h.born, n) \in [1 .. id -> Enodes(1 .. id)]
        /\ \A i \in 1 .. N : Append(h.born, n)[i] = h.born[i]
        /\ Append(h.born, n)[id] = n
    BY <1>1, <2>1, <2>2, AppendFacts
  <2> QED
    BY <1>0, <1>6, <2>3
<1>9. /\ Roots(f) = Roots(h) \cup {id}
      /\ \A i \in Ids(h) : Find(f, i) = Find(h, i)
      /\ Find(f, id) = id
  BY <1>1, <1>5, <1>6 DEF Roots, Find, Ids
<1>10. Forest(f)
  BY <1>1, <1>5, <1>6 DEF Tables, Forest, Find
<1>11. \A m \in Enodes(Ids(h)) : Resolved(f, m) = Resolved(h, m)
  <2> SUFFICES ASSUME NEW m \in Enodes(Ids(h)) PROVE Resolved(f, m) = Resolved(h, m)
    OBVIOUS
  <2>1. \A i \in DOMAIN m[2] : m[2][i] \in Ids(h)
    <3>1. Kids(m) \subseteq Ids(h)
      BY EnodeParts
    <3> QED
      BY <3>1 DEF Kids
  <2>2. [i \in DOMAIN m[2] |-> Find(f, m[2][i])] = [i \in DOMAIN m[2] |-> Find(h, m[2][i])]
    BY <2>1, <1>9
  <2> QED
    BY <2>2 DEF Resolved
<1>12. Resolved(f, n) = n
  <2>1. \A c \in Kids(n) : Find(f, c) = c
    BY <1>2, <1>9 DEF Roots, Find, Ids
  <2>2. n \in Enodes(Ids(f))
    BY <1>2, <1>4, <1>6
  <2> QED
    BY <1>10, <2>1, <2>2, ResolvedEnode
<1>13. /\ f.parents[id] = {}
       /\ \A c \in Kids(n) : c \in Roots(h) /\ f.parents[c] = h.parents[c] \cup {id}
       /\ \A c \in Ids(h) \ Kids(n) : f.parents[c] = h.parents[c]
       /\ f.parents \in [Ids(f) -> SUBSET Ids(f)]
  <2>1. h.parents \in [1 .. N -> SUBSET (1 .. N)]
    BY <1>1 DEF Tables
  <2>2. /\ f.parents[id] = {}
        /\ \A c \in 1 .. N : f.parents[c] = IF c \in Kids(n) THEN h.parents[c] \cup {id}
                                                           ELSE h.parents[c]
    BY <1>0, <1>1, <1>3
  <2>3. \A c \in 1 .. id : f.parents[c] \in SUBSET (1 .. id)
    BY <1>1, <2>1, <2>2
  <2>4. f.parents \in [1 .. id -> SUBSET (1 .. id)]
    BY <1>0, <2>3
  <2>5. Kids(n) \subseteq 1 .. N
    BY <1>1, <1>2, EnodeParts
  <2> QED
    BY <1>1, <1>2, <1>6, <2>2, <2>4, <2>5
<1> QED
  BY <1>1, <1>2, <1>6, <1>7, <1>8, <1>9, <1>10, <1>11, <1>12, <1>13

LEMMA WithDefaultValues ==
  ASSUME NEW table, NEW S, NEW v
  PROVE  /\ DOMAIN WithDefault(table, S, v) = DOMAIN table \cup S
         /\ \A n \in DOMAIN table : WithDefault(table, S, v)[n] = table[n]
         /\ \A n \in S \ DOMAIN table : WithDefault(table, S, v)[n] = v
BY DEF WithDefault

LEMMA AddNodeKeepsTables ==
  ASSUME NEW h, Tables(h), Numbered(h), NEW n \in Enodes(Roots(h))
  PROVE  Tables(AddNode(h, n))
<1> DEFINE f == AddNode(h, n)  id == Len(h.canon) + 1
<1>1. /\ DOMAIN f = Fields
      /\ f.cons = WithDefault(h.cons, {n}, id)
      /\ f.owner = h.owner
      /\ f.pend = h.pend \cup {<<id, n>>}
      /\ f.dirty = h.dirty \cup {id}
  BY AddNodeTables DEF Tables
<1>2. /\ Ids(f) = Ids(h) \cup {id} /\ Forest(f) /\ n \in Enodes(Ids(h))
      /\ \A i \in Ids(h) : f.nodes[i] = h.nodes[i]
      /\ Roots(f) = Roots(h) \cup {id}
      /\ f.nodes \in [Ids(f) -> SUBSET Enodes(Ids(f))]
      /\ f.born \in [Ids(f) -> Enodes(Ids(f))]
      /\ f.parents \in [Ids(f) -> SUBSET Ids(f)]
  BY AddNodeShape
<1>3. Enodes(Ids(h)) \subseteq Enodes(Ids(f)) /\ n \in Enodes(Ids(f))
  BY <1>2, EnodesGrow
<1>4. ClassTable(f, f.cons)
  <2>1. /\ DOMAIN h.cons \subseteq Enodes(Ids(h))
        /\ \A m \in DOMAIN h.cons : h.cons[m] \in Ids(h)
    BY DEF Tables, ClassTable
  <2>2. DOMAIN f.cons = DOMAIN h.cons \cup {n}
    BY <1>1 DEF WithDefault
  <2>3. \A m \in DOMAIN f.cons : f.cons[m] \in {h.cons[m], id}
    BY <1>1 DEF WithDefault
  <2>4. \A m \in DOMAIN f.cons : f.cons[m] \in Ids(f)
    BY <1>1, <1>2, <2>1 DEF WithDefault
  <2> QED
    BY <1>2, <1>3, <2>1, <2>2, <2>4 DEF ClassTable
<1>5. ClassTable(f, f.owner)
  BY <1>1, <1>2, <1>3 DEF Tables, ClassTable
<1>6. f.pend \subseteq Ids(f) \X Enodes(Ids(f)) /\ f.dirty \subseteq Ids(f)
  <2>1. <<id, n>> \in Ids(f) \X Enodes(Ids(f))
    BY <1>2, <1>3
  <2>2. h.pend \subseteq Ids(f) \X Enodes(Ids(f))
    BY <1>2, <1>3 DEF Tables
  <2> QED
    BY <1>1, <1>2, <2>1, <2>2 DEF Tables
<1>7. \A i \in Ids(f) \ Roots(f) : f.nodes[i] = {}
  BY <1>2 DEF Tables
<1> QED
  BY <1>1, <1>2, <1>4, <1>5, <1>6, <1>7 DEF Tables

\* After a union, the winner has what the two classes had.
LEMMA MergeShape ==
  ASSUME NEW h, Tables(h), NEW w \in Roots(h), NEW l \in Roots(h), w # l
  PROVE  LET f == Merge(h, w, l)
         IN  /\ Ids(f) = Ids(h) /\ Forest(f) /\ Roots(f) = Roots(h) \ {l}
             /\ \A i \in Ids(h) : Find(f, i) = IF Find(h, i) = l THEN w ELSE Find(h, i)
             /\ f.nodes[w] = h.nodes[w] \cup h.nodes[l] /\ f.nodes[l] = {}
             /\ \A i \in Ids(h) \ {w, l} : f.nodes[i] = h.nodes[i]
             /\ f.parents[w] = h.parents[w] \cup h.parents[l] /\ f.parents[l] = {}
             /\ \A i \in Ids(h) \ {w, l} : f.parents[i] = h.parents[i]
             /\ f.nodes \in [Ids(h) -> SUBSET Enodes(Ids(h))]
             /\ f.parents \in [Ids(h) -> SUBSET Ids(h)]
<1> DEFINE f == Merge(h, w, l)
<1>0. DOMAIN h = Fields /\ w \in Ids(h) /\ l \in Ids(h) /\ Find(h, w) = w /\ Find(h, l) = l
  BY DEF Tables, Roots, Ids, Find
<1>1. f.canon = Repointed(h.canon, w, l)
  BY <1>0, MergeClasses
<1>2. f.nodes = Moved(h.nodes, w, l) /\ f.parents = Moved(h.parents, w, l)
  BY <1>0, MergeClasses
<1>3. /\ Ids(f) = Ids(h)
      /\ \A i \in Ids(h) : Find(f, i) = IF Find(h, i) = l THEN w ELSE Find(h, i)
  BY <1>1 DEF Repointed, Ids, Find
<1>4. Forest(f)
  <2>1. f.canon \in [Ids(h) -> Ids(h)]
    BY <1>0, <1>1 DEF Repointed, Tables, Forest, Ids
  <2>2. \A i \in Ids(h) : Find(h, i) \in Ids(h) /\ Find(h, Find(h, i)) = Find(h, i)
    BY DEF Tables, Forest, Find
  <2> QED
    BY <1>0, <1>3, <2>1, <2>2 DEF Forest
<1>5. Roots(f) = Roots(h) \ {l}
  <2>1. \A i \in Ids(h) : Find(h, i) \in Ids(h) /\ Find(h, Find(h, i)) = Find(h, i)
    BY DEF Tables, Forest, Find
  <2> QED
    BY <1>0, <1>3, <2>1 DEF Roots, Ids, Find
<1>6. /\ f.nodes[w] = h.nodes[w] \cup h.nodes[l] /\ f.nodes[l] = {}
      /\ \A i \in Ids(h) \ {w, l} : f.nodes[i] = h.nodes[i]
      /\ f.nodes \in [Ids(h) -> SUBSET Enodes(Ids(h))]
  BY <1>0, <1>2 DEF Moved, Tables
<1>7. /\ f.parents[w] = h.parents[w] \cup h.parents[l] /\ f.parents[l] = {}
      /\ \A i \in Ids(h) \ {w, l} : f.parents[i] = h.parents[i]
      /\ f.parents \in [Ids(h) -> SUBSET Ids(h)]
  BY <1>0, <1>2 DEF Moved, Tables
<1> QED
  BY <1>3, <1>4, <1>5, <1>6, <1>7

\* The members queued are those of the loser's users that have it for a child.
LEMMA RekeyedMembers ==
  ASSUME NEW f, NEW users, NEW l, NEW e
  PROVE  e \in Rekeyed(f, users, l) <=>
           \E p \in users : \E n \in f.nodes[p] : l \in Kids(n) /\ e = <<p, n>>
BY DEF Rekeyed

LEMMA MergeKeepsTables ==
  ASSUME NEW h, Tables(h), NEW w \in Roots(h), NEW l \in Roots(h), w # l
  PROVE  Tables(Merge(h, w, l))
<1> DEFINE f == Merge(h, w, l)
           users == Users(h, w, l)
<1>0. DOMAIN h = Fields /\ w \in Ids(h) /\ l \in Ids(h)
  BY DEF Tables, Roots, Ids
<1>1. /\ DOMAIN f = Fields
      /\ f.born = h.born /\ f.cons = h.cons /\ f.owner = h.owner
      /\ f.pend = h.pend \cup Rekeyed(f, users, l)
      /\ f.dirty = h.dirty \cup {w}
  BY <1>0, MergeClasses, MergeTables
<1>2. /\ Ids(f) = Ids(h) /\ Forest(f) /\ Roots(f) = Roots(h) \ {l}
      /\ f.nodes[w] = h.nodes[w] \cup h.nodes[l] /\ f.nodes[l] = {}
      /\ \A i \in Ids(h) \ {w, l} : f.nodes[i] = h.nodes[i]
      /\ f.nodes \in [Ids(h) -> SUBSET Enodes(Ids(h))]
      /\ f.parents \in [Ids(h) -> SUBSET Ids(h)]
  BY MergeShape
<1>3. Rekeyed(f, users, l) \subseteq Ids(h) \X Enodes(Ids(h))
  <2>1. users \subseteq Ids(h)
    BY <1>0, <1>2 DEF Tables, Forest, Find, Users
  <2> QED
    BY <1>2, <2>1, RekeyedMembers
<1>4. \A i \in Ids(f) \ Roots(f) : f.nodes[i] = {}
  BY <1>2 DEF Tables, Roots
<1> QED
  BY <1>0, <1>1, <1>2, <1>3, <1>4 DEF Tables, ClassTable

\* A re-key changes members and parents only.
LEMMA RekeyShape ==
  ASSUME NEW h, Tables(h), NEW r \in Roots(h), NEW old \in SUBSET h.nodes[r]
  PROVE  LET f == Rekey(h, r, old)
             new == Forms(h, old)
         IN  /\ Ids(f) = Ids(h) /\ f.canon = h.canon /\ Roots(f) = Roots(h)
             /\ \A i \in Ids(h) : Find(f, i) = Find(h, i)
             /\ \A n : Resolved(f, n) = Resolved(h, n)
             /\ new \subseteq Enodes(Ids(h))
             /\ f.nodes[r] = (h.nodes[r] \ old) \cup new
             /\ \A i \in Ids(h) \ {r} : f.nodes[i] = h.nodes[i]
             /\ \A c \in Ids(h) : h.parents[c] \subseteq f.parents[c]
             /\ \A c \in Ids(h), p \in Ids(h) :
                  p \in f.parents[c] <=>
                    p \in h.parents[c] \/ (p = r /\ \E n \in new : c \in Kids(n))
             /\ f.nodes \in [Ids(h) -> SUBSET Enodes(Ids(h))]
             /\ f.parents \in [Ids(h) -> SUBSET Ids(h)]
<1> DEFINE f == Rekey(h, r, old)
           new == Forms(h, old)
           below == UNION {Kids(n) : n \in new}
<1>0. DOMAIN h = Fields /\ r \in Ids(h) /\ Forest(h) /\ old \subseteq Enodes(Ids(h))
  BY DEF Tables, Roots, Ids
<1>1. f.canon = h.canon
  BY <1>0, RekeyTables
<1>2. f.nodes = [h.nodes EXCEPT ![r] = (@ \ old) \cup new]
  BY <1>0, RekeyMembers
<1>3. f.parents = [c \in DOMAIN h.parents |->
                     IF c \in below THEN h.parents[c] \cup {r} ELSE h.parents[c]]
  BY <1>0, RekeyParents
<1>4. /\ Ids(f) = Ids(h) /\ Roots(f) = Roots(h)
      /\ \A i \in Ids(h) : Find(f, i) = Find(h, i)
      /\ \A n : Resolved(f, n) = Resolved(h, n)
  BY <1>1 DEF Ids, Roots, Find, Resolved
<1>5. new \subseteq Enodes(Ids(h))
  BY <1>0, ResolvedEnode DEF Forms
<1>6. /\ f.nodes[r] = (h.nodes[r] \ old) \cup new
      /\ \A i \in Ids(h) \ {r} : f.nodes[i] = h.nodes[i]
      /\ f.nodes \in [Ids(h) -> SUBSET Enodes(Ids(h))]
  BY <1>0, <1>2, <1>5 DEF Tables
<1>7. /\ \A c \in Ids(h) : h.parents[c] \subseteq f.parents[c]
      /\ \A c \in Ids(h), p \in Ids(h) :
           p \in f.parents[c] <=> p \in h.parents[c] \/ (p = r /\ c \in below)
      /\ f.parents \in [Ids(h) -> SUBSET Ids(h)]
  <2>1. h.parents \in [Ids(h) -> SUBSET Ids(h)]
    BY DEF Tables
  <2> HIDE DEF below
  <2> QED
    BY <1>0, <1>3, <2>1
<1>8. \A c : c \in below <=> \E n \in new : c \in Kids(n)
  OBVIOUS
<1> HIDE DEF below
<1>9. \A c \in Ids(h), p \in Ids(h) :
        p \in f.parents[c] <=>
          p \in h.parents[c] \/ (p = r /\ \E n \in new : c \in Kids(n))
  BY <1>7, <1>8
<1> QED
  BY <1>1, <1>4, <1>5, <1>6, <1>7, <1>9

LEMMA RekeyKeepsTables ==
  ASSUME NEW h, Tables(h), NEW r \in Roots(h), NEW old \in SUBSET h.nodes[r]
  PROVE  Tables(Rekey(h, r, old))
<1> DEFINE f == Rekey(h, r, old)
           new == Forms(h, old)
<1>0. DOMAIN h = Fields /\ r \in Ids(h)
  BY DEF Tables, Roots, Ids
<1>1. /\ DOMAIN f = Fields
      /\ f.born = h.born /\ f.owner = h.owner /\ f.pend = h.pend /\ f.dirty = h.dirty
      /\ f.cons = IF h.track THEN WithDefault(h.cons, new, r) ELSE h.cons
  BY <1>0, RekeyTables, RekeyCons
<1>2. /\ Ids(f) = Ids(h) /\ f.canon = h.canon /\ Roots(f) = Roots(h)
      /\ \A i \in Ids(h) : Find(f, i) = Find(h, i)
      /\ new \subseteq Enodes(Ids(h))
      /\ \A i \in Ids(h) \ {r} : f.nodes[i] = h.nodes[i]
      /\ f.nodes \in [Ids(h) -> SUBSET Enodes(Ids(h))]
      /\ f.parents \in [Ids(h) -> SUBSET Ids(h)]
  BY RekeyShape
<1>3. Forest(f)
  BY <1>2 DEF Tables, Forest, Find
<1>4. ClassTable(f, f.cons)
  <2>1. ClassTable(f, h.cons)
    BY <1>2 DEF Tables, ClassTable
  <2>2. ClassTable(f, WithDefault(h.cons, new, r))
    BY <1>0, <1>2, <2>1 DEF WithDefault, ClassTable
  <2> QED
    BY <1>1, <2>1, <2>2
<1>5. \A i \in Ids(f) \ Roots(f) : f.nodes[i] = {}
  BY <1>2 DEF Tables
<1> QED
  BY <1>1, <1>2, <1>3, <1>4, <1>5 DEF Tables, ClassTable
-----------------------------------------------------------------------------
(* The invariants, of any tables h; W is what the upward walk has still to  *)
(* visit, P what waits to be claimed, and M the merges still to be done.    *)

PruneUp(h, W) ==
  \A c \in Frontier(h) \ W : \A p \in h.parents[c] : Find(h, p) \in Frontier(h)

PruneDown(h) ==
  \A r \in Roots(h) : \A n \in h.nodes[r] : \A c \in Kids(n) :
    \E p \in h.parents[Find(h, c)] : Find(h, p) = r

HashLive(h) ==
  \A n \in DOMAIN h.cons :
    Resolved(h, n) = n => n \in h.nodes[Find(h, h.cons[n])]

Waits(h, P, r, n) == \E w \in P : Find(h, w[1]) = r /\ w[2] = n

Pending(h, M, a, r) ==
  \E j \in DOMAIN M : {Find(h, M[j][1]), Find(h, M[j][2])} = {a, r}

\* The owner of a canonical member is its class, or is to be merged with it.
Owned(h, M, r, n) ==
  /\ Resolved(h, n) = n /\ n \in DOMAIN h.owner
  /\ Find(h, h.owner[n]) = r \/ Pending(h, M, Find(h, h.owner[n]), r)

Covered(h, P, M) ==
  \A r \in Roots(h) : \A n \in h.nodes[r] : Waits(h, P, r, n) \/ Owned(h, M, r, n)

Indexed(h) ==
  \A e : e \in h.opk <=> \E r \in Roots(h) : \E n \in h.nodes[r] : e = <<HeadOf(n), r>>

-----------------------------------------------------------------------------
(* Adding an enode. *)

LEMMA AddNodePrunes ==
  ASSUME NEW h, Tables(h), Numbered(h), NEW n \in Enodes(Roots(h)),
         PruneUp(h, {}), PruneDown(h)
  PROVE  PruneUp(AddNode(h, n), {}) /\ PruneDown(AddNode(h, n))
<1> DEFINE f == AddNode(h, n)  id == Len(h.canon) + 1
<1>1. /\ id \notin Ids(h) /\ Ids(f) = Ids(h) \cup {id}
      /\ \A i \in Ids(h) : Find(f, i) = Find(h, i) /\ f.nodes[i] = h.nodes[i]
      /\ Find(f, id) = id /\ f.nodes[id] = {n}
      /\ Roots(f) = Roots(h) \cup {id}
      /\ f.parents[id] = {}
      /\ \A c \in Kids(n) : c \in Roots(h) /\ f.parents[c] = h.parents[c] \cup {id}
      /\ \A c \in Ids(h) \ Kids(n) : f.parents[c] = h.parents[c]
  BY AddNodeShape
<1>2. f.dirty = h.dirty \cup {id} /\ h.dirty \subseteq Ids(h)
  BY AddNodeTables DEF Tables
<1>3. /\ Roots(h) \subseteq Ids(h) /\ \A i \in Roots(h) : Find(h, i) = i
      /\ \A i \in Ids(h) : Find(h, i) \in Ids(h) /\ Find(h, i) \in Roots(h)
      /\ \A i \in Ids(h) : h.parents[i] \subseteq Ids(h) /\ h.nodes[i] \subseteq Enodes(Ids(h))
  BY DEF Tables, Forest, Roots, Ids, Find
<1>4. Frontier(f) = Frontier(h) \cup {id}
  BY <1>1, <1>2 DEF Frontier
<1>5. PruneUp(f, {})
  <2> SUFFICES ASSUME NEW c \in Frontier(f), NEW p \in f.parents[c]
               PROVE  Find(f, p) \in Frontier(f)
    BY DEF PruneUp
  <2>1. c \in Frontier(h) /\ c \in Ids(h)
    BY <1>1, <1>2, <1>3, <1>4 DEF Frontier
  <2>2. CASE p = id
    BY <1>1, <1>4, <2>2
  <2>3. CASE p # id
    <3>1. p \in h.parents[c]
      BY <1>1, <2>1, <2>3
    <3>2. Find(h, p) \in Frontier(h)
      BY <2>1, <3>1 DEF PruneUp
    <3> QED
      BY <1>1, <1>3, <1>4, <2>1, <3>1, <3>2
  <2> QED
    BY <2>2, <2>3
<1>6. PruneDown(f)
  <2> SUFFICES ASSUME NEW r \in Roots(f), NEW m \in f.nodes[r], NEW c \in Kids(m)
               PROVE  \E p \in f.parents[Find(f, c)] : Find(f, p) = r
    BY DEF PruneDown
  <2>1. CASE r = id
    <3>1. m = n
      BY <1>1, <2>1
    <3>2. Find(f, c) = c /\ id \in f.parents[c]
      BY <1>1, <1>3, <3>1
    <3> QED
      BY <1>1, <2>1, <3>2
  <2>2. CASE r # id
    <3>1. r \in Roots(h) /\ m \in h.nodes[r]
      BY <1>1, <1>3, <2>2
    <3>2. c \in Ids(h)
      BY <1>3, <3>1, EnodeParts
    <3>3. PICK p \in h.parents[Find(h, c)] : Find(h, p) = r
      BY <3>1 DEF PruneDown
    <3>4. p \in f.parents[Find(h, c)] /\ p \in Ids(h)
      BY <1>1, <1>3, <3>2
    <3> QED
      BY <1>1, <3>2, <3>3, <3>4
  <2> QED
    BY <2>1, <2>2
<1> QED
  BY <1>5, <1>6

LEMMA AddNodeCovers ==
  ASSUME NEW h, Tables(h), Numbered(h), NEW n \in Enodes(Roots(h)), n \notin DOMAIN h.cons,
         HashLive(h), Covered(h, h.pend, <<>>), Indexed(h)
  PROVE  /\ HashLive(AddNode(h, n)) /\ Indexed(AddNode(h, n))
         /\ Covered(AddNode(h, n), AddNode(h, n).pend, <<>>)
<1> DEFINE f == AddNode(h, n)  id == Len(h.canon) + 1
<1>1. /\ id \notin Ids(h) /\ Ids(f) = Ids(h) \cup {id}
      /\ \A i \in Ids(h) : Find(f, i) = Find(h, i) /\ f.nodes[i] = h.nodes[i]
      /\ Find(f, id) = id /\ f.nodes[id] = {n}
      /\ Roots(f) = Roots(h) \cup {id}
      /\ \A m \in Enodes(Ids(h)) : Resolved(f, m) = Resolved(h, m)
  BY AddNodeShape
<1>2. /\ f.pend = h.pend \cup {<<id, n>>} /\ f.owner = h.owner
      /\ f.cons = WithDefault(h.cons, {n}, id)
      /\ f.opk = h.opk \cup {<<HeadOf(n), id>>}
  BY AddNodeTables DEF Tables
<1>3. /\ Roots(h) \subseteq Ids(h)
      /\ \A i \in Ids(h) : Find(h, i) \in Ids(h)
      /\ \A i \in Ids(h) : h.nodes[i] \subseteq Enodes(Ids(h))
      /\ ClassTable(h, h.cons) /\ ClassTable(h, h.owner)
      /\ h.pend \subseteq Ids(h) \X Enodes(Ids(h))
  BY DEF Tables, Forest, Roots, Ids, Find
<1>4. HashLive(f)
  <2> SUFFICES ASSUME NEW m \in DOMAIN f.cons, Resolved(f, m) = m
               PROVE  m \in f.nodes[Find(f, f.cons[m])]
    BY DEF HashLive
  <2>1. CASE m \in DOMAIN h.cons
    <3>1. f.cons[m] = h.cons[m] /\ h.cons[m] \in Ids(h) /\ m \in Enodes(Ids(h))
      BY <1>2, <1>3, <2>1 DEF ClassTable, WithDefault
    <3>2. m \in h.nodes[Find(h, h.cons[m])]
      BY <1>1, <2>1, <3>1 DEF HashLive
    <3> QED
      BY <1>1, <1>3, <3>1, <3>2
  <2>2. CASE m \notin DOMAIN h.cons
    <3>1. m = n /\ f.cons[m] = id
      BY <1>2, <2>2 DEF WithDefault
    <3> QED
      BY <1>1, <3>1
  <2> QED
    BY <2>1, <2>2
<1>5. Indexed(f)
  <2> SUFFICES ASSUME NEW e
               PROVE  e \in f.opk <=> \E r \in Roots(f) : \E m \in f.nodes[r] : e = <<HeadOf(m), r>>
    BY DEF Indexed
  <2>1. e \in h.opk <=> \E r \in Roots(h) : \E m \in h.nodes[r] : e = <<HeadOf(m), r>>
    BY DEF Indexed
  <2>2. \A r \in Roots(h) : f.nodes[r] = h.nodes[r]
    BY <1>1, <1>3
  <2>3. e = <<HeadOf(n), id>> <=> \E m \in f.nodes[id] : e = <<HeadOf(m), id>>
    BY <1>1
  <2> QED
    BY <1>1, <1>2, <2>1, <2>2, <2>3
<1>6. Covered(f, f.pend, <<>>)
  <2> SUFFICES ASSUME NEW r \in Roots(f), NEW m \in f.nodes[r]
               PROVE  Waits(f, f.pend, r, m) \/ Owned(f, <<>>, r, m)
    BY DEF Covered
  <2>1. CASE r = id
    <3>1. m = n /\ <<id, n>> \in f.pend
      BY <1>1, <1>2, <2>1
    <3> QED
      BY <1>1, <2>1, <3>1 DEF Waits
  <2>2. CASE r # id
    <3>1. r \in Roots(h) /\ m \in h.nodes[r] /\ m \in Enodes(Ids(h))
      BY <1>1, <1>3, <2>2
    <3>2. CASE Waits(h, h.pend, r, m)
      <4>1. PICK w \in h.pend : Find(h, w[1]) = r /\ w[2] = m
        BY <3>2 DEF Waits
      <4>2. w \in f.pend /\ w[1] \in Ids(h)
        BY <1>2, <1>3
      <4> QED
        BY <1>1, <4>1, <4>2 DEF Waits
    <3>3. CASE Owned(h, <<>>, r, m)
      <4>1. Find(h, h.owner[m]) = r /\ m \in DOMAIN h.owner /\ Resolved(h, m) = m
        BY <3>3 DEF Owned, Pending
      <4>2. h.owner[m] \in Ids(h)
        BY <1>3, <4>1 DEF ClassTable
      <4> QED
        BY <1>1, <1>2, <3>1, <4>1, <4>2 DEF Owned
    <3> QED
      BY <3>1, <3>2, <3>3 DEF Covered
  <2> QED
    BY <2>1, <2>2
<1> QED
  BY <1>4, <1>5, <1>6
-----------------------------------------------------------------------------
(* Merging two roots. *)

LEMMA RootFacts ==
  ASSUME NEW h, Tables(h)
  PROVE  /\ Roots(h) \subseteq Ids(h) /\ \A i \in Roots(h) : Find(h, i) = i
         /\ \A i \in Ids(h) : Find(h, i) \in Ids(h) /\ Find(h, i) \in Roots(h)
         /\ \A i \in Ids(h) : h.parents[i] \subseteq Ids(h) /\ h.nodes[i] \subseteq Enodes(Ids(h))
         /\ ClassTable(h, h.cons) /\ ClassTable(h, h.owner)
         /\ h.pend \subseteq Ids(h) \X Enodes(Ids(h)) /\ h.dirty \subseteq Ids(h)
         /\ Forest(h) /\ DOMAIN h = Fields
BY DEF Tables, Forest, Roots, Ids, Find

\* A walk from the winner restores the soundness of the prune.
LEMMA MergePrunes ==
  ASSUME NEW h, Tables(h), NEW w \in Roots(h), NEW l \in Roots(h), w # l,
         PruneUp(h, {}), PruneDown(h)
  PROVE  PruneUp(Merge(h, w, l), {w}) /\ PruneDown(Merge(h, w, l))
<1> DEFINE f == Merge(h, w, l)
<1>1. /\ Ids(f) = Ids(h) /\ Roots(f) = Roots(h) \ {l}
      /\ \A i \in Ids(h) : Find(f, i) = IF Find(h, i) = l THEN w ELSE Find(h, i)
      /\ f.nodes[w] = h.nodes[w] \cup h.nodes[l] /\ f.nodes[l] = {}
      /\ \A i \in Ids(h) \ {w, l} : f.nodes[i] = h.nodes[i]
      /\ f.parents[w] = h.parents[w] \cup h.parents[l] /\ f.parents[l] = {}
      /\ \A i \in Ids(h) \ {w, l} : f.parents[i] = h.parents[i]
  BY MergeShape
<1>2. /\ Roots(h) \subseteq Ids(h) /\ \A i \in Roots(h) : Find(h, i) = i
      /\ \A i \in Ids(h) : Find(h, i) \in Ids(h) /\ Find(h, i) \in Roots(h)
      /\ \A i \in Ids(h) : h.parents[i] \subseteq Ids(h) /\ h.nodes[i] \subseteq Enodes(Ids(h))
      /\ h.dirty \subseteq Ids(h) /\ DOMAIN h = Fields
  BY RootFacts
<1>3. f.dirty = h.dirty \cup {w}
  BY <1>2, MergeTables
<1>4. PruneUp(f, {w})
  <2> SUFFICES ASSUME NEW c \in Frontier(f), c # w, NEW p \in f.parents[c]
               PROVE  Find(f, p) \in Frontier(f)
    BY DEF PruneUp
  <2>1. PICK i \in f.dirty : c = Find(f, i)
    BY DEF Frontier
  <2>2. i \in h.dirty /\ c = Find(h, i) /\ c # l
    BY <1>1, <1>2, <1>3, <2>1
  <2>3. c \in Frontier(h) /\ c \in Ids(h) /\ p \in h.parents[c]
    BY <1>1, <1>2, <2>2 DEF Frontier
  <2>4. PICK j \in h.dirty : Find(h, p) = Find(h, j)
    BY <2>3 DEF PruneUp, Frontier
  <2>5. Find(f, p) = Find(f, j)
    BY <1>1, <1>2, <2>3, <2>4
  <2> QED
    BY <1>3, <2>5 DEF Frontier
<1>5. PruneDown(f)
  <2> SUFFICES ASSUME NEW r \in Roots(f), NEW n \in f.nodes[r], NEW c \in Kids(n)
               PROVE  \E p \in f.parents[Find(f, c)] : Find(f, p) = r
    BY DEF PruneDown
  <2>1. PICK s \in Roots(h) : n \in h.nodes[s] /\ (s = r \/ (s = l /\ r = w))
    BY <1>1, <1>2
  <2>2. c \in Ids(h)
    BY <1>2, <2>1, EnodeParts
  <2>3. PICK p \in h.parents[Find(h, c)] : Find(h, p) = s
    BY <2>1 DEF PruneDown
  <2>4. h.parents[Find(h, c)] \subseteq f.parents[Find(f, c)]
    BY <1>1, <1>2, <2>2
  <2>5. Find(f, p) = r
    BY <1>1, <1>2, <2>1, <2>2, <2>3
  <2> QED
    BY <2>3, <2>4, <2>5
<1> QED
  BY <1>4, <1>5

LEMMA MergeKeepsHashLive ==
  ASSUME NEW h, Tables(h), NEW w \in Roots(h), NEW l \in Roots(h), w # l, HashLive(h)
  PROVE  HashLive(Merge(h, w, l))
<1> DEFINE f == Merge(h, w, l)
<1>1. /\ Ids(f) = Ids(h) /\ Forest(f)
      /\ \A i \in Ids(h) : Find(f, i) = IF Find(h, i) = l THEN w ELSE Find(h, i)
      /\ f.nodes[w] = h.nodes[w] \cup h.nodes[l]
      /\ \A i \in Ids(h) \ {w, l} : f.nodes[i] = h.nodes[i]
  BY MergeShape
<1>2. /\ Roots(h) \subseteq Ids(h) /\ \A i \in Roots(h) : Find(h, i) = i
      /\ \A i \in Ids(h) : Find(h, i) \in Ids(h) /\ Find(h, i) \in Roots(h)
      /\ ClassTable(h, h.cons) /\ Forest(h) /\ DOMAIN h = Fields
  BY RootFacts
<1>3. f.cons = h.cons
  BY <1>2, MergeClasses
<1> SUFFICES ASSUME NEW n \in DOMAIN h.cons, Resolved(f, n) = n
             PROVE  n \in f.nodes[Find(f, h.cons[n])]
  BY <1>3 DEF HashLive
<1>4. n \in Enodes(Ids(h)) /\ h.cons[n] \in Ids(h) /\ Kids(n) \subseteq Ids(h)
  BY <1>2, EnodeParts DEF ClassTable
<1>5. \A c \in Kids(n) : Find(f, c) = c
  BY <1>1, <1>4, ResolvedEnode
<1>6. \A c \in Kids(n) : Find(h, c) = c
  BY <1>1, <1>2, <1>4, <1>5
<1>7. Resolved(h, n) = n
  BY <1>2, <1>4, <1>6, ResolvedEnode
<1>8. n \in h.nodes[Find(h, h.cons[n])]
  BY <1>7 DEF HashLive
<1> QED
  BY <1>1, <1>2, <1>4, <1>8

LEMMA MergeKeepsIndexed ==
  ASSUME NEW h, Tables(h), NEW w \in Roots(h), NEW l \in Roots(h), w # l, Indexed(h)
  PROVE  Indexed(Merge(h, w, l))
<1> DEFINE f == Merge(h, w, l)
<1>1. /\ Roots(f) = Roots(h) \ {l}
      /\ f.nodes[w] = h.nodes[w] \cup h.nodes[l]
      /\ \A i \in Ids(h) \ {w, l} : f.nodes[i] = h.nodes[i]
  BY MergeShape
<1>2. Roots(h) \subseteq Ids(h) /\ DOMAIN h = Fields
  BY RootFacts
<1>3. f.opk = (h.opk \ (Heads(h, l) \X {l})) \cup (Heads(h, l) \X {w})
  BY <1>2, MergeTables DEF Reindexed
<1> SUFFICES ASSUME NEW e
             PROVE  e \in f.opk <=> \E r \in Roots(f) : \E n \in f.nodes[r] : e = <<HeadOf(n), r>>
  BY DEF Indexed
<1>4. e \in h.opk <=> \E r \in Roots(h) : \E n \in h.nodes[r] : e = <<HeadOf(n), r>>
  BY DEF Indexed
<1>5. \A r : e \in Heads(h, l) \X {r} <=> \E n \in h.nodes[l] : e = <<HeadOf(n), r>>
  BY DEF Heads
<1>6. ASSUME e \in f.opk
      PROVE  \E r \in Roots(f) : \E n \in f.nodes[r] : e = <<HeadOf(n), r>>
  <2>1. CASE e \in Heads(h, l) \X {w}
    BY <1>1, <1>5, <2>1
  <2>2. CASE e \in h.opk /\ e \notin Heads(h, l) \X {l}
    <3>1. PICK r \in Roots(h) : \E n \in h.nodes[r] : e = <<HeadOf(n), r>>
      BY <1>4, <2>2
    <3>2. PICK n \in h.nodes[r] : e = <<HeadOf(n), r>>
      BY <3>1
    <3>3. r # l
      BY <1>5, <2>2, <3>2
    <3>4. n \in f.nodes[r]
      BY <1>1, <1>2, <3>2, <3>3
    <3> QED
      BY <1>1, <3>2, <3>3, <3>4
  <2> QED
    BY <1>3, <1>6, <2>1, <2>2
<1>7. ASSUME NEW r \in Roots(f), NEW n \in f.nodes[r], e = <<HeadOf(n), r>>
      PROVE  e \in f.opk
  <2>1. CASE r = w /\ n \in h.nodes[l]
    BY <1>3, <1>5, <1>7, <2>1
  <2>2. CASE n \in h.nodes[r]
    <3>1. e \in h.opk
      BY <1>1, <1>4, <1>7, <2>2
    <3>2. e \notin Heads(h, l) \X {l}
      BY <1>1, <1>7
    <3> QED
      BY <1>3, <3>1, <3>2
  <2> QED
    BY <1>1, <1>2, <2>1, <2>2
<1> QED
  BY <1>6, <1>7
\* The merges to be done are of allocated classes.
Pairs(h, M) == \A j \in DOMAIN M : M[j][1] \in Ids(h) /\ M[j][2] \in Ids(h)

LEMMA PairsMap ==
  ASSUME NEW a, NEW b, NEW c, NEW d
  PROVE  {a, b} = {c, d} <=> (a = c /\ b = d) \/ (a = d /\ b = c)
OBVIOUS

\* A member whose child is the loser is queued; another one keeps its form, and
\* an owner that was to be merged with its class either still is, or just was.
LEMMA MergeCovers ==
  ASSUME NEW h, Tables(h), NEW w \in Roots(h), NEW l \in Roots(h), w # l,
         PruneDown(h), NEW M, NEW M2, Pairs(h, M), Covered(h, h.pend, M),
         \A j \in DOMAIN M :
           \/ \E k \in DOMAIN M2 : M2[k] = M[j]
           \/ {Find(h, M[j][1]), Find(h, M[j][2])} = {w, l}
           \/ Find(h, M[j][1]) = Find(h, M[j][2])
  PROVE  Covered(Merge(h, w, l), Merge(h, w, l).pend, M2)
<1> DEFINE f == Merge(h, w, l)
<1>1. /\ Ids(f) = Ids(h) /\ Roots(f) = Roots(h) \ {l} /\ Forest(f)
      /\ \A i \in Ids(h) : Find(f, i) = IF Find(h, i) = l THEN w ELSE Find(h, i)
      /\ f.nodes[w] = h.nodes[w] \cup h.nodes[l]
      /\ \A i \in Ids(h) \ {w, l} : f.nodes[i] = h.nodes[i]
  BY MergeShape
<1>2. /\ Roots(h) \subseteq Ids(h) /\ \A i \in Roots(h) : Find(h, i) = i
      /\ \A i \in Ids(h) : Find(h, i) \in Ids(h) /\ Find(h, i) \in Roots(h)
      /\ \A i \in Ids(h) : h.parents[i] \subseteq Ids(h) /\ h.nodes[i] \subseteq Enodes(Ids(h))
      /\ ClassTable(h, h.owner) /\ Forest(h) /\ DOMAIN h = Fields
      /\ h.pend \subseteq Ids(h) \X Enodes(Ids(h))
  BY RootFacts
<1>3. f.pend = h.pend \cup Rekeyed(f, Users(h, w, l), l) /\ f.owner = h.owner
  BY <1>2, MergeTables, MergeClasses
<1> SUFFICES ASSUME NEW r \in Roots(f), NEW n \in f.nodes[r]
             PROVE  Waits(f, f.pend, r, n) \/ Owned(f, M2, r, n)
  BY DEF Covered
<1>4. PICK s \in Roots(h) : n \in h.nodes[s] /\ (s = r \/ (s = l /\ r = w))
  BY <1>1, <1>2
<1>5. \A i \in Ids(h) : Find(h, i) = s => Find(f, i) = r
  BY <1>1, <1>4
<1>6. n \in Enodes(Ids(h)) /\ Kids(n) \subseteq Ids(h)
  BY <1>2, <1>4, EnodeParts
<1>7. CASE Waits(h, h.pend, s, n)
  <2>1. PICK i \in h.pend : Find(h, i[1]) = s /\ i[2] = n
    BY <1>7 DEF Waits
  <2>2. i \in f.pend /\ i[1] \in Ids(h)
    BY <1>2, <1>3
  <2> QED
    BY <1>5, <2>1, <2>2 DEF Waits
<1>8. CASE Owned(h, M, s, n) /\ l \in Kids(n)
  <2>1. PICK p \in h.parents[l] : Find(h, p) = s
    BY <1>2, <1>4, <1>8 DEF PruneDown
  <2>2. p \in Ids(h) /\ Find(f, p) = r
    BY <1>2, <1>5, <2>1
  <2>3. r \in Users(h, w, l)
    BY <2>1, <2>2 DEF Users
  <2>4. <<r, n>> \in f.pend
    BY <1>3, <1>8, <2>3, RekeyedMembers
  <2>5. Find(f, r) = r
    BY <1>1, <1>2
  <2> QED
    BY <2>4, <2>5 DEF Waits
<1>9. CASE Owned(h, M, s, n) /\ l \notin Kids(n)
  <2>1. /\ Resolved(h, n) = n /\ n \in DOMAIN h.owner
        /\ Find(h, h.owner[n]) = s \/ Pending(h, M, Find(h, h.owner[n]), s)
    BY <1>9 DEF Owned
  <2>2. Resolved(f, n) = n
    <3>1. \A c \in Kids(n) : Find(h, c) = c
      BY <1>2, <1>6, <2>1, ResolvedEnode
    <3>2. \A c \in Kids(n) : Find(f, c) = c
      BY <1>1, <1>6, <1>9, <3>1
    <3> QED
      BY <1>1, <1>6, <3>2, ResolvedEnode
  <2> DEFINE o == h.owner[n]
  <2>3. o \in Ids(h)
    BY <1>2, <2>1 DEF ClassTable
  <2>4. Find(f, o) = r \/ Pending(f, M2, Find(f, o), r)
    <3>1. CASE Find(h, o) = s
      BY <1>5, <2>3, <3>1
    <3>2. CASE Pending(h, M, Find(h, o), s)
      <4>1. PICK j \in DOMAIN M : {Find(h, M[j][1]), Find(h, M[j][2])} = {Find(h, o), s}
        BY <3>2 DEF Pending
      <4> DEFINE a == M[j][1]  b == M[j][2]
      <4>2. a \in Ids(h) /\ b \in Ids(h)
        BY DEF Pairs
      <4>3. (Find(h, a) = Find(h, o) /\ Find(h, b) = s) \/ (Find(h, a) = s /\ Find(h, b) = Find(h, o))
        BY <4>1, PairsMap
      <4>4. (Find(f, a) = Find(f, o) /\ Find(f, b) = r) \/ (Find(f, a) = r /\ Find(f, b) = Find(f, o))
        BY <1>1, <1>5, <2>3, <4>2, <4>3
      <4>5. CASE \E k \in DOMAIN M2 : M2[k] = M[j]
        <5>1. {Find(f, a), Find(f, b)} = {Find(f, o), r}
          BY <4>4
        <5> QED
          BY <4>5, <5>1 DEF Pending
      <4>6. CASE {Find(h, a), Find(h, b)} = {w, l}
        <5>1. Find(h, o) \in {w, l} /\ s \in {w, l}
          BY <4>1, <4>6
        <5>2. Find(f, o) = w /\ r = w
          BY <1>1, <1>4, <2>3, <5>1
        <5> QED
          BY <5>2
      <4>7. CASE Find(h, a) = Find(h, b)
        BY <1>5, <2>3, <4>3, <4>7
      <4> QED
        BY <4>5, <4>6, <4>7
    <3> QED
      BY <2>1, <3>1, <3>2
  <2> QED
    BY <1>3, <2>1, <2>2, <2>4 DEF Owned
<1> QED
  BY <1>4, <1>7, <1>8, <1>9 DEF Covered

-----------------------------------------------------------------------------
(* Re-keying members of a class that are not canonical. *)

LEMMA RekeyPrunes ==
  ASSUME NEW h, Tables(h), NEW r \in Roots(h), NEW old \in SUBSET h.nodes[r],
         PruneUp(h, {}), PruneDown(h)
  PROVE  PruneUp(Rekey(h, r, old), {}) /\ PruneDown(Rekey(h, r, old))
<1> DEFINE f == Rekey(h, r, old)
<1>1. /\ Ids(f) = Ids(h) /\ Roots(f) = Roots(h)
      /\ \A i \in Ids(h) : Find(f, i) = Find(h, i)
      /\ f.nodes[r] = (h.nodes[r] \ old) \cup Forms(h, old)
      /\ \A i \in Ids(h) \ {r} : f.nodes[i] = h.nodes[i]
      /\ \A c \in Ids(h) : h.parents[c] \subseteq f.parents[c]
      /\ f.parents \in [Ids(h) -> SUBSET Ids(h)]
      /\ Forms(h, old) \subseteq Enodes(Ids(h))
  BY RekeyShape
<1>2. \A c \in Ids(h), p \in Ids(h) :
        p \in f.parents[c] <=>
          p \in h.parents[c] \/ (p = r /\ \E n \in Forms(h, old) : c \in Kids(n))
  BY RekeyShape
<1>3. /\ Roots(h) \subseteq Ids(h) /\ \A i \in Roots(h) : Find(h, i) = i
      /\ \A i \in Ids(h) : Find(h, i) \in Ids(h) /\ Find(h, i) \in Roots(h)
      /\ \A i \in Ids(h) : h.parents[i] \subseteq Ids(h) /\ h.nodes[i] \subseteq Enodes(Ids(h))
      /\ h.dirty \subseteq Ids(h) /\ DOMAIN h = Fields /\ Forest(h)
  BY RootFacts
<1>4. Frontier(f) = Frontier(h) /\ Frontier(h) \subseteq Ids(h)
  BY <1>1, <1>3, RekeyTables DEF Frontier
<1>5. \A n \in Forms(h, old) : \A c \in Kids(n) :
        \E m \in old : \E k \in Kids(m) : k \in Ids(h) /\ c = Find(h, k)
  <2> SUFFICES ASSUME NEW m \in old, NEW c \in Kids(Resolved(h, m))
               PROVE  \E k \in Kids(m) : k \in Ids(h) /\ c = Find(h, k)
    BY DEF Forms
  <2>1. m \in Enodes(Ids(h)) /\ Kids(m) \subseteq Ids(h)
    BY <1>3, EnodeParts
  <2> QED
    BY <1>3, <2>1, ResolvedEnode
<1>6. PruneUp(f, {})
  <2> SUFFICES ASSUME NEW c \in Frontier(f), NEW p \in f.parents[c]
               PROVE  Find(f, p) \in Frontier(f)
    BY DEF PruneUp
  <2>1. c \in Ids(h) /\ p \in Ids(h)
    BY <1>1, <1>4
  <2>2. CASE p \in h.parents[c]
    BY <1>1, <1>4, <2>1, <2>2 DEF PruneUp
  <2>3. CASE p = r /\ \E n \in Forms(h, old) : c \in Kids(n)
    <3>1. PICK m \in old : \E k \in Kids(m) : k \in Ids(h) /\ c = Find(h, k)
      BY <1>5, <2>3
    <3>2. PICK k \in Kids(m) : k \in Ids(h) /\ c = Find(h, k)
      BY <3>1
    <3>3. PICK q \in h.parents[c] : Find(h, q) = r
      BY <3>2 DEF PruneDown
    <3>4. r \in Frontier(h)
      BY <1>4, <3>3 DEF PruneUp
    <3> QED
      BY <1>1, <1>3, <1>4, <2>3, <3>4
  <2> QED
    BY <1>2, <2>1, <2>2, <2>3
<1>7. PruneDown(f)
  <2> SUFFICES ASSUME NEW s \in Roots(f), NEW n \in f.nodes[s], NEW c \in Kids(n)
               PROVE  \E p \in f.parents[Find(f, c)] : Find(f, p) = s
    BY DEF PruneDown
  <2>1. CASE n \in h.nodes[s]
    <3>1. c \in Ids(h)
      BY <1>1, <1>3, <2>1, EnodeParts
    <3>2. PICK p \in h.parents[Find(h, c)] : Find(h, p) = s
      BY <1>1, <2>1 DEF PruneDown
    <3> QED
      BY <1>1, <1>3, <3>1, <3>2
  <2>2. CASE s = r /\ n \in Forms(h, old)
    <3>1. PICK k \in Ids(h) : c = Find(h, k)
      BY <1>5, <2>2
    <3>2. c \in Ids(h) /\ Find(h, c) = c
      BY <1>3, <3>1
    <3>3. r \in f.parents[c]
      BY <1>2, <1>3, <2>2, <3>2
    <3> QED
      BY <1>1, <1>3, <2>2, <3>2, <3>3
  <2> QED
    BY <1>1, <1>3, <2>1, <2>2
<1> QED
  BY <1>6, <1>7

LEMMA RekeyKeepsHashLive ==
  ASSUME NEW h, Tables(h), NEW r \in Roots(h), NEW old \in SUBSET h.nodes[r], HashLive(h),
         \A n \in old : Resolved(h, n) # n
  PROVE  HashLive(Rekey(h, r, old))
<1> DEFINE f == Rekey(h, r, old)
<1>1. /\ \A i \in Ids(h) : Find(f, i) = Find(h, i)
      /\ \A n : Resolved(f, n) = Resolved(h, n)
      /\ f.nodes[r] = (h.nodes[r] \ old) \cup Forms(h, old)
      /\ \A i \in Ids(h) \ {r} : f.nodes[i] = h.nodes[i]
  BY RekeyShape
<1>2. /\ Roots(h) \subseteq Ids(h) /\ \A i \in Roots(h) : Find(h, i) = i
      /\ \A i \in Ids(h) : Find(h, i) \in Ids(h)
      /\ ClassTable(h, h.cons) /\ DOMAIN h = Fields
  BY RootFacts
<1>3. f.cons = IF h.track THEN WithDefault(h.cons, Forms(h, old), r) ELSE h.cons
  BY <1>2, RekeyCons
<1> SUFFICES ASSUME NEW n \in DOMAIN f.cons, Resolved(h, n) = n
             PROVE  n \in f.nodes[Find(f, f.cons[n])]
  BY <1>1 DEF HashLive
<1>4. CASE n \in DOMAIN h.cons
  <2>1. f.cons[n] = h.cons[n] /\ h.cons[n] \in Ids(h)
    BY <1>2, <1>3, <1>4 DEF WithDefault, ClassTable
  <2>2. n \in h.nodes[Find(h, h.cons[n])]
    BY <1>4 DEF HashLive
  <2> QED
    BY <1>1, <1>2, <2>1, <2>2
<1>5. CASE n \notin DOMAIN h.cons
  <2>1. n \in Forms(h, old) /\ f.cons[n] = r
    BY <1>3, <1>5 DEF WithDefault
  <2> QED
    BY <1>1, <1>2, <2>1
<1> QED
  BY <1>4, <1>5

LEMMA RekeyKeepsIndexed ==
  ASSUME NEW h, Tables(h), NEW r \in Roots(h), NEW old \in SUBSET h.nodes[r], Indexed(h)
  PROVE  Indexed(Rekey(h, r, old))
<1> DEFINE f == Rekey(h, r, old)
<1>1. /\ Roots(f) = Roots(h)
      /\ f.nodes[r] = (h.nodes[r] \ old) \cup Forms(h, old)
      /\ \A i \in Ids(h) \ {r} : f.nodes[i] = h.nodes[i]
  BY RekeyShape
<1>2. /\ Roots(h) \subseteq Ids(h) /\ DOMAIN h = Fields /\ Forest(h)
      /\ h.nodes[r] \subseteq Enodes(Ids(h))
  BY RootFacts
<1>3. f.opk = h.opk
  BY <1>2, RekeyTables
<1>4. \A n \in old : HeadOf(Resolved(h, n)) = HeadOf(n)
  BY <1>2, ResolvedEnode
<1>5. \A e : (\E n \in f.nodes[r] : e = <<HeadOf(n), r>>) <=> (\E n \in h.nodes[r] : e = <<HeadOf(n), r>>)
  BY <1>1, <1>4 DEF Forms
<1> QED
  BY <1>1, <1>2, <1>3, <1>5 DEF Indexed
-----------------------------------------------------------------------------
(* canonicalise, one class, and the claim of one item of the worklist: a     *)
(* re-key, and a change of the owners and of the worklist.                  *)

SameClasses(f, k) ==
  /\ DOMAIN f = Fields /\ DOMAIN k = Fields
  /\ f.canon = k.canon /\ f.nodes = k.nodes /\ f.parents = k.parents
  /\ f.born = k.born /\ f.cons = k.cons /\ f.dirty = k.dirty /\ f.opk = k.opk

LEMMA SameClassesKeep ==
  ASSUME NEW f, NEW k, SameClasses(f, k)
  PROVE  /\ Ids(f) = Ids(k) /\ Roots(f) = Roots(k)
         /\ \A i : Find(f, i) = Find(k, i)
         /\ \A n : Resolved(f, n) = Resolved(k, n)
         /\ Frontier(f) = Frontier(k)
         /\ \A W : PruneUp(k, W) => PruneUp(f, W)
         /\ PruneDown(k) => PruneDown(f)
         /\ HashLive(k) => HashLive(f)
         /\ Indexed(k) => Indexed(f)
<1>1. /\ Ids(f) = Ids(k) /\ Roots(f) = Roots(k)
      /\ \A i : Find(f, i) = Find(k, i)
      /\ \A n : Resolved(f, n) = Resolved(k, n)
  BY DEF SameClasses, Ids, Roots, Find, Resolved
<1>2. Frontier(f) = Frontier(k)
  BY DEF SameClasses, Frontier, Find
<1>3. \A W : PruneUp(k, W) => PruneUp(f, W)
  BY <1>1, <1>2 DEF SameClasses, PruneUp
<1>4. PruneDown(k) => PruneDown(f)
  BY <1>1 DEF SameClasses, PruneDown
<1>5. HashLive(k) => HashLive(f)
  BY <1>1 DEF SameClasses, HashLive
<1>6. Indexed(k) => Indexed(f)
  BY <1>1 DEF SameClasses, Indexed
<1> QED
  BY <1>1, <1>2, <1>3, <1>4, <1>5, <1>6

LEMMA SameClassesTables ==
  ASSUME NEW f, NEW k, SameClasses(f, k), Tables(k),
         DOMAIN f.owner \subseteq Enodes(Ids(k)), \A n \in DOMAIN f.owner : f.owner[n] \in Ids(k),
         f.pend \subseteq Ids(k) \X Enodes(Ids(k))
  PROVE  Tables(f)
<1>1. Ids(f) = Ids(k) /\ Roots(f) = Roots(k) /\ \A i : Find(f, i) = Find(k, i)
  BY SameClassesKeep
<1>2. Forest(f)
  BY <1>1 DEF SameClasses, Tables, Forest
<1> QED
  BY <1>1, <1>2 DEF SameClasses, Tables, ClassTable

\* The members of class r that are not canonical.
Stale(h, r) == {n \in h.nodes[r] : Resolved(h, n) # n}
Disowned(h, r) == {n \in Stale(h, r) \cap DOMAIN h.owner : Find(h, h.owner[n]) = r}

LEMMA CanonicaliseTables ==
  ASSUME NEW h, DOMAIN h = Fields, NEW r
  PROVE  LET f == CanonicaliseClass(h, r)
         IN  /\ SameClasses(f, Rekey(h, r, Stale(h, r)))
             /\ f.owner = Without(h.owner, Disowned(h, r))
             /\ f.pend = h.pend \cup {<<r, n>> : n \in Forms(h, Stale(h, r))}
<1> DEFINE f == CanonicaliseClass(h, r)  k == Rekey(h, r, Stale(h, r))
<1>1. f = [k EXCEPT !.owner = Without(@, Disowned(h, r)),
                    !.pend = @ \cup {<<r, Resolved(h, n)>> : n \in Stale(h, r)}]
  BY DEF CanonicaliseClass, Stale, Disowned
<1>2. DOMAIN k = Fields /\ k.owner = h.owner /\ k.pend = h.pend
  BY RekeyTables
<1>3. {<<r, Resolved(h, n)>> : n \in Stale(h, r)} = {<<r, n>> : n \in Forms(h, Stale(h, r))}
  BY DEF Forms
<1> HIDE DEF f, k
<1>4. SameClasses(f, k)
  BY <1>1, <1>2 DEF SameClasses, Fields
<1>5. /\ f.owner = Without(h.owner, Disowned(h, r))
      /\ f.pend = h.pend \cup {<<r, n>> : n \in Forms(h, Stale(h, r))}
  BY <1>1, <1>2, <1>3 DEF Fields
<1> QED
  BY <1>4, <1>5 DEF f, k

LEMMA CanonicaliseKeeps ==
  ASSUME NEW h, Tables(h), NEW r \in Roots(h), PruneUp(h, {}), PruneDown(h),
         HashLive(h), Indexed(h), Covered(h, h.pend, <<>>)
  PROVE  LET f == CanonicaliseClass(h, r)
         IN  /\ Tables(f) /\ PruneUp(f, {}) /\ PruneDown(f) /\ HashLive(f) /\ Indexed(f)
             /\ Covered(f, f.pend, <<>>)
<1> DEFINE f == CanonicaliseClass(h, r)  old == Stale(h, r)  k == Rekey(h, r, old)
<1>1. DOMAIN h = Fields /\ r \in Ids(h) /\ Find(h, r) = r /\ ClassTable(h, h.owner)
      /\ h.pend \subseteq Ids(h) \X Enodes(Ids(h))
  BY RootFacts
<1>2. /\ SameClasses(f, k)
      /\ f.owner = Without(h.owner, Disowned(h, r))
      /\ f.pend = h.pend \cup {<<r, n>> : n \in Forms(h, old)}
  BY <1>1, CanonicaliseTables
<1>3. old \in SUBSET h.nodes[r] /\ \A n \in old : Resolved(h, n) # n
  BY DEF Stale
<1> HIDE DEF old
<1>4. /\ Tables(k) /\ PruneUp(k, {}) /\ PruneDown(k) /\ HashLive(k) /\ Indexed(k)
  BY <1>3, RekeyKeepsTables, RekeyPrunes, RekeyKeepsHashLive, RekeyKeepsIndexed
<1>5. /\ Ids(k) = Ids(h) /\ Roots(k) = Roots(h)
      /\ \A i \in Ids(h) : Find(k, i) = Find(h, i)
      /\ \A n : Resolved(k, n) = Resolved(h, n)
      /\ k.nodes[r] = (h.nodes[r] \ old) \cup Forms(h, old)
      /\ \A i \in Ids(h) \ {r} : k.nodes[i] = h.nodes[i]
      /\ Forms(h, old) \subseteq Enodes(Ids(h))
  BY <1>3, RekeyShape
<1> HIDE DEF f, k
<1>6. Tables(f)
  <2>1. f.pend \subseteq Ids(k) \X Enodes(Ids(k))
    BY <1>1, <1>2, <1>5
  <2>2. DOMAIN f.owner \subseteq Enodes(Ids(k)) /\ \A n \in DOMAIN f.owner : f.owner[n] \in Ids(k)
    BY <1>1, <1>2, <1>5 DEF Without, ClassTable
  <2> QED
    BY <1>2, <1>4, <2>1, <2>2, SameClassesTables
<1>7. PruneUp(f, {}) /\ PruneDown(f) /\ HashLive(f) /\ Indexed(f)
  BY <1>2, <1>4, SameClassesKeep
<1>8. /\ Roots(f) = Roots(h) /\ f.nodes = k.nodes
      /\ \A i \in Ids(h) : Find(f, i) = Find(h, i)
      /\ \A n : Resolved(f, n) = Resolved(h, n)
  BY <1>2, <1>5, SameClassesKeep DEF SameClasses
<1>9. Covered(f, f.pend, <<>>)
  <2> SUFFICES ASSUME NEW s \in Roots(h), NEW n \in k.nodes[s]
               PROVE  Waits(f, f.pend, s, n) \/ Owned(f, <<>>, s, n)
    BY <1>8 DEF Covered
  <2>1. s \in Ids(h)
    BY RootFacts
  <2>2. CASE s = r /\ n \in Forms(h, old)
    <3>1. <<r, n>> \in f.pend
      BY <1>2, <2>2
    <3> QED
      BY <1>1, <1>8, <2>2, <3>1 DEF Waits
  <2>3. CASE n \in h.nodes[s] /\ Waits(h, h.pend, s, n)
    <3>1. PICK w \in h.pend : Find(h, w[1]) = s /\ w[2] = n
      BY <2>3 DEF Waits
    <3>2. w \in f.pend /\ w[1] \in Ids(h)
      BY <1>1, <1>2
    <3> QED
      BY <1>8, <3>1, <3>2 DEF Waits
  <2>4. CASE n \in h.nodes[s] /\ Owned(h, <<>>, s, n)
    <3>1. Resolved(h, n) = n /\ n \in DOMAIN h.owner /\ Find(h, h.owner[n]) = s
      BY <2>4 DEF Owned, Pending
    <3>2. n \notin Disowned(h, r)
      BY <3>1 DEF Disowned, Stale
    <3>3. n \in DOMAIN f.owner /\ f.owner[n] = h.owner[n] /\ h.owner[n] \in Ids(h)
      BY <1>1, <1>2, <3>1, <3>2 DEF Without, ClassTable
    <3> QED
      BY <1>8, <3>1, <3>3 DEF Owned
  <2>5. n \in h.nodes[s] \/ (s = r /\ n \in Forms(h, old))
    BY <1>5, <2>1
  <2> QED
    BY <2>2, <2>3, <2>4, <2>5 DEF Covered
<1> QED
  BY <1>6, <1>7, <1>9 DEF f

\* The tables once the item has been re-keyed, and once it has an owner.
Rekeys(h, item) ==
  LET n == item[2] IN
  IF Resolved(h, n) # n /\ n \in h.nodes[Find(h, item[1])]
  THEN [Rekey(h, Find(h, item[1]), {n}) EXCEPT !.owner = Without(@, {n})]
  ELSE h
Claims(h, item) ==
  LET nn == Resolved(h, item[2])
      r  == Find(h, item[1])
      k  == Rekeys(h, item)
  IN  IF nn \in k.nodes[r] THEN [k EXCEPT !.owner = WithDefault(@, {nn}, r)] ELSE k
Found(h, M, item) ==
  LET nn == Resolved(h, item[2])
      r  == Find(h, item[1])
      f  == Claims(h, item)
  IN  IF nn \in f.nodes[r] /\ Find(f, f.owner[nn]) # r
      THEN Append(M, <<f.owner[nn], r>>) ELSE M

\* A re-key for an item leaves one member of its class in its canonical form.
LEMMA RekeysKeep ==
  ASSUME NEW h, Tables(h), PruneUp(h, {}), PruneDown(h), HashLive(h), Indexed(h),
         NEW item \in Ids(h) \X Enodes(Ids(h))
  PROVE  LET k  == Rekeys(h, item)
             r  == Find(h, item[1])
             n  == item[2]
             nn == Resolved(h, n)
         IN  /\ Tables(k) /\ PruneUp(k, {}) /\ PruneDown(k) /\ HashLive(k) /\ Indexed(k)
             /\ k.canon = h.canon /\ k.born = h.born /\ k.pend = h.pend /\ k.dirty = h.dirty
             /\ \A i \in Ids(h) \ {r} : k.nodes[i] = h.nodes[i]
             /\ k.nodes[r] \subseteq h.nodes[r] \cup {nn}
             /\ nn \in k.nodes[r] => n \in h.nodes[r] \/ nn \in h.nodes[r]
             /\ n \in k.nodes[r] => nn = n
             /\ n \in h.nodes[r] => nn \in k.nodes[r]
             /\ \A m \in DOMAIN k.owner : m \in DOMAIN h.owner /\ k.owner[m] = h.owner[m]
             /\ \A m \in DOMAIN h.owner : Resolved(h, m) = m => m \in DOMAIN k.owner
<1> DEFINE k == Rekeys(h, item)  r == Find(h, item[1])  n == item[2]  nn == Resolved(h, n)
           e == Rekey(h, r, {n})
<1>1. /\ DOMAIN h = Fields /\ Forest(h) /\ ClassTable(h, h.owner)
      /\ h.pend \subseteq Ids(h) \X Enodes(Ids(h))
      /\ item[1] \in Ids(h) /\ n \in Enodes(Ids(h))
      /\ r \in Roots(h) /\ r \in Ids(h)
  BY RootFacts
<1>2. Resolved(h, nn) = nn
  BY <1>1, ResolvedEnode
<1>3. CASE nn # n /\ n \in h.nodes[r]
  <2>1. k = [e EXCEPT !.owner = Without(@, {n})]
    BY <1>3 DEF Rekeys
  <2>2. {n} \in SUBSET h.nodes[r] /\ \A m \in {n} : Resolved(h, m) # m
    BY <1>3
  <2>3. /\ DOMAIN e = Fields /\ e.canon = h.canon /\ e.born = h.born /\ e.owner = h.owner
        /\ e.pend = h.pend /\ e.dirty = h.dirty
    BY <1>1, RekeyTables
  <2>4. Tables(e) /\ PruneUp(e, {}) /\ PruneDown(e) /\ HashLive(e) /\ Indexed(e)
    BY <1>1, <2>2, RekeyKeepsTables, RekeyPrunes, RekeyKeepsHashLive, RekeyKeepsIndexed
  <2>5. /\ Ids(e) = Ids(h)
        /\ e.nodes[r] = (h.nodes[r] \ {n}) \cup {nn}
        /\ \A i \in Ids(h) \ {r} : e.nodes[i] = h.nodes[i]
    BY <1>1, <2>2, RekeyShape DEF Forms
  <2> HIDE DEF k, e
  <2>6. SameClasses(k, e) /\ k.owner = Without(h.owner, {n}) /\ k.pend = h.pend
    BY <2>1, <2>3 DEF SameClasses, Fields
  <2>7. Tables(k)
    BY <1>1, <2>4, <2>5, <2>6, SameClassesTables DEF Without, ClassTable
  <2>8. PruneUp(k, {}) /\ PruneDown(k) /\ HashLive(k) /\ Indexed(k)
    BY <2>4, <2>6, SameClassesKeep
  <2>9. /\ \A m \in DOMAIN k.owner : m \in DOMAIN h.owner /\ k.owner[m] = h.owner[m]
        /\ \A m \in DOMAIN h.owner : Resolved(h, m) = m => m \in DOMAIN k.owner
    BY <1>3, <2>6 DEF Without
  <2>10. /\ k.canon = h.canon /\ k.born = h.born /\ k.dirty = h.dirty
         /\ k.nodes[r] = (h.nodes[r] \ {n}) \cup {nn}
         /\ \A i \in Ids(h) \ {r} : k.nodes[i] = h.nodes[i]
    BY <2>3, <2>5, <2>6 DEF SameClasses
  <2> QED
    BY <1>3, <2>6, <2>7, <2>8, <2>9, <2>10 DEF k
<1>4. CASE ~(nn # n /\ n \in h.nodes[r])
  <2>1. k = h
    BY <1>4 DEF Rekeys
  <2> QED
    BY <1>4, <2>1
<1> QED
  BY <1>3, <1>4
LEMMA ClaimResult ==
  ASSUME NEW h, Tables(h), NEW M, NEW item \in Ids(h) \X Enodes(Ids(h)),
         PruneUp(h, {}), PruneDown(h), HashLive(h), Indexed(h)
  PROVE  LET c == Claim([g |-> h, merges |-> M], item)
         IN  c.g = Claims(h, item) /\ c.merges = Found(h, M, item)
<1> DEFINE r == Find(h, item[1])  nn == Resolved(h, item[2])  k == Rekeys(h, item)
           f == Claims(h, item)
           owner == WithDefault(k.owner, {nn}, r)
           c == Claim([g |-> h, merges |-> M], item)
<1>1. c = IF nn \notin k.nodes[r] THEN [g |-> k, merges |-> M]
          ELSE [g |-> [k EXCEPT !.owner = owner],
                merges |-> IF Find(k, owner[nn]) = r THEN M ELSE Append(M, <<owner[nn], r>>)]
  <2> DEFINE acc == [g |-> h, merges |-> M]
  <2>1. acc.g = h /\ acc.merges = M /\ [acc EXCEPT !.g = k] = [g |-> k, merges |-> M]
    OBVIOUS
  <2>2. c = IF nn \notin k.nodes[r] THEN [acc EXCEPT !.g = k]
            ELSE [g |-> [k EXCEPT !.owner = owner],
                  merges |-> IF Find(k, owner[nn]) = r THEN acc.merges
                             ELSE Append(acc.merges, <<owner[nn], r>>)]
    <3> HIDE DEF acc
    <3>1. c = Claim(acc, item)
      BY DEF acc
    <3> QED
      BY <2>1, <3>1 DEF Claim, Rekeys
  <2> QED
    BY <2>1, <2>2
<1>2. DOMAIN k = Fields
  BY RekeysKeep, RootFacts
<1> HIDE DEF k, c
<1>3. CASE nn \notin k.nodes[r]
  <2>1. f = k
    BY <1>3 DEF Claims, k
  <2> QED
    BY <1>1, <1>3, <2>1 DEF Found, c
<1>4. CASE nn \in k.nodes[r]
  <2>1. f = [k EXCEPT !.owner = owner]
    BY <1>4 DEF Claims, k
  <2>2. f.owner = owner /\ f.nodes = k.nodes /\ f.canon = k.canon
    BY <1>2, <2>1 DEF Fields
  <2>3. c.g = f /\ c.merges = IF Find(k, owner[nn]) = r THEN M ELSE Append(M, <<owner[nn], r>>)
    BY <1>1, <1>4, <2>1
  <2>4. \A i : Find(f, i) = Find(k, i)
    BY <2>2 DEF Find
  <2> HIDE DEF owner, f, r, nn
  <2>5. Found(h, M, item) = IF Find(k, owner[nn]) = r THEN M ELSE Append(M, <<owner[nn], r>>)
    BY <1>4, <2>2, <2>4 DEF Found, f, r, nn
  <2> QED
    BY <2>3, <2>5 DEF c, f
<1> QED
  BY <1>3, <1>4

\* Claiming an item changes, of the tables Rekeys leaves, the owners only.
LEMMA ClaimsShape ==
  ASSUME NEW h, Tables(h), PruneUp(h, {}), PruneDown(h), HashLive(h), Indexed(h),
         NEW item \in Ids(h) \X Enodes(Ids(h))
  PROVE  LET f == Claims(h, item)
             k == Rekeys(h, item)
             r == Find(h, item[1])
             nn == Resolved(h, item[2])
         IN  /\ SameClasses(f, k) /\ f.pend = h.pend
             /\ f.canon = h.canon /\ f.born = h.born /\ f.dirty = h.dirty
             /\ \A m \in DOMAIN k.owner : m \in DOMAIN f.owner /\ f.owner[m] = k.owner[m]
             /\ \A m \in DOMAIN f.owner :
                  m \in DOMAIN k.owner \/ (m = nn /\ nn \in f.nodes[r] /\ f.owner[m] = r)
             /\ nn \in f.nodes[r] => nn \in DOMAIN f.owner
             /\ Tables(f) /\ PruneUp(f, {}) /\ PruneDown(f) /\ HashLive(f) /\ Indexed(f)
<1> DEFINE f == Claims(h, item)  k == Rekeys(h, item)
           r == Find(h, item[1])  nn == Resolved(h, item[2])
<1>1. /\ Tables(k) /\ PruneUp(k, {}) /\ PruneDown(k) /\ HashLive(k) /\ Indexed(k)
      /\ k.canon = h.canon /\ k.born = h.born /\ k.pend = h.pend /\ k.dirty = h.dirty
  BY RekeysKeep
<1>2. f = IF nn \in k.nodes[r] THEN [k EXCEPT !.owner = WithDefault(@, {nn}, r)] ELSE k
  BY DEF Claims
<1>3. /\ DOMAIN k = Fields /\ ClassTable(k, k.owner) /\ k.pend \subseteq Ids(k) \X Enodes(Ids(k))
  BY <1>1, RootFacts
<1>4. nn \in Enodes(Ids(k)) /\ r \in Ids(k)
  <2>1. Ids(k) = Ids(h)
    BY <1>1 DEF Ids
  <2> QED
    BY <2>1, RootFacts, ResolvedEnode
<1> HIDE DEF f, k, r, nn
<1>5. SameClasses(f, k) /\ f.pend = k.pend
  BY <1>2, <1>3 DEF SameClasses, Fields
<1>6. f.owner = IF nn \in k.nodes[r] THEN WithDefault(k.owner, {nn}, r) ELSE k.owner
  BY <1>2, <1>3 DEF Fields
<1>7. f.nodes = k.nodes /\ f.canon = k.canon /\ f.born = k.born /\ f.dirty = k.dirty
  BY <1>5 DEF SameClasses
<1>8. /\ \A m \in DOMAIN k.owner : m \in DOMAIN f.owner /\ f.owner[m] = k.owner[m]
      /\ \A m \in DOMAIN f.owner :
           m \in DOMAIN k.owner \/ (m = nn /\ nn \in f.nodes[r] /\ f.owner[m] = r)
      /\ nn \in f.nodes[r] => nn \in DOMAIN f.owner
  BY <1>6, <1>7 DEF WithDefault
<1>9. Tables(f)
  <2>1. DOMAIN f.owner \subseteq Enodes(Ids(k)) /\ \A m \in DOMAIN f.owner : f.owner[m] \in Ids(k)
    BY <1>3, <1>4, <1>8 DEF ClassTable
  <2> QED
    BY <1>1, <1>3, <1>5, <2>1, SameClassesTables
<1>10. PruneUp(f, {}) /\ PruneDown(f) /\ HashLive(f) /\ Indexed(f)
  BY <1>1, <1>5, SameClassesKeep
<1> QED
  BY <1>1, <1>5, <1>7, <1>8, <1>9, <1>10 DEF f, k, r, nn

LEMMA ClaimKeeps ==
  ASSUME NEW h, Tables(h), PruneUp(h, {}), PruneDown(h), HashLive(h), Indexed(h),
         NEW M \in Seq(Ids(h) \X Ids(h)),
         NEW P, NEW P2, NEW item \in Ids(h) \X Enodes(Ids(h)),
         P \subseteq P2 \cup {item}, P \subseteq Ids(h) \X Enodes(Ids(h)), Covered(h, P, M)
  PROVE  /\ Covered(Claims(h, item), P2, Found(h, M, item))
         /\ Found(h, M, item) \in Seq(Ids(h) \X Ids(h))
<1> DEFINE f == Claims(h, item)  k == Rekeys(h, item)  M2 == Found(h, M, item)
           r == Find(h, item[1])  n == item[2]  nn == Resolved(h, n)
<1>1. /\ \A i \in Ids(h) \ {r} : k.nodes[i] = h.nodes[i]
      /\ k.nodes[r] \subseteq h.nodes[r] \cup {nn}
      /\ n \in k.nodes[r] => nn = n
      /\ \A m \in DOMAIN k.owner : m \in DOMAIN h.owner /\ k.owner[m] = h.owner[m]
      /\ \A m \in DOMAIN h.owner : Resolved(h, m) = m => m \in DOMAIN k.owner
  BY RekeysKeep
<1>2. /\ SameClasses(f, k) /\ f.canon = h.canon
      /\ \A m \in DOMAIN k.owner : m \in DOMAIN f.owner /\ f.owner[m] = k.owner[m]
      /\ nn \in f.nodes[r] => nn \in DOMAIN f.owner
      /\ Tables(f)
  BY ClaimsShape
<1>3. /\ Roots(h) \subseteq Ids(h) /\ \A i \in Roots(h) : Find(h, i) = i
      /\ item[1] \in Ids(h) /\ r \in Ids(h) /\ r \in Roots(h) /\ n \in Enodes(Ids(h)) /\ Forest(h)
      /\ ClassTable(h, h.owner)
  BY RootFacts
<1>4. Resolved(h, nn) = nn
  BY <1>3, ResolvedEnode
<1>5. M2 = IF nn \in f.nodes[r] /\ Find(f, f.owner[nn]) # r
           THEN Append(M, <<f.owner[nn], r>>) ELSE M
  BY DEF Found
<1> HIDE DEF f, k, M2, r, nn
<1>6. /\ Roots(f) = Roots(h) /\ Ids(f) = Ids(h) /\ f.nodes = k.nodes
      /\ \A i : Find(f, i) = Find(h, i)
      /\ \A m : Resolved(f, m) = Resolved(h, m)
  BY <1>2 DEF SameClasses, Ids, Roots, Find, Resolved
<1>7. nn \in f.nodes[r] => f.owner[nn] \in Ids(h)
  BY <1>2, <1>6 DEF Tables, ClassTable
<1>8. M2 \in Seq(Ids(h) \X Ids(h))
  <2>1. CASE nn \in f.nodes[r] /\ Find(f, f.owner[nn]) # r
    <3>1. <<f.owner[nn], r>> \in Ids(h) \X Ids(h)
      BY <1>3, <1>7, <2>1
    <3> QED
      BY <1>5, <2>1, <3>1, AppendProperties
  <2> QED
    BY <1>5, <2>1
<1>9. \A j \in DOMAIN M : j \in DOMAIN M2 /\ M2[j] = M[j]
  <2>1. CASE nn \in f.nodes[r] /\ Find(f, f.owner[nn]) # r
    <3> DEFINE p == <<f.owner[nn], r>>
    <3>1. p \in Ids(h) \X Ids(h)
      BY <1>3, <1>7, <2>1
    <3> HIDE DEF p
    <3>2. \A j \in 1 .. Len(M) : Append(M, p)[j] = M[j]
      BY <3>1, AppendFacts
    <3>3. DOMAIN Append(M, p) = 1 .. Len(M) + 1 /\ DOMAIN M = 1 .. Len(M) /\ Len(M) \in Nat
      BY <3>1, LenProperties, AppendProperties
    <3> QED
      BY <1>5, <2>1, <3>2, <3>3 DEF p
  <2> QED
    BY <1>5, <2>1
<1>10. nn \in f.nodes[r] => Owned(f, M2, r, nn)
  <2> SUFFICES ASSUME nn \in f.nodes[r] PROVE Owned(f, M2, r, nn)
    OBVIOUS
  <2>1. CASE Find(f, f.owner[nn]) = r
    BY <1>2, <1>4, <1>6, <2>1 DEF Owned
  <2>2. CASE Find(f, f.owner[nn]) # r
    <3> DEFINE p == <<f.owner[nn], r>>
    <3>1. p \in Ids(h) \X Ids(h) /\ p[1] = f.owner[nn] /\ p[2] = r
      BY <1>3, <1>7
    <3> HIDE DEF p
    <3>2. M2 = Append(M, p)
      BY <1>5, <2>2 DEF p
    <3>3. DOMAIN M2 = 1 .. Len(M) + 1 /\ Len(M) \in Nat /\ M2[Len(M) + 1] = p
      BY <3>1, <3>2, LenProperties, AppendProperties
    <3>4. {Find(f, p[1]), Find(f, p[2])} = {Find(f, f.owner[nn]), r}
      BY <1>3, <1>6, <3>1
    <3>5. Len(M) + 1 \in DOMAIN M2
      BY <3>3
    <3>6. Pending(f, M2, Find(f, f.owner[nn]), r)
      BY <3>3, <3>4, <3>5 DEF Pending
    <3> QED
      BY <1>2, <1>4, <1>6, <3>6 DEF Owned
  <2> QED
    BY <2>1, <2>2
<1>11. Covered(f, P2, M2)
  <2> SUFFICES ASSUME NEW s \in Roots(h), NEW m \in f.nodes[s]
               PROVE  Waits(f, P2, s, m) \/ Owned(f, M2, s, m)
    BY <1>6 DEF Covered
  <2>0. s \in Ids(h)
    BY <1>3
  <2>1. m \in h.nodes[s] \/ (s = r /\ m = nn)
    BY <1>1, <1>6, <2>0
  <2>2. CASE s = r /\ m = nn
    BY <1>10, <2>2
  <2>3. CASE m \in h.nodes[s] /\ Waits(h, P, s, m)
    <3>1. PICK w \in P : Find(h, w[1]) = s /\ w[2] = m
      BY <2>3 DEF Waits
    <3>2. CASE w \in P2
      BY <1>6, <3>1, <3>2 DEF Waits
    <3>3. CASE w = item
      <4>1. s = r /\ m = n
        BY <3>1, <3>3 DEF r
      <4>2. m = nn
        BY <1>1, <1>6, <4>1
      <4> QED
        BY <1>10, <4>1, <4>2
    <3> QED
      BY <3>2, <3>3
  <2>4. CASE m \in h.nodes[s] /\ Owned(h, M, s, m)
    <3>1. /\ Resolved(h, m) = m /\ m \in DOMAIN h.owner
          /\ Find(h, h.owner[m]) = s \/ Pending(h, M, Find(h, h.owner[m]), s)
      BY <2>4 DEF Owned
    <3>2. m \in DOMAIN f.owner /\ f.owner[m] = h.owner[m]
      BY <1>1, <1>2, <3>1
    <3>3. \A a : Pending(h, M, a, s) => Pending(f, M2, a, s)
      BY <1>6, <1>9 DEF Pending
    <3> QED
      BY <1>6, <3>1, <3>2, <3>3 DEF Owned
  <2> QED
    BY <2>1, <2>2, <2>3, <2>4 DEF Covered
<1> QED
  BY <1>8, <1>11 DEF f, M2
-----------------------------------------------------------------------------
(* The inductive invariant of the machine. *)

Graph(h, W, K, M) ==
  /\ Tables(h) /\ Numbered(h)
  /\ W \subseteq Ids(h) /\ K \subseteq Ids(h) \X Enodes(Ids(h)) /\ M \in Seq(Ids(h) \X Ids(h))
  /\ PruneUp(h, W) /\ PruneDown(h) /\ HashLive(h) /\ Indexed(h)
  /\ Covered(h, h.pend \cup K, M)

IInv == Graph(g, walk, work, merges)

LEMMA InitEstablishes == Init => IInv
<1> SUFFICES ASSUME Init PROVE IInv
  OBVIOUS
<1>1. PICK track \in BOOLEAN : g = Empty(track)
  BY DEF Init
<1>2. /\ DOMAIN g = Fields
      /\ g.canon = <<>> /\ g.nodes = <<>> /\ g.parents = <<>> /\ g.born = <<>>
      /\ g.cons = <<>> /\ g.owner = <<>> /\ g.pend = {} /\ g.dirty = {} /\ g.opk = {}
  BY <1>1 DEF Empty, Fields
<1>3. \A S : DOMAIN <<>> = {} /\ <<>> \in [{} -> S] /\ Len(<<>>) = 0 /\ 1 .. 0 = {} /\ <<>> \in Seq(S)
  OBVIOUS
<1>4. Ids(g) = {} /\ Roots(g) = {} /\ Frontier(g) = {} /\ Numbered(g)
  BY <1>2, <1>3 DEF Ids, Roots, Frontier, Numbered
<1>5. Tables(g)
  BY <1>2, <1>3, <1>4 DEF Tables, Forest, ClassTable
<1>6. PruneUp(g, walk) /\ PruneDown(g) /\ HashLive(g) /\ Indexed(g)
  BY <1>2, <1>3, <1>4 DEF PruneUp, PruneDown, HashLive, Indexed
<1>7. Covered(g, g.pend \cup work, merges)
  BY <1>4 DEF Covered
<1> QED
  BY <1>3, <1>4, <1>5, <1>6, <1>7 DEF IInv, Graph, Init

LEMMA WinnerLoser ==
  ASSUME NEW h, NEW ra, NEW rb
  PROVE  /\ {Winner(h, ra, rb), Loser(h, ra, rb)} = {ra, rb}
         /\ ra # rb => Winner(h, ra, rb) # Loser(h, ra, rb)
BY DEF Winner, Loser

LEMMA AddKeeps ==
  ASSUME NEW h, Graph(h, {}, {}, <<>>), NEW n \in Enodes(Roots(h)), n \notin DOMAIN h.cons
  PROVE  Graph(AddNode(h, n), {}, {}, <<>>)
<1> DEFINE f == AddNode(h, n)
<1>1. /\ Tables(h) /\ Numbered(h) /\ PruneUp(h, {}) /\ PruneDown(h) /\ HashLive(h) /\ Indexed(h)
      /\ Covered(h, h.pend, <<>>)
  BY DEF Graph
<1>2. Tables(f) /\ Numbered(f)
  BY <1>1, AddNodeKeepsTables, AddNodeShape
<1>3. PruneUp(f, {}) /\ PruneDown(f)
  BY <1>1, AddNodePrunes
<1>4. HashLive(f) /\ Indexed(f) /\ Covered(f, f.pend, <<>>)
  BY <1>1, AddNodeCovers
<1>5. f.pend \cup {} = f.pend /\ <<>> \in Seq(Ids(f) \X Ids(f))
  OBVIOUS
<1> QED
  BY <1>2, <1>3, <1>4, <1>5 DEF Graph

LEMMA MergeKeeps ==
  ASSUME NEW h, NEW M, NEW M2, Graph(h, {}, {}, M), M2 \in Seq(Ids(h) \X Ids(h)),
         NEW w \in Roots(h), NEW l \in Roots(h), w # l,
         \A j \in DOMAIN M :
           \/ \E k \in DOMAIN M2 : M2[k] = M[j]
           \/ {Find(h, M[j][1]), Find(h, M[j][2])} = {w, l}
           \/ Find(h, M[j][1]) = Find(h, M[j][2])
  PROVE  Graph(Merge(h, w, l), {w}, {}, M2)
<1> DEFINE f == Merge(h, w, l)
<1>1. /\ Tables(h) /\ Numbered(h) /\ PruneUp(h, {}) /\ PruneDown(h) /\ HashLive(h) /\ Indexed(h)
      /\ Covered(h, h.pend, M) /\ M \in Seq(Ids(h) \X Ids(h))
  BY DEF Graph
<1>2. Tables(f) /\ Ids(f) = Ids(h) /\ w \in Ids(h)
  BY <1>1, MergeKeepsTables, MergeShape, RootFacts
<1>3. Numbered(f)
  <2>1. f.canon \in [Ids(h) -> Ids(h)]
    BY <1>2 DEF Tables, Forest
  <2>2. Ids(h) = 1 .. Len(h.canon) /\ Len(h.canon) \in Nat
    BY <1>1 DEF Numbered
  <2>3. Len(f.canon) = Len(h.canon)
    BY <2>1, <2>2
  <2> QED
    BY <1>2, <2>2, <2>3 DEF Numbered
<1>4. PruneUp(f, {w}) /\ PruneDown(f) /\ HashLive(f) /\ Indexed(f)
  BY <1>1, MergePrunes, MergeKeepsHashLive, MergeKeepsIndexed
<1>5. Pairs(h, M)
  <2>1. \A j \in DOMAIN M : M[j] \in Ids(h) \X Ids(h)
    BY <1>1
  <2> QED
    BY <2>1 DEF Pairs
<1>6. Covered(f, f.pend, M2)
  BY <1>1, <1>5, MergeCovers
<1>7. f.pend \cup {} = f.pend
  OBVIOUS
<1> QED
  BY <1>2, <1>3, <1>4, <1>6, <1>7 DEF Graph

\* A pair whose classes are one already needs no merge.
LEMMA DropMerge ==
  ASSUME NEW h, NEW P, NEW M, NEW M2, Covered(h, P, M),
         \A j \in DOMAIN M : \/ \E k \in DOMAIN M2 : M2[k] = M[j]
                             \/ Find(h, M[j][1]) = Find(h, M[j][2])
  PROVE  Covered(h, P, M2)
<1>1. \A a, r : Pending(h, M, a, r) => a = r \/ Pending(h, M2, a, r)
  <2> SUFFICES ASSUME NEW a, NEW r, NEW j \in DOMAIN M,
                      {Find(h, M[j][1]), Find(h, M[j][2])} = {a, r}
               PROVE  a = r \/ Pending(h, M2, a, r)
    BY DEF Pending
  <2>1. CASE \E k \in DOMAIN M2 : M2[k] = M[j]
    BY <2>1 DEF Pending
  <2>2. CASE Find(h, M[j][1]) = Find(h, M[j][2])
    BY <2>2, PairsMap
  <2> QED
    BY <2>1, <2>2
<1>2. \A r, n : Owned(h, M, r, n) => Owned(h, M2, r, n)
  BY <1>1 DEF Owned
<1> QED
  BY <1>2 DEF Covered

LEMMA SameCovered ==
  ASSUME NEW h, NEW f, f.canon = h.canon, f.nodes = h.nodes, f.owner = h.owner,
         NEW P, NEW M, Covered(h, P, M)
  PROVE  Covered(f, P, M)
<1>1. /\ Roots(f) = Roots(h) /\ \A i : Find(f, i) = Find(h, i)
      /\ \A n : Resolved(f, n) = Resolved(h, n)
  BY DEF Roots, Find, Resolved
<1>2. \A r, n : Waits(h, P, r, n) => Waits(f, P, r, n)
  BY <1>1 DEF Waits
<1>3. \A a, r : Pending(h, M, a, r) => Pending(f, M, a, r)
  BY <1>1 DEF Pending
<1>4. \A r, n : Owned(h, M, r, n) => Owned(f, M, r, n)
  BY <1>1, <1>3 DEF Owned
<1> QED
  BY <1>1, <1>2, <1>4 DEF Covered

\* One class visited: its parents become dirty, and are visited next.
LEMMA WalkKeeps ==
  ASSUME NEW h, NEW W, NEW K, NEW M, Graph(h, W, K, M), NEW c \in W
  PROVE  Graph([h EXCEPT !.dirty = @ \cup Above(h, c)], (W \ {c}) \cup Above(h, c), K, M)
<1> DEFINE U == Above(h, c)  f == [h EXCEPT !.dirty = @ \cup U]  V == (W \ {c}) \cup U
<1>1. /\ Tables(h) /\ Numbered(h) /\ PruneUp(h, W) /\ PruneDown(h) /\ HashLive(h) /\ Indexed(h)
      /\ Covered(h, h.pend \cup K, M) /\ c \in Ids(h) /\ W \subseteq Ids(h)
      /\ K \subseteq Ids(h) \X Enodes(Ids(h)) /\ M \in Seq(Ids(h) \X Ids(h))
  BY DEF Graph
<1>2. /\ DOMAIN h = Fields /\ h.parents[c] \subseteq Ids(h) /\ h.dirty \subseteq Ids(h)
      /\ \A i \in Ids(h) : Find(h, i) \in Ids(h) /\ Find(h, Find(h, i)) = Find(h, i)
  BY <1>1, RootFacts DEF Forest
<1>3. U \subseteq Ids(h) /\ \A i \in U : Find(h, i) = i
  BY <1>2 DEF Above
<1>4. \A p \in h.parents[c] : Find(h, p) \in h.dirty \cup U
  BY DEF Above
<1> HIDE DEF U
<1>5. /\ DOMAIN f = Fields /\ f.dirty = h.dirty \cup U
      /\ f.canon = h.canon /\ f.nodes = h.nodes /\ f.parents = h.parents /\ f.born = h.born
      /\ f.cons = h.cons /\ f.owner = h.owner /\ f.pend = h.pend /\ f.opk = h.opk
  BY <1>2 DEF Fields
<1> HIDE DEF f
<1>6. /\ Ids(f) = Ids(h) /\ Roots(f) = Roots(h)
      /\ \A i : Find(f, i) = Find(h, i)
      /\ \A n : Resolved(f, n) = Resolved(h, n)
  BY <1>5 DEF Ids, Roots, Find, Resolved
<1>7. Tables(f) /\ Numbered(f)
  <2>1. Forest(f)
    BY <1>1, <1>5, <1>6 DEF Tables, Forest
  <2> QED
    BY <1>1, <1>2, <1>3, <1>5, <1>6, <2>1 DEF Tables, ClassTable, Numbered
<1>8. PruneUp(f, V)
  <2>1. Frontier(f) = Frontier(h) \cup U
    BY <1>3, <1>5, <1>6 DEF Frontier
  <2> SUFFICES ASSUME NEW d \in Frontier(f) \ V, NEW p \in h.parents[d]
               PROVE  Find(h, p) \in Frontier(f)
    BY <1>5, <1>6 DEF PruneUp
  <2>2. CASE d = c
    <3>1. p \in Ids(h) /\ Find(h, p) \in f.dirty
      BY <1>2, <1>4, <1>5, <2>2
    <3>2. Find(f, Find(h, p)) = Find(h, p)
      BY <1>2, <1>6, <3>1
    <3> QED
      BY <3>1, <3>2 DEF Frontier
  <2>3. CASE d # c
    <3>1. d \in Frontier(h) \ W
      BY <2>1, <2>3
    <3> QED
      BY <1>1, <2>1, <3>1 DEF PruneUp
  <2> QED
    BY <2>2, <2>3
<1>9. PruneDown(f) /\ HashLive(f) /\ Indexed(f)
  BY <1>1, <1>5, <1>6 DEF PruneDown, HashLive, Indexed
<1>10. Covered(f, f.pend \cup K, M)
  BY <1>1, <1>5, SameCovered
<1>11. V \subseteq Ids(h)
  BY <1>1, <1>3
<1> QED
  BY <1>1, <1>6, <1>7, <1>8, <1>9, <1>10, <1>11 DEF Graph, f, U
LEMMA TakeFrontierKeeps ==
  ASSUME NEW h, NEW M, Graph(h, {}, {}, M)
  PROVE  Graph(Cleared(h), {}, {}, M)
<1> DEFINE f == Cleared(h)
<1>1. /\ Tables(h) /\ Numbered(h) /\ PruneDown(h) /\ HashLive(h) /\ Indexed(h)
      /\ Covered(h, h.pend \cup {}, M) /\ M \in Seq(Ids(h) \X Ids(h)) /\ DOMAIN h = Fields
  BY DEF Graph, Tables
<1>2. /\ DOMAIN f = Fields /\ f.dirty = {}
      /\ f.canon = h.canon /\ f.nodes = h.nodes /\ f.parents = h.parents /\ f.born = h.born
      /\ f.cons = h.cons /\ f.owner = h.owner /\ f.pend = h.pend /\ f.opk = h.opk
  BY <1>1 DEF Cleared, Fields
<1> HIDE DEF f
<1>3. /\ Ids(f) = Ids(h) /\ Roots(f) = Roots(h)
      /\ \A i : Find(f, i) = Find(h, i)
      /\ \A n : Resolved(f, n) = Resolved(h, n)
  BY <1>2 DEF Ids, Roots, Find, Resolved
<1>4. Tables(f) /\ Numbered(f)
  <2>1. Forest(f)
    BY <1>1, <1>2, <1>3 DEF Tables, Forest
  <2> QED
    BY <1>1, <1>2, <1>3, <2>1 DEF Tables, ClassTable, Numbered
<1>5. PruneUp(f, {})
  BY <1>2 DEF PruneUp, Frontier
<1>6. PruneDown(f) /\ HashLive(f) /\ Indexed(f)
  BY <1>1, <1>2, <1>3 DEF PruneDown, HashLive, Indexed
<1>7. Covered(f, f.pend \cup {}, M)
  BY <1>1, <1>2, SameCovered
<1> QED
  BY <1>1, <1>3, <1>4, <1>5, <1>6, <1>7 DEF Graph, f

LEMMA TakeWorkKeeps ==
  ASSUME NEW h, NEW M, Graph(h, {}, {}, M)
  PROVE  Graph([h EXCEPT !.pend = {}], {}, h.pend, M)
<1> DEFINE f == [h EXCEPT !.pend = {}]
<1>1. /\ Tables(h) /\ Numbered(h) /\ PruneUp(h, {}) /\ PruneDown(h) /\ HashLive(h) /\ Indexed(h)
      /\ Covered(h, h.pend \cup {}, M) /\ M \in Seq(Ids(h) \X Ids(h))
      /\ h.pend \subseteq Ids(h) \X Enodes(Ids(h)) /\ ClassTable(h, h.owner) /\ DOMAIN h = Fields
  BY DEF Graph, Tables
<1>2. SameClasses(f, h) /\ f.owner = h.owner /\ f.pend = {}
  BY <1>1 DEF SameClasses, Fields
<1> HIDE DEF f
<1>3. Tables(f)
  BY <1>1, <1>2, SameClassesTables DEF ClassTable
<1>4. /\ Ids(f) = Ids(h) /\ PruneUp(f, {}) /\ PruneDown(f) /\ HashLive(f) /\ Indexed(f)
  BY <1>1, <1>2, SameClassesKeep
<1>5. Numbered(f)
  BY <1>1, <1>2, <1>4 DEF Numbered, SameClasses
<1>6. Covered(f, f.pend \cup h.pend, M)
  <2>1. f.pend \cup h.pend = h.pend \cup {}
    BY <1>2
  <2> QED
    BY <1>1, <1>2, <2>1, SameCovered DEF SameClasses
<1> QED
  BY <1>1, <1>3, <1>4, <1>5, <1>6 DEF Graph, f

LEMMA CanonicaliseRootKeeps ==
  ASSUME NEW h, Graph(h, {}, {}, <<>>), NEW r \in Roots(h)
  PROVE  Graph(CanonicaliseClass(h, r), {}, {}, <<>>)
<1> DEFINE f == CanonicaliseClass(h, r)
<1>1. /\ Tables(h) /\ Numbered(h) /\ PruneUp(h, {}) /\ PruneDown(h) /\ HashLive(h) /\ Indexed(h)
      /\ Covered(h, h.pend, <<>>)
  BY DEF Graph
<1>2. /\ Tables(f) /\ PruneUp(f, {}) /\ PruneDown(f) /\ HashLive(f) /\ Indexed(f)
      /\ Covered(f, f.pend, <<>>)
  BY <1>1, CanonicaliseKeeps
<1>3. f.canon = h.canon
  <2>1. DOMAIN h = Fields
    BY <1>1 DEF Tables
  <2> QED
    BY <2>1, CanonicaliseTables, RekeyTables DEF SameClasses
<1>4. Numbered(f)
  BY <1>1, <1>3 DEF Numbered, Ids
<1>5. f.pend \cup {} = f.pend /\ <<>> \in Seq(Ids(f) \X Ids(f))
  OBVIOUS
<1> QED
  BY <1>2, <1>4, <1>5 DEF Graph

LEMMA ClaimItemKeeps ==
  ASSUME NEW h, NEW K, NEW M, Graph(h, {}, K, M), NEW item \in K
  PROVE  LET c == Claim([g |-> h, merges |-> M], item)
         IN  Graph(c.g, {}, K \ {item}, c.merges)
<1> DEFINE f == Claims(h, item)  M2 == Found(h, M, item)  P == h.pend \cup K
<1>1. /\ Tables(h) /\ Numbered(h) /\ PruneUp(h, {}) /\ PruneDown(h) /\ HashLive(h) /\ Indexed(h)
      /\ Covered(h, P, M) /\ M \in Seq(Ids(h) \X Ids(h))
      /\ item \in Ids(h) \X Enodes(Ids(h)) /\ K \subseteq Ids(h) \X Enodes(Ids(h))
      /\ P \subseteq Ids(h) \X Enodes(Ids(h))
  BY RootFacts DEF Graph
<1>2. /\ Claim([g |-> h, merges |-> M], item).g = f
      /\ Claim([g |-> h, merges |-> M], item).merges = M2
  BY <1>1, ClaimResult
<1>3. /\ Tables(f) /\ PruneUp(f, {}) /\ PruneDown(f) /\ HashLive(f) /\ Indexed(f)
      /\ f.pend = h.pend /\ f.canon = h.canon
  BY <1>1, ClaimsShape
<1>4. P \subseteq (f.pend \cup (K \ {item})) \cup {item}
  BY <1>3
<1>5. Covered(f, f.pend \cup (K \ {item}), M2) /\ M2 \in Seq(Ids(h) \X Ids(h))
  BY <1>1, <1>4, ClaimKeeps
<1>6. Numbered(f) /\ Ids(f) = Ids(h)
  BY <1>1, <1>3 DEF Numbered, Ids
<1> QED
  BY <1>1, <1>2, <1>3, <1>5, <1>6 DEF Graph

\* The rest of the merges still holds every pair but the first.
LEMMA TailFacts ==
  ASSUME NEW S, NEW M \in Seq(S), M # <<>>
  PROVE  /\ Head(M) = M[1] /\ M[1] \in S /\ Tail(M) \in Seq(S)
         /\ \A j \in DOMAIN M : j = 1 \/ \E k \in DOMAIN Tail(M) : Tail(M)[k] = M[j]
<1>1. /\ Len(M) \in Nat /\ Len(M) > 0 /\ DOMAIN M = 1 .. Len(M)
      /\ Head(M) = M[1] /\ M[1] \in S /\ Tail(M) \in Seq(S) /\ Len(Tail(M)) = Len(M) - 1
      /\ DOMAIN Tail(M) = 1 .. Len(M) - 1
      /\ \A k \in 1 .. Len(M) - 1 : Tail(M)[k] = M[k + 1]
  OBVIOUS
<1>2. ASSUME NEW j \in DOMAIN M, j # 1
      PROVE  \E k \in DOMAIN Tail(M) : Tail(M)[k] = M[j]
  <2>1. j - 1 \in 1 .. Len(M) - 1 /\ (j - 1) + 1 = j
    BY <1>1, <1>2
  <2> QED
    BY <1>1, <2>1
<1> QED
  BY <1>1, <1>2

\* The enode of an Add has roots for children.
LEMMA NewEnode ==
  ASSUME NEW S, NEW op \in Ops, NEW key \in Keys, NEW k \in Nat, NEW kids \in [1 .. k -> S]
  PROVE  <<op, kids, key>> \in Enodes(S)
<1>1. kids \in Seq(S)
  OBVIOUS
<1> QED
  BY <1>1 DEF Enodes

LEMMA NextKeeps == IInv /\ [Next]_vars => IInv'
<1> SUFFICES ASSUME IInv, [Next]_vars PROVE IInv'
  OBVIOUS
<1>0. Graph(g, walk, work, merges)
  BY DEF IInv
<1>1. CASE Add
  <2>1. PICK op \in Ops, key \in Keys, k \in (0 .. MaxArity) \cap Nat :
          \E kids \in [1 .. k -> Roots(g)] :
            /\ <<op, kids, key>> \notin DOMAIN g.cons
            /\ g' = AddNode(g, <<op, kids, key>>)
    BY <1>1 DEF Add
  <2>2. PICK kids \in [1 .. k -> Roots(g)] :
          /\ <<op, kids, key>> \notin DOMAIN g.cons
          /\ g' = AddNode(g, <<op, kids, key>>)
    BY <2>1
  <2>3. <<op, kids, key>> \in Enodes(Roots(g))
    BY NewEnode
  <2>4. /\ walk = {} /\ work = {} /\ merges = <<>>
        /\ walk' = {} /\ work' = {} /\ merges' = <<>>
    BY <1>1 DEF Add, quiet
  <2>5. Graph(g', {}, {}, <<>>)
    BY <1>0, <2>2, <2>3, <2>4, AddKeeps
  <2> QED
    BY <2>4, <2>5 DEF IInv
<1>2. ASSUME NEW ra \in Roots(g), NEW rb \in Roots(g), Link(ra, rb), walk = {}, work = {}, work' = {},
             merges' \in Seq(Ids(g) \X Ids(g)),
             \A j \in DOMAIN merges :
               \/ \E k \in DOMAIN merges' : merges'[k] = merges[j]
               \/ Find(g, merges[j][1]) = ra /\ Find(g, merges[j][2]) = rb
      PROVE  IInv'
  <2> DEFINE w == Winner(g, ra, rb)  l == Loser(g, ra, rb)
  <2>1. g' = Merge(g, w, l) /\ walk' = {w} /\ ra # rb
    BY <1>2 DEF Link
  <2>2. w \in Roots(g) /\ l \in Roots(g) /\ w # l /\ {w, l} = {ra, rb}
    BY <2>1, WinnerLoser DEF Winner, Loser
  <2> HIDE DEF w, l
  <2>3. \A j \in DOMAIN merges :
          \/ \E k \in DOMAIN merges' : merges'[k] = merges[j]
          \/ {Find(g, merges[j][1]), Find(g, merges[j][2])} = {w, l}
    BY <1>2, <2>2
  <2>4. Graph(g, {}, {}, merges)
    BY <1>0, <1>2
  <2>5. Graph(Merge(g, w, l), {w}, {}, merges')
    BY <1>2, <2>2, <2>3, <2>4, MergeKeeps
  <2> QED
    BY <1>2, <2>1, <2>5 DEF IInv
<1>3. CASE Unite
  <2>1. PICK a \in DOMAIN g.canon, b \in DOMAIN g.canon : Link(Find(g, a), Find(g, b))
    BY <1>3 DEF Unite
  <2>2. Find(g, a) \in Roots(g) /\ Find(g, b) \in Roots(g)
    BY <1>0, RootFacts DEF Graph, Ids
  <2>3. walk = {} /\ work = {} /\ merges = <<>> /\ work' = {} /\ merges' = <<>>
    BY <1>3 DEF Unite, quiet
  <2>4. <<>> \in Seq(Ids(g) \X Ids(g)) /\ DOMAIN <<>> = {}
    OBVIOUS
  <2> QED
    BY <1>2, <2>1, <2>2, <2>3, <2>4
<1>4. CASE WalkUp
  <2>1. PICK c \in walk : /\ g' = [g EXCEPT !.dirty = @ \cup Above(g, c)]
                          /\ walk' = (walk \ {c}) \cup Above(g, c)
    BY <1>4 DEF WalkUp
  <2>2. work' = work /\ merges' = merges
    BY <1>4 DEF WalkUp
  <2> QED
    BY <1>0, <2>1, <2>2, WalkKeeps DEF IInv
<1>5. CASE TakeFrontier
  <2>1. /\ walk = {} /\ work = {} /\ g' = Cleared(g)
        /\ walk' = {} /\ work' = {} /\ merges' = merges
    BY <1>5 DEF TakeFrontier, quiet
  <2> QED
    BY <1>0, <2>1, TakeFrontierKeeps DEF IInv
<1>6. CASE CanonicaliseRoot
  <2>1. PICK r \in Roots(g) : g' = CanonicaliseClass(g, r)
    BY <1>6 DEF CanonicaliseRoot
  <2>2. /\ walk = {} /\ work = {} /\ merges = <<>>
        /\ walk' = {} /\ work' = {} /\ merges' = <<>>
    BY <1>6 DEF CanonicaliseRoot, quiet
  <2> QED
    BY <1>0, <2>1, <2>2, CanonicaliseRootKeeps DEF IInv
<1>7. CASE TakeWork
  <2>1. /\ walk = {} /\ work = {} /\ g' = [g EXCEPT !.pend = {}]
        /\ walk' = {} /\ work' = g.pend /\ merges' = merges
    BY <1>7 DEF TakeWork, quiet
  <2> QED
    BY <1>0, <2>1, TakeWorkKeeps DEF IInv
<1>8. CASE ClaimItem
  <2>1. PICK item \in work :
          /\ g' = Claim([g |-> g, merges |-> merges], item).g
          /\ merges' = Claim([g |-> g, merges |-> merges], item).merges
          /\ work' = work \ {item}
    BY <1>8 DEF ClaimItem
  <2>2. walk = {} /\ walk' = {}
    BY <1>8 DEF ClaimItem
  <2> QED
    BY <1>0, <2>1, <2>2, ClaimItemKeeps DEF IInv
<1>9. CASE MergeNext
  <2> DEFINE S == Ids(g) \X Ids(g)
             ra == Find(g, Head(merges)[1])  rb == Find(g, Head(merges)[2])
  <2>1. /\ walk = {} /\ work = {} /\ merges # <<>> /\ work' = {} /\ merges' = Tail(merges)
        /\ Link(ra, rb) \/ (ra = rb /\ g' = g /\ walk' = {})
    BY <1>9 DEF MergeNext
  <2>2. merges \in Seq(S)
    BY <1>0 DEF Graph
  <2> HIDE DEF S
  <2>3. /\ Head(merges) = merges[1] /\ merges[1] \in S /\ merges' \in Seq(S)
        /\ \A j \in DOMAIN merges : j = 1 \/ \E k \in DOMAIN merges' : merges'[k] = merges[j]
    BY <2>1, <2>2, TailFacts
  <2>4. ra \in Roots(g) /\ rb \in Roots(g)
    BY <1>0, <2>3, RootFacts DEF Graph, S
  <2>5. CASE Link(ra, rb)
    <3>1. \A j \in DOMAIN merges :
            \/ \E k \in DOMAIN merges' : merges'[k] = merges[j]
            \/ Find(g, merges[j][1]) = ra /\ Find(g, merges[j][2]) = rb
      BY <2>3
    <3>2. merges' \in Seq(Ids(g) \X Ids(g))
      BY <2>3 DEF S
    <3> QED
      BY <1>2, <2>1, <2>4, <2>5, <3>1, <3>2
  <2>6. CASE ra = rb /\ g' = g /\ walk' = {}
    <3>1. \A j \in DOMAIN merges :
            \/ \E k \in DOMAIN merges' : merges'[k] = merges[j]
            \/ Find(g, merges[j][1]) = Find(g, merges[j][2])
      BY <2>3, <2>6
    <3>2. Covered(g, g.pend \cup work, merges)
      BY <1>0 DEF Graph
    <3>3. Covered(g, g.pend \cup work, merges')
      BY <3>1, <3>2, DropMerge
    <3>4. Graph(g, walk, work, merges')
      BY <1>0, <2>3, <3>3 DEF Graph, S
    <3> QED
      BY <2>1, <2>6, <3>4 DEF IInv
  <2> QED
    BY <2>1, <2>5, <2>6
<1>10. CASE UNCHANGED vars
  BY <1>0, <1>10 DEF IInv, vars
<1> QED
  BY <1>1, <1>3, <1>4, <1>5, <1>6, <1>7, <1>8, <1>9, <1>10 DEF Next, Upkeep

LEMMA Inductive == Spec => []IInv
<1> QED
  BY InitEstablishes, NextKeeps, PTL DEF Spec
-----------------------------------------------------------------------------
(* What the classes mean.  Meanings is a recursive function; that there is   *)
(* one, and one only, is kept by every step, since a class is minted for an  *)
(* enode of classes that have a meaning.                                     *)

IsMeaning(h, m) ==
  m = [i \in DOMAIN h.born |->
         Denote(h.born[i][1], h.born[i][3],
                [k \in DOMAIN h.born[i][2] |-> m[h.born[i][2][k]]])]

Defined(h) == \E m : IsMeaning(h, m) /\ \A m2 : IsMeaning(h, m2) => m2 = m

SoundWith(h, m, M) ==
  /\ \A i \in Ids(h) : m[i] = m[Find(h, i)]
  /\ \A i \in Ids(h) : \A n \in h.nodes[i] : ValueOf(n, m) = m[i]
  /\ \A n \in DOMAIN h.cons : ValueOf(n, m) = m[h.cons[n]]
  /\ \A n \in DOMAIN h.owner : ValueOf(n, m) = m[h.owner[n]]
  /\ \A j \in DOMAIN M : m[M[j][1]] = m[M[j][2]]

Sound(h, M) == Defined(h) /\ SoundWith(h, Meanings(h), M)

LEMMA MeaningsIsTheMeaning ==
  ASSUME NEW h, Defined(h)
  PROVE  IsMeaning(h, Meanings(h)) /\ \A m : IsMeaning(h, m) => m = Meanings(h)
<1>1. PICK m : IsMeaning(h, m) /\ \A m2 : IsMeaning(h, m2) => m2 = m
  BY DEF Defined
<1>2. IsMeaning(h, Meanings(h))
  BY <1>1 DEF IsMeaning, Meanings
<1> QED
  BY <1>1, <1>2

LEMMA SameBorn ==
  ASSUME NEW h, NEW f, f.born = h.born, Defined(h)
  PROVE  Defined(f) /\ Meanings(f) = Meanings(h)
<1>1. \A m : IsMeaning(f, m) <=> IsMeaning(h, m)
  BY DEF IsMeaning
<1>2. Defined(f)
  BY <1>1 DEF Defined
<1> QED
  BY <1>1, <1>2, MeaningsIsTheMeaning

\* Two readings of the children's classes that agree on them give one value.
LEMMA SameValue ==
  ASSUME NEW S, NEW n \in Enodes(S), NEW m, NEW m2, \A c \in S : m[c] = m2[c]
  PROVE  ValueOf(n, m) = ValueOf(n, m2)
<1>1. \A k \in DOMAIN n[2] : n[2][k] \in S
  <2>1. Kids(n) \subseteq S
    BY EnodeParts
  <2> QED
    BY <2>1 DEF Kids
<1>2. [k \in DOMAIN n[2] |-> m[n[2][k]]] = [k \in DOMAIN n[2] |-> m2[n[2][k]]]
  BY <1>1
<1> QED
  BY <1>2 DEF ValueOf

\* The canonical form of an enode means what it does.
LEMMA ResolvedValue ==
  ASSUME NEW h, NEW m, \A i \in Ids(h) : m[i] = m[Find(h, i)], NEW n \in Enodes(Ids(h))
  PROVE  ValueOf(Resolved(h, n), m) = ValueOf(n, m)
<1> DEFINE kids == [i \in DOMAIN n[2] |-> Find(h, n[2][i])]
<1>1. \A k \in DOMAIN n[2] : n[2][k] \in Ids(h)
  <2>1. Kids(n) \subseteq Ids(h)
    BY EnodeParts
  <2> QED
    BY <2>1 DEF Kids
<1>2. Resolved(h, n) = <<n[1], kids, n[3]>>
  BY DEF Resolved
<1>3. [k \in DOMAIN kids |-> m[kids[k]]] = [k \in DOMAIN n[2] |-> m[n[2][k]]]
  BY <1>1
<1>4. ValueOf(<<n[1], kids, n[3]>>, m) = Denote(n[1], n[3], [k \in DOMAIN kids |-> m[kids[k]]])
  BY DEF ValueOf
<1> QED
  BY <1>2, <1>3, <1>4 DEF ValueOf

\* A minted class gets a meaning, and no other class another.
LEMMA AddNodeMeaning ==
  ASSUME NEW h, Tables(h), Numbered(h), Defined(h), NEW n \in Enodes(Roots(h))
  PROVE  LET f == AddNode(h, n)  id == Len(h.canon) + 1
         IN  /\ Defined(f)
             /\ \A i \in Ids(h) : Meanings(f)[i] = Meanings(h)[i]
             /\ Meanings(f)[id] = ValueOf(n, Meanings(h))
<1> DEFINE f == AddNode(h, n)  id == Len(h.canon) + 1  m == Meanings(h)
           m2 == [i \in Ids(f) |-> IF i = id THEN ValueOf(n, m) ELSE m[i]]
<1>1. /\ id \notin Ids(h) /\ Ids(f) = Ids(h) \cup {id}
      /\ \A i \in Ids(h) : f.born[i] = h.born[i]
      /\ f.born[id] = n /\ n \in Enodes(Ids(h))
      /\ f.born \in [Ids(f) -> Enodes(Ids(f))]
  BY AddNodeShape
<1>2. h.born \in [Ids(h) -> Enodes(Ids(h))]
  BY DEF Tables
<1>3. DOMAIN f.born = Ids(f) /\ DOMAIN h.born = Ids(h)
  BY <1>1, <1>2
<1>4. IsMeaning(h, m) /\ \A q : IsMeaning(h, q) => q = m
  BY MeaningsIsTheMeaning
<1> HIDE DEF f, m, id
<1>5. \A i \in Ids(h) : m[i] = ValueOf(h.born[i], m)
  BY <1>3, <1>4 DEF IsMeaning, ValueOf
<1>6. \A i \in Ids(h) : m2[i] = m[i]
  BY <1>1
<1>7. \A e \in Enodes(Ids(h)) : ValueOf(e, m2) = ValueOf(e, m)
  BY <1>6, SameValue
<1>8. IsMeaning(f, m2)
  <2>1. \A i \in Ids(f) : m2[i] = ValueOf(f.born[i], m2)
    <3>1. ASSUME NEW i \in Ids(h) PROVE m2[i] = ValueOf(f.born[i], m2)
      <4>1. h.born[i] \in Enodes(Ids(h))
        BY <1>2
      <4> QED
        BY <1>1, <1>5, <1>6, <1>7, <4>1
    <3>2. m2[id] = ValueOf(f.born[id], m2)
      BY <1>1, <1>7
    <3> QED
      BY <1>1, <3>1, <3>2
  <2>2. m2 = [i \in Ids(f) |-> m2[i]]
    OBVIOUS
  <2> HIDE DEF m2
  <2>3. m2 = [i \in Ids(f) |-> ValueOf(f.born[i], m2)]
    BY <2>1, <2>2
  <2> QED
    BY <1>3, <2>3 DEF IsMeaning, ValueOf
<1>9. ASSUME NEW q, IsMeaning(f, q) PROVE q = m2
  <2> DEFINE p == [i \in Ids(h) |-> q[i]]
  <2>1. q = [i \in Ids(f) |-> ValueOf(f.born[i], q)]
    BY <1>3, <1>9 DEF IsMeaning, ValueOf
  <2>2. \A e \in Enodes(Ids(h)) : ValueOf(e, p) = ValueOf(e, q)
    <3>1. \A i \in Ids(h) : p[i] = q[i]
      OBVIOUS
    <3> HIDE DEF p
    <3> QED
      BY <3>1, SameValue
  <2>3. IsMeaning(h, p)
    <3>1. \A i \in Ids(h) : p[i] = ValueOf(h.born[i], p)
      <4> SUFFICES ASSUME NEW i \in Ids(h) PROVE p[i] = ValueOf(h.born[i], p)
        OBVIOUS
      <4>1. p[i] = q[i] /\ q[i] = ValueOf(f.born[i], q)
        BY <1>1, <2>1
      <4>2. h.born[i] \in Enodes(Ids(h))
        BY <1>2
      <4> QED
        BY <1>1, <2>2, <4>1, <4>2
    <3>2. p = [i \in Ids(h) |-> p[i]]
      OBVIOUS
    <3> HIDE DEF p
    <3>3. p = [i \in Ids(h) |-> ValueOf(h.born[i], p)]
      BY <3>1, <3>2
    <3> QED
      BY <1>3, <3>3 DEF IsMeaning, ValueOf
  <2>4. p = m
    BY <1>4, <2>3
  <2>5. \A i \in Ids(h) : q[i] = m[i]
    BY <2>4
  <2>6. q[id] = ValueOf(n, m)
    BY <1>1, <2>1, <2>2, <2>4
  <2>7. \A i \in Ids(f) : q[i] = m2[i]
    BY <1>1, <2>5, <2>6
  <2>8. q = [i \in Ids(f) |-> q[i]]
    BY <2>1
  <2> QED
    BY <2>7, <2>8
<1>10. Defined(f) /\ Meanings(f) = m2
  <2>1. Defined(f)
    BY <1>8, <1>9 DEF Defined
  <2> QED
    BY <1>8, <2>1, MeaningsIsTheMeaning
<1>11. m2[id] = ValueOf(n, m)
  BY <1>1
<1> QED
  BY <1>6, <1>10, <1>11 DEF f, m, id

LEMMA AddNodeSound ==
  ASSUME NEW h, Tables(h), Numbered(h), Sound(h, <<>>), NEW n \in Enodes(Roots(h)),
         n \notin DOMAIN h.cons
  PROVE  Sound(AddNode(h, n), <<>>)
<1> DEFINE f == AddNode(h, n)  id == Len(h.canon) + 1  m == Meanings(h)  m2 == Meanings(f)
<1>1. /\ id \notin Ids(h) /\ Ids(f) = Ids(h) \cup {id}
      /\ \A i \in Ids(h) : Find(f, i) = Find(h, i) /\ f.nodes[i] = h.nodes[i]
      /\ Find(f, id) = id /\ f.nodes[id] = {n} /\ n \in Enodes(Ids(h))
  BY AddNodeShape
<1>2. f.cons = WithDefault(h.cons, {n}, id) /\ f.owner = h.owner
  BY AddNodeTables DEF Tables
<1>3. Defined(f) /\ m2[id] = ValueOf(n, m) /\ \A i \in Ids(h) : m2[i] = m[i]
  BY AddNodeMeaning DEF Sound
<1>4. SoundWith(h, m, <<>>)
  BY DEF Sound
<1>5. /\ \A i \in Ids(h) : Find(h, i) \in Ids(h) /\ h.nodes[i] \subseteq Enodes(Ids(h))
      /\ ClassTable(h, h.cons) /\ ClassTable(h, h.owner)
  BY RootFacts
<1> HIDE DEF f, id, m, m2
<1>6. \A e \in Enodes(Ids(h)) : ValueOf(e, m2) = ValueOf(e, m)
  BY <1>3, SameValue
<1>7. \A i \in Ids(f) : m2[i] = m2[Find(f, i)]
  BY <1>1, <1>3, <1>4, <1>5 DEF SoundWith
<1>8. ASSUME NEW i \in Ids(f), NEW e \in f.nodes[i] PROVE ValueOf(e, m2) = m2[i]
  <2>1. CASE i = id
    BY <1>1, <1>3, <1>6, <2>1
  <2>2. CASE i # id
    <3>1. i \in Ids(h) /\ e \in h.nodes[i] /\ e \in Enodes(Ids(h))
      BY <1>1, <1>5, <2>2
    <3> QED
      BY <1>3, <1>4, <1>6, <3>1 DEF SoundWith
  <2> QED
    BY <2>1, <2>2
<1>9. ASSUME NEW e \in DOMAIN f.cons PROVE ValueOf(e, m2) = m2[f.cons[e]]
  <2>1. CASE e \in DOMAIN h.cons
    <3>1. f.cons[e] = h.cons[e] /\ h.cons[e] \in Ids(h) /\ e \in Enodes(Ids(h))
      BY <1>2, <1>5, <2>1 DEF WithDefault, ClassTable
    <3> QED
      BY <1>3, <1>4, <1>6, <2>1, <3>1 DEF SoundWith
  <2>2. CASE e \notin DOMAIN h.cons
    <3>1. e = n /\ f.cons[e] = id
      BY <1>2, <2>2 DEF WithDefault
    <3> QED
      BY <1>1, <1>3, <1>6, <3>1
  <2> QED
    BY <2>1, <2>2
<1>10. ASSUME NEW e \in DOMAIN f.owner PROVE ValueOf(e, m2) = m2[f.owner[e]]
  <2>1. e \in DOMAIN h.owner /\ f.owner[e] = h.owner[e] /\ h.owner[e] \in Ids(h) /\ e \in Enodes(Ids(h))
    BY <1>2, <1>5 DEF ClassTable
  <2> QED
    BY <1>3, <1>4, <1>6, <2>1 DEF SoundWith
<1> QED
  BY <1>3, <1>7, <1>8, <1>9, <1>10 DEF SoundWith, Sound, f, m2
\* Two classes that mean the same may be merged.
LEMMA MergeSound ==
  ASSUME NEW h, Tables(h), NEW M, NEW M2, Sound(h, M),
         NEW w \in Roots(h), NEW l \in Roots(h), w # l, Meanings(h)[w] = Meanings(h)[l],
         \A j \in DOMAIN M2 : \E k \in DOMAIN M : M[k] = M2[j]
  PROVE  Sound(Merge(h, w, l), M2)
<1> DEFINE f == Merge(h, w, l)  m == Meanings(h)
<1>1. /\ Ids(f) = Ids(h)
      /\ \A i \in Ids(h) : Find(f, i) = IF Find(h, i) = l THEN w ELSE Find(h, i)
      /\ f.nodes[w] = h.nodes[w] \cup h.nodes[l] /\ f.nodes[l] = {}
      /\ \A i \in Ids(h) \ {w, l} : f.nodes[i] = h.nodes[i]
  BY MergeShape
<1>2. Roots(h) \subseteq Ids(h) /\ DOMAIN h = Fields
  BY RootFacts
<1>3. f.born = h.born /\ f.cons = h.cons /\ f.owner = h.owner
  BY <1>2, MergeClasses
<1>4. Defined(f) /\ Meanings(f) = m
  BY <1>3, SameBorn DEF Sound
<1>5. SoundWith(h, m, M)
  BY DEF Sound
<1> HIDE DEF f, m
<1>6. \A i \in Ids(f) : m[i] = m[Find(f, i)]
  BY <1>1, <1>5 DEF SoundWith, m
<1>7. \A i \in Ids(f) : \A n \in f.nodes[i] : ValueOf(n, m) = m[i]
  BY <1>1, <1>2, <1>5 DEF SoundWith, m
<1>8. \A j \in DOMAIN M2 : m[M2[j][1]] = m[M2[j][2]]
  BY <1>5 DEF SoundWith
<1> QED
  BY <1>3, <1>4, <1>5, <1>6, <1>7, <1>8 DEF Sound, SoundWith, f, m

LEMMA RekeySound ==
  ASSUME NEW h, Tables(h), NEW M, Sound(h, M), NEW r \in Roots(h), NEW old \in SUBSET h.nodes[r]
  PROVE  Sound(Rekey(h, r, old), M)
<1> DEFINE f == Rekey(h, r, old)  m == Meanings(h)
<1>1. /\ Ids(f) = Ids(h)
      /\ \A i \in Ids(h) : Find(f, i) = Find(h, i)
      /\ f.nodes[r] = (h.nodes[r] \ old) \cup Forms(h, old)
      /\ \A i \in Ids(h) \ {r} : f.nodes[i] = h.nodes[i]
  BY RekeyShape
<1>2. /\ r \in Ids(h) /\ DOMAIN h = Fields /\ h.nodes[r] \subseteq Enodes(Ids(h))
      /\ ClassTable(h, h.cons)
  BY RootFacts
<1>3. /\ f.born = h.born /\ f.owner = h.owner
      /\ f.cons = IF h.track THEN WithDefault(h.cons, Forms(h, old), r) ELSE h.cons
  BY <1>2, RekeyTables, RekeyCons
<1>4. Defined(f) /\ Meanings(f) = m
  BY <1>3, SameBorn DEF Sound
<1>5. SoundWith(h, m, M)
  BY DEF Sound
<1> HIDE DEF f, m
<1>6. \A n \in Forms(h, old) : ValueOf(n, m) = m[r]
  <2> SUFFICES ASSUME NEW n \in old PROVE ValueOf(Resolved(h, n), m) = m[r]
    BY DEF Forms
  <2>1. n \in Enodes(Ids(h)) /\ \A i \in Ids(h) : m[i] = m[Find(h, i)]
    BY <1>2, <1>5 DEF SoundWith
  <2>2. ValueOf(Resolved(h, n), m) = ValueOf(n, m)
    BY <2>1, ResolvedValue
  <2> QED
    BY <1>2, <1>5, <2>2 DEF SoundWith
<1>7. \A i \in Ids(f) : m[i] = m[Find(f, i)]
  BY <1>1, <1>5 DEF SoundWith
<1>8. \A i \in Ids(f) : \A n \in f.nodes[i] : ValueOf(n, m) = m[i]
  BY <1>1, <1>5, <1>6 DEF SoundWith
<1>9. ASSUME NEW n \in DOMAIN f.cons PROVE ValueOf(n, m) = m[f.cons[n]]
  <2>1. CASE n \in DOMAIN h.cons
    <3>1. f.cons[n] = h.cons[n]
      BY <1>3, <2>1 DEF WithDefault
    <3> QED
      BY <1>5, <2>1, <3>1 DEF SoundWith
  <2>2. CASE n \notin DOMAIN h.cons
    <3>1. n \in Forms(h, old) /\ f.cons[n] = r
      BY <1>3, <2>2 DEF WithDefault
    <3> QED
      BY <1>6, <3>1
  <2> QED
    BY <2>1, <2>2
<1> QED
  BY <1>3, <1>4, <1>5, <1>7, <1>8, <1>9 DEF Sound, SoundWith, f, m

\* Owners that are dropped, or that mean what their enode does, keep all this.
LEMMA OwnersSound ==
  ASSUME NEW f, NEW k, NEW M, NEW M2, SameClasses(f, k), Sound(k, M),
         \A n \in DOMAIN f.owner : ValueOf(n, Meanings(k)) = Meanings(k)[f.owner[n]],
         \A j \in DOMAIN M2 : Meanings(k)[M2[j][1]] = Meanings(k)[M2[j][2]]
  PROVE  Sound(f, M2)
<1>1. Ids(f) = Ids(k) /\ \A i : Find(f, i) = Find(k, i)
  BY SameClassesKeep
<1>2. f.born = k.born /\ f.nodes = k.nodes /\ f.cons = k.cons
  BY DEF SameClasses
<1>3. Defined(f) /\ Meanings(f) = Meanings(k)
  BY <1>2, SameBorn DEF Sound
<1> QED
  BY <1>1, <1>2, <1>3 DEF Sound, SoundWith

LEMMA CanonicaliseSound ==
  ASSUME NEW h, Tables(h), Sound(h, <<>>), NEW r \in Roots(h)
  PROVE  Sound(CanonicaliseClass(h, r), <<>>)
<1> DEFINE f == CanonicaliseClass(h, r)  k == Rekey(h, r, Stale(h, r))
<1>1. Stale(h, r) \in SUBSET h.nodes[r] /\ DOMAIN h = Fields
  BY RootFacts DEF Stale
<1>2. Sound(k, <<>>)
  BY <1>1, RekeySound
<1>3. SameClasses(f, k) /\ f.owner = Without(h.owner, Disowned(h, r)) /\ k.owner = h.owner
  BY <1>1, CanonicaliseTables, RekeyTables
<1> HIDE DEF f, k
<1>4. \A n \in DOMAIN f.owner : ValueOf(n, Meanings(k)) = Meanings(k)[f.owner[n]]
  BY <1>2, <1>3 DEF Sound, SoundWith, Without
<1>5. Sound(f, <<>>)
  BY <1>2, <1>3, <1>4, OwnersSound
<1> QED
  BY <1>5 DEF f

LEMMA ClaimSound ==
  ASSUME NEW h, NEW M, Tables(h), M \in Seq(Ids(h) \X Ids(h)), Sound(h, M),
         PruneUp(h, {}), PruneDown(h), HashLive(h), Indexed(h),
         NEW item \in Ids(h) \X Enodes(Ids(h))
  PROVE  Sound(Claims(h, item), Found(h, M, item))
<1> DEFINE f == Claims(h, item)  k == Rekeys(h, item)  M2 == Found(h, M, item)
           r == Find(h, item[1])  n == item[2]  nn == Resolved(h, n)  e == Rekey(h, r, {n})
<1>1. r \in Roots(h) /\ r \in Ids(h) /\ DOMAIN h = Fields
  BY RootFacts
<1>2. Sound(k, M)
  <2>1. CASE nn # n /\ n \in h.nodes[r]
    <3>1. k = [e EXCEPT !.owner = Without(@, {n})]
      BY <2>1 DEF Rekeys
    <3>2. Sound(e, M)
      BY <1>1, <2>1, RekeySound
    <3>3. DOMAIN e = Fields
      BY <1>1, RekeyTables
    <3> HIDE DEF e, k
    <3>4. SameClasses(k, e) /\ k.owner = Without(e.owner, {n})
      BY <3>1, <3>3 DEF SameClasses, Fields
    <3>5. \A x \in DOMAIN k.owner : ValueOf(x, Meanings(e)) = Meanings(e)[k.owner[x]]
      BY <3>2, <3>4 DEF Sound, SoundWith, Without
    <3>6. \A j \in DOMAIN M : Meanings(e)[M[j][1]] = Meanings(e)[M[j][2]]
      BY <3>2 DEF Sound, SoundWith
    <3> QED
      BY <3>2, <3>4, <3>5, <3>6, OwnersSound
  <2>2. CASE ~(nn # n /\ n \in h.nodes[r])
    <3>1. k = h
      BY <2>2 DEF Rekeys
    <3> QED
      BY <3>1
  <2> QED
    BY <2>1, <2>2
<1>3. /\ SameClasses(f, k) /\ f.canon = h.canon
      /\ \A x \in DOMAIN k.owner : x \in DOMAIN f.owner /\ f.owner[x] = k.owner[x]
      /\ \A x \in DOMAIN f.owner :
           x \in DOMAIN k.owner \/ (x = nn /\ nn \in f.nodes[r] /\ f.owner[x] = r)
      /\ nn \in f.nodes[r] => nn \in DOMAIN f.owner
  BY ClaimsShape
<1>4. M2 = IF nn \in f.nodes[r] /\ Find(f, f.owner[nn]) # r
           THEN Append(M, <<f.owner[nn], r>>) ELSE M
  BY DEF Found
<1>5. \A x \in DOMAIN f.owner : f.owner[x] \in Ids(h)
  <2>1. Tables(f) /\ Ids(f) = Ids(h)
    BY <1>3, ClaimsShape DEF Ids
  <2> QED
    BY <2>1 DEF Tables, ClassTable
<1> DEFINE m == Meanings(k)
<1> HIDE DEF f, k, M2, r, nn, m
<1>6. f.nodes = k.nodes /\ SoundWith(k, m, M) /\ Ids(k) = Ids(h)
  BY <1>2, <1>3 DEF SameClasses, Sound, m, Ids
<1>7. nn \in f.nodes[r] => ValueOf(nn, m) = m[r]
  BY <1>1, <1>6 DEF SoundWith
<1>8. \A x \in DOMAIN f.owner : ValueOf(x, m) = m[f.owner[x]]
  BY <1>3, <1>6, <1>7 DEF SoundWith
<1>9. \A j \in DOMAIN M2 : m[M2[j][1]] = m[M2[j][2]]
  <2>1. CASE nn \in f.nodes[r] /\ Find(f, f.owner[nn]) # r
    <3> DEFINE p == <<f.owner[nn], r>>
    <3>1. p \in Ids(h) \X Ids(h) /\ m[p[1]] = m[p[2]]
      BY <1>1, <1>3, <1>5, <1>7, <1>8, <2>1
    <3> HIDE DEF p
    <3>2. M2 = Append(M, p)
      BY <1>4, <2>1 DEF p
    <3>3. /\ DOMAIN M2 = 1 .. Len(M) + 1 /\ DOMAIN M = 1 .. Len(M) /\ Len(M) \in Nat
          /\ M2[Len(M) + 1] = p /\ \A j \in 1 .. Len(M) : M2[j] = M[j]
      BY <3>1, <3>2, LenProperties, AppendProperties
    <3>4. \A j \in DOMAIN M2 : j \in DOMAIN M \/ j = Len(M) + 1
      BY <3>3
    <3> QED
      BY <1>6, <3>1, <3>3, <3>4 DEF SoundWith
  <2>2. CASE ~(nn \in f.nodes[r] /\ Find(f, f.owner[nn]) # r)
    BY <1>4, <1>6, <2>2 DEF SoundWith
  <2> QED
    BY <2>1, <2>2
<1> QED
  BY <1>2, <1>3, <1>8, <1>9, OwnersSound DEF m, f, M2
LEMMA SameSound ==
  ASSUME NEW h, NEW f, NEW M, Sound(h, M), f.canon = h.canon, f.nodes = h.nodes,
         f.born = h.born, f.cons = h.cons, f.owner = h.owner
  PROVE  Sound(f, M)
<1>1. Defined(f) /\ Meanings(f) = Meanings(h)
  BY SameBorn DEF Sound
<1>2. Ids(f) = Ids(h) /\ \A i : Find(f, i) = Find(h, i)
  BY DEF Ids, Find
<1> QED
  BY <1>1, <1>2 DEF Sound, SoundWith

MInv == Sound(g, merges)

LEMMA InitSound == Init => MInv
<1> SUFFICES ASSUME Init PROVE MInv
  OBVIOUS
<1>1. PICK track \in BOOLEAN : g = Empty(track)
  BY DEF Init
<1>2. /\ g.canon = <<>> /\ g.nodes = <<>> /\ g.born = <<>>
      /\ g.cons = <<>> /\ g.owner = <<>> /\ merges = <<>> /\ DOMAIN <<>> = {}
  BY <1>1 DEF Empty, Init
<1> DEFINE m == [i \in {} |-> i]
<1>3. IsMeaning(g, m) /\ \A q : IsMeaning(g, q) => q = m
  BY <1>2 DEF IsMeaning
<1>4. Defined(g)
  BY <1>3 DEF Defined
<1> QED
  BY <1>2, <1>4 DEF MInv, Sound, SoundWith, Ids

LEMMA NextSound == IInv /\ MInv /\ [LawfulNext]_vars => MInv'
<1> SUFFICES ASSUME IInv, MInv, [LawfulNext]_vars PROVE MInv'
  OBVIOUS
<1>0. /\ Tables(g) /\ Numbered(g) /\ DOMAIN g = Fields
      /\ PruneDown(g) /\ HashLive(g) /\ Indexed(g) /\ PruneUp(g, walk)
      /\ merges \in Seq(Ids(g) \X Ids(g)) /\ work \subseteq Ids(g) \X Enodes(Ids(g))
      /\ Sound(g, merges)
  BY DEF IInv, MInv, Graph, Tables
<1>1. CASE Add
  <2>1. PICK op \in Ops, key \in Keys, k \in (0 .. MaxArity) \cap Nat :
          \E kids \in [1 .. k -> Roots(g)] :
            /\ <<op, kids, key>> \notin DOMAIN g.cons
            /\ g' = AddNode(g, <<op, kids, key>>)
    BY <1>1 DEF Add
  <2>2. PICK kids \in [1 .. k -> Roots(g)] :
          /\ <<op, kids, key>> \notin DOMAIN g.cons
          /\ g' = AddNode(g, <<op, kids, key>>)
    BY <2>1
  <2>3. <<op, kids, key>> \in Enodes(Roots(g))
    BY NewEnode
  <2>4. merges = <<>> /\ merges' = <<>>
    BY <1>1 DEF Add, quiet
  <2>5. Sound(g', <<>>)
    BY <1>0, <2>2, <2>3, <2>4, AddNodeSound
  <2> QED
    BY <2>4, <2>5 DEF MInv
<1>2. ASSUME NEW ra \in Roots(g), NEW rb \in Roots(g), Link(ra, rb),
             Meanings(g)[ra] = Meanings(g)[rb],
             \A j \in DOMAIN merges' : \E k \in DOMAIN merges : merges[k] = merges'[j]
      PROVE  MInv'
  <2> DEFINE w == Winner(g, ra, rb)  l == Loser(g, ra, rb)
  <2>1. g' = Merge(g, w, l) /\ ra # rb
    BY <1>2 DEF Link
  <2>2. w \in Roots(g) /\ l \in Roots(g) /\ w # l /\ Meanings(g)[w] = Meanings(g)[l]
    BY <1>2, <2>1 DEF Winner, Loser
  <2> HIDE DEF w, l
  <2>3. Tables(g) /\ Sound(g, merges)
    BY <1>0
  <2>4. PICK left : left = merges'
    OBVIOUS
  <2>5. \A j \in DOMAIN left : \E k \in DOMAIN merges : merges[k] = left[j]
    BY <1>2, <2>4
  <2>6. Sound(Merge(g, w, l), left)
    BY <2>2, <2>3, <2>5, MergeSound
  <2> QED
    BY <2>1, <2>4, <2>6 DEF MInv
<1>3. CASE UniteEquals
  <2>1. PICK a \in DOMAIN g.canon, b \in DOMAIN g.canon :
          Meanings(g)[a] = Meanings(g)[b] /\ Link(Find(g, a), Find(g, b))
    BY <1>3 DEF UniteEquals
  <2>2. Find(g, a) \in Roots(g) /\ Find(g, b) \in Roots(g)
    BY <1>0, RootFacts DEF Ids
  <2>3. Meanings(g)[Find(g, a)] = Meanings(g)[Find(g, b)]
    BY <1>0, <2>1 DEF Sound, SoundWith, Ids
  <2>4. merges' = merges
    BY <1>3 DEF UniteEquals
  <2> QED
    BY <1>2, <2>1, <2>2, <2>3, <2>4
<1>4. CASE WalkUp
  <2>1. PICK c \in walk : g' = [g EXCEPT !.dirty = @ \cup Above(g, c)]
    BY <1>4 DEF WalkUp
  <2>2. merges' = merges
    BY <1>4 DEF WalkUp
  <2> DEFINE f == [g EXCEPT !.dirty = @ \cup Above(g, c)]
  <2>3. /\ f.canon = g.canon /\ f.nodes = g.nodes /\ f.born = g.born /\ f.cons = g.cons
        /\ f.owner = g.owner
    BY <1>0 DEF Fields
  <2> HIDE DEF f
  <2>4. Sound(f, merges)
    BY <1>0, <2>3, SameSound
  <2> QED
    BY <2>1, <2>2, <2>4 DEF MInv, f
<1>5. CASE TakeFrontier
  <2>1. g' = Cleared(g) /\ merges' = merges
    BY <1>5 DEF TakeFrontier
  <2> DEFINE f == Cleared(g)
  <2>2. /\ f.canon = g.canon /\ f.nodes = g.nodes /\ f.born = g.born /\ f.cons = g.cons
        /\ f.owner = g.owner
    BY <1>0 DEF Fields, Cleared
  <2> HIDE DEF f
  <2>3. Sound(f, merges)
    BY <1>0, <2>2, SameSound
  <2> QED
    BY <2>1, <2>3 DEF MInv, f
<1>6. CASE CanonicaliseRoot
  <2>1. PICK r \in Roots(g) : g' = CanonicaliseClass(g, r)
    BY <1>6 DEF CanonicaliseRoot
  <2>2. merges = <<>> /\ merges' = <<>>
    BY <1>6 DEF CanonicaliseRoot, quiet
  <2> QED
    BY <1>0, <2>1, <2>2, CanonicaliseSound DEF MInv
<1>7. CASE TakeWork
  <2>1. g' = [g EXCEPT !.pend = {}] /\ merges' = merges
    BY <1>7 DEF TakeWork
  <2> DEFINE f == [g EXCEPT !.pend = {}]
  <2>2. /\ f.canon = g.canon /\ f.nodes = g.nodes /\ f.born = g.born /\ f.cons = g.cons
        /\ f.owner = g.owner
    BY <1>0 DEF Fields
  <2> HIDE DEF f
  <2>3. Sound(f, merges)
    BY <1>0, <2>2, SameSound
  <2> QED
    BY <2>1, <2>3 DEF MInv, f
<1>8. CASE ClaimItem
  <2>1. PICK item \in work :
          /\ g' = Claim([g |-> g, merges |-> merges], item).g
          /\ merges' = Claim([g |-> g, merges |-> merges], item).merges
    BY <1>8 DEF ClaimItem
  <2>2. item \in Ids(g) \X Enodes(Ids(g)) /\ PruneUp(g, {})
    BY <1>0, <1>8 DEF ClaimItem
  <2>3. g' = Claims(g, item) /\ merges' = Found(g, merges, item)
    BY <1>0, <2>1, <2>2, ClaimResult
  <2>4. Sound(Claims(g, item), Found(g, merges, item))
    BY <1>0, <2>2, ClaimSound
  <2> QED
    BY <2>3, <2>4 DEF MInv
<1>9. CASE MergeNext
  <2> DEFINE a == Head(merges)[1]  b == Head(merges)[2]
  <2>1. /\ merges # <<>> /\ merges' = Tail(merges)
        /\ Link(Find(g, a), Find(g, b)) \/ g' = g
    BY <1>9 DEF MergeNext
  <2>2. /\ 1 \in DOMAIN merges /\ Head(merges) = merges[1] /\ merges[1] \in Ids(g) \X Ids(g)
        /\ \A j \in DOMAIN merges' : \E k \in DOMAIN merges : merges[k] = merges'[j]
    <3> DEFINE S == Ids(g) \X Ids(g)
    <3>1. merges \in Seq(S)
      BY <1>0
    <3> HIDE DEF S
    <3>2. /\ Len(merges) \in Nat /\ Len(merges) > 0 /\ DOMAIN merges = 1 .. Len(merges)
          /\ Head(merges) = merges[1] /\ merges[1] \in S
          /\ DOMAIN Tail(merges) = 1 .. Len(merges) - 1
          /\ \A k \in 1 .. Len(merges) - 1 : Tail(merges)[k] = merges[k + 1]
      BY <2>1, <3>1
    <3>3. \A j \in 1 .. Len(merges) - 1 : j + 1 \in 1 .. Len(merges)
      BY <3>2
    <3>4. 1 \in 1 .. Len(merges)
      BY <3>2
    <3> QED
      BY <2>1, <3>2, <3>3, <3>4 DEF S
  <2>3. a \in Ids(g) /\ b \in Ids(g) /\ Meanings(g)[a] = Meanings(g)[b]
    BY <1>0, <2>2 DEF Sound, SoundWith
  <2>4. Find(g, a) \in Roots(g) /\ Find(g, b) \in Roots(g)
    BY <1>0, <2>3, RootFacts
  <2>5. Meanings(g)[Find(g, a)] = Meanings(g)[Find(g, b)]
    BY <1>0, <2>3 DEF Sound, SoundWith
  <2> HIDE DEF a, b
  <2>6. CASE Link(Find(g, a), Find(g, b))
    BY <1>2, <2>2, <2>4, <2>5, <2>6
  <2>7. CASE g' = g
    <3>1. \A j \in DOMAIN merges' : Meanings(g)[merges'[j][1]] = Meanings(g)[merges'[j][2]]
      BY <1>0, <2>2 DEF Sound, SoundWith
    <3> QED
      BY <1>0, <2>7, <3>1 DEF MInv, Sound, SoundWith
  <2> QED
    BY <2>1, <2>6, <2>7
<1>10. CASE UNCHANGED vars
  BY <1>0, <1>10 DEF MInv, vars
<1> QED
  BY <1>1, <1>3, <1>4, <1>5, <1>6, <1>7, <1>8, <1>9, <1>10 DEF LawfulNext, Upkeep

\* Uniting only equals is uniting.
LEMMA LawfulIsSpec == LawfulSpec => Spec
<1>1. [LawfulNext]_vars => [Next]_vars
  BY DEF LawfulNext, Next, Unite, UniteEquals
<1> QED
  BY <1>1, PTL DEF LawfulSpec, Spec

LEMMA MeaningsAreKept == LawfulSpec => [](IInv /\ MInv)
<1> QED
  BY Inductive, LawfulIsSpec, InitSound, NextSound, PTL DEF LawfulSpec

-----------------------------------------------------------------------------
(* The theorems. *)

\* "p in _dirty prune is sound" (union): whatever was added, merged, re-keyed,
\* claimed or taken, when no upward walk is under way everything above a dirty
\* class is dirty, and every member is reachable from its children.
THEOREM WalksDirtyAllAbove == Spec => [](walk = {} => PruneIsSound)
<1>1. IInv => (walk = {} => PruneIsSound)
  <2> SUFFICES ASSUME PruneUp(g, {}), PruneDown(g) PROVE PruneIsSound
    BY DEF IInv, Graph
  <2> QED
    BY DEF PruneIsSound, PruneUp, PruneDown
<1> QED
  BY <1>1, Inductive, PTL

\* A hit in _node_to_class with canonical children is a member of the class it
\* resolves to, in the middle of an operation too, though no entry is pruned.
THEOREM HitsAreLive == Spec => []HashconsIsLive
<1>1. IInv => HashconsIsLive
  BY DEF IInv, Graph, HashLive, HashconsIsLive
<1> QED
  BY <1>1, Inductive, PTL

\* _cong_pend misses no member: once a round of _close_congruence is over, a
\* member that does not wait is canonical and owned by its own class.
THEOREM RoundsCoverCongruence ==
  Spec => [](work = {} /\ merges = <<>> => WorklistCoversCongruence)
<1>1. IInv => (work = {} /\ merges = <<>> => WorklistCoversCongruence)
  <2> SUFFICES ASSUME Covered(g, g.pend, <<>>) PROVE WorklistCoversCongruence
    BY DEF IInv, Graph
  <2>1. \A r, n : Owned(g, <<>>, r, n) =>
          Resolved(g, n) = n /\ n \in DOMAIN g.owner /\ Find(g, g.owner[n]) = r
    BY DEF Owned, Pending
  <2> QED
    BY <2>1 DEF Covered, Waits, WorklistCoversCongruence
<1> QED
  BY <1>1, Inductive, PTL

\* rebuild closes congruence: when nothing waits, two classes that hold enodes
\* with one canonical form are one class.
THEOREM RebuildClosesCongruence == Spec => []RebuiltIsCongruent
<1>1. IInv => RebuiltIsCongruent
  <2> SUFFICES ASSUME Covered(g, {}, <<>>),
                      NEW r \in Roots(g), NEW s \in Roots(g),
                      NEW n \in g.nodes[r], NEW m \in g.nodes[s], Resolved(g, n) = Resolved(g, m)
               PROVE  r = s
    BY DEF IInv, Graph, RebuiltIsCongruent, quiet
  <2>1. Resolved(g, n) = n /\ Find(g, g.owner[n]) = r
    BY DEF Covered, Waits, Owned, Pending
  <2>2. Resolved(g, m) = m /\ Find(g, g.owner[m]) = s
    BY DEF Covered, Waits, Owned, Pending
  <2> QED
    BY <2>1, <2>2
<1> QED
  BY <1>1, Inductive, PTL

\* _opk drops no class that has a member of a shape, and keeps none that has not.
THEOREM IndexFollowsMembers == Spec => []IndexIsExact
<1>1. IInv => IndexIsExact
  <2> SUFFICES ASSUME Indexed(g) PROVE IndexIsExact
    BY DEF IInv, Graph
  <2> QED
    BY DEF Indexed, IndexIsExact
<1> QED
  BY <1>1, Inductive, PTL

\* Only equal terms share a class: provided the caller unites classes that mean
\* the same, no re-key and no merge by congruence ever changes what a class
\* means, and each of its members means that.
THEOREM OnlyEqualsShareAClass == LawfulSpec => []MergesAreSound
<1>1. IInv /\ MInv => MergesAreSound
  <2> SUFFICES ASSUME Tables(g), SoundWith(g, Meanings(g), merges) PROVE MergesAreSound
    BY DEF IInv, MInv, Graph, Sound
  <2>1. Roots(g) \subseteq Ids(g) /\ Ids(g) = DOMAIN g.canon
    BY DEF Roots, Ids
  <2> QED
    BY <2>1 DEF SoundWith, MergesAreSound
<1> QED
  BY <1>1, MeaningsAreKept, PTL

\* Whatever add_enode or a congruence claim finds for an enode means what the
\* enode does, and so do the two classes of any merge by congruence.
THEOREM LookupsKeepMeaning == LawfulSpec => []LookupsAreSound
<1>1. IInv /\ MInv => LookupsAreSound
  <2> SUFFICES ASSUME Tables(g), SoundWith(g, Meanings(g), merges) PROVE LookupsAreSound
    BY DEF IInv, MInv, Graph, Sound
  <2>1. ClassTable(g, g.cons) /\ ClassTable(g, g.owner)
    BY DEF Tables
  <2> QED
    BY <2>1 DEF SoundWith, LookupsAreSound, ClassTable
<1> QED
  BY <1>1, MeaningsAreKept, PTL
=============================================================================
