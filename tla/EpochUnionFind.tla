--------------------------- MODULE EpochUnionFind ---------------------------
(***************************************************************************)
(* The union-find of an e-graph (catopt_core/egraph/types.py) under the    *)
(* frozen-read journal of its streaming matcher (egraph/core.py).          *)
(*                                                                         *)
(* A match enumeration is a suspended generator.  While it sleeps its      *)
(* caller merges classes and compresses paths; it must nevertheless go on  *)
(* reading the graph of the moment it started.  Each enumeration has an    *)
(* _Epoch: union and find journal into every registered epoch what they    *)
(* overwrite, and the enumeration reads through the journal.               *)
(*                                                                         *)
(* The program is sequential.  pc says which operation is running: the     *)
(* path-halving loop is one step per iteration, everything else is one     *)
(* step per operation.  snapParent and snapNodes are history variables:    *)
(* the graph at the freeze, which the program does not keep.               *)
(***************************************************************************)
EXTENDS Integers

CONSTANTS
  MaxId,      \* bound: e-class ids are 0 .. MaxId-1
  MaxEpochs,  \* bound: enumerations started in one behaviour
  Coexist,    \* whether a caller keeps two enumerations suspended at once
  Rebuilds,   \* whether rebuild re-keys members between the enumerations
  None        \* a missing dictionary entry

ASSUME SizesAreNat   == MaxId \in Nat /\ MaxEpochs \in Nat
ASSUME FlagsAreBoolean == Coexist \in BOOLEAN /\ Rebuilds \in BOOLEAN
ASSUME NoneIsNothing == None \notin Nat /\ \A S \in SUBSET (0 .. MaxId - 1) : S # None

Ids      == 0 .. MaxId - 1
EpochIds == 1 .. MaxEpochs

VARIABLES
  next_id,     \* _next_id: ids below it are allocated
  parent,      \* UnionFind.parent
  rank,        \* UnionFind.rank
  classes,     \* the keys of _classes: the live e-classes
  nodes,       \* EClass.nodes of every class object, dead ones included
  by_op,       \* EClass.by_op, the cached member list, or None
  registered,  \* _epochs: the epochs union and find journal into
  suspended,   \* the epochs of the enumerations not yet exhausted
  next_epoch,  \* epochs are numbered in the order of _epochs
  ovr,         \* _Epoch.ovr and .dead, which always have the same keys
  jph,         \* _Epoch.jph
  added,       \* _Epoch.added
  nlists,      \* _Epoch.nlists
  watermark,   \* _Epoch.watermark
  pc,          \* the operation under way
  cur,         \* the id its find loop stands on
  other,       \* union's other argument, later the root found for it
  snapParent,
  snapNodes

graphVars   == <<next_id, parent, rank, classes, nodes, by_op>>
journalVars == <<ovr, jph, added, nlists, watermark>>
epochVars   == <<registered, suspended, next_epoch>>
ctlVars     == <<pc, cur, other>>
snapVars    == <<snapParent, snapNodes>>
vars == <<graphVars, journalVars, epochVars, ctlVars, snapVars>>

Allocated == 0 .. next_id - 1

TypeOK ==
  /\ next_id \in 0 .. MaxId
  /\ parent \in [Ids -> Ids]
  /\ rank \in [Ids -> Nat]
  /\ classes \subseteq Allocated
  /\ nodes \in [Ids -> SUBSET Ids]
  /\ by_op \in [Ids -> {None} \cup SUBSET Ids]
  /\ registered \subseteq EpochIds
  /\ suspended \subseteq EpochIds
  /\ next_epoch \in 1 .. MaxEpochs + 1
  /\ ovr \in [EpochIds -> SUBSET Ids]
  /\ jph \in [EpochIds -> [Ids -> {None} \cup Ids]]
  /\ added \in [EpochIds -> [Ids -> {None} \cup SUBSET Ids]]
  /\ nlists \in [EpochIds -> [Ids -> {None} \cup SUBSET Ids]]
  /\ watermark \in [EpochIds -> 0 .. next_id]
  /\ pc \in {"idle", "find", "find_a", "find_b", "link"}
  /\ cur \in {None} \cup Ids
  /\ other \in {None} \cup Ids
  /\ snapParent \in [EpochIds -> [Ids -> Ids]]
  /\ snapNodes \in [EpochIds -> [Ids -> SUBSET Ids]]

Init ==
  /\ next_id = 0
  /\ parent = [x \in Ids |-> x]
  /\ rank = [x \in Ids |-> 0]
  /\ classes = {}
  /\ nodes = [x \in Ids |-> {}]
  /\ by_op = [x \in Ids |-> None]
  /\ registered = {}
  /\ suspended = {}
  /\ next_epoch = 1
  /\ ovr = [e \in EpochIds |-> {}]
  /\ jph = [e \in EpochIds |-> [x \in Ids |-> None]]
  /\ added = [e \in EpochIds |-> [x \in Ids |-> None]]
  /\ nlists = [e \in EpochIds |-> [x \in Ids |-> None]]
  /\ watermark = [e \in EpochIds |-> 0]
  /\ pc = "idle" /\ cur = None /\ other = None
  /\ snapParent = [e \in EpochIds |-> [x \in Ids |-> x]]
  /\ snapNodes = [e \in EpochIds |-> [x \in Ids |-> {}]]

-----------------------------------------------------------------------------
(* Growing the graph.                                                      *)

\* _add_enode, for an enode no class was created for: a fresh singleton
\* class.  An enode is named by the id it was born with.  It may happen while
\* enumerations are suspended (a right-hand side is instantiated between two
\* matches).
AddEnode ==
  /\ pc = "idle"
  /\ next_id < MaxId
  /\ next_id' = next_id + 1
  /\ classes' = classes \cup {next_id}
  /\ nodes' = [nodes EXCEPT ![next_id] = {next_id}]
  /\ UNCHANGED <<parent, rank, by_op, journalVars, epochVars, ctlVars, snapVars>>

\* rebuild re-keys member n of class c, whose child lost a merge, to its
\* canonical form nn, already a member of c or of another class.  (A form that
\* no class has would only rename n: enodes are told apart here, never looked
\* into.)  Never under an enumeration: apply_rule drains its generator before
\* run calls rebuild.
Canonicalise(c, n, nn) ==
  /\ Rebuilds
  /\ pc = "idle"
  /\ suspended = {}
  /\ classes # Allocated
  /\ c \in classes
  /\ n \in nodes[c]
  /\ n # nn /\ \E d \in classes : nn \in nodes[d]
  /\ nodes' = [nodes EXCEPT ![c] = (@ \ {n}) \cup {nn}]
  /\ by_op' = [by_op EXCEPT ![c] = None]
  /\ UNCHANGED <<next_id, parent, rank, classes, journalVars, epochVars,
                 ctlVars, snapVars>>

-----------------------------------------------------------------------------
(* find and union.                                                         *)

\* Bug: the last write wins.
JournalHalvingLast(x, p) ==
  [e \in EpochIds |-> IF e \in registered THEN [jph[e] EXCEPT ![x] = p] ELSE jph[e]]

\* ep.jph.setdefault(x, p) in every registered epoch: the first write wins.
JournalHalving(x, p) ==
  [e \in EpochIds |->
     IF e \in registered /\ jph[e][x] = None
     THEN [jph[e] EXCEPT ![x] = p]
     ELSE jph[e]]

BeginFind(x) ==
  /\ pc = "idle"
  /\ x \in Allocated
  /\ parent[x] # x
  /\ pc' = "find" /\ cur' = x
  /\ UNCHANGED <<other, graphVars, journalVars, epochVars, snapVars>>

BeginUnion(a, b) ==
  /\ pc = "idle"
  /\ a \in Allocated /\ b \in Allocated /\ a # b
  /\ pc' = "find_a" /\ cur' = a /\ other' = b
  /\ UNCHANGED <<graphVars, journalVars, epochVars, snapVars>>

\* Bug: the second argument is not resolved.
AtRootUnresolved == parent[cur] = cur \/ pc = "find_b"

AtRoot == parent[cur] = cur

\* Bug: the loop does not advance.
GrandparentStuck == cur

\* gp, where the loop goes next.
Grandparent == parent[parent[cur]]

\* One iteration of the path-halving loop of EGraph.find.
HalveStep ==
  /\ pc \in {"find", "find_a", "find_b"}
  /\ ~AtRoot
  /\ jph' = JournalHalving(cur, parent[cur])
  /\ parent' = [parent EXCEPT ![cur] = parent[parent[cur]]]
  /\ cur' = Grandparent
  /\ UNCHANGED <<next_id, rank, classes, nodes, by_op, ovr, added,
                 nlists, watermark, epochVars, pc, other, snapVars>>

\* The loop ends at a root: a bare find returns; union goes on to find its
\* second argument, then returns False or links the two roots.
FindReturns ==
  /\ pc \in {"find", "find_a", "find_b"}
  /\ AtRoot
  /\ \/ /\ pc = "find"
        /\ pc' = "idle" /\ cur' = None /\ other' = None
     \/ /\ pc = "find_a"
        /\ pc' = "find_b" /\ cur' = other /\ other' = cur
     \/ /\ pc = "find_b" /\ cur = other
        /\ pc' = "idle" /\ cur' = None /\ other' = None
     \/ /\ pc = "find_b" /\ cur # other
        /\ pc' = "link" /\ UNCHANGED <<cur, other>>
  /\ UNCHANGED <<graphVars, journalVars, epochVars, snapVars>>

\* UnionFind.union of the roots ra and rb: the root that survives.
Winner(ra, rb) == IF rank[ra] < rank[rb] THEN rb ELSE ra

\* Bug: the second root is taken to have lost.
LoserSecond(ra, rb) == rb

Loser(ra, rb) == IF rank[ra] < rank[rb] THEN ra ELSE rb

RankAfter(ra, rb) ==
  IF rank[ra] = rank[rb] THEN [rank EXCEPT ![Winner(ra, rb)] = @ + 1] ELSE rank

\* Bug: a member both classes have counts as moved.
MovedAll(old_canon, new_canon) == nodes[old_canon]

\* The members the merge brings to new_canon.
Moved(old_canon, new_canon) == nodes[old_canon] \ nodes[new_canon]

JournalMerge(new_canon, moved) ==
  [e \in EpochIds |->
     IF e \in registered
     THEN [added[e] EXCEPT ![new_canon] = IF @ = None THEN moved ELSE @ \cup moved]
     ELSE added[e]]

\* The merge itself.  find(ra), called after the link to learn the winner,
\* halves ra when ra lost, so it journals ra as well.
Link ==
  LET ra == other
      rb == cur
      new_canon == Winner(ra, rb)
      old_canon == Loser(ra, rb)
  IN
  /\ pc = "link"
  /\ parent' = [parent EXCEPT ![old_canon] = new_canon]
  /\ rank' = RankAfter(ra, rb)
  /\ jph' = IF old_canon = ra THEN JournalHalving(ra, new_canon) ELSE jph
  /\ ovr' = [e \in EpochIds |->
               IF e \in registered THEN ovr[e] \cup {old_canon} ELSE ovr[e]]
  /\ added' = JournalMerge(new_canon, Moved(old_canon, new_canon))
  /\ nodes' = [nodes EXCEPT ![new_canon] = @ \cup nodes[old_canon]]
  /\ by_op' = [by_op EXCEPT ![new_canon] = None]
  /\ classes' = classes \ {old_canon}
  /\ pc' = "idle" /\ cur' = None /\ other' = None
  /\ UNCHANGED <<next_id, nlists, watermark, epochVars, snapVars>>

-----------------------------------------------------------------------------
(* The enumeration.                                                        *)

\* Bug: the next id to be allocated is visible.
WatermarkLate == next_id + 1

\* The first id the enumeration must not see.
Watermark == next_id

\* _iter_matches, unbounded: a fresh epoch is registered at the first next().
\* apply_rule exhausts one enumeration before it starts another.
BeginEpoch ==
  /\ pc = "idle"
  /\ next_epoch \in EpochIds
  /\ suspended = {} \/ Coexist
  /\ next_epoch' = next_epoch + 1
  /\ registered' = registered \cup {next_epoch}
  /\ suspended' = suspended \cup {next_epoch}
  /\ watermark' = [watermark EXCEPT ![next_epoch] = Watermark]
  /\ snapParent' = [snapParent EXCEPT ![next_epoch] = parent]
  /\ snapNodes' = [snapNodes EXCEPT ![next_epoch] = nodes]
  /\ UNCHANGED <<graphVars, ovr, jph, added, nlists, ctlVars>>

\* One iteration of _mfind: the parent of x as the epoch sees it.
FrozenParent(e, x) ==
  IF x \in ovr[e] THEN x
  ELSE IF jph[e][x] # None THEN jph[e][x]
  ELSE parent[x]

\* _nodes_of: the cached member list of a class object.
CachedNodes(c) == IF by_op[c] = None THEN nodes[c] ELSE by_op[c]

\* _mnodes on a first read of c: the cached list of a class no merge grew,
\* else the members less those merged in since the freeze.
FrozenNodes(e, c) ==
  IF added[e][c] = None THEN CachedNodes(c) ELSE nodes[c] \ added[e][c]

\* The enumeration is resumed and reads the members of c, a class it reached
\* by _mfind; the list is kept for the rest of the enumeration.
ReadMembers(e, c) ==
  /\ pc = "idle"
  /\ e \in suspended
  /\ c < watermark[e] /\ FrozenParent(e, c) = c
  /\ nlists[e][c] = None
  /\ nlists' = [nlists EXCEPT ![e][c] = FrozenNodes(e, c)]
  /\ by_op' = IF added[e][c] = None THEN [by_op EXCEPT ![c] = CachedNodes(c)] ELSE by_op
  /\ UNCHANGED <<next_id, parent, rank, classes, nodes, ovr, jph,
                 added, watermark, epochVars, ctlVars, snapVars>>

\* _Epoch is a dataclass: two of them are equal when their fields are.
SameEpoch(e, f) ==
  /\ ovr[e] = ovr[f] /\ jph[e] = jph[f] /\ added[e] = added[f]
  /\ nlists[e] = nlists[f] /\ watermark[e] = watermark[f]

\* The generator is exhausted or closed: _epochs.remove(ep) takes out the
\* first registered epoch equal to ep, and raises ValueError if there is none.
\* An epoch neither registered nor suspended is garbage.
EndEpoch(e) ==
  LET equal   == {f \in registered : SameEpoch(e, f)}
      garbage == EpochIds \ (registered' \cup suspended')
      Forget(journal, empty) ==
        [f \in EpochIds |-> IF f \in garbage THEN empty ELSE journal[f]]
  IN
  /\ pc = "idle"
  /\ e \in suspended
  /\ suspended' = suspended \ {e}
  /\ registered' = registered \ {f \in equal : \A g \in equal : f <= g}
  /\ ovr' = Forget(ovr, {})
  /\ jph' = Forget(jph, [x \in Ids |-> None])
  /\ added' = Forget(added, [x \in Ids |-> None])
  /\ nlists' = Forget(nlists, [x \in Ids |-> None])
  /\ watermark' = Forget(watermark, 0)
  /\ snapParent' = Forget(snapParent, [x \in Ids |-> x])
  /\ snapNodes' = Forget(snapNodes, [x \in Ids |-> {}])
  /\ UNCHANGED <<next_epoch, graphVars, ctlVars>>

-----------------------------------------------------------------------------

Next ==
  \/ AddEnode
  \/ \E c, n, nn \in Ids : Canonicalise(c, n, nn)
  \/ \E x \in Ids : BeginFind(x)
  \/ \E a, b \in Ids : BeginUnion(a, b)
  \/ HalveStep
  \/ FindReturns
  \/ Link
  \/ BeginEpoch
  \/ \E e \in EpochIds, c \in Ids : ReadMembers(e, c)
  \/ \E e \in EpochIds : EndEpoch(e)

Spec == Init /\ [][Next]_vars

\* The program does not stop in the middle of an operation.
FairSpec == Spec /\ WF_vars(HalveStep) /\ WF_vars(FindReturns) /\ WF_vars(Link)

-----------------------------------------------------------------------------
(* Properties.                                                             *)

\* Union by rank survives path halving: every parent edge climbs in rank, so
\* find's loop cannot cycle (UnionFind.find, UnionFind.union).
RankClimbs == \A x \in Ids : parent[x] # x => rank[x] < rank[parent[x]]

\* "find returns a live canonical id - the class is always present"
\* (union, _close_congruence): the live classes are the allocated roots.
RootsAreLive == classes = {x \in Allocated : parent[x] = x}

\* What a registered epoch reads is the graph of its freeze: the same parent
\* for every id it can see ...
SeesFrozenParents(e) ==
  \A x \in Ids : x < watermark[e] => FrozenParent(e, x) = snapParent[e][x]

\* ... and the same members for every class, read late or already read.
SeesFrozenMembers(e) ==
  \A c \in Ids :
     c < watermark[e] /\ snapParent[e][c] = c =>
       /\ FrozenNodes(e, c) = snapNodes[e][c]
       /\ nlists[e][c] \in {None, snapNodes[e][c]}

\* An enumeration whose epoch union and find journal into is exact, whatever
\* merges, halvings, births and other enumerations happen meanwhile.
RegisteredEpochsFrozen ==
  \A e \in registered \cap suspended : SeesFrozenParents(e) /\ SeesFrozenMembers(e)

\* matches: "each enumeration reads a frozen view of the graph so the stream
\* equals the list the old eager matcher returned".
EnumerationsFrozen ==
  \A e \in suspended : SeesFrozenParents(e) /\ SeesFrozenMembers(e)

\* The classes of the union-find, found without following it: the least sets
\* that no parent edge enters or leaves.
Closed(S) == \A x \in Ids : x \in S <=> parent[x] \in S
Classes ==
  {S \in SUBSET Allocated :
     S # {} /\ Closed(S) /\ \A T \in SUBSET S : T # {} /\ Closed(T) => T = S}

P == INSTANCE Partition WITH blocks <- Classes

\* The union-find implements a partition of the ids: an id is born alone, a
\* union makes one class of two, and path halving, the journals and the
\* enumerations are invisible in it (UnionFind.find, UnionFind.union).
RefinesPartition == P!Spec

\* Every find and every union returns.
OperationsReturn == pc # "idle" ~> pc = "idle"
=============================================================================
