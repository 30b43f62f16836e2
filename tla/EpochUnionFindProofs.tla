------------------------ MODULE EpochUnionFindProofs ------------------------
(* Proofs about EpochUnionFind, for every MaxId, MaxEpochs, Coexist and      *)
(* Rebuilds.                                                                 *)
EXTENDS EpochUnionFind, TLAPS

USE SizesAreNat, FlagsAreBoolean, NoneIsNothing

-----------------------------------------------------------------------------
(* The inductive invariant.                                                  *)

\* The registers of the running operation hold allocated ids; a root that
\* union has found stays a root until it links it.
RegistersOK ==
  /\ pc # "idle" => cur \in Allocated
  /\ pc \in {"find_a", "find_b", "link"} => other \in Allocated
  /\ pc \in {"find_b", "link"} => parent[other] = other
  /\ pc = "link" => parent[cur] = cur /\ cur # other

\* Parents stay within the allocated ids; an id not yet allocated is alone.
ForestOK ==
  /\ \A x \in Allocated : parent[x] \in Allocated
  /\ \A x \in Ids \ Allocated : parent[x] = x

\* The member cache of a class is never stale.
CacheFresh ==
  \A c \in Ids : by_op[c] = None \/ (c \in Allocated /\ by_op[c] = nodes[c])

\* An epoch that has not started is blank.
UnstartedBlank ==
  \A e \in EpochIds :
     e >= next_epoch =>
       /\ e \notin registered /\ e \notin suspended
       /\ ovr[e] = {}
       /\ jph[e] = [x \in Ids |-> None]
       /\ added[e] = [x \in Ids |-> None]
       /\ nlists[e] = [x \in Ids |-> None]

\* What an epoch journals has stopped being a root, so that a root's parent
\* is never hidden by a journal entry.
JournalsNonRoots(e) ==
  \A x \in Ids : x \in ovr[e] \/ jph[e][x] # None => parent[x] # x

\* The members that merges added are exactly those that hide the freeze.
JournalsMembers(e) ==
  \A c \in Ids :
     c < watermark[e] /\ snapParent[e][c] = c =>
       /\ added[e][c] = None => nodes[c] = snapNodes[e][c]
       /\ added[e][c] # None => nodes[c] \ added[e][c] = snapNodes[e][c]
       /\ nlists[e][c] \in {None, snapNodes[e][c]}

EpochOK(e) ==
  /\ JournalsNonRoots(e)
  /\ SeesFrozenParents(e)
  /\ JournalsMembers(e)

EpochsOK == \A e \in registered \cap suspended : EpochOK(e)

IInv ==
  /\ TypeOK
  /\ RegistersOK
  /\ ForestOK
  /\ RankClimbs
  /\ RootsAreLive
  /\ CacheFresh
  /\ UnstartedBlank
  /\ EpochsOK

-----------------------------------------------------------------------------

LEMMA InitIInv == Init => IInv
  BY DEF Init, IInv, TypeOK, RegistersOK, ForestOK, RankClimbs, RootsAreLive,
         CacheFresh, UnstartedBlank, EpochsOK, Ids, EpochIds, Allocated

\* Path halving never turns an id into its own parent.
LEMMA HalvingClimbs ==
  ASSUME IInv, NEW x \in Ids, parent[x] # x
  PROVE  /\ parent[x] \in Ids /\ parent[parent[x]] \in Ids
         /\ rank[x] < rank[parent[parent[x]]]
         /\ parent[parent[x]] # x
<1>1. parent[x] \in Ids /\ parent[parent[x]] \in Ids
  BY DEF IInv, TypeOK
<1>2. rank \in [Ids -> Nat] /\ rank[x] < rank[parent[x]]
  BY DEF IInv, TypeOK, RankClimbs
<1>3. rank[parent[x]] <= rank[parent[parent[x]]]
  BY <1>1, <1>2 DEF IInv, RankClimbs
<1>4. rank[x] \in Nat /\ rank[parent[x]] \in Nat /\ rank[parent[parent[x]]] \in Nat
  BY <1>1, <1>2
<1> QED BY <1>1, <1>2, <1>3, <1>4

-----------------------------------------------------------------------------
(* Every action preserves it: one lemma per action that disturbs it.         *)

LEMMA AddEnodeStep == ASSUME IInv, AddEnode PROVE IInv'
<1> USE DEF Ids, EpochIds, Allocated
<1>0. /\ TypeOK /\ RegistersOK /\ ForestOK /\ RankClimbs /\ RootsAreLive
      /\ CacheFresh /\ UnstartedBlank /\ EpochsOK
  BY DEF IInv
<1>a. /\ next_id \in Ids /\ next_id' = next_id + 1 /\ next_id' \in 0 .. MaxId
      /\ nodes' \in [Ids -> SUBSET Ids]
      /\ \A x \in Ids : x # next_id => nodes'[x] = nodes[x]
      /\ classes' = classes \cup {next_id}
      /\ UNCHANGED <<parent, rank, by_op, journalVars, epochVars, ctlVars, snapVars>>
      /\ UNCHANGED <<pc, cur, other>> /\ pc = "idle"
  BY <1>0 DEF TypeOK, AddEnode, ctlVars
<1>1. TypeOK'
  <2>1. classes' \subseteq Allocated'
    BY <1>0, <1>a DEF TypeOK
  <2>2. watermark' \in [EpochIds -> 0 .. next_id']
    BY <1>0, <1>a DEF TypeOK, journalVars
  <2> QED
    BY <1>0, <1>a, <2>1, <2>2 DEF TypeOK, journalVars, epochVars, snapVars
<1>2. RegistersOK'
  BY <1>a DEF RegistersOK
<1>3. ForestOK'
  <2>1. parent[next_id] = next_id
    BY <1>0, <1>a DEF ForestOK
  <2>2. Allocated' = Allocated \cup {next_id}
    BY <1>a
  <2> QED BY <1>0, <1>a, <2>1, <2>2 DEF ForestOK
<1>c. RankClimbs'
  BY <1>0, <1>a DEF RankClimbs
<1>b. RootsAreLive'
  BY <1>0, <1>a DEF TypeOK, ForestOK, RootsAreLive
<1>4. CacheFresh'
  BY <1>0, <1>a DEF TypeOK, CacheFresh
<1>5. UnstartedBlank'
  BY <1>0, <1>a DEF UnstartedBlank, journalVars, epochVars
<1>6. EpochsOK'
  <2> SUFFICES ASSUME NEW e \in registered' \cap suspended' PROVE EpochOK(e)'
    BY DEF EpochsOK
  <2>1. e \in registered \cap suspended /\ EpochOK(e)
    BY <1>0, <1>a DEF EpochsOK, epochVars
  <2>2. e \in EpochIds /\ watermark[e] <= next_id
    BY <1>0, <2>1 DEF TypeOK
  <2>3. SeesFrozenParents(e)' /\ JournalsNonRoots(e)'
    BY <1>a, <2>1 DEF EpochOK, SeesFrozenParents, JournalsNonRoots, FrozenParent,
                journalVars, snapVars
  <2>4. JournalsMembers(e)'
    <3> SUFFICES ASSUME NEW c \in Ids, c < watermark[e], snapParent[e][c] = c
                 PROVE  /\ added[e][c] = None => nodes'[c] = snapNodes[e][c]
                        /\ added[e][c] # None =>
                             nodes'[c] \ added[e][c] = snapNodes[e][c]
                        /\ nlists[e][c] \in {None, snapNodes[e][c]}
      BY <1>a DEF JournalsMembers, journalVars, snapVars
    <3>1. c # next_id
      BY <1>0, <1>a, <2>2 DEF TypeOK
    <3> QED BY <1>a, <3>1, <2>1 DEF EpochOK, JournalsMembers
  <2> QED BY <2>3, <2>4 DEF EpochOK
<1> QED BY <1>1, <1>2, <1>3, <1>b, <1>c, <1>4, <1>5, <1>6 DEF IInv

LEMMA CanonicaliseStep ==
  ASSUME IInv, NEW c \in Ids, NEW n \in Ids, NEW nn \in Ids, Canonicalise(c, n, nn)
  PROVE  IInv'
<1> USE DEF IInv, Canonicalise
<1>1. TypeOK'
  BY DEF TypeOK, journalVars, epochVars, ctlVars, snapVars, Allocated
<1>2. RegistersOK' /\ ForestOK' /\ RankClimbs' /\ RootsAreLive'
  BY DEF RegistersOK, ForestOK, RankClimbs, RootsAreLive, ctlVars, Allocated
<1>3. CacheFresh'
  <2>1. \A d \in Ids : d # c => by_op'[d] = by_op[d] /\ nodes'[d] = nodes[d]
    BY DEF TypeOK
  <2>2. by_op'[c] = None
    BY DEF TypeOK
  <2> QED BY <2>1, <2>2 DEF CacheFresh, Allocated
<1>4. UnstartedBlank'
  BY DEF UnstartedBlank, journalVars, epochVars
<1>5. EpochsOK'
  BY DEF EpochsOK, epochVars
<1> QED BY <1>1, <1>2, <1>3, <1>4, <1>5

LEMMA BeginStep ==
  ASSUME IInv, (\E x \in Ids : BeginFind(x)) \/ (\E a, b \in Ids : BeginUnion(a, b))
  PROVE  IInv'
<1> USE DEF IInv, BeginFind, BeginUnion
<1>1. UNCHANGED <<graphVars, journalVars, epochVars, snapVars>>
  OBVIOUS
<1>2. TypeOK'
  BY <1>1 DEF TypeOK, graphVars, journalVars, epochVars, snapVars, Allocated, Ids
<1>3. RegistersOK'
  BY <1>1 DEF RegistersOK, graphVars, Allocated
<1>4. ForestOK' /\ RankClimbs' /\ RootsAreLive' /\ CacheFresh' /\ UnstartedBlank'
  BY <1>1 DEF ForestOK, RankClimbs, RootsAreLive, CacheFresh, UnstartedBlank,
              graphVars, journalVars, epochVars, Allocated
<1>5. EpochsOK'
  BY <1>1 DEF EpochsOK, EpochOK, JournalsNonRoots, SeesFrozenParents, FrozenParent,
              JournalsMembers, graphVars, journalVars, epochVars, snapVars
<1> QED BY <1>2, <1>3, <1>4, <1>5

LEMMA FindReturnsStep == ASSUME IInv, FindReturns PROVE IInv'
<1> USE DEF IInv, FindReturns, AtRoot
<1>1. UNCHANGED <<graphVars, journalVars, epochVars, snapVars>>
  OBVIOUS
<1>2. TypeOK'
  BY <1>1 DEF TypeOK, graphVars, journalVars, epochVars, snapVars, Allocated, Ids
<1>3. RegistersOK'
  BY <1>1 DEF RegistersOK, graphVars, Allocated
<1>4. ForestOK' /\ RankClimbs' /\ RootsAreLive' /\ CacheFresh' /\ UnstartedBlank'
  BY <1>1 DEF ForestOK, RankClimbs, RootsAreLive, CacheFresh, UnstartedBlank,
              graphVars, journalVars, epochVars, Allocated
<1>5. EpochsOK'
  BY <1>1 DEF EpochsOK, EpochOK, JournalsNonRoots, SeesFrozenParents, FrozenParent,
              JournalsMembers, graphVars, journalVars, epochVars, snapVars
<1> QED BY <1>2, <1>3, <1>4, <1>5

LEMMA HalveStepStep == ASSUME IInv, HalveStep PROVE IInv'
<1>0. /\ TypeOK /\ RegistersOK /\ ForestOK /\ RankClimbs /\ RootsAreLive
      /\ CacheFresh /\ UnstartedBlank /\ EpochsOK
  BY DEF IInv
<1>a. /\ pc \in {"find", "find_a", "find_b"} /\ pc' = pc /\ other' = other
      /\ cur \in Allocated /\ cur \in Ids /\ parent[cur] # cur
      /\ UNCHANGED <<next_id, rank, classes, nodes, by_op, ovr, added, nlists,
                     watermark, epochVars, snapVars>>
      /\ jph' = JournalHalving(cur, parent[cur])
      /\ cur' = parent[parent[cur]]
  BY <1>0 DEF HalveStep, AtRoot, Grandparent, RegistersOK, TypeOK, Allocated, Ids
<1>b. /\ parent[cur] \in Ids /\ parent[parent[cur]] \in Ids
      /\ rank[cur] < rank[parent[parent[cur]]]
      /\ parent[parent[cur]] # cur
  BY <1>a, HalvingClimbs
<1>c. parent' = [parent EXCEPT ![cur] = parent[parent[cur]]]
  BY DEF HalveStep
<1>d. /\ parent' \in [Ids -> Ids]
      /\ parent'[cur] = parent[parent[cur]]
      /\ \A x \in Ids : x # cur => parent'[x] = parent[x]
      /\ \A x \in Ids : parent'[x] = x <=> parent[x] = x
  BY <1>0, <1>a, <1>b, <1>c DEF TypeOK
<1>e. jph' \in [EpochIds -> [Ids -> {None} \cup Ids]]
  BY <1>0, <1>a, <1>b DEF TypeOK, JournalHalving
<1>1. TypeOK'
  BY <1>0, <1>a, <1>b, <1>d, <1>e DEF TypeOK, epochVars, snapVars, Allocated
<1>2. RegistersOK'
  BY <1>0, <1>a, <1>b, <1>d DEF RegistersOK, ForestOK, Allocated, TypeOK
<1>3. ForestOK'
  <2>1. parent[cur] \in Allocated /\ parent[parent[cur]] \in Allocated
    BY <1>0, <1>a DEF ForestOK
  <2>2. Allocated' = Allocated /\ Allocated \subseteq Ids
    BY <1>0, <1>a DEF Allocated, Ids, TypeOK
  <2> QED BY <1>0, <1>a, <1>d, <2>1, <2>2 DEF ForestOK
<1>4. RankClimbs'
  BY <1>0, <1>a, <1>b, <1>d DEF RankClimbs
<1>5. RootsAreLive'
  <2>1. Allocated' = Allocated /\ Allocated \subseteq Ids
    BY <1>0, <1>a DEF Allocated, Ids, TypeOK
  <2> QED BY <1>0, <1>a, <1>d, <2>1 DEF RootsAreLive
<1>6. CacheFresh'
  BY <1>0, <1>a DEF CacheFresh, Allocated
<1>7. UnstartedBlank'
  BY <1>0, <1>a DEF UnstartedBlank, JournalHalving, epochVars
<1>8. EpochsOK'
  <2> SUFFICES ASSUME NEW e \in registered' \cap suspended' PROVE EpochOK(e)'
    BY DEF EpochsOK
  <2>1. e \in registered \cap suspended /\ EpochOK(e) /\ e \in EpochIds
    BY <1>0, <1>a DEF EpochsOK, epochVars, TypeOK
  <2>2. jph'[e] = IF jph[e][cur] = None THEN [jph[e] EXCEPT ![cur] = parent[cur]]
                  ELSE jph[e]
    BY <1>a, <2>1 DEF JournalHalving
  <2>3. jph[e] \in [Ids -> {None} \cup Ids]
    BY <1>0, <2>1 DEF TypeOK
  <2>4. \A x \in Ids : x # cur => jph'[e][x] = jph[e][x]
    BY <2>2, <2>3
  <2>5. JournalsNonRoots(e)'
    BY <1>a, <1>b, <1>d, <2>1, <2>4 DEF EpochOK, JournalsNonRoots
  <2>6. SeesFrozenParents(e)'
    <3>1. \A x \in Ids : FrozenParent(e, x)' = FrozenParent(e, x)
      <4>1. ASSUME NEW x \in Ids, x = cur
            PROVE  FrozenParent(e, x)' = FrozenParent(e, x)
        <5>1. None \notin Ids
          BY DEF Ids
        <5>2. CASE jph[e][x] = None
          <6>1. jph'[e][x] = parent[x] /\ parent[x] # None
            BY <4>1, <5>1, <5>2, <1>b, <2>2, <2>3
          <6> QED BY <5>2, <6>1, <1>a DEF FrozenParent
        <5>3. CASE jph[e][x] # None
          <6>1. jph'[e][x] = jph[e][x]
            BY <4>1, <5>3, <2>2
          <6> QED BY <5>3, <6>1, <1>a DEF FrozenParent
        <5> QED BY <5>2, <5>3
      <4>2. ASSUME NEW x \in Ids, x # cur
            PROVE  FrozenParent(e, x)' = FrozenParent(e, x)
        BY <4>2, <1>a, <1>d, <2>4 DEF FrozenParent
      <4> QED BY <4>1, <4>2
    <3> QED BY <1>a, <2>1, <3>1 DEF EpochOK, SeesFrozenParents, snapVars
  <2>7. JournalsMembers(e)'
    BY <1>a, <2>1 DEF EpochOK, JournalsMembers, snapVars
  <2> QED BY <2>5, <2>6, <2>7 DEF EpochOK
<1> QED BY <1>1, <1>2, <1>3, <1>4, <1>5, <1>6, <1>7, <1>8 DEF IInv

\* A merge: the loser, a root until now, is journaled as one; the members the
\* winner gains are journaled as added.
LEMMA LinkStep == ASSUME IInv, Link PROVE IInv'
<1> DEFINE w == Winner(other, cur)
           l == Loser(other, cur)
           moved == Moved(l, w)
<1>0. /\ TypeOK /\ RegistersOK /\ ForestOK /\ RankClimbs /\ RootsAreLive
      /\ CacheFresh /\ UnstartedBlank /\ EpochsOK
  BY DEF IInv
<1>a. /\ pc = "link" /\ pc' = "idle" /\ cur' = None /\ other' = None
      /\ parent' = [parent EXCEPT ![l] = w]
      /\ rank' = RankAfter(other, cur)
      /\ jph' = IF l = other THEN JournalHalving(other, w) ELSE jph
      /\ ovr' = [e \in EpochIds |->
                   IF e \in registered THEN ovr[e] \cup {l} ELSE ovr[e]]
      /\ added' = JournalMerge(w, moved)
      /\ nodes' = [nodes EXCEPT ![w] = @ \cup nodes[l]]
      /\ by_op' = [by_op EXCEPT ![w] = None]
      /\ classes' = classes \ {l}
      /\ UNCHANGED <<next_id, nlists, watermark, epochVars, snapVars>>
  BY DEF Link
<1>b. /\ cur \in Allocated /\ other \in Allocated /\ Allocated \subseteq Ids
      /\ parent[other] = other /\ parent[cur] = cur /\ cur # other
      /\ Allocated' = Allocated
  BY <1>0, <1>a DEF RegistersOK, Allocated, Ids, TypeOK
<1>c. /\ l \in Allocated /\ w \in Allocated /\ l \in Ids /\ w \in Ids
      /\ parent[l] = l /\ parent[w] = w /\ l # w
  BY <1>b DEF Winner, Loser
<1>d. /\ rank' \in [Ids -> Nat] /\ rank'[l] = rank[l] /\ rank'[l] < rank'[w]
      /\ \A x \in Ids : x # w => rank'[x] = rank[x]
      /\ rank[w] <= rank'[w]
  BY <1>0, <1>a, <1>b, <1>c DEF TypeOK, RankAfter, Winner, Loser
<1>e. /\ parent' \in [Ids -> Ids] /\ parent'[l] = w
      /\ \A x \in Ids : x # l => parent'[x] = parent[x]
  BY <1>0, <1>a, <1>c DEF TypeOK
<1>f. /\ nodes' \in [Ids -> SUBSET Ids] /\ nodes'[w] = nodes[w] \cup nodes[l]
      /\ \A x \in Ids : x # w => nodes'[x] = nodes[x]
      /\ by_op' \in [Ids -> {None} \cup SUBSET Ids] /\ by_op'[w] = None
      /\ \A x \in Ids : x # w => by_op'[x] = by_op[x]
      /\ moved \in SUBSET Ids
  BY <1>0, <1>a, <1>c DEF TypeOK, Moved
<1>g. jph' \in [EpochIds -> [Ids -> {None} \cup Ids]]
  BY <1>0, <1>a, <1>b, <1>c DEF TypeOK, JournalHalving
<1>h. added' \in [EpochIds -> [Ids -> {None} \cup SUBSET Ids]]
  <2>1. \A e \in EpochIds :
          [added[e] EXCEPT ![w] = IF @ = None THEN moved ELSE @ \cup moved]
            \in [Ids -> {None} \cup SUBSET Ids]
    BY <1>0, <1>c, <1>f DEF TypeOK
  <2> QED BY <1>0, <1>a, <2>1 DEF JournalMerge, TypeOK
<1>1. TypeOK'
  <2>1. ovr' \in [EpochIds -> SUBSET Ids]
    BY <1>0, <1>a, <1>c DEF TypeOK
  <2>2. classes' \subseteq Allocated'
    BY <1>0, <1>a, <1>b DEF TypeOK
  <2> QED
    BY <1>0, <1>a, <1>d, <1>e, <1>f, <1>g, <1>h, <2>1, <2>2
       DEF TypeOK, epochVars, snapVars
<1>2. RegistersOK'
  BY <1>a DEF RegistersOK
<1>3. ForestOK'
  BY <1>0, <1>b, <1>c, <1>e DEF ForestOK
<1>4. RankClimbs'
  <2> SUFFICES ASSUME NEW x \in Ids, parent'[x] # x
               PROVE  rank'[x] < rank'[parent'[x]]
    BY DEF RankClimbs
  <2>1. CASE x = l
    BY <2>1, <1>d, <1>e
  <2>2. CASE x # l
    <3>1. parent'[x] = parent[x] /\ parent[x] \in Ids /\ x # w
      BY <2>2, <1>0, <1>c, <1>e DEF TypeOK
    <3>2. rank[x] < rank[parent[x]] /\ rank'[x] = rank[x]
      BY <3>1, <1>0, <1>d DEF RankClimbs
    <3>3. rank[parent[x]] <= rank'[parent[x]]
      <4>1. CASE parent[x] = w
        BY <4>1, <1>d
      <4>2. CASE parent[x] # w
        <5>1. rank'[parent[x]] = rank[parent[x]] /\ rank[parent[x]] \in Nat
          BY <4>2, <3>1, <1>0, <1>d DEF TypeOK
        <5> QED BY <5>1
      <4> QED BY <4>1, <4>2
    <3>4. rank[x] \in Nat /\ rank[parent[x]] \in Nat /\ rank'[parent[x]] \in Nat
      BY <3>1, <1>0, <1>d DEF TypeOK
    <3> QED BY <3>1, <3>2, <3>3, <3>4
  <2> QED BY <2>1, <2>2
<1>5. RootsAreLive'
  BY <1>0, <1>a, <1>b, <1>c, <1>e DEF RootsAreLive
<1>6. CacheFresh'
  BY <1>0, <1>b, <1>f DEF CacheFresh
<1>7. UnstartedBlank'
  BY <1>0, <1>a DEF UnstartedBlank, JournalHalving, JournalMerge, epochVars
<1>8. EpochsOK'
  <2> SUFFICES ASSUME NEW e \in registered' \cap suspended' PROVE EpochOK(e)'
    BY DEF EpochsOK
  <2>1. e \in registered \cap suspended /\ EpochOK(e) /\ e \in EpochIds
    BY <1>0, <1>a DEF EpochsOK, epochVars, TypeOK
  <2>2. /\ ovr'[e] = ovr[e] \cup {l}
        /\ added'[e] = [added[e] EXCEPT
                          ![w] = IF @ = None THEN moved ELSE @ \cup moved]
    BY <1>a, <2>1 DEF JournalMerge
  <2>3. \A x \in Ids : x # l => jph'[e][x] = jph[e][x]
    <3>1. jph[e] \in [Ids -> {None} \cup Ids]
      BY <1>0, <2>1 DEF TypeOK
    <3> QED BY <1>a, <2>1, <3>1 DEF JournalHalving
  <2>4. JournalsNonRoots(e)'
    BY <1>c, <1>e, <2>1, <2>2, <2>3 DEF EpochOK, JournalsNonRoots
  <2>5. SeesFrozenParents(e)'
    <3>1. ASSUME NEW x \in Ids
          PROVE  FrozenParent(e, x)' = FrozenParent(e, x)
      <4>1. CASE x = l
        <5>1. FrozenParent(e, x) = x
          BY <4>1, <1>c, <2>1 DEF EpochOK, JournalsNonRoots, FrozenParent
        <5> QED BY <4>1, <5>1, <2>2 DEF FrozenParent
      <4>2. CASE x # l
        BY <4>2, <1>e, <2>2, <2>3 DEF FrozenParent
      <4> QED BY <4>1, <4>2
    <3> QED BY <1>a, <2>1, <3>1 DEF EpochOK, SeesFrozenParents, snapVars
  <2>6. JournalsMembers(e)'
    <3> SUFFICES ASSUME NEW c \in Ids, c < watermark[e], snapParent[e][c] = c
                 PROVE  /\ added'[e][c] = None => nodes'[c] = snapNodes[e][c]
                        /\ added'[e][c] # None =>
                             nodes'[c] \ added'[e][c] = snapNodes[e][c]
                        /\ nlists[e][c] \in {None, snapNodes[e][c]}
      BY <1>a DEF JournalsMembers, snapVars
    <3>1. /\ added[e][c] = None => nodes[c] = snapNodes[e][c]
          /\ added[e][c] # None => nodes[c] \ added[e][c] = snapNodes[e][c]
          /\ nlists[e][c] \in {None, snapNodes[e][c]}
      BY <2>1 DEF EpochOK, JournalsMembers
    <3>2. added[e] \in [Ids -> {None} \cup SUBSET Ids]
      BY <1>0, <2>1 DEF TypeOK
    <3>3. CASE c # w
      BY <3>1, <3>2, <3>3, <1>f, <2>2
    <3>4. CASE c = w
      <4>1. added'[e][c] = IF added[e][c] = None THEN moved ELSE added[e][c] \cup moved
        BY <3>2, <3>4, <2>2
      <4>2. added'[e][c] # None
        <5>1. added'[e][c] \in SUBSET Ids
          BY <4>1, <3>2, <1>f
        <5> QED BY <5>1 DEF Ids
      <4>3. nodes'[c] = nodes[c] \cup nodes[l] /\ moved = nodes[l] \ nodes[c]
        BY <3>4, <1>f DEF Moved
      <4>4. nodes'[c] \ added'[e][c] = snapNodes[e][c]
        <5>1. CASE added[e][c] = None
          BY <5>1, <4>1, <4>3, <3>1
        <5>2. CASE added[e][c] # None
          BY <5>2, <4>1, <4>3, <3>1
        <5> QED BY <5>1, <5>2
      <4> QED BY <4>2, <4>4, <3>1
    <3> QED BY <3>3, <3>4
  <2> QED BY <2>4, <2>5, <2>6 DEF EpochOK
<1> QED BY <1>1, <1>2, <1>3, <1>4, <1>5, <1>6, <1>7, <1>8 DEF IInv

\* A fresh enumeration freezes the graph as it is.
LEMMA BeginEpochStep == ASSUME IInv, BeginEpoch PROVE IInv'
<1>0. /\ TypeOK /\ RegistersOK /\ ForestOK /\ RankClimbs /\ RootsAreLive
      /\ CacheFresh /\ UnstartedBlank /\ EpochsOK
  BY DEF IInv
<1>a. /\ next_epoch \in EpochIds /\ next_epoch' = next_epoch + 1
      /\ registered' = registered \cup {next_epoch}
      /\ suspended' = suspended \cup {next_epoch}
      /\ watermark' = [watermark EXCEPT ![next_epoch] = next_id]
      /\ snapParent' = [snapParent EXCEPT ![next_epoch] = parent]
      /\ snapNodes' = [snapNodes EXCEPT ![next_epoch] = nodes]
      /\ UNCHANGED <<next_id, parent, rank, classes, nodes, by_op, ovr, jph, added,
                     nlists, pc, cur, other>>
  BY DEF BeginEpoch, Watermark, graphVars, ctlVars
<1>1. TypeOK'
  <2>1. next_epoch' \in 1 .. MaxEpochs + 1
    BY <1>a DEF EpochIds
  <2>2. /\ watermark' \in [EpochIds -> 0 .. next_id']
        /\ snapParent' \in [EpochIds -> [Ids -> Ids]]
        /\ snapNodes' \in [EpochIds -> [Ids -> SUBSET Ids]]
    BY <1>0, <1>a DEF TypeOK
  <2> QED BY <1>0, <1>a, <2>1, <2>2 DEF TypeOK, Allocated
<1>2. /\ RegistersOK' /\ ForestOK' /\ RankClimbs' /\ RootsAreLive' /\ CacheFresh'
  BY <1>0, <1>a DEF RegistersOK, ForestOK, RankClimbs, RootsAreLive, CacheFresh, Allocated
<1>3. UnstartedBlank'
  BY <1>0, <1>a DEF UnstartedBlank, EpochIds, TypeOK
<1>4. EpochsOK'
  <2> SUFFICES ASSUME NEW e \in registered' \cap suspended' PROVE EpochOK(e)'
    BY DEF EpochsOK
  <2>1. CASE e = next_epoch
    <3>1. /\ ovr'[e] = {} /\ jph'[e] = [x \in Ids |-> None]
          /\ added'[e] = [x \in Ids |-> None] /\ nlists'[e] = [x \in Ids |-> None]
      BY <1>0, <1>a, <2>1 DEF UnstartedBlank, EpochIds
    <3>2. snapParent'[e] = parent' /\ snapNodes'[e] = nodes'
      BY <1>0, <1>a, <2>1 DEF TypeOK
    <3> QED BY <3>1, <3>2 DEF EpochOK, JournalsNonRoots, SeesFrozenParents,
                              FrozenParent, JournalsMembers
  <2>2. CASE e # next_epoch
    <3>1. e \in registered \cap suspended /\ EpochOK(e) /\ e \in EpochIds
      BY <1>0, <1>a, <2>2 DEF EpochsOK, TypeOK
    <3>2. /\ watermark'[e] = watermark[e] /\ snapParent'[e] = snapParent[e]
          /\ snapNodes'[e] = snapNodes[e]
      BY <1>0, <1>a, <2>2, <3>1 DEF TypeOK
    <3> QED BY <1>a, <3>1, <3>2 DEF EpochOK, JournalsNonRoots, SeesFrozenParents,
                                    FrozenParent, JournalsMembers
  <2> QED BY <2>1, <2>2
<1> QED BY <1>1, <1>2, <1>3, <1>4 DEF IInv

\* What a read returns, for an epoch whose journal is exact.
LEMMA ReadIsFrozen ==
  ASSUME IInv, NEW e \in registered \cap suspended, NEW c \in Ids,
         c < watermark[e], snapParent[e][c] = c
  PROVE  FrozenNodes(e, c) = snapNodes[e][c]
<1>1. EpochOK(e) /\ CacheFresh
  BY DEF IInv, EpochsOK
<1>2. /\ added[e][c] = None => nodes[c] = snapNodes[e][c]
      /\ added[e][c] # None => nodes[c] \ added[e][c] = snapNodes[e][c]
  BY <1>1 DEF EpochOK, JournalsMembers
<1>3. CachedNodes(c) = nodes[c]
  BY <1>1 DEF CacheFresh, CachedNodes
<1> QED BY <1>2, <1>3 DEF FrozenNodes

LEMMA ReadMembersStep ==
  ASSUME IInv, NEW e \in EpochIds, NEW c \in Ids, ReadMembers(e, c)
  PROVE  IInv'
<1>0. /\ TypeOK /\ RegistersOK /\ ForestOK /\ RankClimbs /\ RootsAreLive
      /\ CacheFresh /\ UnstartedBlank /\ EpochsOK
  BY DEF IInv
<1>a. /\ e \in suspended /\ c < watermark[e] /\ FrozenParent(e, c) = c
      /\ nlists' = [nlists EXCEPT ![e][c] = FrozenNodes(e, c)]
      /\ by_op' = IF added[e][c] = None THEN [by_op EXCEPT ![c] = CachedNodes(c)]
                  ELSE by_op
      /\ UNCHANGED <<next_id, parent, rank, classes, nodes, ovr, jph, added,
                     watermark, epochVars, pc, cur, other, snapVars>>
  BY DEF ReadMembers, ctlVars
<1>b. CachedNodes(c) = nodes[c] /\ c \in Allocated
  BY <1>0, <1>a DEF CacheFresh, CachedNodes, TypeOK, Allocated, Ids
<1>c. FrozenNodes(e, c) \in SUBSET Ids
  BY <1>0, <1>b DEF FrozenNodes, TypeOK
<1>d. /\ nlists' \in [EpochIds -> [Ids -> {None} \cup SUBSET Ids]]
      /\ by_op' \in [Ids -> {None} \cup SUBSET Ids]
  BY <1>0, <1>a, <1>b, <1>c DEF TypeOK
<1>1. TypeOK'
  BY <1>0, <1>a, <1>d DEF TypeOK, epochVars, snapVars, Allocated
<1>2. RegistersOK' /\ ForestOK' /\ RankClimbs' /\ RootsAreLive'
  BY <1>0, <1>a DEF RegistersOK, ForestOK, RankClimbs, RootsAreLive, Allocated
<1>3. CacheFresh'
  BY <1>0, <1>a, <1>b DEF CacheFresh, Allocated, TypeOK
<1>4. UnstartedBlank'
  BY <1>0, <1>a DEF UnstartedBlank, epochVars, TypeOK
<1>5. EpochsOK'
  <2> SUFFICES ASSUME NEW f \in registered' \cap suspended' PROVE EpochOK(f)'
    BY DEF EpochsOK
  <2>1. f \in registered \cap suspended /\ EpochOK(f) /\ f \in EpochIds
    BY <1>0, <1>a DEF EpochsOK, epochVars, TypeOK
  <2>2. JournalsNonRoots(f)' /\ SeesFrozenParents(f)'
    BY <1>a, <2>1 DEF EpochOK, JournalsNonRoots, SeesFrozenParents, FrozenParent, snapVars
  <2>3. JournalsMembers(f)'
    <3>1. ASSUME f = e, snapParent[f][c] = c
          PROVE  FrozenNodes(e, c) = snapNodes[f][c]
      BY <3>1, <1>a, <2>1, ReadIsFrozen
    <3>2. snapParent[f][c] = c \/ f # e
      BY <1>a, <2>1 DEF EpochOK, SeesFrozenParents
    <3>3. ASSUME NEW d \in Ids, f # e \/ d # c
          PROVE  nlists'[f][d] = nlists[f][d]
      BY <3>3, <1>0, <1>a, <2>1 DEF TypeOK
    <3>4. nlists'[e][c] = FrozenNodes(e, c)
      BY <1>0, <1>a DEF TypeOK
    <3> QED
      BY <1>a, <2>1, <3>1, <3>2, <3>3, <3>4 DEF EpochOK, JournalsMembers, snapVars
  <2> QED BY <2>2, <2>3 DEF EpochOK
<1> QED BY <1>1, <1>2, <1>3, <1>4, <1>5 DEF IInv

\* Removing a journal keeps those of the enumerations still suspended.
LEMMA EndEpochStep == ASSUME IInv, NEW e \in EpochIds, EndEpoch(e) PROVE IInv'
<1>0. /\ TypeOK /\ RegistersOK /\ ForestOK /\ RankClimbs /\ RootsAreLive
      /\ CacheFresh /\ UnstartedBlank /\ EpochsOK
  BY DEF IInv
<1> DEFINE garbage == EpochIds \ (registered' \cup suspended')
<1>a. /\ suspended' \subseteq suspended /\ registered' \subseteq registered
      /\ UNCHANGED <<next_epoch, graphVars, pc, cur, other>>
      /\ ovr' = [f \in EpochIds |-> IF f \in garbage THEN {} ELSE ovr[f]]
      /\ jph' = [f \in EpochIds |-> IF f \in garbage THEN [x \in Ids |-> None] ELSE jph[f]]
      /\ added' = [f \in EpochIds |-> IF f \in garbage THEN [x \in Ids |-> None] ELSE added[f]]
      /\ nlists' = [f \in EpochIds |-> IF f \in garbage THEN [x \in Ids |-> None] ELSE nlists[f]]
      /\ watermark' = [f \in EpochIds |-> IF f \in garbage THEN 0 ELSE watermark[f]]
      /\ snapParent' = [f \in EpochIds |-> IF f \in garbage THEN [x \in Ids |-> x] ELSE snapParent[f]]
      /\ snapNodes' = [f \in EpochIds |-> IF f \in garbage THEN [x \in Ids |-> {}] ELSE snapNodes[f]]
  BY DEF EndEpoch, ctlVars
<1>b. UNCHANGED <<next_id, parent, rank, classes, nodes, by_op>>
  BY <1>a DEF graphVars
<1> HIDE DEF garbage
<1>1. TypeOK'
  <2>1. /\ ovr' \in [EpochIds -> SUBSET Ids]
        /\ jph' \in [EpochIds -> [Ids -> {None} \cup Ids]]
        /\ added' \in [EpochIds -> [Ids -> {None} \cup SUBSET Ids]]
        /\ nlists' \in [EpochIds -> [Ids -> {None} \cup SUBSET Ids]]
    BY <1>0, <1>a DEF TypeOK
  <2>2. /\ watermark' \in [EpochIds -> 0 .. next_id']
        /\ snapParent' \in [EpochIds -> [Ids -> Ids]]
        /\ snapNodes' \in [EpochIds -> [Ids -> SUBSET Ids]]
    BY <1>0, <1>a, <1>b DEF TypeOK
  <2> QED BY <1>0, <1>a, <1>b, <2>1, <2>2 DEF TypeOK, Allocated
<1>2. RegistersOK' /\ ForestOK' /\ RankClimbs' /\ RootsAreLive' /\ CacheFresh'
  BY <1>0, <1>a, <1>b DEF RegistersOK, ForestOK, RankClimbs, RootsAreLive,
                          CacheFresh, Allocated
<1>3. UnstartedBlank'
  BY <1>0, <1>a DEF UnstartedBlank
<1>4. EpochsOK'
  <2> SUFFICES ASSUME NEW f \in registered' \cap suspended' PROVE EpochOK(f)'
    BY DEF EpochsOK
  <2>1. f \in registered \cap suspended /\ EpochOK(f) /\ f \in EpochIds
    BY <1>0, <1>a DEF EpochsOK, TypeOK
  <2>2. f \notin garbage
    BY DEF garbage
  <2>3. /\ ovr'[f] = ovr[f] /\ jph'[f] = jph[f] /\ added'[f] = added[f]
        /\ nlists'[f] = nlists[f] /\ watermark'[f] = watermark[f]
        /\ snapParent'[f] = snapParent[f] /\ snapNodes'[f] = snapNodes[f]
    BY <1>a, <2>1, <2>2
  <2> QED BY <1>b, <2>1, <2>3 DEF EpochOK, JournalsNonRoots, SeesFrozenParents,
                                  FrozenParent, JournalsMembers
<1> QED BY <1>1, <1>2, <1>3, <1>4 DEF IInv

LEMMA StutterStep == ASSUME IInv, UNCHANGED vars PROVE IInv'
  BY DEF IInv, vars, graphVars, journalVars, epochVars, ctlVars, snapVars, TypeOK,
         RegistersOK, ForestOK, RankClimbs, RootsAreLive, CacheFresh,
         UnstartedBlank, EpochsOK, EpochOK, JournalsNonRoots, SeesFrozenParents,
         FrozenParent, JournalsMembers, Allocated

LEMMA NextIInv == IInv /\ [Next]_vars => IInv'
  BY AddEnodeStep, CanonicaliseStep, BeginStep, HalveStepStep, FindReturnsStep,
     LinkStep, BeginEpochStep, ReadMembersStep, EndEpochStep, StutterStep DEF Next

-----------------------------------------------------------------------------
(* The theorems.                                                             *)

THEOREM Invariance == Spec => []IInv
  BY InitIInv, NextIInv, PTL DEF Spec

\* Type correctness of the union-find, the journals and the registers of find
\* and union (EGraph.find, EGraph.union, _Epoch).
THEOREM TypeCorrect == Spec => []TypeOK
<1>1. IInv => TypeOK
  BY DEF IInv
<1> QED BY <1>1, Invariance, PTL

\* The union-find is sound: every parent edge climbs in rank, so find cannot
\* cycle, and find returns an id whose class is live.
THEOREM ForestSound == Spec => [](RankClimbs /\ RootsAreLive)
<1>1. IInv => RankClimbs /\ RootsAreLive
  BY DEF IInv
<1> QED BY <1>1, Invariance, PTL

LEMMA FrozenFromIInv ==
  ASSUME IInv, NEW e \in registered \cap suspended
  PROVE  SeesFrozenParents(e) /\ SeesFrozenMembers(e)
<1>1. EpochOK(e)
  BY DEF IInv, EpochsOK
<1>2. ASSUME NEW c \in Ids, c < watermark[e], snapParent[e][c] = c
      PROVE  /\ FrozenNodes(e, c) = snapNodes[e][c]
             /\ nlists[e][c] \in {None, snapNodes[e][c]}
  BY <1>1, <1>2, ReadIsFrozen DEF EpochOK, JournalsMembers
<1> QED BY <1>1, <1>2 DEF EpochOK, SeesFrozenMembers

\* However many enumerations are suspended together, one whose epoch is still
\* registered reads exactly the graph of its freeze.
THEOREM RegisteredAreFrozen == Spec => []RegisteredEpochsFrozen
<1>1. IInv => RegisteredEpochsFrozen
  BY FrozenFromIInv DEF RegisteredEpochsFrozen
<1> QED BY <1>1, Invariance, PTL

-----------------------------------------------------------------------------
(* A caller that exhausts one enumeration before it starts another, as       *)
(* apply_rule does, never loses an epoch to the removal by value.            *)

OneAtATime == registered = suspended /\ \A e, f \in suspended : e = f

LEMMA NextOneAtATime ==
  ASSUME Coexist = FALSE, OneAtATime, [Next]_vars
  PROVE  OneAtATime'
<1>1. CASE UNCHANGED epochVars
  BY <1>1 DEF OneAtATime, epochVars
<1>2. CASE BeginEpoch
  BY <1>2 DEF OneAtATime, BeginEpoch
<1>3. ASSUME NEW e \in EpochIds, EndEpoch(e) PROVE OneAtATime'
  <2>1. registered = {e} /\ suspended = {e} /\ suspended' = {}
    BY <1>3 DEF OneAtATime, EndEpoch
  <2>2. {f \in registered : SameEpoch(e, f)} = {e}
    BY <2>1 DEF SameEpoch
  <2>3. e <= e
    BY DEF EpochIds
  <2>4. registered' = {}
    BY <1>3, <2>1, <2>2, <2>3 DEF EndEpoch
  <2> QED BY <2>1, <2>4 DEF OneAtATime
<1>4. ASSUME NEW e \in EpochIds, NEW c \in Ids, ReadMembers(e, c)
      PROVE  UNCHANGED epochVars
  BY <1>4 DEF ReadMembers, epochVars
<1>5. ASSUME (\E c, n, nn \in Ids : Canonicalise(c, n, nn))
             \/ AddEnode \/ HalveStep \/ FindReturns \/ Link
             \/ (\E x \in Ids : BeginFind(x)) \/ (\E a, b \in Ids : BeginUnion(a, b))
      PROVE  UNCHANGED epochVars
  BY <1>5 DEF Canonicalise, AddEnode, HalveStep, FindReturns, Link, BeginFind,
              BeginUnion, epochVars
<1>6. CASE UNCHANGED vars
  BY <1>6, <1>1 DEF vars
<1> QED BY <1>1, <1>2, <1>3, <1>4, <1>5, <1>6 DEF Next

\* The promise of EGraph.matches, for callers that run one enumeration at a
\* time: every suspended enumeration reads the graph of its freeze.
THEOREM MatchesReadTheFreeze ==
  ASSUME Coexist = FALSE
  PROVE  Spec => []EnumerationsFrozen
<1>1. Init => OneAtATime
  BY DEF Init, OneAtATime
<1>2. OneAtATime /\ [Next]_vars => OneAtATime'
  BY NextOneAtATime
<1>3. IInv /\ OneAtATime => EnumerationsFrozen
  BY FrozenFromIInv DEF OneAtATime, EnumerationsFrozen
<1> QED BY <1>1, <1>2, <1>3, Invariance, PTL DEF Spec
-----------------------------------------------------------------------------
(* EpochUnionFind implements Partition.                                      *)
(*                                                                           *)
(* Two ids are together when no closed set tells them apart, and the classes *)
(* are those of this equivalence.  Path halving leaves the closed sets as    *)
(* they are; a link keeps those that do not tell the two roots apart.  What  *)
(* has to be invariant is that every class has one root: without it a link   *)
(* could join a class to itself, or split one.                               *)

Apart(x, y) == \E S \in SUBSET Ids : Closed(S) /\ ~ (x \in S <=> y \in S)

\* The class of x, as ids no closed set tells from it; dead to the allocation.
With(x) == {y \in Ids : ~ Apart(x, y)}

\* Every class has one root: find's answers agree within a class, and differ
\* between classes ...
OneRoot ==
  \A x, y \in Ids : parent[x] = x /\ parent[y] = y /\ x # y => Apart(x, y)

\* ... and at least one.
SomeRoot == \A x \in Ids : \E r \in Ids : parent[r] = r /\ ~ Apart(x, r)

-----------------------------------------------------------------------------
(* Closed sets and classes.                                                  *)

LEMMA ComplementIsClosed ==
  ASSUME TypeOK, NEW S \in SUBSET Ids, Closed(S)
  PROVE  Closed(Ids \ S)
BY DEF Closed, TypeOK

LEMMA ApartIsEquivalence ==
  /\ \A x : ~ Apart(x, x)
  /\ \A x, y : Apart(x, y) => Apart(y, x)
  /\ \A x, y, z : Apart(x, z) => Apart(x, y) \/ Apart(y, z)
BY DEF Apart

LEMMA ParentIsTogether ==
  ASSUME NEW x \in Ids PROVE ~ Apart(x, parent[x])
BY DEF Apart, Closed

LEMMA WithIsClosed ==
  ASSUME TypeOK, NEW x \in Ids
  PROVE  With(x) \in SUBSET Ids /\ Closed(With(x)) /\ x \in With(x)
<1>1. ASSUME NEW y \in Ids PROVE y \in With(x) <=> parent[y] \in With(x)
  <2>1. parent[y] \in Ids
    BY DEF TypeOK
  <2> QED BY <2>1, ParentIsTogether, ApartIsEquivalence DEF With
<1> QED BY <1>1, ApartIsEquivalence DEF With, Closed

LEMMA WithIsLeast ==
  ASSUME TypeOK, NEW x \in Ids, NEW T \in SUBSET Ids, Closed(T), NEW y \in T, y \in With(x)
  PROVE  With(x) \subseteq T
BY ApartIsEquivalence DEF With, Apart

LEMMA WithIsAllocated ==
  ASSUME TypeOK, ForestOK, NEW x \in Allocated
  PROVE  With(x) \subseteq Allocated
<1>1. Allocated \subseteq Ids
  BY DEF Allocated, Ids, TypeOK
<1>2. Closed(Allocated)
  BY <1>1 DEF Closed, ForestOK
<1> QED BY <1>1, <1>2, WithIsClosed, WithIsLeast

\* The least closed sets are the classes of the equivalence.
LEMMA ClassesAreWith == TypeOK /\ ForestOK => Classes = {With(x) : x \in Allocated}
<1> SUFFICES ASSUME TypeOK, ForestOK PROVE Classes = {With(x) : x \in Allocated}
  OBVIOUS
<1>0. Allocated \subseteq Ids
  BY DEF Allocated, Ids, TypeOK
<1>1. ASSUME NEW x \in Allocated PROVE With(x) \in Classes
  <2>1. /\ With(x) \in SUBSET Allocated /\ With(x) # {} /\ Closed(With(x))
    BY <1>0, WithIsClosed, WithIsAllocated
  <2>2. ASSUME NEW T \in SUBSET With(x), T # {}, Closed(T) PROVE T = With(x)
    <3>1. T \in SUBSET Ids
      BY <1>0, <2>1
    <3>2. PICK y \in T : TRUE
      BY <2>2
    <3>3. With(x) \subseteq T
      BY <1>0, <2>2, <3>1, <3>2, WithIsLeast
    <3> QED BY <3>3
  <2> QED BY <2>1, <2>2 DEF Classes
<1>2. ASSUME NEW S \in Classes PROVE \E x \in Allocated : S = With(x)
  <2>1. /\ S \in SUBSET Allocated /\ S # {} /\ Closed(S)
        /\ \A T \in SUBSET S : T # {} /\ Closed(T) => T = S
    BY DEF Classes
  <2>2. PICK x \in S : TRUE
    BY <2>1
  <2>3. x \in Ids /\ S \in SUBSET Ids /\ x \in Allocated
    BY <1>0, <2>1
  <2>4. With(x) \in SUBSET S /\ With(x) # {} /\ Closed(With(x))
    BY <2>1, <2>3, WithIsClosed, WithIsLeast
  <2> QED BY <2>1, <2>3, <2>4
<1> QED BY <1>1, <1>2

-----------------------------------------------------------------------------
(* The steps that leave the classes alone, or add one.                       *)

\* The same closed sets, the same classes.
LEMMA SameClosedSets ==
  ASSUME TypeOK, OneRoot, Allocated' = Allocated,
         \A S \in SUBSET Ids : Closed(S)' <=> Closed(S),
         \A x \in Ids : parent'[x] = x => parent[x] = x
  PROVE  Classes' = Classes /\ OneRoot'
<1>1. Allocated \subseteq Ids
  BY DEF Allocated, Ids, TypeOK
<1>2. Classes' = Classes
  BY <1>1 DEF Classes
<1> QED BY <1>2 DEF OneRoot, Apart

LEMMA HalvingKeepsClasses ==
  ASSUME IInv, OneRoot, HalveStep
  PROVE  /\ \A S \in SUBSET Ids : Closed(S)' <=> Closed(S)
         /\ Classes' = Classes /\ OneRoot'
<1> DEFINE p == parent[cur]
           gp == parent[parent[cur]]
<1>1. /\ cur \in Ids /\ p # cur /\ p \in Ids /\ gp \in Ids /\ gp # cur
      /\ parent' = [parent EXCEPT ![cur] = gp] /\ next_id' = next_id
      /\ parent \in [Ids -> Ids] /\ TypeOK
  <2>1. TypeOK /\ cur \in Allocated /\ p # cur
    BY DEF IInv, RegistersOK, HalveStep, AtRoot
  <2>2. cur \in Ids
    BY <2>1 DEF TypeOK, Allocated, Ids
  <2>3. p \in Ids /\ gp \in Ids /\ gp # cur
    BY <2>1, <2>2, HalvingClimbs
  <2> QED BY <2>1, <2>2, <2>3 DEF HalveStep, TypeOK
<1>2. /\ parent'[cur] = gp
      /\ \A x \in Ids : x # cur => parent'[x] = parent[x]
  BY <1>1
<1>3. ASSUME NEW S \in SUBSET Ids PROVE Closed(S)' <=> Closed(S)
  <2>1. ASSUME Closed(S) PROVE Closed(S)'
    <3>1. cur \in S <=> gp \in S
      BY <1>1, <2>1 DEF Closed
    <3> QED BY <1>2, <2>1, <3>1 DEF Closed
  <2>2. ASSUME Closed(S)' PROVE Closed(S)
    <3>1. cur \in S <=> gp \in S
      BY <1>1, <1>2, <2>2 DEF Closed
    <3>2. p \in S <=> gp \in S
      BY <1>1, <1>2, <2>2 DEF Closed
    <3> QED BY <1>1, <1>2, <2>2, <3>1, <3>2 DEF Closed
  <2> QED BY <2>1, <2>2
<1>4. \A x \in Ids : parent'[x] = x => parent[x] = x
  BY <1>1, <1>2
<1>5. Classes' = Classes /\ OneRoot'
  BY <1>1, <1>3, <1>4, SameClosedSets DEF Allocated
<1> QED BY <1>3, <1>5

\* A new id is a class of its own.
LEMMA AddEnodeIsBorn ==
  ASSUME IInv, OneRoot, AddEnode
  PROVE  P!Born(next_id) /\ Classes' # Classes /\ next_id \in 0 .. MaxId - 1 /\ OneRoot'
<1>1. IInv' /\ next_id \in Ids /\ next_id' = next_id + 1 /\ parent' = parent
  <2>1. IInv'
    BY AddEnodeStep
  <2>2. next_id \in Ids
    BY DEF AddEnode, IInv, TypeOK, Ids
  <2> QED BY <2>1, <2>2 DEF AddEnode
<1>2. Allocated' = Allocated \cup {next_id} /\ next_id \notin Allocated
  BY <1>1 DEF Allocated, Ids
<1>3. \A x : With(x)' = With(x)
  BY <1>1 DEF With, Apart, Closed
<1>4. Closed({next_id})
  <2>1. parent[next_id] = next_id
    BY <1>1, <1>2 DEF IInv, ForestOK
  <2>2. \A x \in Ids : x # next_id => parent[x] # next_id
    BY <1>2 DEF IInv, ForestOK
  <2> QED BY <2>1, <2>2 DEF Closed
<1>5. With(next_id) = {next_id}
  BY <1>1, <1>4, WithIsClosed, WithIsLeast DEF IInv
<1>6. Classes = {With(x) : x \in Allocated} /\ Classes' = {With(x) : x \in Allocated'}
  <2>1. Classes = {With(x) : x \in Allocated}
    BY ClassesAreWith DEF IInv
  <2>2. (TypeOK /\ ForestOK)'
    BY <1>1 DEF IInv
  <2>3. (Classes = {With(x) : x \in Allocated})'
    BY <2>2, ClassesAreWith, PTL
  <2> QED BY <2>1, <2>3, <1>3
<1>7. Classes' = Classes \cup {{next_id}}
  BY <1>2, <1>5, <1>6
<1>8. next_id \notin UNION Classes
  BY <1>2 DEF Classes
<1>9. OneRoot'
  BY <1>1 DEF OneRoot, Apart, Closed
<1> QED BY <1>1, <1>7, <1>8, <1>9 DEF P!Born, Ids

-----------------------------------------------------------------------------
(* A link joins two classes.                                                 *)

LEMMA LinkMerges ==
  ASSUME IInv, OneRoot, Link
  PROVE  (\E A, B \in Classes \ Classes' : P!Merge(A, B)) /\ OneRoot'
<1> DEFINE w == Winner(other, cur)
           l == Loser(other, cur)
           A == With(l)
           B == With(w)
<1>1. IInv' /\ TypeOK /\ ForestOK
  BY LinkStep DEF IInv
<1>2. /\ l \in Allocated /\ w \in Allocated /\ l # w /\ l \in Ids /\ w \in Ids
      /\ parent[l] = l /\ parent[w] = w
      /\ parent' = [parent EXCEPT ![l] = w] /\ next_id' = next_id
  <2>1. /\ cur \in Allocated /\ other \in Allocated /\ Allocated \subseteq Ids
        /\ parent[other] = other /\ parent[cur] = cur /\ cur # other
    BY DEF Link, IInv, RegistersOK, Allocated, Ids, TypeOK
  <2> QED BY <2>1 DEF Link, Winner, Loser
<1> HIDE DEF l, w
<1>3. /\ parent'[l] = w /\ \A x \in Ids : x # l => parent'[x] = parent[x]
      /\ Allocated' = Allocated /\ Allocated \subseteq Ids
  BY <1>1, <1>2 DEF TypeOK, Allocated, Ids
<1>4. \A S \in SUBSET Ids : Closed(S)' <=> Closed(S) /\ (l \in S <=> w \in S)
  BY <1>2, <1>3 DEF Closed
<1>5. Apart(l, w)
  BY <1>2 DEF OneRoot
\* Who is together after the link.
<1>6. ASSUME NEW x \in Ids, NEW y \in Ids, Apart(x, y)' PROVE Apart(x, y)
  BY <1>4, <1>6 DEF Apart
<1>7. ASSUME NEW x \in A \cup B, NEW y \in A \cup B PROVE ~ Apart(x, y)'
  BY <1>4 DEF Apart, With
<1>8. Closed(A) /\ Closed(B) /\ A \in SUBSET Ids /\ B \in SUBSET Ids /\ l \in A /\ w \in B
  BY <1>1, <1>2, WithIsClosed
<1>9. ASSUME NEW x \in A \cup B, NEW y \in Ids, y \notin A \cup B PROVE Apart(x, y)'
  <2>1. PICK S \in SUBSET Ids : S = A \cup B
    BY <1>8
  <2>2. Closed(S) /\ (l \in S <=> w \in S)
    BY <1>8, <2>1 DEF Closed
  <2>3. Closed(S)' /\ x \in S /\ y \notin S
    BY <1>4, <1>9, <2>1, <2>2
  <2> QED BY <2>3 DEF Apart
<1>10. ASSUME NEW x \in Ids, x \notin A \cup B, NEW y \in Ids, Apart(x, y) PROVE Apart(x, y)'
  <2>1. PICK S \in SUBSET Ids : S = With(x)
    BY <1>1, <1>10, WithIsClosed
  <2>2. Closed(S) /\ x \in S /\ y \notin S
    BY <1>1, <1>10, <2>1, WithIsClosed DEF With
  <2>3. l \notin S /\ w \notin S
    BY <1>2, <1>10, <2>1, ApartIsEquivalence DEF With
  <2>4. Closed(S)'
    BY <1>4, <2>2, <2>3
  <2> QED BY <2>2, <2>4 DEF Apart
\* The classes after it.
<1>11. \A x \in A \cup B : With(x)' = A \cup B
  BY <1>7, <1>8, <1>9 DEF With
<1>12. \A x \in Ids \ (A \cup B) : With(x)' = With(x)
  BY <1>6, <1>10 DEF With
<1>13. Classes = {With(x) : x \in Allocated} /\ Classes' = {With(x)' : x \in Allocated}
  <2>1. (TypeOK /\ ForestOK)'
    BY <1>1 DEF IInv
  <2>2. (Classes = {With(x) : x \in Allocated})'
    BY <2>1, ClassesAreWith, PTL
  <2> QED BY <1>1, <1>3, <2>2, ClassesAreWith
<1>14. \A x \in A : With(x) = A
  BY <1>2, ApartIsEquivalence DEF With
<1>15. \A x \in B : With(x) = B
  BY <1>2, ApartIsEquivalence DEF With
<1>16. A \in Classes /\ B \in Classes /\ A # B
  BY <1>2, <1>5, <1>8, <1>13 DEF With
<1>17. Classes' = (Classes \ {A, B}) \cup {A \cup B}
  <2>1. ASSUME NEW C \in Classes' PROVE C \in (Classes \ {A, B}) \cup {A \cup B}
    <3>1. PICK x \in Allocated : C = With(x)'
      BY <1>13, <2>1
    <3>2. CASE x \in A \cup B
      BY <1>11, <3>1, <3>2
    <3>3. CASE x \notin A \cup B
      <4>1. C = With(x) /\ x \in C
        BY <1>1, <1>3, <1>12, <3>1, <3>3, WithIsClosed
      <4> QED BY <1>13, <3>3, <4>1
    <3> QED BY <3>2, <3>3
  <2>2. A \cup B \in Classes'
    BY <1>2, <1>8, <1>11, <1>13
  <2>3. ASSUME NEW C \in Classes, C # A, C # B PROVE C \in Classes'
    <3>1. PICK x \in Allocated : C = With(x)
      BY <1>13, <2>3
    <3>2. x \notin A \cup B
      BY <1>14, <1>15, <2>3, <3>1
    <3> QED BY <1>3, <1>12, <1>13, <3>1, <3>2
  <2> QED BY <2>1, <2>2, <2>3
<1>18. A \notin Classes' /\ B \notin Classes'
  <2>1. A # A \cup B /\ B # A \cup B
    BY <1>5, <1>8, ApartIsEquivalence DEF With
  <2> QED BY <1>17, <2>1
<1>19. OneRoot'
  <2> SUFFICES ASSUME NEW x \in Ids, NEW y \in Ids, parent'[x] = x, parent'[y] = y, x # y
               PROVE  Apart(x, y)'
    BY DEF OneRoot
  <2>1. x # l /\ y # l /\ parent[x] = x /\ parent[y] = y
    BY <1>2, <1>3
  <2>2. x \notin A /\ y \notin A /\ (x \in B => x = w) /\ (y \in B => y = w)
    BY <1>2, <2>1 DEF OneRoot, With, Apart
  <2>3. Apart(x, y)
    BY <2>1 DEF OneRoot
  <2>4. CASE x \notin A \cup B
    BY <1>10, <2>3, <2>4
  <2>5. CASE y \notin A \cup B
    BY <1>10, <2>3, <2>5 DEF Apart
  <2> QED BY <2>2, <2>4, <2>5
<1> QED BY <1>16, <1>17, <1>18, <1>19 DEF P!Merge

-----------------------------------------------------------------------------
(* The refinement.                                                           *)

\* The other steps leave the forest alone.
LEMMA ForestUnchanged ==
  ASSUME OneRoot, parent' = parent, next_id' = next_id
  PROVE  Classes' = Classes /\ OneRoot'
BY DEF Classes, OneRoot, Apart, Closed, Allocated

LEMMA StepIsPartitionStep ==
  ASSUME IInv, OneRoot, [Next]_vars
  PROVE  [P!Next]_Classes /\ OneRoot'
<1>1. CASE parent' = parent /\ next_id' = next_id
  BY <1>1, ForestUnchanged
<1>2. CASE AddEnode
  <2>1. P!Born(next_id) /\ next_id \in 0 .. MaxId - 1 /\ OneRoot'
    BY <1>2, AddEnodeIsBorn
  <2>2. {next_id} \in Classes' \ Classes
    BY <2>1 DEF P!Born
  <2> QED BY <2>1, <2>2 DEF P!Next
<1>3. CASE HalveStep
  BY <1>3, HalvingKeepsClasses
<1>4. CASE Link
  BY <1>4, LinkMerges DEF P!Next
<1>5. CASE UNCHANGED vars
  BY <1>1, <1>5 DEF vars, graphVars
<1>6. ASSUME \/ \E c, n, nn \in Ids : Canonicalise(c, n, nn)
             \/ \E x \in Ids : BeginFind(x)
             \/ \E a, b \in Ids : BeginUnion(a, b)
             \/ FindReturns \/ BeginEpoch
             \/ \E e \in EpochIds, c \in Ids : ReadMembers(e, c)
             \/ \E e \in EpochIds : EndEpoch(e)
      PROVE  parent' = parent /\ next_id' = next_id
  BY <1>6 DEF Canonicalise, BeginFind, BeginUnion, FindReturns, BeginEpoch, ReadMembers,
              EndEpoch, graphVars
<1> QED BY <1>1, <1>2, <1>3, <1>4, <1>5, <1>6 DEF Next

LEMMA InitIsPartitionInit == Init => P!Init /\ OneRoot
<1> SUFFICES ASSUME Init PROVE P!Init /\ OneRoot
  OBVIOUS
<1>1. Allocated = {} /\ \A S : Closed(S)
  BY DEF Init, Allocated, Closed
<1>2. P!Init
  BY <1>1 DEF P!Init, Classes
<1>3. ASSUME NEW x \in Ids, NEW y \in Ids, x # y PROVE Apart(x, y)
  <2>1. {x} \in SUBSET Ids /\ Closed({x}) /\ x \in {x} /\ y \notin {x}
    BY <1>1, <1>3
  <2> QED BY <2>1 DEF Apart
<1> QED BY <1>2, <1>3 DEF OneRoot

LEMMA OneRootPerClass == Spec => []OneRoot
<1>1. Init => OneRoot
  BY InitIsPartitionInit
<1>2. IInv /\ OneRoot /\ [Next]_vars => OneRoot'
  BY StepIsPartitionStep
<1> QED BY <1>1, <1>2, Invariance, PTL DEF Spec

\* The union-find implements a partition of the ids: births, unions, and
\* nothing else that a caller could see (EGraph.find, EGraph.union, _add_enode).
THEOREM ImplementsPartition == Spec => RefinesPartition
<1>1. Init => P!Init
  BY InitIsPartitionInit
<1>2. IInv /\ OneRoot /\ [Next]_vars => [P!Next]_Classes
  BY StepIsPartitionStep
<1> QED BY <1>1, <1>2, Invariance, OneRootPerClass, PTL DEF Spec, RefinesPartition, P!Spec

LEMMA NextSomeRoot ==
  ASSUME IInv, OneRoot, SomeRoot, [Next]_vars
  PROVE  SomeRoot'
<1>1. CASE parent' = parent
  BY <1>1 DEF SomeRoot, Apart, Closed
<1>2. CASE HalveStep
  <2>1. \A S \in SUBSET Ids : Closed(S)' <=> Closed(S)
    BY <1>2, HalvingKeepsClasses
  <2>2. \A x \in Ids : parent[x] = x => parent'[x] = x
    BY <1>2 DEF HalveStep, AtRoot, IInv, TypeOK
  <2> QED BY <2>1, <2>2 DEF SomeRoot, Apart
<1>3. CASE Link
  <2>1. PICK l \in Ids, w \in Ids :
          /\ l # w /\ parent[w] = w /\ parent[l] = l
          /\ parent' = [parent EXCEPT ![l] = w] /\ parent \in [Ids -> Ids]
    <3>1. /\ cur \in Allocated /\ other \in Allocated /\ Allocated \subseteq Ids
          /\ parent[other] = other /\ parent[cur] = cur /\ cur # other
      BY <1>3 DEF Link, IInv, RegistersOK, Allocated, Ids, TypeOK
    <3> QED BY <1>3, <3>1 DEF Link, Winner, Loser, IInv, TypeOK
  <2>2. \A S \in SUBSET Ids : Closed(S)' <=> Closed(S) /\ (l \in S <=> w \in S)
    BY <2>1 DEF Closed
  <2> SUFFICES ASSUME NEW x \in Ids PROVE \E r \in Ids : parent'[r] = r /\ ~ Apart(x, r)'
    BY DEF SomeRoot
  <2>3. PICK r \in Ids : parent[r] = r /\ ~ Apart(x, r)
    BY DEF SomeRoot
  <2>4. CASE r = l
    <3>1. ~ Apart(x, w)' /\ parent'[w] = w
      BY <2>1, <2>2, <2>3, <2>4 DEF Apart
    <3> QED BY <2>1, <3>1
  <2>5. CASE r # l
    <3>1. ~ Apart(x, r)' /\ parent'[r] = r
      BY <2>1, <2>2, <2>3, <2>5 DEF Apart
    <3> QED BY <3>1
  <2> QED BY <2>4, <2>5
<1>4. CASE UNCHANGED vars
  BY <1>1, <1>4 DEF vars, graphVars
<1>5. ASSUME \/ AddEnode
             \/ \E c, n, nn \in Ids : Canonicalise(c, n, nn)
             \/ \E x \in Ids : BeginFind(x)
             \/ \E a, b \in Ids : BeginUnion(a, b)
             \/ FindReturns \/ BeginEpoch
             \/ \E e \in EpochIds, c \in Ids : ReadMembers(e, c)
             \/ \E e \in EpochIds : EndEpoch(e)
      PROVE  parent' = parent
  BY <1>5 DEF AddEnode, Canonicalise, BeginFind, BeginUnion, FindReturns, BeginEpoch,
              ReadMembers, EndEpoch, graphVars
<1> QED BY <1>1, <1>2, <1>3, <1>4, <1>5 DEF Next

\* The blocks are what find answers by: each has exactly one of the live
\* e-classes, the root that every find in it climbs to.
OneLiveClassPerBlock == \A B \in Classes : \E c \in classes : B \cap classes = {c}

\* "find returns a live canonical id - the class is always present" (union,
\* _close_congruence): one live class in every block, whatever was merged.
THEOREM BlocksHaveOneClass == Spec => []OneLiveClassPerBlock
<1>1. Init => SomeRoot
  <2> SUFFICES ASSUME Init PROVE SomeRoot
    OBVIOUS
  <2>1. \A x \in Ids : parent[x] = x
    BY DEF Init
  <2> QED BY <2>1, ApartIsEquivalence DEF SomeRoot
<1>2. IInv /\ OneRoot /\ SomeRoot /\ [Next]_vars => SomeRoot'
  BY NextSomeRoot
<1>3. IInv /\ OneRoot /\ SomeRoot => OneLiveClassPerBlock
  <2> SUFFICES ASSUME IInv, OneRoot, SomeRoot, NEW B \in Classes
               PROVE  \E c \in classes : B \cap classes = {c}
    BY DEF OneLiveClassPerBlock
  <2>1. TypeOK /\ ForestOK /\ RootsAreLive
    BY DEF IInv
  <2>2. PICK x \in Allocated : B = With(x)
    BY <2>1, ClassesAreWith
  <2>3. x \in Ids /\ B \subseteq Allocated /\ Allocated \subseteq Ids
    BY <2>1, <2>2, WithIsAllocated DEF Allocated, Ids, TypeOK
  <2>4. PICK r \in Ids : parent[r] = r /\ ~ Apart(x, r)
    BY <2>3 DEF SomeRoot
  <2>5. r \in B /\ r \in classes
    BY <2>1, <2>2, <2>3, <2>4 DEF With, RootsAreLive
  <2>6. ASSUME NEW c \in B, c \in classes PROVE c = r
    <3>1. c \in Ids /\ parent[c] = c /\ ~ Apart(x, c)
      BY <2>1, <2>2, <2>3, <2>6 DEF With, RootsAreLive
    <3> QED BY <2>4, <3>1, ApartIsEquivalence DEF OneRoot
  <2> QED BY <2>5, <2>6
<1> QED BY <1>1, <1>2, <1>3, Invariance, OneRootPerClass, PTL DEF Spec
=============================================================================
