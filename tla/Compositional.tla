--------------------------- MODULE Compositional ---------------------------
(***************************************************************************)
(* Compositional delivery (catopt_orchestrator/optimize.py,                *)
(* _optimize_compositional): optimise a model block by block, fuse         *)
(* adjacent pairs (catopt_torch/composer.py, cross_pairs), graft the       *)
(* results into a clone that shares the model's parameters, verify the     *)
(* whole, and roll back when that fails.                                   *)
(*                                                                         *)
(* Exporting, searching, lowering, cloning and verifying belong to the     *)
(* backend: each may succeed, answer no, or raise, and the steps below say *)
(* what the driver does in every case.  A call's template cache may be the *)
(* caller's own and outlive the call.                                      *)
(***************************************************************************)
EXTENDS Integers, FiniteSets

CONSTANTS
  NBlocks,       \* blocks the composer selects, in execution order
  Keys,          \* the structural keys their exported IR may have
  MaxCrossPairs, \* max_cross_pairs
  MaxCalls,      \* bound: calls sharing one cache
  None           \* a missing dictionary entry

ASSUME SizesAreNat == NBlocks \in Nat /\ MaxCrossPairs \in Nat /\ MaxCalls \in Nat
ASSUME NoneIsNothing ==
  /\ None \notin {"own", "fused", "stub", "hit", "miss", "replay_failed"}
  /\ None \notin (1 .. MaxCalls) \X (1 .. NBlocks)

Blocks == 1 .. NBlocks
Pairs  == {b \in Blocks : b + 1 \in Blocks}   \* the pair b + (b+1)

VARIABLES
  pc,           \* the step the driver is at
  at,           \* the block, or the pair, it is at
  calls,        \* calls begun
  caching,      \* whether the call has a cache
  key,          \* _block_key of every block
  cache,        \* key -> the <<call, block>> whose search made the template
  hits, misses, fallbacks,
  status,       \* block_reports[b]["status"]
  rep_cache,    \* block_reports[b]["cache"]
  replacements, \* block -> the module to install: its own lowering, a fused
                \* pair, or the stub (Identity, _Zero) a fused pair leaves
  audited,      \* what agg, the parameter report, sums: <<b>> and <<b, b+1>>
  consumed,     \* blocks already fused
  attempts,     \* joint optimisations run
  gated,        \* blocks whose replacement passed its own verification
  pair_status,  \* cross_pairs[pair]["status"]
  e2e,          \* end_to_end
  returned,     \* the object handed back, and the modules grafted in it
  live          \* the modules grafted in the caller's own model

cacheVars  == <<caching, key, cache, hits, misses, fallbacks, rep_cache>>
blockVars  == <<status, replacements, audited, gated>>
pairVars   == <<consumed, attempts, pair_status>>
resultVars == <<e2e, returned, live>>
vars == <<pc, at, calls, cacheVars, blockVars, pairVars, resultVars>>

NoGraft == [b \in Blocks |-> None]
Unreturned == [object |-> "none", grafts |-> NoGraft]

DriverTypeOK ==
  /\ pc \in {"idle", "block", "search", "gate", "deliver", "pair", "joint",
             "clone", "verify"}
  /\ at \in 1 .. NBlocks + 1
  /\ calls \in 0 .. MaxCalls
CacheTypeOK ==
  /\ caching \in BOOLEAN
  /\ key \in [Blocks -> Keys]
  /\ cache \in [Keys -> {None} \cup ((1 .. MaxCalls) \X Blocks)]
  /\ hits \in 0 .. NBlocks /\ misses \in 0 .. NBlocks /\ fallbacks \in 0 .. NBlocks
  /\ rep_cache \in [Blocks -> {None, "hit", "miss", "replay_failed"}]
BlockTypeOK ==
  /\ status \in [Blocks -> {"none", "not_executed", "skipped", "failed", "optimized"}]
  /\ replacements \in [Blocks -> {None, "own", "fused", "stub"}]
  /\ audited \subseteq {<<b>> : b \in Blocks} \cup {<<b, b + 1>> : b \in Pairs}
  /\ gated \subseteq Blocks
PairTypeOK ==
  /\ consumed \subseteq Blocks
  /\ attempts \in 0 .. MaxCrossPairs
  /\ pair_status \in [Pairs -> {"none", "skipped", "declined", "grafted"}]
ResultTypeOK ==
  /\ e2e \in {"none", "passed", "rolled_back", "skipped"}
  /\ returned \in [object : {"none", "clone", "caller"},
                   grafts : [Blocks -> {None, "own", "fused", "stub"}]]
  /\ live \in [Blocks -> {None, "own", "fused", "stub"}]
TypeOK == DriverTypeOK /\ CacheTypeOK /\ BlockTypeOK /\ PairTypeOK /\ ResultTypeOK

Init ==
  /\ pc = "idle" /\ at = 1 /\ calls = 0 /\ caching = FALSE
  /\ key \in [Blocks -> Keys]
  /\ cache = [k \in Keys |-> None]
  /\ hits = 0 /\ misses = 0 /\ fallbacks = 0
  /\ status = [b \in Blocks |-> "none"]
  /\ rep_cache = [b \in Blocks |-> None]
  /\ replacements = NoGraft /\ audited = {} /\ gated = {}
  /\ consumed = {} /\ attempts = 0 /\ pair_status = [b \in Pairs |-> "none"]
  /\ e2e = "none" /\ returned = Unreturned /\ live = NoGraft

\* Select the blocks and capture their inputs.
Call ==
  /\ pc = "idle" /\ calls < MaxCalls
  /\ pc' = "block" /\ at' = 1 /\ calls' = calls + 1
  /\ caching' \in BOOLEAN /\ key' \in [Blocks -> Keys]
  /\ hits' = 0 /\ misses' = 0 /\ fallbacks' = 0
  /\ status' = [b \in Blocks |-> "none"]
  /\ rep_cache' = [b \in Blocks |-> None]
  /\ replacements' = NoGraft /\ audited' = {} /\ gated' = {}
  /\ consumed' = {} /\ attempts' = 0 /\ pair_status' = [b \in Pairs |-> "none"]
  /\ e2e' = "none" /\ returned' = Unreturned
  /\ UNCHANGED <<cache, live>>

-----------------------------------------------------------------------------
(* One block. *)

\* The handler around a block: it is reported failed and the next one begins.
Failed ==
  /\ status' = [status EXCEPT ![at] = "failed"]
  /\ pc' = "block" /\ at' = at + 1

\* The block was not captured, or takes keyword arguments.
\* Bug: the loop does not stop at the last block.
SkipBlockPast ==
  /\ pc = "block" /\ at <= NBlocks + 1
  /\ \E s \in {"not_executed", "skipped"} : status' = [status EXCEPT ![at] = s]
  /\ at' = at + 1
  /\ UNCHANGED <<pc, calls, cacheVars, replacements, audited, gated, pairVars,
                 resultVars>>
SkipBlock ==
  /\ pc = "block" /\ at <= NBlocks
  /\ \E s \in {"not_executed", "skipped"} : status' = [status EXCEPT ![at] = s]
  /\ at' = at + 1
  /\ UNCHANGED <<pc, calls, cacheVars, replacements, audited, gated, pairVars,
                 resultVars>>

\* The export, or the key, or the replay of a template raises.
ExportFails ==
  /\ pc = "block" /\ at <= NBlocks /\ caching
  /\ Failed
  /\ UNCHANGED <<calls, cacheVars, replacements, audited, gated, pairVars,
                 resultVars>>

\* A template replays on this block and its lowering passes the gate.
CacheHit ==
  /\ pc = "block" /\ at <= NBlocks
  /\ caching /\ cache[key[at]] # None
  /\ hits' = hits + 1
  /\ rep_cache' = [rep_cache EXCEPT ![at] = "hit"]
  /\ gated' = gated \cup {at}
  /\ pc' = "deliver"
  /\ UNCHANGED <<at, calls, caching, key, cache, misses, fallbacks, status,
                 replacements, audited, pairVars, resultVars>>

\* There is no template, or it cannot serve this block, or its replay fails to
\* lower or to verify: the ordinary search.
GoSearch ==
  /\ pc = "block" /\ at <= NBlocks
  /\ IF caching /\ cache[key[at]] # None
     THEN /\ fallbacks' = fallbacks + 1
          /\ rep_cache' = [rep_cache EXCEPT ![at] = "replay_failed"]
     ELSE /\ fallbacks' = fallbacks
          /\ rep_cache' = [rep_cache EXCEPT ![at] = IF caching THEN "miss" ELSE None]
  /\ pc' = "search"
  /\ UNCHANGED <<at, calls, caching, key, cache, hits, misses, blockVars,
                 pairVars, resultVars>>

\* The search or the lowering raises, a resource limit included.
SearchFails ==
  /\ pc = "search"
  /\ Failed
  /\ UNCHANGED <<calls, cacheVars, replacements, audited, gated, pairVars,
                 resultVars>>

\* cache.setdefault: the template that is there stays.
\* Bug: a block that fell back replaces the template it could not use.
Overwritten(c, k, template) == [c EXCEPT ![k] = template]
Defaulted(c, k, template) == [c EXCEPT ![k] = IF @ = None THEN template ELSE @]

\* The search returns: its template is cached, before the block is verified.
SearchDone ==
  /\ pc = "search"
  /\ IF caching
     THEN /\ misses' = misses + 1
          /\ cache' = Defaulted(cache, key[at], <<calls, at>>)
     ELSE UNCHANGED <<misses, cache>>
  /\ pc' = "gate"
  /\ UNCHANGED <<at, calls, caching, key, hits, fallbacks, rep_cache, blockVars,
                 pairVars, resultVars>>

GatePasses ==
  /\ pc = "gate"
  /\ gated' = gated \cup {at}
  /\ pc' = "deliver"
  /\ UNCHANGED <<at, calls, cacheVars, status, replacements, audited, pairVars,
                 resultVars>>

\* The verification of the block declines it, or raises.
GateDeclines ==
  /\ pc = "gate"
  /\ Failed
  /\ UNCHANGED <<calls, cacheVars, replacements, audited, gated, pairVars,
                 resultVars>>

\* The replacement is installed, then the parameters are audited.
Deliver ==
  /\ pc = "deliver"
  /\ replacements' = [replacements EXCEPT ![at] = "own"]
  /\ status' = [status EXCEPT ![at] = "optimized"]
  /\ audited' = audited \cup {<<at>>}
  /\ pc' = "block" /\ at' = at + 1
  /\ UNCHANGED <<calls, cacheVars, gated, pairVars, resultVars>>

\* The audit (composer.param_report) raises with the replacement installed.
AuditFails ==
  /\ pc = "deliver"
  /\ replacements' = [replacements EXCEPT ![at] = "own"]
  /\ Failed
  /\ UNCHANGED <<calls, cacheVars, audited, gated, pairVars, resultVars>>

BlocksDone ==
  /\ pc = "block" /\ at = NBlocks + 1
  /\ pc' = IF MaxCrossPairs > 0 THEN "pair" ELSE "clone"
  /\ at' = 1
  /\ UNCHANGED <<calls, cacheVars, blockVars, pairVars, resultVars>>

-----------------------------------------------------------------------------
(* The pairwise cross-block pass: at is the first block of the pair. *)

\* Bug: a block that was fused may be fused again.
SkippableIfUnoptimized(b) == replacements[b] = None \/ replacements[b + 1] = None
Skippable(b) ==
  \/ {b, b + 1} \cap consumed # {}
  \/ replacements[b] = None \/ replacements[b + 1] = None

\* A member is fused or not optimised, the boundary is not simple, or the
\* joint runs are used up.  The boundary is the backend's to judge.
SkipPair ==
  /\ pc = "pair" /\ at \in Pairs
  /\ pair_status' = [pair_status EXCEPT ![at] = "skipped"]
  /\ at' = at + 1
  /\ UNCHANGED <<pc, calls, cacheVars, blockVars, consumed, attempts, resultVars>>

TryPair ==
  /\ pc = "pair" /\ at \in Pairs
  /\ ~Skippable(at) /\ attempts < MaxCrossPairs
  /\ attempts' = attempts + 1
  /\ pc' = "joint"
  /\ UNCHANGED <<at, calls, cacheVars, blockVars, consumed, pair_status, resultVars>>

\* The joint search raises, fails its verification, or is not cheaper.
DeclinePair ==
  /\ pc = "joint"
  /\ pair_status' = [pair_status EXCEPT ![at] = "declined"]
  /\ pc' = "pair" /\ at' = at + 1
  /\ UNCHANGED <<calls, cacheVars, blockVars, consumed, attempts, resultVars>>

\* What the two blocks contributed goes, what the pair contributes comes.
\* Bug: the blocks' own reports stay in the sums.
ReauditedTwice(b) == audited \cup {<<b, b + 1>>}
Reaudited(b) == (audited \ {<<b>>, <<b + 1>>}) \cup {<<b, b + 1>>}

GraftPair ==
  /\ pc = "joint"
  /\ audited' = Reaudited(at)
  /\ replacements' = [replacements EXCEPT ![at] = "fused", ![at + 1] = "stub"]
  /\ gated' = gated \cup {at, at + 1}
  /\ consumed' = consumed \cup {at, at + 1}
  /\ pair_status' = [pair_status EXCEPT ![at] = "grafted"]
  /\ pc' = "pair" /\ at' = at + 1
  /\ UNCHANGED <<calls, cacheVars, status, attempts, resultVars>>

PairsDone ==
  /\ pc = "pair" /\ at \notin Pairs
  /\ pc' = "clone"
  /\ UNCHANGED <<at, calls, cacheVars, blockVars, pairVars, resultVars>>

-----------------------------------------------------------------------------
(* Recomposition. *)

\* A clone that shares the parameters takes the grafts, and is verified.
Clone ==
  /\ pc = "clone"
  /\ pc' = "verify"
  /\ UNCHANGED <<at, calls, cacheVars, blockVars, pairVars, resultVars>>

\* No clone: the model itself is returned, with nothing grafted.
\* Bug: the grafts go into the caller's model.
GraftInPlace ==
  /\ pc = "clone"
  /\ live' = replacements
  /\ returned' = [object |-> "caller", grafts |-> live']
  /\ e2e' = "skipped"
  /\ pc' = "idle"
  /\ UNCHANGED <<at, calls, cacheVars, status, replacements, audited, gated, pairVars>>
CloneFails ==
  /\ pc = "clone"
  /\ replacements' = NoGraft
  /\ live' = replacements'
  /\ returned' = [object |-> "caller", grafts |-> live']
  /\ e2e' = "skipped"
  /\ pc' = "idle"
  /\ UNCHANGED <<at, calls, cacheVars, status, audited, gated, pairVars>>

VerifyPasses ==
  /\ pc = "verify"
  /\ returned' = [object |-> "clone", grafts |-> replacements]
  /\ e2e' = "passed"
  /\ pc' = "idle"
  /\ UNCHANGED <<at, calls, cacheVars, blockVars, pairVars, live>>

\* _roll_back_delivery: the clone itself when nothing was grafted, else a
\* fresh clone, else the model.
\* Bug: when no fresh clone can be made, the grafted one is returned.
RolledBackStale(grafts) ==
  {[object |-> "clone", grafts |-> g] : g \in {NoGraft, grafts}}
RolledBack(grafts) ==
  {[object |-> o, grafts |-> NoGraft] :
     o \in IF grafts = NoGraft THEN {"clone"} ELSE {"clone", "caller"}}

\* The whole-model check fails or raises.
\* Bug: only the reports are reverted, the grafted clone is returned.
KeepGrafts ==
  /\ pc = "verify"
  /\ returned' = [object |-> "clone", grafts |-> replacements]
  /\ replacements' = NoGraft
  /\ e2e' = "rolled_back"
  /\ pc' = "idle"
  /\ UNCHANGED <<at, calls, cacheVars, status, audited, gated, pairVars, live>>
VerifyFails ==
  /\ pc = "verify"
  /\ returned' \in RolledBack(replacements)
  /\ replacements' = NoGraft
  /\ e2e' = "rolled_back"
  /\ pc' = "idle"
  /\ UNCHANGED <<at, calls, cacheVars, status, audited, gated, pairVars, live>>

\* A port called outside every handler raises: nothing is returned.
Raise ==
  /\ \/ pc = "block" /\ at = 1                          \* capture_inputs
     \/ pc = "pair" /\ at \in Pairs /\ ~Skippable(at)    \* boundary
     \/ pc = "verify"                                   \* graft
  /\ pc' = "idle"
  /\ UNCHANGED <<at, calls, cacheVars, blockVars, pairVars, resultVars>>

BlockStep ==
  \/ SkipBlock \/ ExportFails \/ CacheHit \/ GoSearch \/ SearchFails \/ SearchDone
  \/ GatePasses \/ GateDeclines \/ Deliver \/ AuditFails \/ BlocksDone
PairStep == SkipPair \/ TryPair \/ DeclinePair \/ GraftPair \/ PairsDone
ComposeStep == Clone \/ CloneFails \/ VerifyPasses \/ VerifyFails
Driver == BlockStep \/ PairStep \/ ComposeStep \/ Raise
Next == Call \/ Driver

Spec == Init /\ [][Next]_vars

-----------------------------------------------------------------------------
(* Properties *)

\* "A verified-failing graft never ships", and "never graft into the caller's
\* live model": a returned object carries a graft only when it is a clone, the
\* whole passed its verification, and every grafted module passed its own.
ShipsOnlyVerified ==
  /\ live = NoGraft
  /\ returned.grafts # NoGraft =>
       /\ returned.object = "clone"
       /\ e2e = "passed"
       /\ \A b \in Blocks : returned.grafts[b] # None => b \in gated

\* Half a fused pair is wrong on its own: the stub that forwards its input is
\* installed exactly where the block before carries the fusion, and what a
\* passing call returns carries both halves of every pair reported grafted.
Whole(grafts) == \A b \in Pairs : grafts[b] = "fused" <=> grafts[b + 1] = "stub"
PairsWhole ==
  /\ Whole(replacements) /\ Whole(returned.grafts)
  /\ e2e = "passed" =>
       \A b \in Pairs : pair_status[b] = "grafted" <=> returned.grafts[b] = "fused"

\* While it may still be shipped, the aggregate parameter report sums each
\* installed module once: a fused pair as a pair and its two blocks no more.
\* A block whose audit failed is the one thing it may lack.
AuditSumsReplacements ==
  pc # "idle" =>
    \A b \in Blocks :
      /\ <<b>> \in audited => replacements[b] = "own"
      /\ replacements[b] = "own" /\ status[b] = "optimized" => <<b>> \in audited
      /\ b \in Pairs => (<<b, b + 1>> \in audited <=> replacements[b] = "fused")

\* A template that declined one block may still serve others: no call ever
\* evicts or replaces one (setdefault).
TemplatesStay ==
  [][\A k \in Keys : cache[k] # None => cache'[k] = cache[k]]_vars

\* The driver implements the promise of Delivery: whatever its ports do, and in
\* whatever order, all a caller can see changes in the one step that ends a
\* call, and to nothing but what was verified and is whole.
Promise == INSTANCE Delivery WITH busy <- pc # "idle", report <- e2e
DeliversAsPromised == Promise!Spec

\* What the driver's documentation says of a failed block (optimize.py: "a
\* block that fails to export, saturate, lower, or verify keeps its original
\* implementation"); AuditFails breaks it.
FailedKeepsOriginal ==
  \A b \in Blocks : status[b] = "failed" => returned.grafts[b] = None
=============================================================================
