# catopt: a verification development

catopt optimises tensor programs by equality saturation. A model is exported to
terms, the terms live in an e-graph, rewrite rules grow it, a cost-guided walk
extracts the best term, and the result is lowered, verified and put back into
the model. Finding better programs is heuristic. Keeping the e-graph consistent,
extracting what is really there and never shipping what was not verified is not:
that is what this development is about.

Paths below are relative to `src/packages`.

## 1. The system

| part | state | operations | what must hold |
|---|---|---|---|
| union-find and match epochs (`catopt-core/.../egraph/core.py`, `types.py`, `match.py`) | parent, rank, classes, members, cached member lists, the list of live epochs and their journals | `find` (halving), `union`, `_add_enode`, `_canonicalise`, `_iter_matches` | live classes are the roots; a suspended enumeration reads the graph of its start |
| e-graph and saturation (`egraph/core.py`) | hash-consing table, parents, dirty set, congruence worklist and owners, operator index, applied rules, budgets | `add_term`, `union`, `rebuild`, `matches`, `apply_rule`, `run` | equal terms only are merged; nothing the incremental bookkeeping skips was needed; `run` ends; budgets hold |
| extraction (`egraph/extract.py`, `core.py`) | per-call caches and in-progress sets | `extract_best`, `extract_min_depth`, `any_term`, `_min_term`; paired, bounded and fused variants | the term is of the class, billed correctly, and found when one exists |
| proof log, certificates (`egraph/proof.py`, `certs.py`, `terms.py`) | births, applications, the enodes they made, the rules that fired | recorded by `apply_rule`, `union(witness=)`, re-keying; `certificate`, `verify_certificate` | a certificate replays on terms alone and keeps their meaning |
| compositional delivery (`catopt-orchestrator/.../optimize.py`, `catopt-torch/.../composer.py`) | replacements, reports, template cache, consumed blocks, totals | per-block search, cross-block pairs, graft, end-to-end check, rollback | only verified modules ship; fused pairs are whole; reports describe what ships |
| other drivers (`diagram.py`, `morphisms_kv.py`, `regime.py`, `autotune.py`) | candidates and winners | search, lift, choose, deliver | same delivery gate |
| rule synthesis and its cache (`meta.py`, `rulecache.py`) | a directory shared by processes | `synthesize_rules_cached`, `load`, `store` | a call gets whole rule sets, of its own key |
| evidence store (`catopt-discovery/.../evidence.py`, `pipeline.py`) | the verdict table of an SQLite file, the scope each process holds | `record_run`, `latest_verdicts`, `run_pipeline`, the arena's `_record` and `ingest` | a row says what was measured where it says; a hit is what measuring would give |
| object table, gauntlet and pack (`evidence.py`, `object_synthesis.py`, `machine_pack.py`) | one row per equality, whatever its guard; the reports of each arena | `store_object`, `run_gauntlet` with its retry, `auto_cond_object`, `relax_guard`, `load_pack` | what is judged usable fails nowhere the gauntlet swept; a report describes its row |
| discovery (`pipeline.py`, `arena.py`, `meta_game.py`, ...) | search state, learned policies | propose, play, train | proposals only: the gauntlet decides |
| laws, terms, typing, cost (`catopt-core`) | none | pure functions | numeric and algebraic correctness |
| bridges and backends (`catopt-torch`, `catopt-onnx`, `catopt-cuda`, `catopt-carriers`, `catopt-native`) | none, or a device | export, lower, execute | ports that answer or raise |

**Interaction.** A driver exports a model through a source port, adds the term
to an e-graph, calls `run` with rule sets (themselves built from the laws or
synthesised, through the rule cache), extracts with a cost function, lowers and
verifies through a sink port, and grafts through a composer port. A policy port
may reorder rules but neither adds nor drops any. The core is sequential; the
concurrency in it is that of *generators*: a match enumeration is suspended
while its caller merges classes. Processes share the rule cache's directory,
the generated-kernel directory and the evidence database, whose rows one process
writes over and another reads twice.

**What is hard.** Data read by a suspended generator after the graph changed;
incremental bookkeeping, maintained by hand at each merge, that skips work; caches
filled inside a recursion and read outside it; a driver with a dozen points
at which a port may refuse or raise, each leaving some of the state updated;
processes that race or die between opening a file and renaming it; a measurement
kept under a key that does not say all it depended on. `PROJECT.json`
lists these hazards at their lines, with the properties that watch them.

## 2. Modules

```
Partition   <--implements--  EpochUnionFind  <--  EpochUnionFindProofs
                               ^  MCEpochUnionFind
EGraphTables  <--  EGraph  <--  ProofLog  <--  Saturation  <--  MCSaturation  <--  MCCertificates
   ^                 ^                     /         ^--------  Certificates  <------'
   |                 '---  Extraction  <--/--  MCExtraction
   '--  GraphInvariants  <---------------'
               ^--  EGraphSteps  <--  EGraphStepsProofs  <--  EGraphSearchProofs
                        '--implements-->  Partition
GraphInvariants, Matching  <--  RuleSearch  <--  Saturation
                                    ^--  SaturationSteps  <--  SaturationStepsProofs
                                           '--implements-->  EGraphSteps
Delivery  <--implements--  Compositional  <--  MCCompositional, CompositionalProofs
RuleCache      <--  MCRuleCache,     RuleCacheProofs
EvidenceStore  <--  MCEvidenceStore, EvidenceStoreProofs
Admission      <--  MCAdmission,     AdmissionProofs
```

### EpochUnionFind (and Partition)

The forest, the ranks, the members of the classes and the epochs. `pc` says
which operation is under way; each iteration of `find`'s halving loop is a step
(`HalveStep`), `FindReturns` goes to the second find or to `Link`, which is the
rest of `union` with its journalling, including the halving made by the `find`
that learns who lost. `BeginEpoch`, `ReadMembers` and `EndEpoch` are what a
generator does on its first `next`, on resuming, and on exhaustion; `EndEpoch`
removes by value, as `list.remove` on a dataclass does. `Canonicalise` is the
re-keying of `rebuild`, between enumerations. Enodes are names: nothing here looks into one.
`snapParent` and `snapNodes` are history variables with the graph at the freeze.

`Partition` is what a union-find promises: blocks are born alone and merge in
pairs. The forest is mapped to it without climbing it: a set of ids is closed when
every id in it has its parent in it, and no other id has (`Closed`), and the blocks are the least
nonempty closed sets (`Classes`). What find answers by is a theorem: each block has one live class.

### EGraphTables, EGraph, GraphInvariants, Matching, RuleSearch and Saturation

`EGraphTables` is the graph as a record, with its primitives: mint an enode, link two roots, dirty what
is above a class, re-key members, claim an item of the congruence worklist. `EGraph` composes them to
the operations the program calls, functions from
graphs to graphs. The record has every table the code maintains: `cons` for
`_node_to_class`, `owner` and `pend` for the congruence worklist, `parents`,
`dirty`, and the operator index `opk`. A class keeps `born`, the enode it was
minted for; it gives the class a meaning when the leaves and operators have one.
`canon` is the union-find with all paths compressed, which EpochUnionFind
justifies; so is matching against one graph for a whole enumeration.
`GraphInvariants` states what the tables must satisfy between operations, whoever performs them.
`Denote` gives an operator and a key a meaning, as a function of what the children mean.

`Matching` says where a pattern occurs under a binding of its variables, as a relation
between patterns and classes, where `EGraph!Match` is the enumeration that finds the bindings; the
assumption `MatchIsExact` of MCSaturation has TLC compare the two, on graphs that have cycles and classes with several
members. It also has the filters that decide which classes are enumerated. `RuleSearch` has the
rules, their budgets and what the search must satisfy, over that relation: a firing is done when the
class holds the right-hand side already, so `FrontierComplete` is about pending *work*, not about enumerations.

`Saturation` is `apply_rule` and `run` as the steps between which the graph
changes: begin an iteration (snapshot and clear the frontier), take a rule, a
candidate class, a match, fire or veto it, end the rule, end the iteration with
its partial rebuild and the stop conditions, and the final rebuild. A policy's
order is any order. Between runs the caller adds terms and merges classes it
knows to be equal (`Offer`), or rebuilds. The patience of `stop = "improving"` is
a choice to stop; what a rule's `check` says is a choice to veto.

### EGraphSteps and SaturationSteps

EGraphSteps is the same graph as a machine without rules: any sequence of additions, unions, canonicalisations, rounds of congruence closure and clearings of the frontier, in
steps as small as the code's loops. The upward walk of `union` visits a class at a time
(`WalkUp`, with `walk` for the code's stack); `_close_congruence` takes the worklist (`TakeWork`), claims an item at a
time (`ClaimItem`), then performs a merge at a time (`MergeNext`). Each operation of `EGraph` is a sequence of
these steps. The order of the worklist and of the walk is any. `LawfulSpec` is
the machine whose caller unites only classes that mean the same; what it adds is meaning, and only theorems about meaning assume it.
The runs check the same invariants (`GraphInvariants`) over `Saturation`, where rules fire.
`searched` is a history variable, the graph when the frontier was last taken.

`SaturationSteps` puts the loop on this machine: the same actions as `Saturation`, with each call that changes the
graph taken in the machine's steps. `BeginFire` takes a binding, with the leaf that `derive` mints; `Build` makes one
enode of the right-hand side, once its children are there, where the code recurses (`_instantiate`); `Join` unites what was
built with the class that matched; `Abandon` is the `KeyError` of a variable without a binding. `GraphStep` is what `run`
and its caller do in between: any addition and union while it is idle, canonicalisation after the rules, the final
rebuild. What the proofs do not need is left open: the order of rules, candidates and matches, which matches fit under a
cap, when the run stops. `FrontierComplete` and `BudgetBounds` are stated once, in `RuleSearch`, and checked of the one loop
and proved of the other. Both machines are there to be proved about: they have no recursive operator, and no run of their own.
`LawfulLoopSpec` is the loop whose caller unites only what means the same and whose rules fire only where they hold. `RuleSearch!Holds`
says what that is: a pattern means what `Denote` makes of its variables (`PatternValue`), and a rule holds of the values of its
variables when its two sides then mean the same, the leaf that `derive` mints included (`Completed`). A rule that is always true holds
everywhere, one with a `check` where its check lets it fire. The assumption `RulesHold` of MCSaturation has TLC evaluate it for the
rules of the runs.
Provenance (`birth`, `app`) is carried along by `EGraphSteps` and left alone by the proofs.

### ProofLog and Certificates

What a tracking graph records: when each enode was made, each application of a rule
with the classes it was bound to and the enode that heads what it made, and for an
enode the first application that made it. Re-keying hands all this on (`Inherited`), and a merge
with a witness logs a rule of its own (`UnionWitnessed`). `ProofLog` also reads classes back as
terms (`Oldest`, with its memo and its stack) and terms as enodes (`Locate`).

`Certificates` is `certificate` and `verify_certificate` as functions of a graph, evaluated in
every state in which a caller may ask. `Connect` expands a target through the application that made it,
descends into congruent children, searches the rules that fired (`EdgePath`, whose seen set and
budget are shared by all branches, and so are threaded), or writes a stub. `Replayed` sees terms
and rules only. Requests are between a term the caller added and what an extraction may
return for it: any member of its class, with any members at its children (`Targets`).

### Extraction

The walks are functions that thread their caches, in the code's member order;
the state is an e-graph grown one enode at a time, so that every small
e-graph, cyclic or not, is reached. The references (`Denotes`, `Least`,
`Subterms`) say what the answers should be without a walk.

### Compositional

`_optimize_compositional` for one thread and any behaviour of its ports: each
action is one outcome of one port call and all the code does about it, so the
behaviours are all orders of success, refusal and exception. `pc` follows the
driver: a block, its search, its gate, its delivery, the pairs, their joint
runs, the clone, the verification. `Raise` is a port that raises outside every
handler: nothing is returned. `live` is the caller's own model. A module is
what role it plays (`own`, `fused`, `stub`), never its weights.

`Delivery` is what the driver promises: nothing its caller can see changes until the
one step that ends a call, and then it has a verified clone with whole grafts, or something with nothing grafted.

### RuleCache

Processes, names and inodes. `store` opens the temporary file (truncating the
inode the name has, or making one), writes it in chunks at the descriptor's own
offset, closes and renames; `load` reads an inode that may be written
meanwhile. A process may be killed at any step. Content is whose derivation is
written where; a file with a hole does not parse (`Complete`), one of a single derivation does (`Uniform`),
and one that mixes derivations of one key may or may not. What the
parents' hooks do is a value, and `Signature` is what the key sees of it: hooks may share a key.

### EvidenceStore

The verdict table and its two kinds of writers. A pipeline takes its scope
(`TakeScope`: corpus, rules, the revision of the *files*), may be served rows
(`ReadCache`), measures the rest (`Measure`) and records all in one transaction
(`Record`). A session takes its scope once, records each object as it is drawn
(`Draw`), and its corpus grows (`Ingest`). `Edit` changes the files under a
process that runs what it has loaded; `Quit` ends or kills one. What is measured
is a function of what it depends on: corpus, rules, loaded code and the view
option (`Measured`). A row keeps, as history, where it was measured (`origin`)
and what its run proposed (`batch`).

The columns are abstracted to what the properties tell apart: the numeric
verdict, derivability, `clears` for the gates that have a column, and `ill` for the
one that has none.

### Admission

The object table and all who write or judge its rows: arenas, the command line
and the loader of the machine pack. An object is a key (its two sides), a guard,
a name and whether it has a hook that data cannot hold. Numbers are not modelled but
*sites* are: the instances where an equality is evaluated, with an outcome each, some
of which flip from one random draw to the next. `Truth` is the gauntlet's truth gate
over the sites a guard fires on. The gate after it (`TypedPay`) does not ask that the rule be equal wherever it
fires in the probe: it asks that it fire, that no fire be ill-typed, that something pay, and that the terms which
extraction picked agree with their inputs. Costs are not modelled, so any of the fires may be picked (`Payments`); an extraction
without a member costs 0 and so pays, compared with nothing (`impact.py:533`). An outcome is therefore equal, unequal, ill-typed, unavailable or
flipping, and a site that is unequal but denotes may fire in the probe of an object judged usable. `Minted` is auto-cond, a smallest guard that
separates the sites it measured; `Relaxed` is `relax_guard`. The sites differ by
who looks: the default window and its escalation, auto-cond's second window, the
matches of a corpus, the fires in the probe. Storing and judging are separate
steps (`Store`, `Judge`), as they are separate statements and transactions, and the
loader reads a row twice (`Rebuild`, `Rejudge`).

## 3. Runs

Deadlock checking is off in every run: each system stops when its bounds are used
up, or when the caller asks for nothing more.

| run | result | bounds | what it shows |
|---|---|---|---|
| `uf_merges` | pass, 615k states, liveness | 4 ids, 1 enumeration at a time | live classes are the roots, an enumeration reads its freeze; `Partition` is refined; `find` and `union` return |
| `uf_coexist` | pass, 1.8M | 3 ids, 2 enumerations together, re-keying | an epoch that stays registered is exact |
| `sat_frontier` | pass, 40k states | 2 sets of 2 rules in any order, 2 starting terms, 2 runs, 1 offer, both truncation levels | merges sound; hash-consing, dirty pruning, worklist, head filter and frontier lose nothing; runs saturate |
| `sat_budget` | pass, 395k | two sets of 3 rules, two of them under budgets and three that mint leaves, 3 starting terms, 2 runs, 1 offer, certificates 8 deep | budget bounds; certificates replay and keep meaning |
| `ext_walks` | pass, 9.4k | 3 classes, 2 members each, 9 enodes | representatives exist, billing is exact, acyclic graphs are extracted optimally |
| `comp_calls` | pass, 1.6M | 3 blocks, 2 joint runs, 2 calls, 2 keys | delivery is verified, whole and accounted for; templates stay; `Delivery` is implemented |
| `comp_failed` | violation | 2 blocks | a failed block ships its replacement |
| `rc_races` | pass, 859k, symmetry | 3 processes, 3 hooks, 2 of them under one of the 2 keys, 2 chunks, 4 calls, 1 kill | calls return whole sets of their key; published files are whole or being written |
| `ev_cache` | pass, 1.5M | 1 pipeline and 1 session at a time, 2 candidates, 2 libraries, 2 runs, 1 edit, 1 growth, 1 second, 2 writes | rows and hits are measurements of their scope; runs are whole; history is kept |
| `ev_ships` | violation | as above | a cached candidate is recorded again as `SHIP` |
| `adm_games` | pass, 321k | an arena, a command line, a loader; 2 keys, 2 clauses, 6 sites, 1 growth, 2 writes of the table | what is usable is clean; minted guards separate; the retry was not in vain; reports describe rows |
| `adm_relax` | violation | as above, other matches | an unguarded relaxation with a failing site is usable |

**Why the bounds are enough.** Path halving needs a path of two edges, which
needs rank 2 and so four ids; ties of rank need four as well. A misremoved epoch needs two enumerations with equal journals.
The starting terms of `sat_frontier` need congruence to close before a rule
applies (`LateZero`), and a match two levels above a change (`Deep`), which a
shallower dirty walk misses. Both are seen by `FrontierComplete`, which looks for a match anywhere in the graph, whoever
enumerated what. Two runs and one offer let a frontier
survive a run and be reopened, and `addzero` is in both rule sets while `cancel` and `push` are in one each, so that a rule is
new to a graph which another set has searched, or sits out the second run. The terms of
`sat_budget` have what certificates find hard: sums that are congruent only after a merge, and a minted leaf
whose class has an older term; runs of both rule sets on one graph mix their applications.
The bounds of a certificate are smaller than the code's (8 deep for 400) so that requests reach them.
A cycle through a class in progress, with a
second member to fall back on, needs two classes; a third shares one. Three
blocks overlap two pairs, so that the second may follow the first fused, declined
or skipped, and two joint runs reach the cap; two calls share, or do not share, two
keys. In the rule cache one process truncates, one writes and
one reads; two chunks make a file that is neither empty nor whole. Two of the hooks are closures of one
function: their calls race for one key with different rules. The processes are alike, and so are the two closures, which the symmetry uses: no
definition tells them apart, and no property of the run is temporal. Of two runs of
the evidence store one may be served what the other recorded, or lie in another
scope: one edit, one growth and a second library tell scopes apart, and one second
orders rows. Two writes of the object table are a row and what is written over it,
by the same process or another; two clauses make a guard that can be relaxed twice,
and the six sites fail each where one gate alone looks: the window, past it, the matches
of a grown corpus, the typedness of the probe, the comparison of what was picked there, a flip.

**Fairness.** One specification assumes it. `FairSpec` of EpochUnionFind has
weak fairness on the steps inside an operation: the code is sequential and
does not pause in `find` or `union`. It does not assume that an
operation is ever *called*. That a call of the compositional driver returns is not stated: it is two loops over finite ranges. `RunSaturates` is stated as an invariant (a run that
ends has not run out of iterations) since the fair version over `Saturation`'s
large steps is too slow to check.

## 4. What the violations are

Each of these runs checks a sentence of the code's own documentation
that the model of the code breaks; `findings` quotes it.

- A block whose audit raises is reported failed and shipped (`optimize.py:3724`).
- The typedness audit's count has no column, and is restored as 0: a candidate served
  from the cache clears a gate it failed, and is recorded again as `SHIP`
  (`pipeline.py:1219`).
- Relaxing the last clause of a guard leaves none, and an object without a guard is
  judged on a single instance: nothing sweeps the grown region (`object_synthesis.py:1159`).

More divergences were met while modelling. They have no run of their own; the
properties above are stated so as to leave out exactly these cases.

E-graph, extraction, delivery, rule cache:

- `_epochs.remove(ep)` compares dataclasses by value and removes the first *equal* epoch
  (`core.py:653`): when the later of two suspended enumerations with equal journals ends
  first, the earlier one is no longer journaled into. `RegisteredEpochsFrozen`
  holds of what stays registered.
- The frontier is one per graph, and a run takes it for its own rules (`core.py:1666`): a rule that sits out the run never
  searches the classes that had changed by then, and `regime.build_egraph` alternates its laws with the
  carriers' on one graph (`regime.py:1055`). The history `missed` has the rules this happened to, and
  `FrontierComplete` leaves them out; without it, `sat_frontier` has a counterexample.
- `extract_best` answers "not extractable" for a class in progress and caches what
  follows (`extract.py:375`): once `neg(neg(x))` and `neg(x)` are merged with
  `x`'s class, a class with an acyclic member extracts to `None`.
- `_hook_sig` hashes source text, which closures of one function share
  (`rulecache.py:211`): two rule sets have one key, and the second is given
  the rules of the first. `LoadsAreWhole` promises rules of the call's key, not of its parents.
- `run` decides on a fixed point before congruence is closed (`core.py:1713`); the
  rebuild that follows can give its rules a match (`core.py:1582` promises a fixed point).
- A rule budget caps matches, and a match may mint several enodes (`core.py:1424`,
  against `core.py:1597`): `BudgetBounds` states the bound that does hold.
- A binding is resolved, when a certificate is written, to the oldest terms its classes
  have by then (`proof.py:152`). A leaf that a rule's `derive` minted may since have merged with an
  older term: the step records that term where replay mints the leaf again, and `verify_certificate`
  rejects what `certificate` made (`proof.py:378` says the steps "replay positionally on
  real terms"). `CertificatesReplay` leaves such steps out (`RecordsItsLeaf`); without that,
  `sat_budget` has a counterexample, and so has the code: `neg(add(u, y)) -> add(c, neg(u))` with `neg(y) -> c`,
  both minting `c`. A `check` is likewise asked again about terms it has not seen.
- Re-keying gives the application of one enode to the one it becomes congruent to
  (`core.py:1026`), which need not be younger than what the rule matched. Under commutativity and `neg(neg(x)) -> x`,
  `add(neg(neg(x)), x)` and its mirror image become one enode, whose left-hand side is then
  itself: the expansion, a "strictly descending recursion" (`proof.py:81`), runs into its depth limit, and
  the certificate is one trusted step and 400 applications that change nothing. It replays.
- A stub is for a merge with "no standalone derivation (non-local pass, manual union)" (`proof.py:190`). One is
  also written when the target was there before the run and the rule that reached it matched up to equality
  only, as from `add(neg(neg(x)), neg(x))` to a `0` of the same program: the edge search rewrites at the root alone.
- `_min_term` memoises a term found while the classes above it were excluded
  (`core.py:1276`), so it may not return "the smallest" (`core.py:1226`); `DagsAreExact`
  states when it does.
- After a rollback the aggregate parameter report still sums the reverted
  replacements (`optimize.py:3825`, against `composer.py:738`).

Evidence store:

- Neither `view_oracle` nor `vocab` is in the scope of a verdict (`pipeline.py:1346`), so a hit
  may have been measured otherwise. `ServedAsMeasured` requires the same view option.
- `code_rev` reads the files, which may be newer than the code the process loaded
  (`evidence.py:241`): rows are filed under a revision that did not measure them. `drifted` says
  which revisions that happened to.
- A session's timestamp is taken when its scope is (`arena.py:1139`), not when a row is
  written: the "latest" row of a scope may be the earlier measurement.
- The intake file is read twice by one pipeline (`pipeline.py`, `load_cases` and
  `probe_cases`): matches and probe may disagree.

Object table:

- The retry writes over the stored record before the second gauntlet (`evidence.py:1402`): when that refuses,
  the first record is gone. `RetryPassesTruth` says when it passes the truth gate.
- The retry keeps the `corpus_hash` of the row it replaces (`evidence.py:1402`), though the
  guard was measured on the command line's corpus (`evidence.py:556` says the column
  "records which corpus context the object was measured under"). `BoardsSeparate` is therefore
  about rows that boards wrote.
- `load_pack` keeps the rule rebuilt before the gauntlet reads the row again
  (`machine_pack.py:227`): another process may have written it in between, and what is kept is
  not what was judged. `ReadmittedAreClean` requires that the row did not change.
- The ledger admits names (`machine_pack.py:16`): a relaxation that the gauntlet refused, under a
  name the ledger has, is deployed by a loader that does not judge again.
- `_guarded_truth` catches nothing its enumeration raises, where `measure` does
  (`evidence.py:1087`): an arena then keeps the report of the object it has just written over, and
  the command line ends after the rewrite. `declined` remembers those keys.

## 5. Proofs

All are checked by TLAPS, for every value of the constants.

**EpochUnionFindProofs.** The inductive invariant adds to types, ranks and live
roots: what `pc` says of `cur` and `other` (`RegistersOK`); that ids not
allocated are untouched (`ForestOK`); that a cached member list is the members
(`CacheFresh`); that epochs not begun are blank (`UnstartedBlank`); and, per registered
epoch, that the journal restores the freeze (`EpochsOK`). From it: `TypeCorrect`,
`ForestSound`, `RegisteredAreFrozen`. `MatchesReadTheFreeze` adds that when
`Coexist = FALSE` at most one epoch is registered, and it is the suspended one:
the assumption is what removal by value needs. `ImplementsPartition`: every step of the forest is a step of `Partition` or
leaves it alone. Halving leaves all closed sets closed and opens none; a link keeps those that do not tell its
two roots apart. What must be invariant is that no two roots are in one class (`OneRoot`), else a link could join a
class to itself; with `SomeRoot` it gives `BlocksHaveOneClass`. Neither needs an induction over the
forest, since classes are defined by what separates them.

**EGraphStepsProofs.** The incremental bookkeeping of the e-graph, for any operators, keys, bounds and `Denote`. The
invariant says of every table what it must hold in the middle of an operation.
`PruneUp`: what is above a dirty class is dirty, unless the walk has still to visit the class. `PruneDown`: a
class's members are found from their children's parents. The code comment that the prune
is sound (`core.py:399`) argues that parent edges point at dirty classes only; the proof of `CanonicaliseRoot` and
`ClaimItem` needs more, that a re-keyed member was already reachable from the merged class, so the new edge
adds nothing (`RekeyPrunes`).
`HashLive`: an entry of the table that is never pruned is a member as long as its children are canonical.
`Covered`: a member waits in `pend` or in `work`, or it is canonical and its owner is its own class *or one a
pending merge joins it with*; without that disjunct the invariant fails between a claim and its merge. `Indexed`:
`opk` is exactly the shapes of members. From these `WalksDirtyAllAbove`, `HitsAreLive`, `RoundsCoverCongruence`, `IndexFollowsMembers`, and
`RebuildClosesCongruence`: when nothing waits, classes that hold the same enode are the same.

The second invariant is about meaning, and of `LawfulSpec`: there is exactly one assignment of values to classes that agrees with
what each was minted for (`Defined`; minting extends it, nothing else changes it), members mean
what their class does, and so do the entries of `cons` and `owner`, stale ones included, and the pairs in
`merges` mean the same. It gives `OnlyEqualsShareAClass` and `LookupsKeepMeaning`. A stale owner therefore merges nothing wrong,
even where the code's reasoning about it is not quite so: the unconditional `owner.pop`
(`core.py:1089`) is said to drop a claim of the class in hand only. It may drop another class's, when an untracked graph
has re-keyed an enode without hash-consing it and minted it again; that class's member then waits too, since
the same merge queued it, and `Covered` is kept.

**EGraphSearchProofs.** Three promises of the same machine, over the invariants above. `SearchMissesNothing`: a
class outside the frontier holds the enodes it held when the frontier was last taken, up to canonical
children, and so does everything below it. Whatever a rule matches there it matched, or could have, at the last
search; this is why `apply_rule` may skip the class, for any rule. The invariant (`Fresh`) exempts the classes that the walk
has still to reach: between a merge and the end of its walk a class above the loser is clean and changed. `RebuiltGraphsHit`: in a
rebuilt graph that tracks, hash-consing finds every member at its own class (`Known`, every member was hash-consed in whatever
form it has, with `HashLive` and congruence). It fails without tracking: `_inherit_provenance` alone hash-conses a
re-keyed enode (`core.py:1027`), so at truncation level 1 an enode that is in the graph may be minted again and merged at the next
rebuild. `ClassesAreUnionFind`: the classes implement `Partition`, as the forest of EpochUnionFind does, which is
what lets `canon` stand for it. It assumes that the bound `MaxId` is a natural number.

**SaturationStepsProofs.** The search of `run`, for any rules, rule sets, budgets, caps, operators, keys and bounds, and any caller.

`RunsAreOperations`: every step of the loop is a step of `EGraphSteps` or leaves its graph alone, so that all that is proved of
any sequence of e-graph operations (meaning apart, see below) holds inside every run. This is where a right-hand side is seen to be made of
enodes over canonical classes (`Building`: what `built` says of a pattern is a class that holds it, whatever was
merged since).

`FilterDropsNoMatch` compares the operator index and the look at the children with the relation `Places`, over `IndexFollowsMembers`:
a class that holds a pattern is eligible for it, with no condition on what is stale.

`OnlyTheFrontierHasWork` is the claim by which `run` skips classes. It is an induction over patterns, which the library's
theorems cannot give (they take an operator as a parameter). It is made of sets instead: the patterns for which
a fact fails, ordered by the number of their parts, would have a least one, whose children have it (`PatternInduction`, from the
well-foundedness of `<`). In the same way `Places`, a recursive function, is shown to exist and to be the one
solution of its equations (`PlacesExist`, by a least fixed point). From these: a pattern that occurs in a class still occurs in what the class has become after
any step (`PlacesPersist`, with `Grows`: each step keeps every enode up to canonical children, and every merge); and a
pattern that occurs in a class outside the frontier occurred there when the frontier was taken, under a binding to classes that are now the same
(`CleanMatchesAreOld`, from `SearchMissesNothing`). The invariant (`Attended`) is therefore about the matches in the graph as it was when the frontier was taken, a fixed set, and says for
each of an exhaustive rule already applied where its work is: its class is in the frontier again, or holds the right-hand side (`Settled`);
or the class waits in `search` for a rule in `todo` (`Scheduled`), in `cands` (`InSight`), or the binding waits in `fires`, up to what has merged since
(`InHand`). `Listed` says that the index, read once when a rule begins, has every class where it then matched, unless
the class is in the frontier again; `Paced` and `Sighted` say what each stage has in hand, `Memory` that the searched graph grew into the present one.
Between iterations nothing is scheduled or in hand, and a match outside the frontier is one of the fixed set.
The theorem speaks of rules that fire on all their matches (`Exhaustive`: neither capped, vetoed nor abandoned), and for as long as no
iteration without them has taken a frontier (`missed`). Both are needed: `apply_rule` marks a capped rule as applied all the same, and a rule that sits out a run never sees the
frontier which that run takes (section 4, the second item). It assumes nothing of the rule sets: they may alternate, as in `sat_frontier`, and what one of them
misses does not weaken the theorem for the rules of the others. A set that begins an iteration with the frontier empty
takes nothing, and makes no rule miss anything.

`BudgetsHold`: while a rule is applied, what it has spent, and what it still owes (`Owed`: for each binding that waits the enodes of one firing,
for the one in hand those not built yet), fits what remains of its budget, in right-hand sides. A match cap keeps it so when matches are listed; minting moves it from owed to
spent, and a hash-consed enode, a veto or an abandoned firing only lowers it. The sums are products of two variables, and so are
lemmas of their own (`ListFits`, `SpendFits`).

`SoundRulesMergeEquals` is the soundness of the loop: of `LawfulLoopSpec`, for every interpretation of the operators, classes that share
an id mean the same. What is assumed is of the rules and of the caller only, never of a merge. The meaning of a pattern is
a recursive function again; it exists and is unique because the solutions for the parts of a pattern agree where they overlap
and are glued (`SolutionsAgree`, `SolutionsExist`). A class where a pattern occurs means what the pattern does (`MatchesMean`); no step changes
what an id means, merged away or not (`MeaningsStay`), so a binding that waited while others fired is as true as when it was
listed. The invariant (`Meant`): every binding that waits makes the left-hand side mean what `eid` does, and every class in `built` means
its part of the right-hand side. So `Join` unites equals, the loop is a behaviour of `LawfulSpec` (`LawfulInductive`), and
`OnlyEqualsShareAClass` and `LookupsKeepMeaning` hold of it. A variable without a class asks nothing of the rule: its
firing is abandoned, and what it built stays, sound.

**CompositionalProofs.** The inductive invariant adds to the three safety
properties what the control point implies: counters stay within `at` (`Counts`),
blocks and pairs not reached yet have left nothing (`Unfinished`), an installed
module was gated (`Gates`), fused blocks are consumed and a stub has its fused
module (`Consumed`), and a report agrees with what is installed (`Reported`). `TypeCorrect`,
`OnlyVerifiedShips`, `FusionIsWhole`, `AuditIsExact`; `TemplatesAreKept`, an
action property; and `Implements`, that every step of the driver is a step of
`Delivery` or is invisible to the caller.

**RuleCacheProofs.** The inductive invariant follows an inode: it is reached
for one key (`OneKey`), what it holds is under that key (`WrittenUnderKey`), what it
lacks is being written (`Unwritten`), and a store that opened the temporary file
finds it, or the published one (`StoreNamed`). `PublishedIsWhole` and
`LosersArePublished` hold for any keys, and so does `CallsReturnWholeSets`: whichever hooks share a key, what a call returns lacks nothing
and is all of its key. That it is of the call's own parents does not follow, and is false when keys are shared (section 4).

**EvidenceStoreProofs.** For any processes, candidates, libraries, edits and any function
`Measured`. Beside types, the inductive invariant says where a process in each step
got what it holds: that a scope names the corpus in memory and a revision which is that of
the loaded code, or drifted; that served rows are of the table, in scope, and of a known revision;
that evidence is a measurement of its own origin or came from such a row. From it `TypeCorrect`,
`RowsTellTheTruth` and `HitsAreMeasurements`. `RunsInv` says whose run a row is: no two processes hold one run
(`RunsDiffer`), and no row is of a run that a pipeline has still to record (`RowOfRun`), so what
one transaction wrote, no other touches: `RunsAreRecordedWhole` and the action property `HistoryIsKept`.

**AdmissionProofs.** For any sites, outcomes, clauses, corpora and number of processes. `Shape` is types
with what each step has in its hands (`WritersHold`, `LoadersHold`) and the keys of rows and reports;
`CleanReport` says of every report ever made that a usable guarded object is clean where it was judged (`Clean`: no failing site in the
window and the corpus, nothing ill-typed in the probe; a fire of the probe that is unequal and was not picked is not excluded, since the code does not exclude
it), `MintedOn`
that an object made by auto-cond separates the sites of the corpus it was made on, from the moment
it is in hand; and `PacksHold` carries a report into the pack. `RetryPassesTruthAlways` needs in addition that
nothing the second judgement looks at, beyond what was measured, can fail: the window past the
default one is only consulted when nothing in the default one fires, and the minted guard
fires on a holding site there.

**Only model-checked.** Liveness, and with it `RunSaturates`: that terminating rules run dry within the bound is a fact of
particular rules, and counts the steps of a run. `CertificatesReplay` and the three properties of
Extraction (`RepresentativesExist`, `BilledOnce`, `DagsAreExact`): both are walks that thread their caches through recursive operators, and what such an
operator computes for every input is an induction over data, on top of operators the prover has no backend for. Two
links between the models are TLC's as well. That the enumeration (`EGraph!Match`, with its budgets and its order) finds exactly the
matches of the relation that the theorems speak of is `MatchIsExact`. That `Saturation` does what `SaturationSteps` allows is by
construction of the second from the same lines, an action for an action. Whether the repository's
own laws hold is not asked at all (section 6): `SoundRulesMergeEquals` takes it as its premise, and a `check` sees one term of each class, so
that what it accepts holds of the class is for the rule's author to see.

## 6. Not modelled

Tensor values, shapes and costs: laws are data, and whether a law is
true is for the numeric tests. Of the proof log, the merge log (only statistics read it), `all_proofs`,
error bounds and the JSON codec. Attributes of inner enodes and
attribute metavariables. Overrides, bans, the fusion tie-break, roofline
profiles, and paired, bounded and fused extraction. The interpreter's recursion
limit, on which `_any_term_cached` falls back. Which template replays on which
block (any may fail). The JSON codec of the rule cache: whether a file that mixes
derivations of one key parses is left open. In the evidence store: the
locks of SQLite (a transaction is a step; the tables' writers wait for each other or raise, which `Quit`
covers), the `candidates` table, which only reports read, and the reports themselves. In the object table: certificates, derivation
data and pricing, which `Sound` and the probe stand for; the masking of a fire by another of the same rule in one probe case; the cap on
the visits of auto-cond's search (`_AUTO_VISIT_CAP`), whose refusal is an admission without the retry; and which of a key's synthesized sites are lost
when its nested enumeration is refused (`Nested`: all are). Proposal generators, policies, players and
the training loop; code generation, bridges and device code.

## 7. Plan

1. *Certificates*: `all_proofs` and coherences; several offers under one provenance, whose
   witnesses are told apart by a class id only.
2. *Delivery* for the diagram and morphism drivers, which share `_e2e_or_rollback`
   with Compositional.
3. *Extraction*: overrides and bans with the paired and bounded variants, the cache of
   representatives kept on e-classes across merges.
4. *Native engine*: `catopt-native`'s graph as a second implementation, compared
   with `EGraph`.
5. *Cell store and autotuner*: merging of shared results, choice among timed candidates.
6. *Proofs*: provenance in `EGraphSteps`, that re-keying keeps an application and a birth, and that they are of enodes that
   mean the same; termination of particular rule sets, which `RunSaturates` checks.
