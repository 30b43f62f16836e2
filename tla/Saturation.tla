----------------------------- MODULE Saturation -----------------------------
(***************************************************************************)
(* EGraph.run: equality saturation by a dirty frontier, with per-rule      *)
(* budgets and a policy that may reorder the rules, over successive calls  *)
(* of run on one graph with whatever its caller does in between.           *)
(*                                                                         *)
(* A rule's matches in a class are listed when its enumeration starts and  *)
(* fired one by one, each changing the graph under those still waiting.    *)
(***************************************************************************)
EXTENDS ProofLog, RuleSearch

LOCAL INSTANCE SequencesExt

CONSTANTS
  RuleSets,       \* the sets of rule names a caller passes to run
  Tracks,         \* the values of _track a graph may be built with
  Terms,          \* the terms a caller adds
  MaxIterations,  \* max_iterations
  MaxNodes,       \* max_nodes
  Patience,       \* patience of stop = "improving"; 0: stop = "fixed_point"
  MaxRuns,        \* bound: calls of run in one behaviour
  MaxOffers       \* bound: what the caller adds after the first term

ASSUME BoundsArePositive ==
  /\ MaxIterations \in Nat \ {0} /\ MaxNodes \in Nat
  /\ Patience \in Nat /\ MaxRuns \in Nat /\ MaxOffers \in Nat
ASSUME RuleSetsAreRules == \A R \in RuleSets : R \subseteq DOMAIN Rules

VARIABLES
  ruleset,    \* rules, as a set: a policy may order them in any way
  iteration,  \* iterations begun by this run
  search,     \* search: the frontier this iteration scans
  todo,       \* the rules of this iteration still to apply
  cands,      \* ids apply_rule still has to look at
  eligible,   \* eligible, of _candidate_classes
  eid,        \* the class being matched
  fires,      \* its bindings not yet applied
  n_before,   \* n_enodes when the iteration began
  n_start,    \* n_enodes when apply_rule began
  stop,       \* stats["stop"] of the last run; "none" before it
  runs,       \* calls of run completed
  offers      \* changes made by the caller

loopVars == <<ruleset, iteration, search, todo, n_before>>
scanVars == <<cands, eligible, eid, fires, n_start>>
lifeVars == <<applied, spent, missed>>
callVars == <<stop, runs, offers>>
vars == <<g, stage, loopVars, scanVars, lifeVars, callVars>>

Spent == n_enodes(g) - n_start

Init ==
  /\ \E track \in Tracks, t \in Terms : g = AddTerm(Empty(track), t).g
  /\ stage = "idle" /\ ruleset = {} /\ iteration = 0 /\ search = {}
  /\ todo = <<>> /\ cands = <<>> /\ eligible = {} /\ eid = NoClass
  /\ fires = <<>> /\ n_before = 0 /\ n_start = 0 /\ applied = {} /\ missed = {}
  /\ spent = [r \in DOMAIN Budgets |-> 0]
  /\ stop = "none" /\ runs = 0 /\ offers = 0

-----------------------------------------------------------------------------
(* The caller, between runs. *)

\* A pass adds a term, and may merge it with the class it knows it equal to,
\* with or without a witness.
Offer ==
  /\ stage = "idle" /\ offers < MaxOffers
  /\ \E t \in Terms :
       LET made == AddTerm(g, t)
           mean == Meanings(made.g)
           equals == {c \in Roots(made.g) : mean[c] = mean[made.id]}
       IN  g' \in {made.g} \cup {Union(made.g, c, made.id) : c \in equals}
                  \cup {Offered(made.g, c, made.id, t) : c \in equals}
  /\ offers' = offers + 1
  /\ UNCHANGED <<stage, loopVars, scanVars, lifeVars, stop, runs>>

CallerRebuilds ==
  /\ stage = "idle" /\ g.pend # {}
  /\ g' = Rebuild(g)
  /\ UNCHANGED <<stage, loopVars, scanVars, lifeVars, callVars>>

StartRun ==
  /\ stage = "idle" /\ runs < MaxRuns
  /\ ruleset' \in RuleSets
  /\ iteration' = 0
  /\ stop' = "max_iterations"
  /\ stage' = "loop"
  /\ UNCHANGED <<g, search, todo, n_before, scanVars, lifeVars, runs, offers>>

-----------------------------------------------------------------------------
(* One iteration. *)

Orders(R) == {f \in [1 .. Cardinality(R) -> R] : \A i, j \in DOMAIN f : f[i] = f[j] => i = j}

\* Snapshot the frontier and clear it, then let the policy order the rules.
BeginIteration ==
  /\ stage = "loop" /\ iteration < MaxIterations
  /\ iteration' = iteration + 1
  /\ n_before' = n_enodes(g)
  /\ search' = Frontier(g)
  /\ g' = Cleared(g)
  /\ todo' \in Orders(ruleset)
  /\ missed' = missed \cup Missing(ruleset)
  /\ stage' = "rules"
  /\ UNCHANGED <<ruleset, scanVars, applied, spent, callVars>>

SkipSuspended ==
  /\ stage = "rules" /\ todo # <<>>
  /\ Budgeted(Head(todo)) /\ Remaining(Head(todo)) <= 0
  /\ todo' = Tail(todo)
  /\ UNCHANGED <<g, stage, ruleset, iteration, search, n_before, scanVars,
                 lifeVars, callVars>>

\* A rule seen before scans the frontier, a new one the whole graph.
\* Bug: so does any rule, when the graph has been searched at all.
SearchedAtAll(r) == IF applied # {} THEN search ELSE Roots(g)
SearchedBy(r)    == IF r \in applied THEN search ELSE Roots(g)

BeginRule ==
  /\ stage = "rules" /\ todo # <<>>
  /\ LET r == Head(todo) IN
       /\ Budgeted(r) => Remaining(r) > 0
       /\ applied' = applied \cup {r}
       /\ cands' = Ascending(SearchedBy(r))
       /\ eligible' = Eligible(g, Rules[r].lhs)
  /\ n_start' = n_enodes(g)
  /\ stage' = "scan"
  /\ UNCHANGED <<g, loopVars, eid, fires, spent, missed, callVars>>

rule == Rules[Head(todo)]
Candidate(i) ==
  /\ Headed(rule.lhs) => Find(g, i) \in eligible
  /\ HeadOk(g, rule.lhs, Find(g, i))

SkipClass ==
  /\ stage = "scan" /\ cands # <<>> /\ ~Candidate(Head(cands))
  /\ cands' = Tail(cands)
  /\ UNCHANGED <<g, stage, loopVars, eligible, eid, fires, n_start, lifeVars,
                 callVars>>

\* The matches of the rule in the next class, capped for a budgeted rule.
ScanClass ==
  /\ stage = "scan" /\ cands # <<>> /\ Candidate(Head(cands))
  /\ LET r == Head(todo)
         left == Remaining(r) - Spent
     IN  /\ Budgeted(r) => left > 0
         /\ fires' = Match(g, rule.lhs, Head(cands), <<>>, Limit(r, left))
  /\ eid' = Find(g, Head(cands))
  /\ cands' = Tail(cands)
  /\ stage' = "fire"
  /\ UNCHANGED <<g, loopVars, eligible, n_start, lifeVars, callVars>>

\* The binding a rule with derive adds, minting its leaf.
Derived(h, r, s) ==
  IF r.derive = <<>> THEN [g |-> h, s |-> s] ELSE
  LET made == AddTerm(h, r.derive[2])
  IN  [g |-> made.g, s |-> (r.derive[1] :> made.id) @@ s]

\* The right-hand side joins class i.  A tracking graph logs the rule, and the
\* application when it made something or merged something.
Fired(h, name, i, s) ==
  LET r == Rules[name]
      d == Derived(h, r, s)
      made == Instantiate(d.g, r.rhs, d.s)
      created == DOMAIN made.g.cons \ DOMAIN d.g.cons
      after == Union(made.g, i, made.id)
  IN  CASE made.id = NoClass -> made.g
        [] made.id # NoClass /\ ~h.track -> after
        [] OTHER ->
             LET known == Registered(after, name, r)
             IN  IF created = {} /\ Find(made.g, i) = Find(made.g, made.id) THEN known
                 ELSE Applied(known, name, d.s, made.top, created)

\* Bug: it is fired where the enumeration has got to.
FireAhead ==
  /\ stage = "fire" /\ fires # <<>>
  /\ g' = Fired(g, Head(todo), IF cands = <<>> THEN eid ELSE Head(cands), Head(fires))
  /\ fires' = Tail(fires)
  /\ UNCHANGED <<stage, loopVars, cands, eligible, eid, n_start, lifeVars, callVars>>
Fire ==
  /\ stage = "fire" /\ fires # <<>>
  /\ g' = Fired(g, Head(todo), eid, Head(fires))
  /\ fires' = Tail(fires)
  /\ UNCHANGED <<stage, loopVars, cands, eligible, eid, n_start, lifeVars, callVars>>

\* check, or derive, may veto the binding.
Veto ==
  /\ stage = "fire" /\ fires # <<>> /\ rule.checked
  /\ fires' = Tail(fires)
  /\ UNCHANGED <<g, stage, loopVars, cands, eligible, eid, n_start, lifeVars,
                 callVars>>

EndScan ==
  /\ stage = "fire" /\ fires = <<>>
  /\ stage' = "scan"
  /\ UNCHANGED <<g, loopVars, scanVars, lifeVars, callVars>>

\* The candidates are exhausted, or the budget is at the next one.
EndRule ==
  /\ stage = "scan"
  /\ LET r == Head(todo) IN
       /\ \/ cands = <<>>
          \/ /\ cands # <<>> /\ Candidate(Head(cands))
             /\ Budgeted(r) /\ Spent >= Remaining(r)
       /\ spent' = IF Budgeted(r) THEN [spent EXCEPT ![r] = @ + Spent] ELSE spent
  /\ todo' = Tail(todo)
  /\ cands' = <<>> /\ eligible' = {} /\ eid' = NoClass /\ n_start' = 0
  /\ stage' = "rules"
  /\ UNCHANGED <<g, ruleset, iteration, search, n_before, fires, applied,
                 missed, callVars>>

\* Canonicalise what was searched or touched, then decide whether to go on.
EndIteration ==
  /\ stage = "rules" /\ todo = <<>>
  /\ g' = Canonicalise(g, search \cup g.dirty)
  /\ \/ /\ n_enodes(g') >= MaxNodes
        /\ stop' = "max_nodes" /\ stage' = "finish"
     \/ /\ n_enodes(g') < MaxNodes
        /\ n_enodes(g') = n_before /\ g'.dirty = {}
        /\ stop' = "fixed_point" /\ stage' = "finish"
     \/ /\ n_enodes(g') < MaxNodes
        /\ n_enodes(g') # n_before \/ g'.dirty # {}
        /\ \/ /\ stop' = stop
              /\ stage' = IF iteration = MaxIterations THEN "finish" ELSE "loop"
           \/ \* the extracted cost has not improved for patience iterations
              /\ Patience > 0 /\ iteration >= Patience
              /\ stop' = "improving" /\ stage' = "finish"
  /\ UNCHANGED <<loopVars, scanVars, lifeVars, runs, offers>>

Finish ==
  /\ stage = "finish"
  /\ g' = Rebuild(g)
  /\ runs' = runs + 1
  /\ iteration' = 0 /\ search' = {} /\ n_before' = 0
  /\ stage' = "idle"
  /\ UNCHANGED <<ruleset, todo, scanVars, lifeVars, stop, offers>>

Caller == Offer \/ CallerRebuilds \/ StartRun
Loop ==
  \/ BeginIteration \/ SkipSuspended \/ BeginRule \/ SkipClass \/ ScanClass
  \/ Fire \/ Veto \/ EndScan \/ EndRule \/ EndIteration \/ Finish
Next == Caller \/ Loop

Spec == Init /\ [][Next]_vars

-----------------------------------------------------------------------------
(* Correctness, besides RuleSearch. *)

\* Rules that terminate saturate: no run of theirs exhausts its iterations,
\* whatever the policy, because a scanned class leaves the frontier for good
\* unless it changes.
RunSaturates == stage = "finish" => stop = "fixed_point"
=============================================================================
