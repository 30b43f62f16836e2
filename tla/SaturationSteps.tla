--------------------------- MODULE SaturationSteps ---------------------------
(***************************************************************************)
(* EGraph.run over the machine of module EGraphSteps: the loop of module   *)
(* Saturation, with each call it makes on the e-graph taken in the steps   *)
(* of that machine, and with the data that proofs do not need left open.   *)
(*                                                                         *)
(* The order of the rules and of the candidates, which matches fit under a *)
(* cap, and when run stops, are any; the right-hand side is built pattern  *)
(* by pattern, children first.  A loop whose steps may come in more orders *)
(* than the program's has its behaviours among its own.                    *)
(***************************************************************************)
EXTENDS EGraphSteps, RuleSearch

CONSTANT RuleSets  \* the sets of rule names a caller passes to run

VARIABLES
  ruleset,   \* rules
  search,    \* search: the frontier this iteration scans
  todo,      \* the rules of this iteration still to apply
  rule,      \* the rule apply_rule applies
  cands,     \* ids it still has to look at
  eligible,  \* eligible, of _candidate_classes
  n_start,   \* n_enodes when it began
  eid,       \* the class being matched
  fires,     \* its bindings not yet applied; the first, being applied
  subst,     \* subst, as derive has completed it
  built      \* pattern -> the class _instantiate has returned for it

roundVars == <<ruleset, search, todo, missed>>
scanVars  == <<rule, cands, eligible, n_start, applied>>
fireVars  == <<eid, fires, subst, built>>
runVars   == <<stage, roundVars, scanVars, fireVars, spent>>
loopVars  == <<vars, runVars>>

LoopInit ==
  /\ Init
  /\ stage = "idle" /\ ruleset = {} /\ search = {} /\ todo = {}
  /\ rule = <<>> /\ cands = {} /\ eligible = {} /\ n_start = 0 /\ applied = {} /\ missed = {}
  /\ eid = 0 /\ fires = <<>> /\ subst = <<>> /\ built = <<>>
  /\ spent = [r \in DOMAIN Budgets |-> 0]

Spent == n_enodes(g) - n_start

-----------------------------------------------------------------------------
(* The calls of the caller, and of run itself before and after the rules. *)

Restore == CanonicaliseRoot \/ TakeWork \/ ClaimItem \/ MergeNext

GraphStep ==
  /\ \/ WalkUp
     \/ stage = "idle" /\ (Add \/ Unite \/ Restore)
     \/ stage = "rules" /\ todo = {} /\ CanonicaliseRoot
     \/ stage = "finish" /\ Restore
  /\ UNCHANGED runVars

StartRun ==
  /\ quiet /\ stage = "idle"
  /\ ruleset' \in RuleSets
  /\ stage' = "loop"
  /\ UNCHANGED <<vars, search, todo, missed, scanVars, fireVars, spent>>

-----------------------------------------------------------------------------
(* One iteration. *)

BeginIteration ==
  /\ stage = "loop"
  /\ TakeFrontier
  /\ search' = Frontier(g)
  /\ todo' = ruleset
  /\ missed' = missed \cup Missing(ruleset)
  /\ stage' = "rules"
  /\ UNCHANGED <<ruleset, scanVars, fireVars, spent>>

SkipSuspended ==
  /\ quiet /\ stage = "rules"
  /\ \E r \in todo :
       /\ Budgeted(r) /\ Remaining(r) <= 0
       /\ todo' = todo \ {r}
  /\ UNCHANGED <<vars, stage, ruleset, search, missed, scanVars, fireVars, spent>>

BeginRule ==
  /\ quiet /\ stage = "rules"
  /\ \E r \in todo :
       /\ Budgeted(r) => Remaining(r) > 0
       /\ rule' = r
       /\ todo' = todo \ {r}
       /\ applied' = applied \cup {r}
       /\ cands' = IF r \in applied THEN search ELSE Roots(g)
       /\ eligible' = Eligible(g, Rules[r].lhs)
  /\ n_start' = n_enodes(g)
  /\ stage' = "scan"
  /\ UNCHANGED <<vars, ruleset, search, missed, fireVars, spent>>

lhs    == Rules[rule].lhs
rhs    == Rules[rule].rhs
derive == Rules[rule].derive

Candidate(i) ==
  /\ Headed(lhs) => Find(g, i) \in eligible
  /\ HeadOk(g, lhs, Find(g, i))

SkipClass ==
  /\ quiet /\ stage = "scan"
  /\ \E i \in cands : ~Candidate(i) /\ cands' = cands \ {i}
  /\ UNCHANGED <<vars, stage, roundVars, rule, eligible, n_start, applied, fireVars, spent>>

Matches(h, r, c) == {s \in Bindings(h, r) : c \in Places(h, s)[Rules[r].lhs]}

\* The lists an enumeration may make of some matches: all of them, or as many
\* as the limit allows.
Listings(S, limit) ==
  {l \in Seq(S) : IF limit = NoLimit THEN S = {l[j] : j \in DOMAIN l} ELSE Len(l) <= limit}

ScanClass ==
  /\ quiet /\ stage = "scan"
  /\ Budgeted(rule) => Remaining(rule) - Spent > 0
  /\ \E i \in cands :
       /\ Candidate(i)
       /\ cands' = cands \ {i}
       /\ eid' = Find(g, i)
       /\ fires' \in Listings(Matches(g, rule, Find(g, i)),
                              Limit(rule, Remaining(rule) - Spent))
  /\ stage' = "fire"
  /\ UNCHANGED <<vars, roundVars, rule, eligible, n_start, applied, subst, built, spent>>

\* The candidates are exhausted, or the budget is at the next one.
EndRule ==
  /\ quiet /\ stage = "scan"
  /\ \/ cands = {}
     \/ Budgeted(rule) /\ Spent >= Remaining(rule) /\ \E i \in cands : Candidate(i)
  /\ spent' = IF Budgeted(rule) THEN [spent EXCEPT ![rule] = @ + Spent] ELSE spent
  /\ stage' = "rules"
  /\ UNCHANGED <<vars, roundVars, scanVars, fireVars>>

EndIteration ==
  /\ quiet /\ stage = "rules" /\ todo = {}
  /\ stage' \in {"loop", "finish"}
  /\ UNCHANGED <<vars, roundVars, scanVars, fireVars, spent>>

Finish ==
  /\ quiet /\ stage = "finish"
  /\ stage' = "idle"
  /\ UNCHANGED <<vars, roundVars, scanVars, fireVars, spent>>

-----------------------------------------------------------------------------
(* One firing. *)

\* add_enode, or the lookup that spares it, and the class it returns.
Interned(n) == IF n \in DOMAIN g.cons THEN Find(g, g.cons[n]) ELSE Len(g.canon) + 1
Intern(n) ==
  /\ \/ n \in DOMAIN g.cons /\ UNCHANGED g
     \/ n \notin DOMAIN g.cons /\ Len(g.canon) < MaxId /\ g' = AddNode(g, n)
  /\ UNCHANGED <<walk, work, merges, searched>>

\* check, or derive, may veto the binding.
Veto ==
  /\ quiet /\ stage = "fire" /\ fires # <<>> /\ Rules[rule].checked
  /\ fires' = Tail(fires)
  /\ UNCHANGED <<vars, stage, roundVars, scanVars, eid, subst, built, spent>>

\* The binding is taken as it is, or with the leaf that derive mints.
BeginFire ==
  /\ quiet /\ stage = "fire" /\ fires # <<>>
  /\ \/ derive = <<>> /\ subst' = Head(fires) /\ UNCHANGED vars
     \/ /\ derive # <<>>
        /\ Intern(LeafNode(derive[2]))
        /\ subst' = [v \in DOMAIN Head(fires) \cup {derive[1]} |->
                       IF v = derive[1] THEN Interned(LeafNode(derive[2])) ELSE Head(fires)[v]]
  /\ built' = <<>>
  /\ stage' = "build"
  /\ UNCHANGED <<roundVars, scanVars, eid, fires, spent>>

\* The class of a part of the right-hand side, once there is one.
Ready(q)   == IF IsVar(q) THEN q[2] \in DOMAIN subst ELSE q \in DOMAIN built
ClassOf(q) == IF IsVar(q) THEN subst[q[2]] ELSE built[q]

\* The enode _instantiate makes of a pattern whose children are built.
NodeFor(p) ==
  IF IsConst(p) THEN LeafNode(p)
  ELSE <<p[1], [k \in DOMAIN p[2] |-> Find(g, ClassOf(p[2][k]))], NoKey>>

Build ==
  /\ quiet /\ stage = "build"
  /\ \E p \in Parts[rhs] \ DOMAIN built :
       /\ ~IsVar(p)
       /\ Compound(p) => \A q \in Kids(p) : Ready(q)
       /\ Intern(NodeFor(p))
       /\ built' = WithDefault(built, {p}, Interned(NodeFor(p)))
  /\ UNCHANGED <<stage, roundVars, scanVars, eid, fires, subst, spent>>

\* A variable of the right-hand side has no class (KeyError).
Abandon ==
  /\ quiet /\ stage = "build"
  /\ \E v \in VarsOf(rhs) : v \notin DOMAIN subst
  /\ fires' = Tail(fires)
  /\ stage' = "fire"
  /\ UNCHANGED <<vars, roundVars, scanVars, eid, subst, built, spent>>

\* The right-hand side joins the class that matched.
Join ==
  /\ quiet /\ stage = "build" /\ Ready(rhs)
  /\ LET a == Find(g, eid)
         b == Find(g, ClassOf(rhs))
     IN  \/ Link(a, b)
         \/ a = b /\ UNCHANGED <<g, walk>>
  /\ fires' = Tail(fires)
  /\ stage' = "fire"
  /\ UNCHANGED <<work, merges, searched, roundVars, scanVars, eid, subst, built, spent>>

EndScan ==
  /\ quiet /\ stage = "fire" /\ fires = <<>>
  /\ stage' = "scan"
  /\ UNCHANGED <<vars, roundVars, scanVars, fireVars, spent>>

LoopNext ==
  \/ GraphStep \/ StartRun \/ BeginIteration \/ SkipSuspended \/ BeginRule
  \/ SkipClass \/ ScanClass \/ EndRule \/ EndIteration \/ Finish
  \/ Veto \/ BeginFire \/ Build \/ Abandon \/ Join \/ EndScan

LoopSpec == LoopInit /\ [][LoopNext]_loopVars

-----------------------------------------------------------------------------
(* The loop with a caller that unites only what means the same, and rules    *)
(* that fire only where they hold: everywhere, or where their check lets     *)
(* them.                                                                     *)

Valued(s) == [v \in DOMAIN s |-> Meanings(g)[s[v]]]

LawfulLoopNext ==
  /\ LoopNext
  /\ stage = "idle" /\ Unite => UniteEquals
  /\ BeginFire => Holds(rule, Valued(Head(fires)))
LawfulLoopSpec == LoopInit /\ [][LawfulLoopNext]_loopVars

-----------------------------------------------------------------------------
(* Assumptions of the theorems. *)

\* The rules speak of the enodes that the machine mints.
PatternsAreOfEnodes ==
  /\ MaxId \in Nat /\ MaxArity \in Nat /\ NoKey \in Keys
  /\ \A p \in Patterns :
       /\ IsConst(p) => "leaf" \in Ops /\ p[2] \in Keys
       /\ Compound(p) => p[1] \in Ops /\ Len(p[2]) <= MaxArity
  /\ \A R \in RuleSets : R \subseteq RuleNames
=============================================================================
