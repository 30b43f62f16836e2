------------------------------ MODULE Admission ------------------------------
(***************************************************************************)
(* The object table of the evidence store (lemmas), and those that write   *)
(* and judge its objects: arenas (arena.py), the command line that stores  *)
(* and admits objects (evidence.py), the loader of the machine pack        *)
(* (machine_pack.py).                                                      *)
(*                                                                         *)
(* An object is keyed by its two sides alone, so all guards of a rule      *)
(* share a row.  A guard is a set of clauses, or Unguarded: the empty      *)
(* guard (cond True) is swept, the absent one (cond None) is not.          *)
(*                                                                         *)
(* A key has sites where its equality is evaluated: those the default      *)
(* window synthesizes, those past it (Deep), those only auto-cond's second *)
(* window reaches (Oracle), the matches of a corpus (in its order), and    *)
(* the fires in the probe.  At a site the sides are equal or unequal, or   *)
(* the right one denotes nothing ("ill").  Numbers are drawn at random, so *)
(* an evaluation of a site that "flips" may find it equal or not.          *)
(***************************************************************************)
EXTENDS Naturals, Sequences, FiniteSets

CONSTANTS
  Arenas, Clerks, Loaders,   \* processes: boards, command lines, pack loaders
  Keys, Clauses, Names,
  Ledger,                    \* the names the pack admits
  Library,                   \* the shipped laws, as objects
  Given,                     \* what a board's parameters can construct
  Viewish,                   \* keys with a view operator
  Derivable,                 \* keys derivable from the library, on an instance
  Nested,                    \* keys whose enumeration raises
  Sound,                     \* keys that pass closure and certificate
  Sites, Outcome, Accepts,   \* what a site evaluates to; where a clause holds
  Synth, Deep, Oracle, Probe,  \* a key's sites
  Real(_, _),                \* a key's matches in a corpus, in order
  MaxClauses,                \* clauses of a minted guard
  MaxGrowth,                 \* bound: times a board's corpus grows
  MaxStores,                 \* bound: writes of the table
  Unguarded, None

Procs  == Arenas \cup Clerks \cup Loaders
Boards == 0 .. MaxGrowth
Census == MaxGrowth + 1      \* the corpus of the command line and the loaders
Corpora == Boards \cup {Census}
Guards == {Unguarded} \cup SUBSET Clauses
Ops    == {"given", "shipped", "auto_cond", "relax_guard"}
Objects == [key : Keys, guard : Guards, hook : BOOLEAN, name : Names, op : Ops]
\* corpus is what the row says; judged the corpus the object was made from.
Rows   == [obj : Objects, corpus : Corpora, made : Corpora, stamp : 1 .. MaxStores,
           writer : Procs]
Reports == [obj : Objects, stamp : 1 .. MaxStores, corpus : Corpora,
            truth : BOOLEAN, usable : BOOLEAN, retry : BOOLEAN]
Shipped == {o.key : o \in Library}
Flips  == {s \in Sites : Outcome[s] = "flips"}
InReal(k, c) == {Real(k, c)[i] : i \in DOMAIN Real(k, c)}

ASSUME BoundsAreNat == MaxGrowth \in Nat /\ MaxStores \in Nat /\ MaxClauses \in Nat
ASSUME KindsDiffer ==
  Arenas \cap Clerks = {} /\ Arenas \cap Loaders = {} /\ Clerks \cap Loaders = {}
ASSUME SitesAreSites ==
  /\ Outcome \in [Sites -> {"equal", "unequal", "ill", "other", "flips"}]
  /\ Accepts \in [Clauses -> SUBSET Sites]
  /\ {Synth, Deep, Oracle, Probe} \subseteq [Keys -> SUBSET Sites]
  /\ \A k \in Keys : \A c \in Corpora : Real(k, c) \in Seq(Sites)
ASSUME LibraryIsShipped == Library \subseteq {o \in Objects : o.op = "shipped"}
ASSUME GivenAreData == Given \subseteq {o \in Objects : o.op = "given" /\ ~ o.hook}
ASSUME ViewsNest == Nested \subseteq Viewish
ASSUME SentinelsAreFresh ==
  (\A g \in SUBSET Clauses : g # Unguarded) /\ None \notin Rows /\ None \notin Reports

VARIABLES
  rows,      \* the table
  stores,    \* writes so far
  board,     \* an arena's corpus
  reports,   \* last report of a key, of an arena or a command line
  declined,  \* keys whose last judgement raised, in an arena
  pc, held,  \* the step a process is at, the object in its hands
  listed,    \* a loader's listing, of rows it has yet to treat
  pack       \* what it has loaded

procVars == <<board, reports, declined, pc, held>>
loadVars == <<listed, pack>>
vars == <<rows, stores, procVars, loadVars>>

-----------------------------------------------------------------------------
(* The sites a guard lets a rule fire on, and what one evaluation sees. *)

Fires(g, s) == g = Unguarded \/ \A c \in g : s \in Accepts[c]
Region(g, S) == {s \in S : Fires(g, s)}

\* Among the sites that flip, `up' are those that come out equal this time.
Equal(s, up) == Outcome[s] = "equal" \/ s \in up
Bad(s, up)   == Outcome[s] \in {"unequal", "ill"} \/ (s \in Flips /\ s \notin up)

-----------------------------------------------------------------------------
(* The gauntlet. *)

\* _instance_from_match: the first match that the rule fires on.
FirstViable(g, k, c) ==
  LET viable == {i \in DOMAIN Real(k, c) : Fires(g, Real(k, c)[i])}
  IN  IF viable = {} THEN None
      ELSE Real(k, c)[CHOOSE i \in viable : \A j \in viable : i <= j]

\* measure: the numeric oracle on that instance; for view operators without a
\* derivation, the sweep of every site, where some are evaluable.
NumTrue(k, c, up) ==
  LET inst == FirstViable(Unguarded, k, c)
      all  == InReal(k, c) \cup Synth[k]
      good == \E s \in all : Equal(s, up)
      ill  == \E s \in all : Bad(s, up)
      one  == IF inst = None THEN "none"
              ELSE IF Equal(inst, up) THEN "true" ELSE IF Bad(inst, up) THEN "false" ELSE "none"
  IN  IF k \notin Viewish \/ (k \in Derivable /\ inst # None) \/ ~ (good \/ ill) THEN one
      ELSE IF ~ ill THEN "true" ELSE IF ~ good THEN "false" ELSE "none"

Derives(g, k, c) == k \in Derivable /\ FirstViable(g, k, c) # None

\* The synthesized sweep goes past the default window when nothing there fires.
Window(g, k) ==
  IF Region(g, Synth[k]) # {} THEN Region(g, Synth[k])
  ELSE Region(g, Synth[k] \cup Deep[k])

\* Bug: a derivation waives a measured counterexample.
TruthDerived(g, k, c, up) ==
  IF g = Unguarded
  THEN NumTrue(k, c, up) # "false" /\ (Derives(g, k, c) \/ NumTrue(k, c, up) = "true")
  ELSE \/ Derives(g, k, c)
       \/ /\ \A s \in Window(g, k) \cup Region(g, InReal(k, c)) : ~ Bad(s, up)
          /\ \E s \in Window(g, k) : Equal(s, up)
\* _truth_gate: without a guard by the measured verdict; with one by the sweep
\* of the sites it fires on, of which one at least must be equal.
Truth(g, k, c, up) ==
  IF g = Unguarded
  THEN NumTrue(k, c, up) # "false" /\ (Derives(g, k, c) \/ NumTrue(k, c, up) = "true")
  ELSE /\ \A s \in Window(g, k) \cup Region(g, InReal(k, c)) : ~ Bad(s, up)
       /\ Derives(g, k, c) \/ \E s \in Window(g, k) : Equal(s, up)

\* _typed_pay_gate: the rule fires, on nothing ill-typed, and pays.  Picks are the
\* fires whose terms are extracted for being cheaper: they alone are lowered and
\* compared with the input.  None among them is an extraction that finds no member:
\* it costs 0, which counts as paid, and is compared with nothing.
TypedPay(fires, picks, up) ==
  /\ fires # {} /\ \A s \in fires : Outcome[s] # "ill"
  /\ picks # {} /\ \A s \in picks \ {None} : Equal(s, up)
\* What the gate may answer: the model does not know the costs.
Payments(o, up) ==
  LET fires == Region(o.guard, Probe[o.key])
  IN  {TypedPay(fires, picks, up) : picks \in SUBSET (fires \cup {None})}

\* Novelty, closure and certificate.
LaterGates(k) == k \notin Shipped /\ k \in Sound

\* The enumeration is inside measure for a view candidate that no derivation
\* settles, which turns what it raises into a refusal; the sweep of a guard is
\* outside.
MeasureRaises(g, k, c) == k \in Nested /\ ~ Derives(g, k, c)
SweepRaises(g, k, c)   == k \in Nested /\ g # Unguarded /\ Derives(g, k, c)

\* run_gauntlet on the object a row rebuilds to.
Report(row, c, up, pays, retry) ==
  LET o == row.obj
      t == ~ o.hook /\ ~ MeasureRaises(o.guard, o.key, c) /\ Truth(o.guard, o.key, c, up)
  IN  [obj |-> o, stamp |-> row.stamp, corpus |-> c, truth |-> t,
       usable |-> t /\ pays /\ LaterGates(o.key), retry |-> retry]

-----------------------------------------------------------------------------
(* The constructors. *)

\* A record without its hook rebuilds to the bare rule.
Live(o) == [o EXCEPT !.hook = FALSE]

\* Bug: only the second window is measured.
MeasuredOracle(k, c) == (IF k \in Nested THEN {} ELSE Oracle[k]) \cup InReal(k, c)
\* _measure_domain: both windows and the matches, each evaluated twice; `up'
\* are the sites that flip and come out equal both times.
Measured(k, c) ==
  (IF k \in Nested THEN {} ELSE Synth[k] \cup Oracle[k]) \cup InReal(k, c)

\* Bug: only the counterexamples of the corpus are declined.
CoversReal(g, k, c, up) ==
  /\ \A s \in Measured(k, c) : Equal(s, up) => Fires(g, s)
  /\ \A s \in InReal(k, c) : Bad(s, up) => ~ Fires(g, s)
Covers(g, k, c, up) ==
  /\ \A s \in Measured(k, c) : Equal(s, up) => Fires(g, s)
  /\ \A s \in Measured(k, c) : Bad(s, up) => ~ Fires(g, s)

\* auto_cond_object: with an equal site, a smallest guard that fires on every
\* equal one and no bad one; True when there is none to decline.
Minted(k, c, up) ==
  LET fits == {g \in SUBSET Clauses : Cardinality(g) <= MaxClauses /\ Covers(g, k, c, up)}
  IN  IF \A s \in Measured(k, c) : ~ Equal(s, up) THEN {}
      ELSE {g \in fits : \A h \in fits : Cardinality(g) <= Cardinality(h)}

\* relax_guard: one clause less; the last one leaves no guard.
Relaxed(g, cl) == IF g = {cl} THEN Unguarded ELSE g \ {cl}

-----------------------------------------------------------------------------
Blank == [k \in Keys |-> None]
Init ==
  /\ rows = Blank /\ stores = 0
  /\ board = [a \in Arenas |-> 0]
  /\ reports = [p \in Arenas \cup Clerks |-> Blank]
  /\ declined = [p \in Arenas \cup Clerks |-> {}]
  /\ pc = [p \in Procs |-> "idle"] /\ held = [p \in Procs |-> None]
  /\ listed = [l \in Loaders |-> Blank] /\ pack = [l \in Loaders |-> {}]

\* Bug: the corpus before the last case.
CorpusBefore(p) == IF p \in Arenas THEN board[p] - 1 ELSE Census
CorpusOf(p) == IF p \in Arenas THEN board[p] ELSE Census

Leave(p, step) == pc' = [pc EXCEPT ![p] = step] /\ held' = [held EXCEPT ![p] = None]
Take(p, o) == pc' = [pc EXCEPT ![p] = "store"] /\ held' = [held EXCEPT ![p] = o]

\* What a reference resolves to: a shipped law first, then a stored object.
Referred(k) ==
  IF k \in Shipped THEN {o \in Library : o.key = k}
  ELSE IF rows[k] = None THEN {} ELSE {Live(rows[k].obj)}

\* fold, lift, compose, specialize: an object with the guard and the name of the
\* action's parameters.
Construct(a, k) ==
  /\ a \in Arenas /\ pc[a] = "idle"
  /\ \E o \in Given : o.key = k /\ Take(a, o)
  /\ UNCHANGED <<rows, stores, board, reports, declined, loadVars>>

AutoCond(a, k) ==
  /\ a \in Arenas /\ pc[a] = "idle"
  /\ \E o \in Referred(k), up \in SUBSET Flips : \E g \in Minted(k, board[a], up) :
       Take(a, [o EXCEPT !.guard = g, !.op = "auto_cond"])
  /\ UNCHANGED <<rows, stores, board, reports, declined, loadVars>>

RelaxGuard(a, k) ==
  /\ a \in Arenas /\ pc[a] = "idle"
  /\ \E o \in Referred(k) : \E cl \in Clauses :
       /\ o.guard # Unguarded /\ cl \in o.guard
       /\ Take(a, [o EXCEPT !.guard = Relaxed(o.guard, cl), !.op = "relax_guard"])
  /\ UNCHANGED <<rows, stores, board, reports, declined, loadVars>>

Ingest(a) ==
  /\ a \in Arenas /\ pc[a] = "idle" /\ board[a] < MaxGrowth
  /\ board' = [board EXCEPT ![a] = @ + 1]
  /\ UNCHANGED <<rows, stores, reports, declined, pc, held, loadVars>>

\* store_object: the row of the key is written over.  The retry of the
\* gauntlet keeps the corpus of the row it replaces.
Store(p) ==
  /\ pc[p] = "store" /\ stores < MaxStores
  /\ LET o == held[p]
         kept == p \in Clerks /\ o.op = "auto_cond" /\ rows[o.key] # None
     IN  rows' = [rows EXCEPT ![o.key] =
           [obj |-> o, made |-> CorpusOf(p), stamp |-> stores + 1, writer |-> p,
            corpus |-> IF kept THEN rows[o.key].corpus ELSE CorpusOf(p)]]
  /\ stores' = stores + 1
  /\ IF held[p].op = "shipped" THEN Leave(p, "idle")
     ELSE pc' = [pc EXCEPT ![p] = "judge"] /\ UNCHANGED held
  /\ UNCHANGED <<board, reports, declined, loadVars>>

\* The object cannot be stored: a certificate that does not materialize raises.
StoreRaises(p) ==
  /\ pc[p] = "store" /\ held[p].op # "shipped"
  /\ Leave(p, "idle")
  /\ UNCHANGED <<rows, stores, board, reports, declined, loadVars>>

\* The gauntlet reads the row again, whoever wrote it last.
\* Bug: an arena remembers its report only when the object is usable.
JudgeUsable(p) ==
  /\ pc[p] = "judge"
  /\ LET k == held[p].key
         g == rows[k].obj.guard
     IN  IF SweepRaises(g, k, CorpusOf(p)) /\ ~ rows[k].obj.hook
         THEN /\ declined' = [declined EXCEPT ![p] = @ \cup {k}]
              /\ UNCHANGED reports
         ELSE /\ declined' = [declined EXCEPT ![p] = @ \ {k}]
              /\ \E up \in SUBSET Flips : \E pays \in Payments(rows[k].obj, up) :
                   LET r == Report(rows[k], CorpusOf(p), up, pays,
                                   p \in Clerks /\ rows[k].writer = p)
                   IN  reports' = IF r.usable THEN [reports EXCEPT ![p][k] = r] ELSE reports
  /\ Leave(p, "idle")
  /\ UNCHANGED <<rows, stores, board, loadVars>>
Judge(p) ==
  /\ pc[p] = "judge"
  /\ LET k == held[p].key
         g == rows[k].obj.guard
     IN  IF SweepRaises(g, k, CorpusOf(p)) /\ ~ rows[k].obj.hook
         THEN /\ declined' = [declined EXCEPT ![p] = @ \cup {k}]
              /\ UNCHANGED reports
         ELSE /\ declined' = [declined EXCEPT ![p] = @ \ {k}]
              /\ \E up \in SUBSET Flips : \E pays \in Payments(rows[k].obj, up) :
                   reports' = [reports EXCEPT ![p][k] =
                                 Report(rows[k], CorpusOf(p), up, pays,
                                        p \in Clerks /\ rows[k].writer = p)]
  /\ Leave(p, "idle")
  /\ UNCHANGED <<rows, stores, board, loadVars>>

-----------------------------------------------------------------------------
(* The command line. *)

StoreShipped(c, k) ==
  /\ c \in Clerks /\ pc[c] = "idle" /\ k \in Shipped
  /\ \E o \in Referred(k) : Take(c, o)
  /\ UNCHANGED <<rows, stores, board, reports, declined, loadVars>>

\* run_gauntlet, with or without the retry.  It is armed by a missing check or
\* a refusal on truth; the object it mints is stored before it is judged.
Admit(c, k) ==
  /\ c \in Clerks /\ pc[c] = "idle" /\ rows[k] # None
  /\ rows[k].obj.hook \/ ~ SweepRaises(rows[k].obj.guard, k, Census)
  /\ \E up \in SUBSET Flips, again \in SUBSET Flips, auto_cond \in BOOLEAN :
     \E pays \in Payments(rows[k].obj, up) :
       LET r == Report(rows[k], Census, up, pays, FALSE)
           armed == auto_cond /\ ~ r.truth
                    /\ (rows[k].obj.hook \/ ~ MeasureRaises(rows[k].obj.guard, k, Census))
           found == IF armed THEN Minted(k, Census, again) ELSE {}
       IN  IF found = {}
           THEN /\ reports' = [reports EXCEPT ![c][k] = r]
                /\ UNCHANGED <<pc, held>>
           ELSE /\ \E g \in found :
                     Take(c, [Live(rows[k].obj) EXCEPT !.guard = g, !.op = "auto_cond"])
                /\ UNCHANGED reports
  /\ UNCHANGED <<rows, stores, board, declined, loadVars>>

-----------------------------------------------------------------------------
(* load_pack. *)

\* The rows whose name is in the ledger, and when each was written.
List(l) ==
  /\ l \in Loaders /\ pc[l] = "idle" /\ pack[l] = {}
  /\ listed' = [listed EXCEPT ![l] =
       [k \in Keys |-> IF rows[k] # None /\ rows[k].obj.name \in Ledger
                       THEN rows[k].stamp ELSE None]]
  /\ \E gauntlet \in BOOLEAN : pc' = [pc EXCEPT ![l] = IF gauntlet THEN "strict" ELSE "load"]
  /\ UNCHANGED <<rows, stores, board, reports, declined, held, pack>>

Newest(l) == {k \in Keys : listed[l][k] # None /\
                \A j \in Keys : listed[l][j] # None => listed[l][j] <= listed[l][k]}
Loaded(l) == {m.obj.name : m \in pack[l]}

\* The object is rebuilt from the row as it now is; it must have its hooks, and
\* a name not yet loaded.  With a corpus, it is then judged.
Rebuild(l, k) ==
  /\ pc[l] \in {"load", "strict"} /\ k \in Newest(l)
  /\ listed' = [listed EXCEPT ![l][k] = None]
  /\ LET row == rows[k]
         member == [obj |-> row.obj, stamp |-> row.stamp, judged |-> None]
     IN  IF row.obj.hook \/ row.obj.name \in Loaded(l)
         THEN UNCHANGED <<pc, held, pack>>
         ELSE IF pc[l] = "load"
         THEN /\ pack' = [pack EXCEPT ![l] = @ \cup {member}]
              /\ UNCHANGED <<pc, held>>
         ELSE /\ held' = [held EXCEPT ![l] = member]
              /\ pc' = [pc EXCEPT ![l] = "rejudge"]
              /\ UNCHANGED pack
  /\ UNCHANGED <<rows, stores, board, reports, declined>>

\* The gauntlet reads the row once more; the object rebuilt before is kept.
\* Bug: an object is kept when it passed truth.
RejudgeTruth(l) ==
  /\ pc[l] = "rejudge"
  /\ LET row == rows[held[l].obj.key]
     IN  /\ row.obj.hook \/ ~ SweepRaises(row.obj.guard, row.obj.key, Census)
         /\ \E up \in SUBSET Flips : \E pays \in Payments(row.obj, up) :
              LET r == Report(row, Census, up, pays, FALSE)
              IN  pack' = IF r.truth
                          THEN [pack EXCEPT ![l] = @ \cup {[held[l] EXCEPT !.judged = r]}]
                          ELSE pack
  /\ Leave(l, "strict")
  /\ UNCHANGED <<rows, stores, board, reports, declined, listed>>
Rejudge(l) ==
  /\ pc[l] = "rejudge"
  /\ LET row == rows[held[l].obj.key]
     IN  /\ row.obj.hook \/ ~ SweepRaises(row.obj.guard, row.obj.key, Census)
         /\ \E up \in SUBSET Flips : \E pays \in Payments(row.obj, up) :
              LET r == Report(row, Census, up, pays, FALSE)
              IN  pack' = IF r.usable
                          THEN [pack EXCEPT ![l] = @ \cup {[held[l] EXCEPT !.judged = r]}]
                          ELSE pack
  /\ Leave(l, "strict")
  /\ UNCHANGED <<rows, stores, board, reports, declined, listed>>

Next ==
  \/ \E p \in Arenas \cup Clerks : Store(p) \/ StoreRaises(p) \/ Judge(p)
  \/ \E a \in Arenas : Ingest(a) \/ \E k \in Keys :
       Construct(a, k) \/ AutoCond(a, k) \/ RelaxGuard(a, k)
  \/ \E c \in Clerks, k \in Keys : StoreShipped(c, k) \/ Admit(c, k)
  \/ \E l \in Loaders : List(l) \/ Rejudge(l) \/ \E k \in Keys : Rebuild(l, k)

Spec == Init /\ [][Next]_vars

-----------------------------------------------------------------------------
(* Properties. *)

Members == [obj : Objects, stamp : 1 .. MaxStores, judged : Reports \cup {None}]

TypeOK ==
  /\ rows \in [Keys -> Rows \cup {None}] /\ stores \in Nat
  /\ board \in [Arenas -> Boards]
  /\ reports \in [Arenas \cup Clerks -> [Keys -> Reports \cup {None}]]
  /\ declined \in [Arenas \cup Clerks -> SUBSET Keys]
  /\ pc \in [Procs -> {"idle", "store", "judge", "load", "strict", "rejudge"}]
  /\ held \in [Procs -> Objects \cup Members \cup {None}]
  /\ listed \in [Loaders -> [Keys -> 1 .. MaxStores \cup {None}]]
  /\ pack \in [Loaders -> SUBSET Members]

\* The sites where an equality fails whatever is drawn, and where it holds.
Failing(S) == {s \in S : Outcome[s] \in {"unequal", "ill"}}
Holding(S) == {s \in S : Outcome[s] = "equal"}

\* Under a guard no measured site of the window and the corpus fails, and every
\* fire of the probe denotes.  A fire that denotes may be unequal, as long as no
\* extraction picks it.
Clean(g, k, c) ==
  /\ Failing(Window(g, k) \cup Region(g, InReal(k, c))) = {}
  /\ \A s \in Region(g, Probe[k]) : Outcome[s] # "ill"

\* What an arena shows of an object it wrote last is the judgement of what is
\* stored (_reported_object_view joins a row with the report kept under its
\* key): every guard of a rule shares the key, so a report outlives the row it
\* was made of when another process writes there, or when the gauntlet raises
\* after the object was stored, and in no other case.
ReportsDescribeRows ==
  \A a \in Arenas, k \in Keys :
    (/\ rows[k] # None /\ rows[k].writer = a /\ k \notin declined[a]
     /\ ~ (pc[a] = "judge" /\ held[a].key = k))
      => reports[a][k] # None /\ reports[a][k].stamp = rows[k].stamp

\* "A measured counterexample outranks a derivation" (_truth_gate): a guarded
\* object judged usable fires on no failing site of the matches and of the
\* window it was judged on, nor on an ill-typed one of the probe, however the
\* process that judged it and the ones that wrote the row interleave.
UsableIsClean ==
  \A p \in Arenas \cup Clerks, k \in Keys :
    LET r == reports[p][k]
    IN  (r # None /\ r.usable /\ r.obj.guard # Unguarded) => Clean(r.obj.guard, k, r.corpus)

\* The retry rewrites the stored object before it is judged: what it wrote
\* passes the truth gate, so that the rewrite was not in vain, when the key can
\* be enumerated, a site of the default window holds and no draw flips.  An
\* equal site that only the corpus or the second window has is not enough.
RetryPassesTruth ==
  \A c \in Clerks, k \in Keys :
    LET r == reports[c][k]
    IN  (/\ r # None /\ r.retry /\ k \notin Nested
         /\ Holding(Synth[k]) # {} /\ Flips \cap (Measured(k, Census) \cup Deep[k]) = {})
          => r.truth

\* The guard a row got from auto-cond separates the sites of the corpus the row
\* names, when a board wrote it ("corpus_hash records which corpus context the
\* object was measured under", store_object).
BoardsSeparate ==
  \A k \in Keys :
    (/\ rows[k] # None /\ rows[k].obj.op = "auto_cond" /\ rows[k].writer \in Arenas)
      => /\ Region(rows[k].obj.guard, Failing(Measured(k, rows[k].corpus))) = {}
         /\ Holding(Measured(k, rows[k].corpus))
              \subseteq Region(rows[k].obj.guard, Measured(k, rows[k].corpus))

\* What a loader that judges again keeps ("the strict reading of `the store's
\* usable objects'", load_pack) is clean on the corpus and the window, and
\* fires on nothing ill-typed in the probe, when the row did not change between
\* its two reads.
ReadmittedAreClean ==
  \A l \in Loaders : \A m \in pack[l] :
    (m.judged # None /\ m.judged.stamp = m.stamp /\ m.obj.guard # Unguarded)
      => Clean(m.obj.guard, m.obj.key, Census)

\* "A relaxed object is strictly a candidate: the guarded-region sweep
\* re-measures whether the grown region stays clean" (relax_guard).
RelaxedAreClean ==
  \A a \in Arenas, k \in Keys :
    LET r == reports[a][k]
    IN  (r # None /\ r.usable /\ r.obj.op = "relax_guard")
          => Failing(Region(r.obj.guard, Synth[k] \cup InReal(k, r.corpus))) = {}
=============================================================================
