---------------------------- MODULE EvidenceStore ----------------------------
(***************************************************************************)
(* The verdict table of the evidence store (catopt_discovery/evidence.py), *)
(* an SQLite file that discovery processes share, and its two writers:     *)
(*   - a pipeline run (run_pipeline) takes the scope of its verdicts, may  *)
(*     be served what is recorded there, measures the rest, and records    *)
(*     all in one transaction under a run of its own;                      *)
(*   - a session (the arena, the guide's arena) takes its scope once, and  *)
(*     records each object as it is measured; its corpus grows.            *)
(* The worktree may be edited at any time: a process runs the code it has  *)
(* loaded, and code_rev describes the files.                               *)
(*                                                                         *)
(* A measurement keeps what the verdict is made of.  `clears' stands for   *)
(* the gates with a column (relation, firing, pay, verification,           *)
(* certificate, closure) and `ill' for fires_ill_typed, which has none.    *)
(***************************************************************************)
EXTENDS Naturals

CONSTANTS
  Pipelines, Sessions,   \* the processes of each kind
  Candidates,            \* alpha keys
  Full,                  \* the library as it is
  Libraries,             \* search rule sets: it, and those with a holdout
  Batches,               \* sets of candidates that the generator proposes
  Measured(_, _),        \* what measuring a candidate somewhere gives
  MaxRuns,               \* bound: run identifiers
  MaxEdits,              \* bound: edits of the worktree
  MaxGrowth,             \* bound: times a corpus grows
  MaxClock,              \* bound: seconds that pass
  MaxRows,               \* bound: rows written
  Unknown,               \* code_rev without git
  None                   \* no row

Procs     == Pipelines \cup Sessions
Codes     == 0 .. MaxEdits
Corpora   == {"census", "board"} \X (0 .. MaxGrowth)
Origins   == [corpus : Corpora, rules : Libraries, code : Codes, view : BOOLEAN]
Measures  == [num : {"true", "false", "none"}, derivable : BOOLEAN,
              clears : BOOLEAN, ill : BOOLEAN]

ASSUME BoundsAreNat ==
  /\ MaxRuns \in Nat /\ MaxEdits \in Nat /\ MaxGrowth \in Nat /\ MaxClock \in Nat
  /\ MaxRows \in Nat
ASSUME BatchesAreSome == Batches \subseteq (SUBSET Candidates) \ {{}}
ASSUME FullIsALibrary == Full \in Libraries
ASSUME KindsDiffer == Pipelines \cap Sessions = {}
ASSUME MeasuresAreTotal ==
  \A c \in Candidates : \A o \in Origins : Measured(c, o) \in Measures

VARIABLES
  code,       \* the edit the files are at
  clock,      \* what now() returns
  runs,       \* run identifiers given
  rowids,     \* rows written
  verdicts,   \* the table
  pc,         \* the step a process is at
  loaded,     \* the edit whose code it runs
  terms,      \* the corpus it holds in memory
  scope,      \* corpus, rules, revision, run, timestamp, and its own options
  served,     \* what the cache has for its candidates
  evidence,   \* what it found of them
  drifted,    \* revisions some process took while it ran other code
  edits

storeVars == <<rowids, verdicts>>
worldVars == <<code, clock, drifted, edits>>
procVars  == <<pc, loaded, terms, scope, served, evidence>>
vars == <<worldVars, runs, storeVars, procVars>>

Revs   == Codes \cup {Unknown}
Scopes == [corpus : Corpora, rules : Libraries, rev : Revs, run : 0 .. MaxRuns,
           ts : 0 .. MaxClock, view : BOOLEAN, want : SUBSET Candidates]
\* An Evidence record, and where it was measured.
Findings == [m : Measures, origin : Origins]
Rows == [key : Candidates, corpus : Corpora, rules : Libraries, rev : Revs,
         run : 0 .. MaxRuns, ts : 0 .. MaxClock, rowid : Nat,
         num : {"true", "false", "none"}, derivable : BOOLEAN, clears : BOOLEAN,
         verdict : {"SHIP", "no:false", "no"}, origin : Origins, batch : SUBSET Candidates]

ASSUME SentinelsAreFresh == Unknown \notin Codes /\ None \notin Rows \cup Findings

-----------------------------------------------------------------------------
(* Verdicts and rows. *)

\* A derivation waives an absent measurement, never a measured counterexample.
Truth(m) == m.num # "false" /\ (m.derivable \/ m.num = "true")
Shippable(m) == Truth(m) /\ m.clears /\ ~ m.ill
StoredVerdict(m) ==
  IF m.num = "false" THEN "no:false" ELSE IF Shippable(m) THEN "SHIP" ELSE "no"

\* Bug: the row of a failing certificate is written as if it had passed.
VerdictRowClear(c, f, s, id) ==
  [key |-> c, corpus |-> s.corpus, rules |-> s.rules, rev |-> s.rev, run |-> s.run,
   ts |-> s.ts, rowid |-> id, num |-> f.m.num, derivable |-> f.m.derivable,
   clears |-> TRUE, verdict |-> StoredVerdict(f.m),
   origin |-> f.origin, batch |-> s.want]
VerdictRow(c, f, s, id) ==
  [key |-> c, corpus |-> s.corpus, rules |-> s.rules, rev |-> s.rev, run |-> s.run,
   ts |-> s.ts, rowid |-> id, num |-> f.m.num, derivable |-> f.m.derivable,
   clears |-> f.m.clears, verdict |-> StoredVerdict(f.m),
   origin |-> f.origin, batch |-> s.want]

\* A cached row as evidence: the audit's counts are restored at their defaults.
\* Bug: the row itself is kept where a finding is expected.
EvidenceIsRow(row) == [m |-> row, origin |-> row.origin]
EvidenceFromRow(row) ==
  [m |-> [num |-> row.num, derivable |-> row.derivable, clears |-> row.clears, ill |-> FALSE],
   origin |-> row.origin]

\* The primary key; inserting replaces the row that has it.
SameKeyNoRun(r1, r2) ==
  /\ r1.key = r2.key /\ r1.corpus = r2.corpus /\ r1.rules = r2.rules
  /\ r1.rev = r2.rev
SameKey(r1, r2) ==
  /\ r1.key = r2.key /\ r1.corpus = r2.corpus /\ r1.rules = r2.rules
  /\ r1.rev = r2.rev /\ r1.run = r2.run
Insert(table, new) == {r \in table : \A n \in new : ~ SameKey(r, n)} \cup new

Newer(r1, r2) == r1.ts > r2.ts \/ (r1.ts = r2.ts /\ r1.rowid > r2.rowid)

\* Bug: a row is looked for whatever the rules it was found under.
InScopeAnyRules(row, s) ==
  /\ s.rev # Unknown
  /\ row.corpus = s.corpus /\ row.rev = s.rev
InScope(row, s) ==
  /\ s.rev # Unknown
  /\ row.corpus = s.corpus /\ row.rules = s.rules /\ row.rev = s.rev

\* latest_verdicts: by timestamp, then in the order of insertion.
Latest(s, c) ==
  LET rows   == {r \in verdicts : r.key = c /\ InScope(r, s)}
      newest == {r \in rows : \A q \in rows : ~ Newer(q, r)}
  IN  IF newest = {} THEN None ELSE CHOOSE r \in newest : TRUE

-----------------------------------------------------------------------------
Blank == [c \in Candidates |-> None]
NoScope == [corpus |-> <<"census", 0>>, rules |-> Full,
            rev |-> Unknown, run |-> 0, ts |-> 0, view |-> TRUE,
            want |-> {}]

Init ==
  /\ code = 0 /\ clock = 0 /\ runs = 0 /\ rowids = 0 /\ verdicts = {}
  /\ pc = [p \in Procs |-> "idle"] /\ loaded = [p \in Procs |-> 0]
  /\ terms = [p \in Procs |-> NoScope.corpus]
  /\ scope = [p \in Procs |-> NoScope]
  /\ served = [p \in Procs |-> Blank] /\ evidence = [p \in Procs |-> Blank]
  /\ drifted = {} /\ edits = 0

Origin(p) == [corpus |-> terms[p], rules |-> scope[p].rules,
              code |-> loaded[p], view |-> scope[p].view]
Fresh(p, c) == [m |-> Measured(c, Origin(p)), origin |-> Origin(p)]

\* The process is over, with all it held in memory.
Ended(p) ==
  /\ pc' = [pc EXCEPT ![p] = "idle"]
  /\ loaded' = [loaded EXCEPT ![p] = 0]
  /\ terms' = [terms EXCEPT ![p] = NoScope.corpus]
  /\ scope' = [scope EXCEPT ![p] = NoScope]
  /\ served' = [served EXCEPT ![p] = Blank]
  /\ evidence' = [evidence EXCEPT ![p] = Blank]

\* A pipeline's arguments; its census, corpus and proposals follow from them.
StartPipeline(p) ==
  /\ p \in Pipelines /\ pc[p] = "idle" /\ runs < MaxRuns
  /\ \E n \in 0 .. MaxGrowth, l \in Libraries, w \in Batches :
       /\ scope' = [scope EXCEPT ![p] =
            [NoScope EXCEPT !.corpus = <<"census", n>>, !.rules = l, !.want = w]]
       /\ terms' = [terms EXCEPT ![p] = <<"census", n>>]
  /\ loaded' = [loaded EXCEPT ![p] = code]
  /\ pc' = [pc EXCEPT ![p] = "scope"]
  /\ UNCHANGED <<worldVars, runs, storeVars, served, evidence>>

\* A session measures with the view oracle on, and reads no cache to measure.
StartSession(p) ==
  /\ p \in Sessions /\ pc[p] = "idle" /\ runs < MaxRuns
  /\ scope' = [scope EXCEPT ![p] = [NoScope EXCEPT !.corpus = <<"board", 0>>]]
  /\ terms' = [terms EXCEPT ![p] = <<"board", 0>>]
  /\ loaded' = [loaded EXCEPT ![p] = code]
  /\ pc' = [pc EXCEPT ![p] = "scope"]
  /\ UNCHANGED <<worldVars, runs, storeVars, served, evidence>>

\* code_rev reads the files as they are now; git may not answer.  A session
\* takes its run and its timestamp with it.
TakeScope(p) ==
  /\ pc[p] = "scope"
  /\ \E rev \in {code, Unknown} :
       /\ drifted' = IF rev = loaded[p] \/ rev = Unknown THEN drifted ELSE drifted \cup {rev}
       /\ IF p \in Sessions
          THEN /\ runs < MaxRuns /\ runs' = runs + 1
               /\ scope' = [scope EXCEPT ![p].rev = rev, ![p].run = runs', ![p].ts = clock]
               /\ pc' = [pc EXCEPT ![p] = "open"]
          ELSE /\ scope' = [scope EXCEPT ![p].rev = rev]
               /\ pc' = [pc EXCEPT ![p] = "read"]
               /\ UNCHANGED runs
  /\ UNCHANGED <<code, clock, edits, storeVars, loaded, terms, served, evidence>>

\* The arguments use_cache and view_oracle, chosen here, where they first count.
ReadCache(p) ==
  /\ pc[p] = "read"
  /\ \E use_cache \in BOOLEAN, view_oracle \in BOOLEAN :
       /\ served' = [served EXCEPT ![p] =
            [c \in Candidates |->
               IF use_cache /\ c \in scope[p].want THEN Latest(scope[p], c) ELSE None]]
       /\ scope' = [scope EXCEPT ![p].view = view_oracle]
  /\ pc' = [pc EXCEPT ![p] = "measure"]
  /\ UNCHANGED <<worldVars, runs, storeVars, loaded, terms, evidence>>

\* A hit skips measure.  The run and its timestamp are taken at the end.
Measure(p) ==
  /\ pc[p] = "measure" /\ runs < MaxRuns
  /\ evidence' = [evidence EXCEPT ![p] =
       [c \in Candidates |->
          IF c \notin scope[p].want THEN None
          ELSE IF served[p][c] # None THEN EvidenceFromRow(served[p][c])
          ELSE Fresh(p, c)]]
  /\ runs' = runs + 1
  /\ scope' = [scope EXCEPT ![p].run = runs', ![p].ts = clock]
  /\ pc' = [pc EXCEPT ![p] = "record"]
  /\ UNCHANGED <<worldVars, storeVars, loaded, terms, served>>

\* record_run, one transaction for all the rows.
\* Bug: each row is committed on its own.
RecordOne(p) ==
  /\ pc[p] = "record" /\ rowids < MaxRows
  /\ \E c \in scope[p].want :
       /\ evidence[p][c] # None
       /\ verdicts' = Insert(verdicts, {VerdictRow(c, evidence[p][c], scope[p], rowids + 1)})
       /\ evidence' = [evidence EXCEPT ![p][c] = None]
  /\ rowids' = rowids + 1
  /\ UNCHANGED <<worldVars, runs, pc, loaded, terms, scope, served>>
Record(p) ==
  /\ pc[p] = "record" /\ rowids < MaxRows
  /\ verdicts' = Insert(verdicts,
       {VerdictRow(c, evidence[p][c], scope[p], rowids + 1) : c \in scope[p].want})
  /\ rowids' = rowids + 1
  /\ Ended(p)
  /\ UNCHANGED <<worldVars, runs>>

\* A session measures one candidate and records it.
Draw(p, c) ==
  /\ pc[p] = "open" /\ rowids < MaxRows
  /\ verdicts' = Insert(verdicts, {VerdictRow(c, Fresh(p, c), scope[p], rowids + 1)})
  /\ rowids' = rowids + 1
  /\ UNCHANGED <<worldVars, runs, procVars>>

\* The corpus grows, and the scope rotates with it.
\* Bug: the hash of the corpus is left as it was.
IngestQuietly(p) ==
  /\ pc[p] = "open" /\ terms[p][2] < MaxGrowth
  /\ terms' = [terms EXCEPT ![p] = <<@[1], @[2] + 1>>]
  /\ scope' = [scope EXCEPT ![p].ts = clock]
  /\ UNCHANGED <<worldVars, runs, storeVars, pc, loaded, served, evidence>>
Ingest(p) ==
  /\ pc[p] = "open" /\ terms[p][2] < MaxGrowth
  /\ terms' = [terms EXCEPT ![p] = <<@[1], @[2] + 1>>]
  /\ scope' = [scope EXCEPT ![p].corpus = terms'[p], ![p].ts = clock]
  /\ UNCHANGED <<worldVars, runs, storeVars, pc, loaded, served, evidence>>

\* A process ends, or is killed: an open transaction is rolled back.
Quit(p) ==
  /\ pc[p] # "idle"
  /\ Ended(p)
  /\ UNCHANGED <<worldVars, runs, storeVars>>

Edit ==
  /\ edits < MaxEdits /\ edits' = edits + 1
  /\ \E v \in Codes \ {code} : code' = v
  /\ UNCHANGED <<clock, drifted, runs, storeVars, procVars>>

Tick ==
  /\ clock < MaxClock /\ clock' = clock + 1
  /\ UNCHANGED <<code, drifted, edits, runs, storeVars, procVars>>

Next ==
  \/ Edit \/ Tick
  \/ \E p \in Procs :
       \/ StartPipeline(p) \/ StartSession(p) \/ TakeScope(p) \/ ReadCache(p)
       \/ Measure(p) \/ Record(p) \/ Ingest(p) \/ Quit(p)
       \/ \E c \in Candidates : Draw(p, c)

Spec == Init /\ [][Next]_vars

-----------------------------------------------------------------------------
(* Properties. *)

TypeOK ==
  /\ code \in Codes /\ clock \in 0 .. MaxClock /\ edits \in 0 .. MaxEdits
  /\ runs \in 0 .. MaxRuns /\ rowids \in 0 .. MaxRows
  /\ drifted \subseteq Codes
  /\ verdicts \subseteq Rows
  /\ pc \in [Procs -> {"idle", "scope", "read", "measure", "record", "open"}]
  /\ loaded \in [Procs -> Codes]
  /\ terms \in [Procs -> Corpora]
  /\ scope \in [Procs -> Scopes]
  /\ served \in [Procs -> [Candidates -> Rows \cup {None}]]
  /\ evidence \in [Procs -> [Candidates -> Findings \cup {None}]]

\* What remains of a measurement when the audit's count is lost, which no
\* column holds.
Unaudited(m) ==
  [num |-> m.num, derivable |-> m.derivable, clears |-> m.clears, ill |-> FALSE]

\* Every row says what was measured where it says: its columns are those of a
\* measurement of its candidate on its corpus under its rules, by the code of
\* its revision unless that revision was taken while other code ran; its
\* verdict too, the audit apart.  Cached rows that are recorded again, and a
\* scope that rotates under an open session, must keep this.
RowsAreMeasurements ==
  \A r \in verdicts :
    LET m == Measured(r.key, r.origin)
    IN  /\ r.origin.corpus = r.corpus /\ r.origin.rules = r.rules
        /\ r.rev \in Codes \ drifted => r.origin.code = r.rev
        /\ r.num = m.num /\ r.derivable = m.derivable /\ r.clears = m.clears
        /\ r.verdict \in {StoredVerdict(m), StoredVerdict(Unaudited(m))}

\* What a hit skips is what measuring would have given ("sound because a
\* verdict is deterministic given its scope", run_pipeline): so it is when the
\* row was measured with the same view oracle option and no process took this
\* revision while it ran other code, and up to the audit.  The three exceptions
\* are those of the code: neither the option nor the loaded code is in the
\* scope, and the audit has no column.
ServedAsMeasured ==
  \A p \in Pipelines : \A c \in Candidates :
    LET row == served[p][c]
    IN  (pc[p] = "measure" /\ row # None /\ row.rev \notin drifted
           /\ row.origin.view = scope[p].view)
          => EvidenceFromRow(row).m = Unaudited(Measured(c, Origin(p)))

\* A pipeline's run is recorded whole or not at all, whatever kills it: the
\* history report counts runs that saw a candidate again.
RunsAreWhole ==
  \A r \in verdicts :
    r.batch # {} => {q.key : q \in {q \in verdicts : q.run = r.run}} = r.batch

\* A measurement is history: a later run, in whatever scope, never removes it;
\* only its own run can write it again ("an identical re-measurement under a
\* new run_id records `seen again'", record_run).
HistoryKept ==
  [][\A r \in verdicts : \E q \in verdicts' :
       /\ q.key = r.key /\ q.run = r.run /\ q.corpus = r.corpus
       /\ q.rules = r.rules /\ q.rev = r.rev
       /\ q # r => \E p \in Sessions : scope[p].run = r.run]_vars

\* "A cache-served candidate under-reports its ill-typed evidence while the
\* gates it affects still round-trip" (_evidence_from_row): a row says SHIP
\* only of a candidate that cleared every gate.
ShippedWasShippable ==
  \A r \in verdicts : r.verdict = "SHIP" => Shippable(Measured(r.key, r.origin))
=============================================================================
