------------------------- MODULE EvidenceStoreProofs -------------------------
(***************************************************************************)
(* Proofs about EvidenceStore, for any processes, candidates, libraries    *)
(* and measurements.                                                       *)
(*                                                                         *)
(* The inductive invariant follows a measurement from the process that     *)
(* makes it, into a row, and back out of the cache: at each place it is    *)
(* that of its origin, and the origin is that of the scope it is kept      *)
(* under, so long as the revision of the scope was not taken in error.     *)
(***************************************************************************)
EXTENDS EvidenceStore, TLAPS

\* A row that tells the truth about where it says it is from, with d the
\* revisions taken in error.
Truthful(r, d) ==
  LET m == Measured(r.key, r.origin)
  IN  /\ r.origin.corpus = r.corpus /\ r.origin.rules = r.rules
      /\ r.rev \in Codes \ d => r.origin.code = r.rev
      /\ r.num = m.num /\ r.derivable = m.derivable /\ r.clears = m.clears
      /\ r.verdict \in {StoredVerdict(m), StoredVerdict(Unaudited(m))}

\* Likewise a finding about a candidate, for the scope it will be stored under.
TruthfulFinding(c, f, s, d) ==
  /\ f \in Findings
  /\ f.m \in {Measured(c, f.origin), Unaudited(Measured(c, f.origin))}
  /\ f.origin.corpus = s.corpus /\ f.origin.rules = s.rules
  /\ s.rev \in Codes \ d => f.origin.code = s.rev

\* A scope has the corpus in memory, and the revision of the loaded code
\* unless it was taken in error.
ScopesHold ==
  \A p \in Procs :
    /\ terms[p] = scope[p].corpus
    /\ pc[p] \notin {"idle", "scope"} /\ scope[p].rev \in Codes \ drifted
         => loaded[p] = scope[p].rev

ServedHold ==
  \A p \in Procs, c \in Candidates : served[p][c] # None =>
    /\ pc[p] \in {"measure", "record"}
    /\ served[p][c].key = c /\ Truthful(served[p][c], drifted)
    /\ InScope(served[p][c], scope[p])

EvidenceHolds ==
  \A p \in Procs, c \in Candidates :
    /\ evidence[p][c] # None => pc[p] = "record" /\ TruthfulFinding(c, evidence[p][c], scope[p], drifted)
    /\ pc[p] = "record" /\ c \in scope[p].want => evidence[p][c] # None

IInv ==
  /\ TypeOK /\ RowsAreMeasurements /\ ScopesHold /\ ServedHold /\ EvidenceHolds

-----------------------------------------------------------------------------
(* A measurement through the table and back. *)

LEMMA NoScopeIsAScope == NoScope \in Scopes
BY BoundsAreNat, FullIsALibrary DEF NoScope, Scopes, Corpora, Revs

LEMMA ScopesOnCorpora ==
  ASSUME NEW x \in Corpora, NEW l \in Libraries, NEW w \in SUBSET Candidates
  PROVE  /\ [NoScope EXCEPT !.corpus = x] \in Scopes
         /\ [NoScope EXCEPT !.corpus = x].corpus = x
         /\ [NoScope EXCEPT !.corpus = x, !.rules = l, !.want = w] \in Scopes
         /\ [NoScope EXCEPT !.corpus = x, !.rules = l, !.want = w].corpus = x
BY NoScopeIsAScope DEF Scopes

LEMMA ScopesOnRevisions ==
  ASSUME NEW s \in Scopes, NEW v \in Revs
  PROVE  /\ [s EXCEPT !.rev = v] \in Scopes
         /\ [s EXCEPT !.rev = v].corpus = s.corpus
         /\ [s EXCEPT !.rev = v].rev = v
BY DEF Scopes

\* A finding is still one about its candidate in a scope with the same
\* corpus, rules and revision, however many revisions drift.
LEMMA FindingsStay ==
  ASSUME NEW c, NEW f, NEW s, NEW t, NEW d, NEW e, TruthfulFinding(c, f, s, d),
         t.corpus = s.corpus, t.rules = s.rules, t.rev = s.rev, d \subseteq e
  PROVE  TruthfulFinding(c, f, t, e)
BY DEF TruthfulFinding, Findings, Origins, Measures, Unaudited, Codes, Corpora

LEMMA TruthStays ==
  ASSUME NEW r, NEW d, NEW e, Truthful(r, d), d \subseteq e
  PROVE  Truthful(r, e)
BY DEF Truthful, StoredVerdict, Unaudited, Shippable, Truth, Codes

LEMMA VerdictsAreVerdicts ==
  ASSUME NEW m PROVE StoredVerdict(m) \in {"SHIP", "no:false", "no"}
BY DEF StoredVerdict

\* What a truthful finding is recorded as.
LEMMA RowsOfFindings ==
  ASSUME NEW c \in Candidates, NEW s \in Scopes, NEW f, NEW id \in Nat, NEW d,
         TruthfulFinding(c, f, s, d)
  PROVE  /\ VerdictRow(c, f, s, id) \in Rows
         /\ Truthful(VerdictRow(c, f, s, id), d)
<1> DEFINE row == VerdictRow(c, f, s, id)
<1>1. f \in Findings /\ f.m \in Measures /\ f.origin \in Origins
  BY DEF TruthfulFinding, Findings
<1>2. row \in Rows
  BY <1>1, VerdictsAreVerdicts DEF VerdictRow, Rows, Scopes, Measures
<1>3. Measured(c, f.origin) \in Measures
  BY <1>1, MeasuresAreTotal
<1>4. /\ f.m.num = Measured(c, f.origin).num
      /\ f.m.derivable = Measured(c, f.origin).derivable
      /\ f.m.clears = Measured(c, f.origin).clears
  BY <1>3 DEF TruthfulFinding, Unaudited, Measures
<1>5. StoredVerdict(f.m) \in {StoredVerdict(Measured(c, f.origin)),
                              StoredVerdict(Unaudited(Measured(c, f.origin)))}
  BY DEF TruthfulFinding
<1>6. Truthful(row, d)
  BY <1>4, <1>5 DEF VerdictRow, Truthful, TruthfulFinding
<1> QED BY <1>2, <1>6

\* What a truthful row is served as.
LEMMA FindingsOfRows ==
  ASSUME NEW r \in Rows, NEW s \in Scopes, NEW d, Truthful(r, d), InScope(r, s)
  PROVE  /\ EvidenceFromRow(r).m = Unaudited(Measured(r.key, r.origin))
         /\ TruthfulFinding(r.key, EvidenceFromRow(r), s, d)
<1> DEFINE m == Measured(r.key, r.origin)
<1>1. r.origin \in Origins /\ r.key \in Candidates
  BY DEF Rows
<1>2. m \in Measures
  BY <1>1, MeasuresAreTotal
<1>3. EvidenceFromRow(r).m = Unaudited(m)
  <2>1. r.num = m.num /\ r.derivable = m.derivable /\ r.clears = m.clears
    BY DEF Truthful
  <2> QED BY <2>1 DEF EvidenceFromRow, Unaudited
<1>4. EvidenceFromRow(r) \in Findings
  BY <1>1 DEF EvidenceFromRow, Findings, Measures, Rows
<1>5. TruthfulFinding(r.key, EvidenceFromRow(r), s, d)
  BY <1>3, <1>4 DEF TruthfulFinding, EvidenceFromRow, Truthful, InScope
<1> QED BY <1>3, <1>5

\* A process in step with its scope measures truthfully for it.
LEMMA FreshIsTruthful ==
  ASSUME TypeOK, ScopesHold, NEW p \in Procs, NEW c \in Candidates,
         pc[p] \notin {"idle", "scope"}
  PROVE  TruthfulFinding(c, Fresh(p, c), scope[p], drifted)
<1>1. Origin(p) \in Origins
  BY DEF Origin, Origins, TypeOK, Scopes
<1>2. Measured(c, Origin(p)) \in Measures
  BY <1>1, MeasuresAreTotal
<1> QED BY <1>1, <1>2 DEF Fresh, TruthfulFinding, Findings, Origin, ScopesHold, TypeOK, Scopes

\* Inserting truthful rows.
LEMMA InsertKeeps ==
  ASSUME TypeOK, RowsAreMeasurements, drifted' = drifted,
         NEW new \in SUBSET Rows, \A n \in new : Truthful(n, drifted),
         verdicts' = Insert(verdicts, new)
  PROVE  verdicts' \subseteq Rows /\ RowsAreMeasurements'
<1>1. \A r \in verdicts' : r \in verdicts \/ r \in new
  BY DEF Insert
<1>2. verdicts' \subseteq Rows
  BY <1>1 DEF TypeOK
<1>3. \A r \in verdicts' : Truthful(r, drifted')
  BY <1>1 DEF RowsAreMeasurements, Truthful
<1> QED BY <1>2, <1>3 DEF RowsAreMeasurements, Truthful

LEMMA TableStays ==
  ASSUME RowsAreMeasurements, verdicts' = verdicts, drifted \subseteq drifted'
  PROVE  RowsAreMeasurements'
<1>1. \A r \in verdicts : Truthful(r, drifted)
  BY DEF RowsAreMeasurements, Truthful
<1> QED BY <1>1, TruthStays DEF RowsAreMeasurements, Truthful

-----------------------------------------------------------------------------
LEMMA NoneIsNoFinding == None \notin Findings
BY SentinelsAreFresh

LEMMA InitEstablishes == Init => IInv
<1> SUFFICES ASSUME Init PROVE IInv
  OBVIOUS
<1>1. TypeOK
  BY NoScopeIsAScope, BoundsAreNat, FullIsALibrary
  DEF Init, TypeOK, Blank, Codes, Corpora, NoScope
<1>2. RowsAreMeasurements
  BY DEF Init, RowsAreMeasurements
<1>3. ScopesHold
  BY DEF Init, ScopesHold
<1>4. ServedHold /\ EvidenceHolds
  BY DEF Init, ServedHold, EvidenceHolds, Blank
<1> QED BY <1>1, <1>2, <1>3, <1>4 DEF IInv

\* A process that is over holds nothing to be wrong.
LEMMA EndedHolds ==
  ASSUME IInv, NEW p \in Procs, Ended(p), drifted' = drifted
  PROVE  /\ pc' \in [Procs -> {"idle", "scope", "read", "measure", "record", "open"}]
         /\ loaded' \in [Procs -> Codes] /\ terms' \in [Procs -> Corpora]
         /\ scope' \in [Procs -> Scopes]
         /\ served' \in [Procs -> [Candidates -> Rows \cup {None}]]
         /\ evidence' \in [Procs -> [Candidates -> Findings \cup {None}]]
         /\ ScopesHold' /\ ServedHold' /\ EvidenceHolds'
<1> USE DEF Ended, IInv, TypeOK
<1>1. /\ pc' \in [Procs -> {"idle", "scope", "read", "measure", "record", "open"}]
      /\ loaded' \in [Procs -> Codes] /\ terms' \in [Procs -> Corpora]
  BY NoScopeIsAScope, BoundsAreNat DEF Codes, Scopes
<1>2. scope' \in [Procs -> Scopes]
  BY NoScopeIsAScope
<1>3. /\ served' \in [Procs -> [Candidates -> Rows \cup {None}]]
      /\ evidence' \in [Procs -> [Candidates -> Findings \cup {None}]]
  BY DEF Blank
<1>4. ScopesHold'
  BY DEF ScopesHold, Codes
<1>5. ServedHold'
  <2> SUFFICES ASSUME NEW q \in Procs, NEW c \in Candidates, served'[q][c] # None
               PROVE  /\ pc'[q] \in {"measure", "record"}
                      /\ served'[q][c].key = c /\ Truthful(served'[q][c], drifted')
                      /\ InScope(served'[q][c], scope'[q])
    BY DEF ServedHold
  <2>1. q # p /\ served'[q] = served[q] /\ scope'[q] = scope[q] /\ pc'[q] = pc[q]
    BY DEF Blank
  <2>2. /\ pc[q] \in {"measure", "record"}
        /\ served[q][c].key = c /\ Truthful(served[q][c], drifted)
        /\ InScope(served[q][c], scope[q])
    BY <2>1 DEF ServedHold
  <2> QED BY <2>1, <2>2, TruthStays
<1>6. EvidenceHolds'
  <2> SUFFICES ASSUME NEW q \in Procs, NEW c \in Candidates
               PROVE  /\ evidence'[q][c] # None =>
                           pc'[q] = "record" /\ TruthfulFinding(c, evidence'[q][c], scope'[q], drifted')
                      /\ pc'[q] = "record" /\ c \in scope'[q].want => evidence'[q][c] # None
    BY DEF EvidenceHolds
  <2>1. CASE q = p
    BY <2>1 DEF Blank
  <2>2. CASE q # p
    <3>1. evidence'[q] = evidence[q] /\ scope'[q] = scope[q] /\ pc'[q] = pc[q]
      BY <2>2
    <3> QED BY <3>1, FindingsStay DEF EvidenceHolds
  <2> QED BY <2>1, <2>2
<1> QED BY <1>1, <1>2, <1>3, <1>4, <1>5, <1>6

\* What a process holds, when neither it nor what it holds has moved.
ProcHolds(q) ==
  /\ terms[q] = scope[q].corpus
  /\ pc[q] \notin {"idle", "scope"} /\ scope[q].rev \in Codes \ drifted
       => loaded[q] = scope[q].rev
  /\ \A c \in Candidates :
       /\ served[q][c] # None =>
            /\ pc[q] \in {"measure", "record"}
            /\ served[q][c].key = c /\ Truthful(served[q][c], drifted)
            /\ InScope(served[q][c], scope[q])
       /\ evidence[q][c] # None =>
            pc[q] = "record" /\ TruthfulFinding(c, evidence[q][c], scope[q], drifted)
       /\ pc[q] = "record" /\ c \in scope[q].want => evidence[q][c] # None

LEMMA AllProcs ==
  (\A q \in Procs : ProcHolds(q)) <=> (ScopesHold /\ ServedHold /\ EvidenceHolds)
BY DEF ProcHolds, ScopesHold, ServedHold, EvidenceHolds

LEMMA OthersHold ==
  ASSUME NEW q \in Procs, ProcHolds(q), drifted \subseteq drifted',
         pc'[q] = pc[q], loaded'[q] = loaded[q], terms'[q] = terms[q],
         scope'[q] = scope[q], served'[q] = served[q], evidence'[q] = evidence[q]
  PROVE  ProcHolds(q)'
BY FindingsStay, TruthStays DEF ProcHolds

-----------------------------------------------------------------------------
(* The steps. *)

LEMMA StartsHold ==
  ASSUME IInv, NEW p \in Procs, StartPipeline(p) \/ StartSession(p)
  PROVE  IInv'
<1> USE DEF IInv
<1>1. /\ pc[p] = "idle" /\ pc' = [pc EXCEPT ![p] = "scope"]
      /\ loaded' = [loaded EXCEPT ![p] = code]
      /\ UNCHANGED <<worldVars, runs, storeVars, served, evidence>>
  BY DEF StartPipeline, StartSession
<1>2. PICK s \in Scopes : /\ scope' = [scope EXCEPT ![p] = s]
                          /\ terms' = [terms EXCEPT ![p] = s.corpus]
  <2>1. CASE StartPipeline(p)
    <3>1. PICK n \in 0 .. MaxGrowth, l \in Libraries, w \in Batches :
            /\ scope' = [scope EXCEPT ![p] =
                 [NoScope EXCEPT !.corpus = <<"census", n>>, !.rules = l, !.want = w]]
            /\ terms' = [terms EXCEPT ![p] = <<"census", n>>]
      BY <2>1 DEF StartPipeline
    <3> DEFINE s == [NoScope EXCEPT !.corpus = <<"census", n>>, !.rules = l, !.want = w]
    <3>2. s \in Scopes /\ s.corpus = <<"census", n>>
      BY ScopesOnCorpora, BoundsAreNat, BatchesAreSome DEF Corpora
    <3> QED BY <3>1, <3>2
  <2>2. CASE StartSession(p)
    <3> DEFINE s == [NoScope EXCEPT !.corpus = <<"board", 0>>]
    <3>1. <<"board", 0>> \in Corpora /\ {} \in SUBSET Candidates
      BY BoundsAreNat DEF Corpora
    <3>2. s \in Scopes /\ s.corpus = <<"board", 0>>
      BY <3>1, ScopesOnCorpora, FullIsALibrary
    <3> QED BY <2>2, <3>2 DEF StartSession
  <2> QED BY <2>1, <2>2
<1>3. s.corpus \in Corpora
  BY DEF Scopes
<1>4. TypeOK'
  BY <1>1, <1>2, <1>3 DEF TypeOK, worldVars, storeVars
<1>5. RowsAreMeasurements'
  BY <1>1, TableStays DEF worldVars, storeVars
<1>6. ASSUME NEW q \in Procs PROVE ProcHolds(q)'
  <2>1. ProcHolds(q)
    BY AllProcs
  <2>2. CASE q # p
    BY <1>1, <1>2, <2>1, <2>2, OthersHold DEF worldVars, TypeOK
  <2>3. CASE q = p
    BY <1>1, <1>2, <2>1, <2>3 DEF ProcHolds, TypeOK
  <2> QED BY <2>2, <2>3
<1>7. (ScopesHold /\ ServedHold /\ EvidenceHolds)'
  BY <1>6, AllProcs DEF ScopesHold, ServedHold, EvidenceHolds, ProcHolds
<1> QED BY <1>4, <1>5, <1>7

LEMMA TakeScopeHolds ==
  ASSUME IInv, NEW p \in Procs, TakeScope(p)
  PROVE  IInv'
<1> USE DEF IInv
<1>1. PICK rev \in {code, Unknown} :
        /\ drifted' = IF rev = loaded[p] \/ rev = Unknown THEN drifted ELSE drifted \cup {rev}
        /\ IF p \in Sessions
           THEN /\ runs < MaxRuns /\ runs' = runs + 1
                /\ scope' = [scope EXCEPT ![p].rev = rev, ![p].run = runs', ![p].ts = clock]
                /\ pc' = [pc EXCEPT ![p] = "open"]
           ELSE /\ scope' = [scope EXCEPT ![p].rev = rev]
                /\ pc' = [pc EXCEPT ![p] = "read"]
                /\ UNCHANGED runs
  BY DEF TakeScope
<1>2. /\ pc[p] = "scope" /\ UNCHANGED <<code, clock, edits, storeVars, loaded, terms, served, evidence>>
  BY DEF TakeScope
<1>3. /\ pc' = [pc EXCEPT ![p] = "open"] \/ pc' = [pc EXCEPT ![p] = "read"]
      /\ runs' \in 0 .. MaxRuns
      /\ rev \in Revs /\ drifted \subseteq drifted' /\ drifted' \subseteq Codes
      /\ rev \in Codes \ drifted' => loaded[p] = rev
  BY <1>1, BoundsAreNat, SentinelsAreFresh DEF TypeOK, Revs, Codes
<1>4. PICK s \in Scopes :
        /\ scope' = [scope EXCEPT ![p] = s]
        /\ s.corpus = scope[p].corpus /\ s.rev = rev
  <2>1. CASE p \in Sessions
    <3> DEFINE s == [scope[p] EXCEPT !.rev = rev, !.run = runs', !.ts = clock]
    <3>1. s \in Scopes /\ s.corpus = scope[p].corpus /\ s.rev = rev
      <4>1. scope[p] \in Scopes /\ clock \in 0 .. MaxClock
        BY DEF TypeOK
      <4>2. PICK n \in 0 .. MaxRuns, t \in 0 .. MaxClock : n = runs' /\ t = clock
        BY <4>1, <1>3
      <4>3. /\ [scope[p] EXCEPT !.rev = rev, !.run = n, !.ts = t] \in Scopes
            /\ [scope[p] EXCEPT !.rev = rev, !.run = n, !.ts = t].corpus = scope[p].corpus
            /\ [scope[p] EXCEPT !.rev = rev, !.run = n, !.ts = t].rev = rev
        BY <4>1, <4>2, <1>3 DEF Scopes
      <4> QED BY <4>2, <4>3
    <3>2. scope' = [scope EXCEPT ![p] = s]
      BY <1>1, <2>1
    <3> QED BY <3>1, <3>2
  <2>2. CASE p \notin Sessions
    <3> DEFINE s == [scope[p] EXCEPT !.rev = rev]
    <3>1. s \in Scopes /\ s.corpus = scope[p].corpus /\ s.rev = rev
      <4>1. scope[p] \in Scopes /\ clock \in 0 .. MaxClock
        BY DEF TypeOK
      <4> QED BY <4>1, <1>3, ScopesOnRevisions
    <3>2. scope' = [scope EXCEPT ![p] = s]
      BY <1>1, <2>2
    <3> QED BY <3>1, <3>2
  <2> QED BY <2>1, <2>2
<1>5. TypeOK'
  BY <1>2, <1>3, <1>4 DEF TypeOK, storeVars
<1>6. RowsAreMeasurements'
  BY <1>2, <1>3, TableStays DEF storeVars
<1>7. ASSUME NEW q \in Procs PROVE ProcHolds(q)'
  <2>1. ProcHolds(q)
    BY AllProcs
  <2>2. CASE q # p
    BY <1>2, <1>3, <1>4, <2>1, <2>2, OthersHold DEF TypeOK
  <2>3. CASE q = p
    BY <1>2, <1>3, <1>4, <2>1, <2>3 DEF ProcHolds, TypeOK
  <2> QED BY <2>2, <2>3
<1>8. (ScopesHold /\ ServedHold /\ EvidenceHolds)'
  BY <1>7, AllProcs DEF ScopesHold, ServedHold, EvidenceHolds, ProcHolds
<1> QED BY <1>5, <1>6, <1>8

LEMMA LatestIsInScope ==
  ASSUME TypeOK, NEW s, NEW c, Latest(s, c) # None
  PROVE  Latest(s, c) \in verdicts /\ Latest(s, c).key = c /\ InScope(Latest(s, c), s)
BY DEF Latest

LEMMA ReadCacheHolds ==
  ASSUME IInv, NEW p \in Procs, ReadCache(p)
  PROVE  IInv'
<1> USE DEF IInv
<1>1. PICK use_cache \in BOOLEAN, view_oracle \in BOOLEAN :
        /\ served' = [served EXCEPT ![p] =
             [c \in Candidates |->
                IF use_cache /\ c \in scope[p].want THEN Latest(scope[p], c) ELSE None]]
        /\ scope' = [scope EXCEPT ![p].view = view_oracle]
  BY DEF ReadCache
<1>2. /\ pc[p] = "read" /\ pc' = [pc EXCEPT ![p] = "measure"]
      /\ UNCHANGED <<worldVars, runs, storeVars, loaded, terms, evidence>>
  BY DEF ReadCache
<1>3. /\ scope' \in [Procs -> Scopes]
      /\ \A q \in Procs : q # p => scope'[q] = scope[q]
      /\ scope'[p].corpus = scope[p].corpus /\ scope'[p].rules = scope[p].rules
      /\ scope'[p].rev = scope[p].rev
  BY <1>1 DEF TypeOK, Scopes
<1>4. ASSUME NEW c \in Candidates, served'[p][c] # None
      PROVE  /\ served'[p][c] \in verdicts /\ served'[p][c].key = c
             /\ InScope(served'[p][c], scope[p])
  BY <1>1, <1>4, LatestIsInScope DEF TypeOK
<1>5. served' \in [Procs -> [Candidates -> Rows \cup {None}]]
  BY <1>1, LatestIsInScope DEF TypeOK
<1>6. TypeOK'
  BY <1>2, <1>3, <1>5 DEF TypeOK, worldVars, storeVars
<1>7. RowsAreMeasurements'
  BY <1>2, TableStays DEF worldVars, storeVars
<1>8. ASSUME NEW q \in Procs PROVE ProcHolds(q)'
  <2>1. ProcHolds(q)
    BY AllProcs
  <2>2. CASE q # p
    BY <1>1, <1>2, <1>3, <2>1, <2>2, OthersHold DEF TypeOK, worldVars
  <2>3. CASE q = p
    <3>1. \A c \in Candidates : served'[q][c] # None =>
            /\ served'[q][c].key = c /\ Truthful(served'[q][c], drifted)
            /\ InScope(served'[q][c], scope'[q])
      BY <1>3, <1>4, <2>3 DEF RowsAreMeasurements, Truthful, InScope
    <3>2. pc'[q] = "measure" /\ drifted' = drifted /\ evidence' = evidence
          /\ loaded' = loaded /\ terms' = terms /\ pc[q] = "read"
      BY <1>2, <2>3 DEF worldVars, TypeOK
    <3> QED BY <3>1, <3>2, <2>1, <1>3, <2>3 DEF ProcHolds
  <2> QED BY <2>2, <2>3
<1>9. (ScopesHold /\ ServedHold /\ EvidenceHolds)'
  BY <1>8, AllProcs DEF ScopesHold, ServedHold, EvidenceHolds, ProcHolds
<1> QED BY <1>6, <1>7, <1>9

LEMMA MeasureHolds ==
  ASSUME IInv, NEW p \in Procs, Measure(p)
  PROVE  IInv'
<1> USE DEF IInv
<1>1. /\ pc[p] = "measure" /\ pc' = [pc EXCEPT ![p] = "record"]
      /\ evidence' = [evidence EXCEPT ![p] =
           [c \in Candidates |->
              IF c \notin scope[p].want THEN None
              ELSE IF served[p][c] # None THEN EvidenceFromRow(served[p][c])
              ELSE Fresh(p, c)]]
      /\ runs < MaxRuns /\ runs' = runs + 1
      /\ scope' = [scope EXCEPT ![p].run = runs', ![p].ts = clock]
      /\ UNCHANGED <<worldVars, storeVars, loaded, terms, served>>
  BY DEF Measure
<1>2. runs' \in 0 .. MaxRuns /\ scope[p] \in Scopes /\ clock \in 0 .. MaxClock
  BY <1>1, BoundsAreNat DEF TypeOK
<1>3. /\ scope' \in [Procs -> Scopes]
      /\ \A q \in Procs : q # p => scope'[q] = scope[q]
      /\ scope'[p].corpus = scope[p].corpus /\ scope'[p].rules = scope[p].rules
      /\ scope'[p].rev = scope[p].rev /\ scope'[p].want = scope[p].want
  BY <1>1, <1>2 DEF TypeOK, Scopes
<1>4. ASSUME NEW c \in scope[p].want
      PROVE  /\ c \in Candidates /\ evidence'[p][c] # None
             /\ TruthfulFinding(c, evidence'[p][c], scope[p], drifted)
  <2>1. c \in Candidates /\ ScopesHold /\ TypeOK
    BY <1>2 DEF Scopes
  <2>2. CASE served[p][c] # None
    <3>1. /\ served[p][c] \in Rows /\ served[p][c].key = c
          /\ Truthful(served[p][c], drifted) /\ InScope(served[p][c], scope[p])
      BY <2>1, <2>2 DEF ServedHold, TypeOK
    <3>2. TruthfulFinding(c, EvidenceFromRow(served[p][c]), scope[p], drifted)
      BY <3>1, <1>2, FindingsOfRows
    <3>3. evidence'[p][c] = EvidenceFromRow(served[p][c])
      BY <1>1, <2>1, <2>2 DEF TypeOK
    <3> QED BY <2>1, <3>2, <3>3, NoneIsNoFinding DEF TruthfulFinding
  <2>3. CASE served[p][c] = None
    <3>1. TruthfulFinding(c, Fresh(p, c), scope[p], drifted)
      BY <1>1, <2>1, FreshIsTruthful
    <3>2. evidence'[p][c] = Fresh(p, c)
      BY <1>1, <2>1, <2>3 DEF TypeOK
    <3> QED BY <2>1, <3>1, <3>2, NoneIsNoFinding DEF TruthfulFinding
  <2> QED BY <2>2, <2>3
<1>5. \A c \in Candidates : c \notin scope[p].want => evidence'[p][c] = None
  BY <1>1 DEF TypeOK
<1>6. evidence' \in [Procs -> [Candidates -> Findings \cup {None}]]
  <2> DEFINE e == [c \in Candidates |->
              IF c \notin scope[p].want THEN None
              ELSE IF served[p][c] # None THEN EvidenceFromRow(served[p][c])
              ELSE Fresh(p, c)]
  <2>1. evidence' = [evidence EXCEPT ![p] = e] /\ evidence'[p] = e
    BY <1>1 DEF TypeOK
  <2>2. \A c \in Candidates : e[c] \in Findings \cup {None}
    BY <1>4, <1>5, <2>1 DEF TruthfulFinding
  <2>3. e \in [Candidates -> Findings \cup {None}]
    BY <2>2
  <2> QED BY <2>1, <2>3 DEF TypeOK
<1>7. TypeOK'
  BY <1>1, <1>2, <1>3, <1>6 DEF TypeOK, worldVars, storeVars
<1>8. RowsAreMeasurements'
  BY <1>1, TableStays DEF worldVars, storeVars
<1>9. ASSUME NEW q \in Procs PROVE ProcHolds(q)'
  <2>1. ProcHolds(q)
    BY AllProcs
  <2>2. CASE q # p
    BY <1>1, <1>3, <2>1, <2>2, OthersHold DEF TypeOK, worldVars
  <2>3. CASE q = p
    <3>1. /\ pc[q] = "measure" /\ pc'[q] = "record" /\ drifted' = drifted /\ served' = served
          /\ loaded' = loaded /\ terms' = terms
      BY <1>1, <2>3 DEF worldVars, TypeOK
    <3>2. \A c \in Candidates : evidence'[q][c] # None =>
             TruthfulFinding(c, evidence'[q][c], scope'[q], drifted)
      BY <1>3, <1>4, <1>5, <2>3, FindingsStay
    <3>3. \A c \in Candidates : c \in scope'[q].want => evidence'[q][c] # None
      BY <1>3, <1>4, <2>3
    <3>4. \A c \in Candidates : served[q][c] # None => InScope(served[q][c], scope'[q])
      BY <2>1, <2>3, <1>3 DEF ProcHolds, InScope
    <3> QED BY <3>1, <3>2, <3>3, <3>4, <2>1, <2>3, <1>3 DEF ProcHolds
  <2> QED BY <2>2, <2>3
<1>10. (ScopesHold /\ ServedHold /\ EvidenceHolds)'
  BY <1>9, AllProcs DEF ScopesHold, ServedHold, EvidenceHolds, ProcHolds
<1> QED BY <1>7, <1>8, <1>10

LEMMA RecordHolds ==
  ASSUME IInv, NEW p \in Procs, Record(p)
  PROVE  IInv'
<1> USE DEF IInv
<1> DEFINE new == {VerdictRow(c, evidence[p][c], scope[p], rowids + 1) : c \in scope[p].want}
<1>1. /\ pc[p] = "record" /\ rowids < MaxRows /\ verdicts' = Insert(verdicts, new)
      /\ rowids' = rowids + 1 /\ Ended(p) /\ UNCHANGED <<worldVars, runs>>
  BY DEF Record
<1>2. scope[p] \in Scopes /\ scope[p].want \subseteq Candidates
  BY DEF TypeOK, Scopes
<1>3. rowids + 1 \in Nat /\ rowids' \in 0 .. MaxRows
  BY <1>1, BoundsAreNat DEF TypeOK
<1>4. \A c \in scope[p].want :
        /\ VerdictRow(c, evidence[p][c], scope[p], rowids + 1) \in Rows
        /\ Truthful(VerdictRow(c, evidence[p][c], scope[p], rowids + 1), drifted)
  BY <1>1, <1>2, <1>3, RowsOfFindings DEF EvidenceHolds
<1>5. new \in SUBSET Rows /\ \A n \in new : Truthful(n, drifted)
  BY <1>4
<1>6. verdicts' \subseteq Rows /\ RowsAreMeasurements'
  <2> HIDE DEF new
  <2> QED BY <1>1, <1>5, InsertKeeps DEF worldVars
<1>7. drifted' = drifted
  BY <1>1 DEF worldVars
<1>8. TypeOK' /\ (ScopesHold /\ ServedHold /\ EvidenceHolds)'
  BY <1>1, <1>3, <1>6, <1>7, EndedHolds DEF TypeOK, worldVars
<1> QED BY <1>6, <1>8

LEMMA DrawHolds ==
  ASSUME IInv, NEW p \in Procs, NEW c \in Candidates, Draw(p, c)
  PROVE  IInv'
<1> USE DEF IInv
<1> DEFINE row == VerdictRow(c, Fresh(p, c), scope[p], rowids + 1)
<1>1. /\ pc[p] = "open" /\ rowids < MaxRows /\ verdicts' = Insert(verdicts, {row})
      /\ rowids' = rowids + 1 /\ UNCHANGED <<worldVars, runs, procVars>>
  BY DEF Draw
<1>2. scope[p] \in Scopes /\ rowids + 1 \in Nat /\ rowids' \in 0 .. MaxRows
  BY <1>1, BoundsAreNat DEF TypeOK
<1>3. TruthfulFinding(c, Fresh(p, c), scope[p], drifted)
  BY <1>1, FreshIsTruthful
<1>4. row \in Rows /\ Truthful(row, drifted)
  BY <1>2, <1>3, RowsOfFindings
<1>5. verdicts' \subseteq Rows /\ RowsAreMeasurements'
  <2> HIDE DEF row
  <2> QED BY <1>1, <1>4, InsertKeeps DEF worldVars
<1>6. TypeOK'
  BY <1>1, <1>2, <1>5 DEF TypeOK, worldVars, procVars
<1>7. (ScopesHold /\ ServedHold /\ EvidenceHolds)'
  BY <1>1 DEF worldVars, procVars, ScopesHold, ServedHold, EvidenceHolds
<1> QED BY <1>5, <1>6, <1>7

LEMMA IngestHolds ==
  ASSUME IInv, NEW p \in Procs, Ingest(p)
  PROVE  IInv'
<1> USE DEF IInv
<1> DEFINE grown == <<terms[p][1], terms[p][2] + 1>>
<1>1. /\ pc[p] = "open" /\ terms[p][2] < MaxGrowth
      /\ terms' = [terms EXCEPT ![p] = grown]
      /\ scope' = [scope EXCEPT ![p].corpus = terms'[p], ![p].ts = clock]
      /\ UNCHANGED <<worldVars, runs, storeVars, pc, loaded, served, evidence>>
  BY DEF Ingest
<1>2. grown \in Corpora /\ terms' \in [Procs -> Corpora] /\ terms'[p] = grown
  BY <1>1, BoundsAreNat DEF TypeOK, Corpora
<1>3. /\ scope' \in [Procs -> Scopes]
      /\ \A q \in Procs : q # p => scope'[q] = scope[q]
      /\ scope'[p].corpus = terms'[p] /\ scope'[p].rev = scope[p].rev
  <2> DEFINE s == [scope[p] EXCEPT !.corpus = grown, !.ts = clock]
  <2>1. scope' = [scope EXCEPT ![p] = s]
    BY <1>1, <1>2
  <2>2. scope[p] \in Scopes /\ clock \in 0 .. MaxClock
    BY DEF TypeOK
  <2>3. s \in Scopes /\ s.corpus = grown /\ s.rev = scope[p].rev
    BY <1>2, <2>2 DEF Scopes
  <2> HIDE DEF s, grown
  <2> QED BY <1>2, <2>1, <2>3 DEF TypeOK
<1>4. TypeOK'
  BY <1>1, <1>2, <1>3 DEF TypeOK, worldVars, storeVars
<1>5. RowsAreMeasurements'
  BY <1>1, TableStays DEF worldVars, storeVars
<1>6. ASSUME NEW q \in Procs PROVE ProcHolds(q)'
  <2>1. ProcHolds(q)
    BY AllProcs
  <2>2. CASE q # p
    <3>1. terms'[q] = terms[q]
      BY <1>1, <2>2 DEF TypeOK
    <3> QED BY <1>1, <1>3, <3>1, <2>1, <2>2, OthersHold DEF worldVars
  <2>3. CASE q = p
    BY <1>1, <1>3, <2>1, <2>3 DEF ProcHolds, worldVars
  <2> QED BY <2>2, <2>3
<1>7. (ScopesHold /\ ServedHold /\ EvidenceHolds)'
  BY <1>6, AllProcs DEF ScopesHold, ServedHold, EvidenceHolds, ProcHolds
<1> QED BY <1>4, <1>5, <1>7

LEMMA QuitHolds ==
  ASSUME IInv, NEW p \in Procs, Quit(p)
  PROVE  IInv'
<1> USE DEF IInv
<1>1. Ended(p) /\ UNCHANGED <<worldVars, runs, storeVars>>
  BY DEF Quit
<1>2. drifted' = drifted /\ verdicts' = verdicts
  BY <1>1 DEF worldVars, storeVars
<1>3. TypeOK' /\ (ScopesHold /\ ServedHold /\ EvidenceHolds)'
  BY <1>1, <1>2, EndedHolds DEF TypeOK, worldVars, storeVars
<1>4. RowsAreMeasurements'
  BY <1>2, TableStays
<1> QED BY <1>3, <1>4

\* The files change, time passes, or nothing happens.
LEMMA WorldHolds ==
  ASSUME IInv, Edit \/ Tick \/ UNCHANGED vars
  PROVE  IInv'
<1> USE DEF IInv
<1>1. UNCHANGED <<drifted, runs, storeVars, procVars>>
  BY DEF Edit, Tick, vars, worldVars
<1>2. code' \in Codes /\ clock' \in 0 .. MaxClock /\ edits' \in 0 .. MaxEdits
  BY BoundsAreNat DEF Edit, Tick, vars, worldVars, TypeOK, Codes
<1>3. TypeOK'
  BY <1>1, <1>2 DEF TypeOK, storeVars, procVars
<1>4. RowsAreMeasurements'
  BY <1>1, TableStays DEF storeVars
<1>5. (ScopesHold /\ ServedHold /\ EvidenceHolds)'
  BY <1>1 DEF procVars, ScopesHold, ServedHold, EvidenceHolds
<1> QED BY <1>3, <1>4, <1>5

LEMMA StepsHold == IInv /\ [Next]_vars => IInv'
<1> SUFFICES ASSUME IInv, [Next]_vars PROVE IInv'
  OBVIOUS
<1>1. CASE Edit \/ Tick \/ UNCHANGED vars
  BY <1>1, WorldHolds
<1>2. ASSUME NEW p \in Procs,
             \/ StartPipeline(p) \/ StartSession(p) \/ TakeScope(p) \/ ReadCache(p)
             \/ Measure(p) \/ Record(p) \/ Ingest(p) \/ Quit(p)
             \/ \E c \in Candidates : Draw(p, c)
      PROVE  IInv'
  <2>1. CASE StartPipeline(p) \/ StartSession(p)
    BY <2>1, StartsHold
  <2>2. CASE TakeScope(p)
    BY <2>2, TakeScopeHolds
  <2>3. CASE ReadCache(p)
    BY <2>3, ReadCacheHolds
  <2>4. CASE Measure(p)
    BY <2>4, MeasureHolds
  <2>5. CASE Record(p)
    BY <2>5, RecordHolds
  <2>6. CASE Ingest(p)
    BY <2>6, IngestHolds
  <2>7. CASE Quit(p)
    BY <2>7, QuitHolds
  <2>8. CASE \E c \in Candidates : Draw(p, c)
    BY <2>8, DrawHolds
  <2> QED BY <1>2, <2>1, <2>2, <2>3, <2>4, <2>5, <2>6, <2>7, <2>8
<1> QED BY <1>1, <1>2 DEF Next

-----------------------------------------------------------------------------
(* The theorems. *)

\* The inductive invariant holds for any processes, libraries, candidates,
\* measurements and bounds.
LEMMA Inductive == Spec => []IInv
<1>1. Init => IInv
  BY InitEstablishes
<1>2. IInv /\ [Next]_vars => IInv'
  BY StepsHold
<1> QED BY <1>1, <1>2, PTL DEF Spec

\* The store and its writers stay in the states the code can build.
THEOREM TypeCorrect == Spec => []TypeOK
<1>1. IInv => TypeOK
  BY DEF IInv
<1> QED BY <1>1, Inductive, PTL

\* Every verdict row says what was measured where it says, whoever wrote it and
\* however often it went through the cache (record_run, _evidence_from_row).
THEOREM RowsTellTheTruth == Spec => []RowsAreMeasurements
<1>1. IInv => RowsAreMeasurements
  BY DEF IInv
<1> QED BY <1>1, Inductive, PTL

\* A cache hit gives what measuring would have, with the three exceptions the
\* property names (run_pipeline).
THEOREM HitsAreMeasurements == Spec => []ServedAsMeasured
<1>1. IInv => ServedAsMeasured
  <2> SUFFICES ASSUME IInv, NEW p \in Pipelines, NEW c \in Candidates,
                      pc[p] = "measure", served[p][c] # None,
                      served[p][c].rev \notin drifted,
                      served[p][c].origin.view = scope[p].view
               PROVE  EvidenceFromRow(served[p][c]).m = Unaudited(Measured(c, Origin(p)))
    BY DEF ServedAsMeasured
  <2> DEFINE row == served[p][c]
  <2>1. p \in Procs
    BY DEF Procs
  <2>2. row \in Rows /\ row.key = c /\ Truthful(row, drifted) /\ InScope(row, scope[p])
        /\ scope[p] \in Scopes
    BY <2>1 DEF IInv, ServedHold, TypeOK
  <2>3. row.rev \in Codes \ drifted
    BY <2>2 DEF InScope, Rows, Revs
  <2>4. /\ row.origin.corpus = terms[p] /\ row.origin.rules = scope[p].rules
        /\ row.origin.code = loaded[p] /\ row.origin.view = scope[p].view
    BY <2>1, <2>2, <2>3 DEF Truthful, InScope, IInv, ScopesHold
  <2>5. row.origin = Origin(p)
    <3>1. row.origin \in Origins
      BY <2>2 DEF Rows
    <3> QED BY <2>4, <3>1 DEF Origin, Origins
  <2>6. EvidenceFromRow(row).m = Unaudited(Measured(row.key, row.origin))
    BY <2>2, FindingsOfRows
  <2> QED BY <2>2, <2>5, <2>6
<1> QED BY <1>1, Inductive, PTL

-----------------------------------------------------------------------------
(* Whose run a row is.                                                      *)
(*                                                                          *)
(* A run identifier is taken by one process.  A pipeline takes its own with *)
(* no row under it and leaves with all of them; a session takes its own and *)
(* proposes no batch.  So no step of another process touches the rows of a  *)
(* run.                                                                     *)

Holds(p) == pc[p] \in {"record", "open"}

RunTaken(p) ==
  /\ pc[p] = "open" => p \in Sessions
  /\ pc[p] \in {"read", "measure", "record"} => p \notin Sessions
  /\ p \in Sessions => scope[p].want = {}
  /\ Holds(p) => scope[p].run <= runs

RunsDiffer ==
  \A p, q \in Procs : Holds(p) /\ Holds(q) /\ scope[p].run = scope[q].run => p = q

RowOfRun(r) ==
  /\ r.run <= runs
  /\ \A p \in Procs :
       /\ pc[p] = "record" => scope[p].run # r.run
       /\ pc[p] = "open" /\ scope[p].run = r.run => r.batch = {}

RunsInv ==
  /\ \A p \in Procs : RunTaken(p)
  /\ RunsDiffer
  /\ \A r \in verdicts : RowOfRun(r)
  /\ RunsAreWhole

\* The other processes are where they were, under the runs they had.
OthersStay(p) ==
  \A q \in Procs \ {p} :
    /\ pc'[q] = pc[q] /\ scope'[q].run = scope[q].run /\ scope'[q].want = scope[q].want

LEMMA TakenStays ==
  ASSUME NEW p \in Procs, NEW q \in Procs, q # p, RunTaken(q), OthersStay(p),
         runs \in Nat, runs' \in {runs, runs + 1}, scope[q].run \in Nat
  PROVE  RunTaken(q)'
BY DEF RunTaken, OthersStay, Holds

LEMMA RunsAreNat ==
  ASSUME TypeOK
  PROVE  /\ runs \in Nat /\ runs + 1 \in Nat
         /\ \A p \in Procs : scope[p].run \in Nat
         /\ \A r \in verdicts : r.run \in Nat /\ r \in Rows
BY BoundsAreNat DEF TypeOK, Scopes, Rows

\* A step after which its process holds no run of the table's.
LEMMA NoRunHeld ==
  ASSUME TypeOK, RunsInv, NEW p \in Procs, OthersStay(p), RunTaken(p)', ~ Holds(p)',
         verdicts' = verdicts, runs' = runs
  PROVE  RunsInv'
<1>1. \A q \in Procs : RunTaken(q)'
  BY TakenStays, RunsAreNat DEF RunsInv
<1>2. RunsDiffer'
  BY DEF RunsInv, RunsDiffer, OthersStay, Holds
<1>3. \A r \in verdicts' : RowOfRun(r)'
  BY DEF RunsInv, RowOfRun, OthersStay, Holds
<1>4. RunsAreWhole'
  BY DEF RunsInv, RunsAreWhole
<1> QED BY <1>1, <1>2, <1>3, <1>4 DEF RunsInv

\* A step that gives its process the next run.
LEMMA RunGiven ==
  ASSUME TypeOK, RunsInv, NEW p \in Procs, OthersStay(p), RunTaken(p)',
         verdicts' = verdicts, runs' = runs + 1, scope'[p].run = runs + 1
  PROVE  RunsInv'
<1>1. \A q \in Procs : RunTaken(q)'
  BY TakenStays, RunsAreNat DEF RunsInv
<1>2. ASSUME NEW q \in Procs \ {p}, Holds(q)' PROVE scope'[q].run <= runs
  BY <1>2 DEF RunsInv, RunTaken, OthersStay, Holds
<1>3. RunsDiffer'
  <2> SUFFICES ASSUME NEW q \in Procs, NEW t \in Procs, Holds(q)', Holds(t)',
                      scope'[q].run = scope'[t].run, q # t
               PROVE  FALSE
    BY DEF RunsDiffer
  <2>1. CASE q = p
    BY <2>1, <1>2, RunsAreNat DEF OthersStay
  <2>2. CASE t = p
    BY <2>2, <1>2, RunsAreNat DEF OthersStay
  <2>3. CASE q # p /\ t # p
    BY <2>3 DEF OthersStay, RunsInv, RunsDiffer, Holds
  <2> QED BY <2>1, <2>2, <2>3
<1>4. ASSUME NEW r \in verdicts PROVE RowOfRun(r)'
  <2>1. r.run <= runs /\ r.run \in Nat /\ runs \in Nat /\ RowOfRun(r)
    BY RunsAreNat DEF RunsInv, RowOfRun
  <2>2. scope'[p].run # r.run /\ r.run <= runs'
    BY <2>1
  <2> QED BY <2>1, <2>2 DEF RowOfRun, OthersStay
<1>5. RunsAreWhole'
  BY DEF RunsInv, RunsAreWhole
<1> QED BY <1>1, <1>3, <1>4, <1>5 DEF RunsInv

LEMMA StartKeepsRuns ==
  ASSUME TypeOK, RunsInv, NEW p \in Procs, StartPipeline(p) \/ StartSession(p)
  PROVE  RunsInv'
<1>1. /\ pc' = [pc EXCEPT ![p] = "scope"] /\ verdicts' = verdicts /\ runs' = runs
      /\ \A q \in Procs \ {p} : scope'[q] = scope[q]
  BY DEF StartPipeline, StartSession, storeVars, TypeOK
<1>2. OthersStay(p) /\ ~ Holds(p)' /\ pc'[p] = "scope"
  BY <1>1 DEF OthersStay, Holds, TypeOK
<1>3. p \in Sessions => scope'[p].want = {}
  <2> SUFFICES ASSUME p \in Sessions PROVE scope'[p].want = {}
    OBVIOUS
  <2>1. StartSession(p)
    BY KindsDiffer DEF StartPipeline
  <2>2. scope'[p] = [NoScope EXCEPT !.corpus = <<"board", 0>>]
    BY <2>1 DEF StartSession, TypeOK
  <2> QED BY <2>2 DEF NoScope
<1> QED BY <1>1, <1>2, <1>3, NoRunHeld DEF RunTaken, Holds

LEMMA TakeScopeKeepsRuns ==
  ASSUME TypeOK, RunsInv, NEW p \in Procs, TakeScope(p)
  PROVE  RunsInv'
<1>1. PICK rev \in {code, Unknown} :
        IF p \in Sessions
        THEN /\ runs < MaxRuns /\ runs' = runs + 1
             /\ scope' = [scope EXCEPT ![p].rev = rev, ![p].run = runs', ![p].ts = clock]
             /\ pc' = [pc EXCEPT ![p] = "open"]
        ELSE /\ scope' = [scope EXCEPT ![p].rev = rev]
             /\ pc' = [pc EXCEPT ![p] = "read"]
             /\ UNCHANGED runs
  BY DEF TakeScope
<1>2. verdicts' = verdicts /\ scope[p] \in Scopes
  BY DEF TakeScope, storeVars, TypeOK
<1>3. CASE p \in Sessions
  <2>1. OthersStay(p) /\ scope'[p].run = runs + 1 /\ scope'[p].want = scope[p].want
    BY <1>1, <1>2, <1>3 DEF OthersStay, TypeOK, Scopes
  <2>2. RunTaken(p)'
    BY <1>1, <1>3, <2>1, RunsAreNat DEF RunTaken, RunsInv, TypeOK, Holds
  <2> QED BY <1>1, <1>2, <1>3, <2>1, <2>2, RunGiven
<1>4. CASE p \notin Sessions
  <2>1. OthersStay(p) /\ pc'[p] = "read"
    BY <1>1, <1>2, <1>4 DEF OthersStay, TypeOK, Scopes
  <2> QED BY <1>1, <1>2, <1>4, <2>1, NoRunHeld DEF RunTaken, Holds
<1> QED BY <1>3, <1>4

LEMMA ReadCacheKeepsRuns ==
  ASSUME TypeOK, RunsInv, NEW p \in Procs, ReadCache(p)
  PROVE  RunsInv'
<1>1. /\ pc[p] = "read" /\ pc' = [pc EXCEPT ![p] = "measure"] /\ verdicts' = verdicts
      /\ runs' = runs /\ \A q \in Procs \ {p} : scope'[q] = scope[q]
  BY DEF ReadCache, storeVars, TypeOK
<1>2. OthersStay(p) /\ ~ Holds(p)' /\ pc'[p] = "measure"
  BY <1>1 DEF OthersStay, Holds, TypeOK
<1> QED BY <1>1, <1>2, NoRunHeld DEF RunTaken, Holds, RunsInv

LEMMA MeasureKeepsRuns ==
  ASSUME TypeOK, RunsInv, NEW p \in Procs, Measure(p)
  PROVE  RunsInv'
<1>1. /\ pc[p] = "measure" /\ pc' = [pc EXCEPT ![p] = "record"] /\ verdicts' = verdicts
      /\ runs' = runs + 1
      /\ scope' = [scope EXCEPT ![p].run = runs', ![p].ts = clock]
  BY DEF Measure, storeVars
<1>2. OthersStay(p) /\ pc'[p] = "record" /\ scope'[p].run = runs + 1
  BY <1>1 DEF OthersStay, TypeOK, Scopes
<1>3. RunTaken(p)'
  BY <1>1, <1>2, RunsAreNat DEF RunTaken, RunsInv
<1> QED BY <1>1, <1>2, <1>3, RunGiven

\* Over, with whatever it held.
LEMMA EndedHoldsNoRun ==
  ASSUME TypeOK, NEW p \in Procs, Ended(p)
  PROVE  OthersStay(p) /\ RunTaken(p)' /\ ~ Holds(p)'
BY DEF Ended, OthersStay, RunTaken, Holds, TypeOK, NoScope

LEMMA QuitKeepsRuns ==
  ASSUME TypeOK, RunsInv, NEW p \in Procs, Quit(p)
  PROVE  RunsInv'
BY EndedHoldsNoRun, NoRunHeld DEF Quit, storeVars

LEMMA RecordKeepsRuns ==
  ASSUME TypeOK, RunsInv, NEW p \in Procs, Record(p)
  PROVE  RunsInv' /\ verdicts \subseteq verdicts'
<1> DEFINE row(c) == VerdictRow(c, evidence[p][c], scope[p], rowids + 1)
           new == {row(c) : c \in scope[p].want}
           n == scope[p].run
<1>1. /\ pc[p] = "record" /\ verdicts' = Insert(verdicts, new) /\ runs' = runs
      /\ OthersStay(p) /\ RunTaken(p)' /\ ~ Holds(p)'
  BY EndedHoldsNoRun DEF Record
<1>2. /\ \A r \in new : r.run = n /\ r.batch = scope[p].want
      /\ {r.key : r \in new} = scope[p].want
  <2>1. \A c : row(c).key = c /\ row(c).run = n /\ row(c).batch = scope[p].want
    BY DEF VerdictRow
  <2> HIDE DEF row
  <2> QED BY <2>1
<1>3. \A r \in verdicts : r.run # n
  BY <1>1 DEF RunsInv, RowOfRun
<1> HIDE DEF new
<1>4. /\ verdicts' = verdicts \cup new
      /\ \A m : m # n => {q \in verdicts' : q.run = m} = {q \in verdicts : q.run = m}
      /\ {q \in verdicts' : q.run = n} = new
  <2>1. \A r \in verdicts, t \in new : ~ SameKey(r, t)
    BY <1>2, <1>3 DEF SameKey
  <2>2. verdicts' = verdicts \cup new
    BY <1>1, <2>1 DEF Insert
  <2> QED BY <2>2, <1>2, <1>3
<1>5. \A q \in Procs : RunTaken(q)'
  BY <1>1, TakenStays, RunsAreNat DEF RunsInv
<1>6. RunsDiffer'
  BY <1>1 DEF RunsInv, RunsDiffer, OthersStay, Holds
<1>7. ASSUME NEW r \in verdicts' PROVE RowOfRun(r)'
  <2>1. CASE r \in verdicts
    BY <1>1, <2>1 DEF RunsInv, RowOfRun, OthersStay, Holds
  <2>2. CASE r \in new
    <3>1. r.run = n /\ n <= runs
      BY <1>1, <1>2, <2>2 DEF RunsInv, RunTaken, Holds
    <3>2. \A q \in Procs \ {p} : Holds(q) => scope[q].run # n
      BY <1>1 DEF RunsInv, RunsDiffer, Holds
    <3> QED BY <1>1, <3>1, <3>2 DEF RowOfRun, OthersStay, Holds
  <2> QED BY <1>4, <2>1, <2>2
<1>8. RunsAreWhole'
  <2> SUFFICES ASSUME NEW r \in verdicts', r.batch # {}
               PROVE  {q.key : q \in {q \in verdicts' : q.run = r.run}} = r.batch
    BY DEF RunsAreWhole
  <2>1. CASE r \in verdicts
    BY <1>3, <1>4, <2>1 DEF RunsInv, RunsAreWhole
  <2>2. CASE r \in new
    BY <1>2, <1>4, <2>2
  <2> QED BY <1>4, <2>1, <2>2
<1> QED BY <1>4, <1>5, <1>6, <1>7, <1>8 DEF RunsInv

LEMMA DrawKeepsRuns ==
  ASSUME TypeOK, RunsInv, NEW p \in Procs, NEW c \in Candidates, Draw(p, c)
  PROVE  RunsInv'
<1> DEFINE row == VerdictRow(c, Fresh(p, c), scope[p], rowids + 1)
           n == scope[p].run
<1>1. /\ pc[p] = "open" /\ verdicts' = Insert(verdicts, {row})
      /\ runs' = runs /\ pc' = pc /\ scope' = scope
  BY DEF Draw, procVars
<1>2. row.run = n /\ row.batch = {} /\ n <= runs
  BY <1>1 DEF VerdictRow, RunsInv, RunTaken, Holds
<1>3. \A r \in verdicts : r.run = n => r.batch = {}
  BY <1>1 DEF RunsInv, RowOfRun
<1> HIDE DEF row
<1>4. /\ \A r \in verdicts' : r \in verdicts \/ r = row
      /\ \A m : m # n => {q \in verdicts' : q.run = m} = {q \in verdicts : q.run = m}
  BY <1>1, <1>2 DEF Insert, SameKey
<1>5. (\A q \in Procs : RunTaken(q)') /\ RunsDiffer'
  BY <1>1 DEF RunsInv, RunTaken, RunsDiffer, Holds
<1>6. ASSUME NEW r \in verdicts' PROVE RowOfRun(r)'
  <2>1. CASE r \in verdicts
    BY <1>1, <2>1 DEF RunsInv, RowOfRun
  <2>2. CASE r = row
    <3>1. \A q \in Procs : pc[q] = "record" => scope[q].run # n
      BY <1>1 DEF RunsInv, RunsDiffer, Holds
    <3> QED BY <1>1, <1>2, <2>2, <3>1 DEF RowOfRun
  <2> QED BY <1>4, <2>1, <2>2
<1>8. RunsAreWhole'
  <2> SUFFICES ASSUME NEW r \in verdicts', r.batch # {}
               PROVE  {q.key : q \in {q \in verdicts' : q.run = r.run}} = r.batch
    BY DEF RunsAreWhole
  <2>1. r \in verdicts /\ r.run # n
    BY <1>2, <1>3, <1>4
  <2>2. {q \in verdicts' : q.run = r.run} = {q \in verdicts : q.run = r.run}
    BY <1>4, <2>1
  <2> QED BY <2>1, <2>2 DEF RunsInv, RunsAreWhole
<1> QED BY <1>5, <1>6, <1>8 DEF RunsInv

LEMMA IngestKeepsRuns ==
  ASSUME TypeOK, RunsInv, NEW p \in Procs, Ingest(p)
  PROVE  RunsInv'
<1>1. /\ pc' = pc /\ verdicts' = verdicts /\ runs' = runs
      /\ scope' = [scope EXCEPT ![p].corpus = terms'[p], ![p].ts = clock]
  BY DEF Ingest, storeVars
<1>2. \A q \in Procs : scope'[q].run = scope[q].run /\ scope'[q].want = scope[q].want
  BY <1>1 DEF TypeOK, Scopes
<1>3. (\A q \in Procs : RunTaken(q)') /\ RunsDiffer'
  BY <1>1, <1>2 DEF RunsInv, RunTaken, RunsDiffer, Holds
<1>4. ASSUME NEW r \in verdicts' PROVE RowOfRun(r)'
  <2>1. r \in verdicts /\ RowOfRun(r)
    BY <1>1 DEF RunsInv
  <2>2. pc' = pc /\ runs' = runs
    BY <1>1
  <2> QED BY <1>2, <2>1, <2>2 DEF RowOfRun
<1>5. RunsAreWhole'
  BY <1>1 DEF RunsInv, RunsAreWhole
<1> QED BY <1>3, <1>4, <1>5 DEF RunsInv

LEMMA StepsKeepRuns == TypeOK /\ RunsInv /\ [Next]_vars => RunsInv'
<1> SUFFICES ASSUME TypeOK, RunsInv, [Next]_vars PROVE RunsInv'
  OBVIOUS
<1>1. CASE Edit \/ Tick \/ UNCHANGED vars
  <2>1. UNCHANGED <<pc, scope, verdicts, runs>>
    BY <1>1 DEF Edit, Tick, vars, storeVars, procVars
  <2> QED BY <2>1 DEF RunsInv, RunTaken, RunsDiffer, RowOfRun, RunsAreWhole, Holds
<1>2. ASSUME NEW p \in Procs,
             \/ StartPipeline(p) \/ StartSession(p) \/ TakeScope(p) \/ ReadCache(p)
             \/ Measure(p) \/ Record(p) \/ Ingest(p) \/ Quit(p)
             \/ \E c \in Candidates : Draw(p, c)
      PROVE  RunsInv'
  BY <1>2, StartKeepsRuns, TakeScopeKeepsRuns, ReadCacheKeepsRuns, MeasureKeepsRuns,
     RecordKeepsRuns, IngestKeepsRuns, QuitKeepsRuns, DrawKeepsRuns
<1> QED BY <1>1, <1>2 DEF Next

LEMMA RunsInductive == Spec => []RunsInv
<1>1. Init => RunsInv
  BY DEF Init, RunsInv, RunTaken, RunsDiffer, RowOfRun, RunsAreWhole, Holds, NoScope
<1> QED BY <1>1, StepsKeepRuns, TypeCorrect, PTL DEF Spec

\* A pipeline's run is in the table with its whole batch or not at all, wherever
\* its process, or any other, is stopped (record_run's one transaction).
THEOREM RunsAreRecordedWhole == Spec => []RunsAreWhole
<1>1. RunsInv => RunsAreWhole
  BY DEF RunsInv
<1> QED BY <1>1, RunsInductive, PTL

\* No step removes a row but the session's own that writes it again: the primary
\* key holds the run, and a run is one process's (_insert_verdict, new_run_id).
THEOREM HistoryIsKept == Spec => HistoryKept
<1> DEFINE Kept ==
      \A r \in verdicts : \E q \in verdicts' :
        /\ q.key = r.key /\ q.run = r.run /\ q.corpus = r.corpus
        /\ q.rules = r.rules /\ q.rev = r.rev
        /\ q # r => \E p \in Sessions : scope[p].run = r.run
<1>1. TypeOK /\ RunsInv /\ [Next]_vars => [Kept]_vars
  <2> SUFFICES ASSUME TypeOK, RunsInv, [Next]_vars PROVE Kept
    OBVIOUS
  <2>1. CASE verdicts \subseteq verdicts'
    BY <2>1
  <2>2. ASSUME NEW p \in Procs, Record(p) PROVE verdicts \subseteq verdicts'
    BY <2>2, RecordKeepsRuns
  <2>3. ASSUME NEW p \in Procs, NEW c \in Candidates, Draw(p, c) PROVE Kept
    <3> DEFINE row == VerdictRow(c, Fresh(p, c), scope[p], rowids + 1)
    <3>1. /\ p \in Sessions /\ verdicts' = Insert(verdicts, {row})
      BY <2>3 DEF Draw, RunsInv, RunTaken
    <3>2. row.run = scope[p].run
      BY DEF VerdictRow
    <3> HIDE DEF row
    <3>3. ASSUME NEW r \in verdicts, r \notin verdicts' PROVE SameKey(r, row) /\ row \in verdicts'
      BY <3>1, <3>3 DEF Insert
    <3> SUFFICES ASSUME NEW r \in verdicts
                 PROVE \E q \in verdicts' :
                   /\ q.key = r.key /\ q.run = r.run /\ q.corpus = r.corpus
                   /\ q.rules = r.rules /\ q.rev = r.rev
                   /\ q # r => \E t \in Sessions : scope[t].run = r.run
      OBVIOUS
    <3>4. CASE r \in verdicts'
      BY <3>4
    <3>5. CASE r \notin verdicts'
      BY <3>1, <3>2, <3>3, <3>5 DEF SameKey
    <3> QED BY <3>4, <3>5
  <2>4. CASE verdicts' = verdicts
    BY <2>4
  <2>5. CASE UNCHANGED vars \/ Edit \/ Tick
    BY <2>4, <2>5 DEF vars, Edit, Tick, storeVars
  <2>6. ASSUME NEW p \in Procs,
               \/ StartPipeline(p) \/ StartSession(p) \/ TakeScope(p) \/ ReadCache(p)
               \/ Measure(p) \/ Ingest(p) \/ Quit(p)
        PROVE  Kept
    BY <2>4, <2>6 DEF StartPipeline, StartSession, TakeScope, ReadCache, Measure, Ingest, Quit,
       storeVars
  <2> HIDE DEF Kept
  <2> QED BY <2>1, <2>2, <2>3, <2>5, <2>6 DEF Next
<1> QED BY <1>1, TypeCorrect, RunsInductive, PTL DEF Spec, HistoryKept
=============================================================================
